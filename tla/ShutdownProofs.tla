--------------------------- MODULE ShutdownProofs ---------------------------
(***************************************************************************)
(* Proofs about Stop and the goroutines, for any number of requests and of *)
(* calls of Shutdown.                                                      *)
(***************************************************************************)
EXTENDS Shutdown, TLAPS

\* Nobody is parked once the channel is closed.
NobodyParked ==
  stopped => /\ ticker # "waiting"
             /\ \A r \in Initiations : timer[r] # "sleeping"

IInv == TypeOK /\ NobodyParked

LEMMA InitIInv == Init => IInv
<1> SUFFICES ASSUME Init PROVE IInv
  OBVIOUS
<1>1. stopped \in BOOLEAN /\ NobodyParked
  BY Zenon DEF Init, NobodyParked
<1> QED
  BY <1>1 DEF Init, IInv, TypeOK

LEMMA TypeStep == TypeOK /\ [Next]_vars => TypeOK'
<1> SUFFICES ASSUME TypeOK, [Next]_vars PROVE TypeOK'
  OBVIOUS
<1> USE DEF TypeOK
<1>1. ASSUME NEW k \in Closers, Stop(k) PROVE TypeOK'
  BY <1>1 DEF Stop
<1>2. ASSUME NEW k \in Closers, Close(k) PROVE TypeOK'
  BY <1>2 DEF Close, goroutines
<1>3. CASE Ticks
  BY <1>3 DEF Ticks
<1>4. CASE TickerParks \/ TickerStarts \/ TickerStops
  BY <1>4 DEF TickerParks, TickerStarts, TickerStops, TickerGoes
<1>5. CASE Lists \/ Recovers \/ Expires
  BY <1>5 DEF Lists, Recovers, Expires, TickerGoes
<1>6. ASSUME NEW r \in Initiations, Creates(r) \/ PushFails(r) PROVE TypeOK'
  BY <1>6 DEF Creates, PushFails
<1>7. ASSUME NEW r \in Initiations, Spawns(r) PROVE TypeOK'
  BY <1>7 DEF Spawns
<1>8. ASSUME NEW r \in Initiations, Selects(r) \/ Elapses(r) \/ Fires(r)
      PROVE  TypeOK'
  BY <1>8 DEF Selects, Elapses, Fires, TimerGoes
<1>9. CASE UNCHANGED vars
  BY <1>9 DEF vars, goroutines
<1> QED
  BY <1>1, <1>2, <1>3, <1>4, <1>5, <1>6, <1>7, <1>8, <1>9
  DEF Next, Ticker, Shutdowns

LEMMA ParkedStep == TypeOK /\ NobodyParked /\ [Next]_vars => NobodyParked'
<1> SUFFICES ASSUME TypeOK, NobodyParked, [Next]_vars PROVE NobodyParked'
  OBVIOUS
<1> USE DEF NobodyParked
<1>1. ASSUME NEW k \in Closers, Stop(k) PROVE NobodyParked'
  BY <1>1 DEF Stop, TypeOK
<1>2. ASSUME NEW k \in Closers, Close(k) PROVE NobodyParked'
  BY <1>2 DEF Close, goroutines
<1>3. CASE Ticks
  BY <1>3 DEF Ticks
<1>4. CASE Ticker
  BY <1>4 DEF Ticker, TickerParks, TickerStarts, TickerStops, Lists, Recovers,
     Expires, TickerGoes
<1>5. ASSUME NEW r \in Initiations, Creates(r) \/ PushFails(r)
      PROVE  NobodyParked'
  BY <1>5 DEF Creates, PushFails
<1>6. ASSUME NEW r \in Initiations, Spawns(r) PROVE NobodyParked'
  BY <1>6 DEF Spawns, TypeOK
<1>7. ASSUME NEW r \in Initiations, Selects(r) \/ Elapses(r) \/ Fires(r)
      PROVE  NobodyParked'
  BY <1>7 DEF Selects, Elapses, Fires, TimerGoes, TypeOK
<1>8. CASE UNCHANGED vars
  BY <1>8 DEF vars, goroutines
<1> QED
  BY <1>1, <1>2, <1>3, <1>4, <1>5, <1>6, <1>7, <1>8 DEF Next, Shutdowns

LEMMA CloserStep == TypeOK /\ OneShutdown /\ [Next]_vars => OneShutdown'
<1> SUFFICES ASSUME TypeOK, OneShutdown, [Next]_vars PROVE OneShutdown'
  OBVIOUS
<1> USE DEF OneShutdown, Winners, Panicked, TypeOK
<1>1. ASSUME NEW k \in Closers, Stop(k), stopped PROVE OneShutdown'
  <2>1. /\ closer' = [closer EXCEPT ![k] = "panicked"]
        /\ stopped' /\ db' = db
        /\ closer[k] = "idle"
    BY <1>1 DEF Stop
  <2>2. Winners' = Winners
    BY <2>1
  <2>3. \A j \in Closers : closer'[j] = "returned" <=> closer[j] = "returned"
    BY <2>1
  <2> QED
    BY <1>1, <2>1, <2>2, <2>3
<1>2. ASSUME NEW k \in Closers, Stop(k), ~stopped PROVE OneShutdown'
  <2>1. /\ closer' = [closer EXCEPT ![k] = "closing"]
        /\ stopped' /\ db' = db
        /\ closer[k] = "idle"
    BY <1>2 DEF Stop
  <2>2. Winners' = {k}
    BY <1>2, <2>1
  <2>3. \A j \in Closers : closer'[j] = "returned" <=> closer[j] = "returned"
    BY <2>1
  <2> QED
    BY <2>1, <2>2, <2>3
<1>3. ASSUME NEW k \in Closers, Close(k) PROVE OneShutdown'
  <2>1. /\ closer' = [closer EXCEPT ![k] = "returned"]
        /\ stopped' = stopped /\ db' = "closed"
        /\ closer[k] = "closing"
    BY <1>3 DEF Close
  <2>2. Winners' = Winners
    BY <2>1
  <2>3. closer'[k] = "returned"
    BY <2>1
  <2> QED
    BY <2>1, <2>2, <2>3
<1>4. CASE UNCHANGED <<stopped, db, closer>>
  BY <1>4
<1> QED
  BY <1>1, <1>2, <1>3, <1>4
  DEF Next, Shutdowns, vars, Ticks, Ticker, TickerParks, TickerStarts,
      TickerStops, Lists, Recovers, Expires, TickerGoes, Creates, PushFails,
      Spawns, Selects, Elapses, Fires, TimerGoes

LEMMA ShutdownInvariance == Spec => []IInv
<1>1. IInv /\ [Next]_vars => IInv'
  BY TypeStep, ParkedStep DEF IInv
<1> QED
  BY <1>1, InitIInv, PTL DEF Spec

\* Every variable keeps its type; ticker.C never holds a second tick.
THEOREM ShutdownTypes == Spec => []TypeOK
<1>1. IInv => TypeOK
  BY DEF IInv
<1> QED
  BY <1>1, ShutdownInvariance, PTL

\* One call of Shutdown closes the channel and then the database, and a call
\* that panics leaves both to that one.
THEOREM OneCallShutsDown == Spec => []OneShutdown
<1>1. Init => OneShutdown
  BY DEF Init, OneShutdown, Winners, Panicked
<1>2. IInv /\ OneShutdown /\ [Next]_vars => OneShutdown'
  BY CloserStep DEF IInv
<1> QED
  BY <1>1, <1>2, ShutdownInvariance, PTL DEF Spec

\* Once the channel is closed, no TTL goroutine that is not already past its
\* select reaches storage, whenever it was started.
THEOREM NoneFireAfterStop == Spec => ExitsUntouched
<1>1. ASSUME IInv, [Next]_vars
      PROVE  [\A r \in Initiations :
                stopped /\ timer[r] # "firing" => timer'[r] # "firing"]_vars
  <2> SUFFICES ASSUME NEW r \in Initiations, stopped, timer[r] # "firing",
                      timer'[r] = "firing"
               PROVE  FALSE
    OBVIOUS
  <2> USE <1>1 DEF IInv, TypeOK, NobodyParked
  <2>1. CASE Shutdowns
    BY <2>1 DEF Shutdowns, Stop, Close, goroutines
  <2>2. CASE Ticks \/ Ticker
    BY <2>2 DEF Ticks, Ticker, TickerParks, TickerStarts, TickerStops, Lists,
       Recovers, Expires, TickerGoes
  <2>3. ASSUME NEW q \in Initiations,
               \/ Creates(q) \/ PushFails(q) \/ Spawns(q)
               \/ Selects(q) \/ Elapses(q) \/ Fires(q)
        PROVE  FALSE
    BY <2>3 DEF Creates, PushFails, Spawns, Selects, Elapses, Fires, TimerGoes
  <2>4. CASE UNCHANGED vars
    BY <2>4 DEF vars, goroutines
  <2> QED
    BY <2>1, <2>2, <2>3, <2>4 DEF Next
<1> QED
  BY <1>1, ShutdownInvariance, PTL DEF Spec, ExitsUntouched
=============================================================================
