------------------------ MODULE RecoveryWindowProofs ------------------------
(***************************************************************************)
(* Proofs about the timing of the ticker, the TTL goroutine and the two    *)
(* comparisons of times cut to seconds, for every period, TTL, threshold,  *)
(* delay and resolution of the clock.                                      *)
(***************************************************************************)
EXTENDS RecoveryWindow, TLAPS

-----------------------------------------------------------------------------
(* Comparing texts.                                                        *)

\* A moment whose text is earlier is earlier.
LEMMA BeforeIsEarlier ==
  ASSUME NEW t \in Nat, NEW u \in Nat, Before(t, u)
  PROVE  t < u
<1>1. Second \in Nat \ {0}
  BY TimesAssumption
<1> QED
  BY <1>1 DEF Before, Text

\* A moment whose text is not earlier is less than a second earlier.
LEMMA NotBeforeIsClose ==
  ASSUME NEW t \in Int, NEW u \in Int, ~Before(t, u)
  PROVE  u < t + Second
<1>1. Second \in Nat \ {0}
  BY TimesAssumption
<1>2. /\ t < Second * (t \div Second) + Second
      /\ Second * (u \div Second) <= u /\ u < Second * (u \div Second) + Second
      /\ Second * (t \div Second) <= t
  BY <1>1
<1>3. t \div Second >= u \div Second
  BY <1>1 DEF Before, Text
<1> QED
  BY <1>1, <1>2, <1>3

-----------------------------------------------------------------------------
(* The parts of the invariant, each preserved by every step.               *)

LEMMA InitIInv == Init => IInv
<1> SUFFICES ASSUME Init PROVE IInv
  OBVIOUS
<1>1. TypeOK
  <2>1. now \in Nat /\ now + Period \in Nat
    BY TimesAssumption DEF Init
  <2> QED
    BY <2>1 DEF Init, TypeOK, Live, QueryResults, Never
<1>2. PaceInv
  BY TimesAssumption DEF Init, PaceInv, Never
<1>3. TimerInv /\ ListedInv /\ SweepInv /\ NeverEarly
  BY DEF Init, TimerInv, ListedInv, SweepInv, NeverEarly, Live
<1> QED
  BY <1>1, <1>2, <1>3 DEF IInv

\* The session's turn in a recovery pass.
Visiting == Skips \/ QueryUnsent \/ QuerySent

LEMMA TypeStep == TypeOK /\ [Next]_vars => TypeOK'
<1> SUFFICES ASSUME TypeOK, [Next]_vars PROVE TypeOK'
  OBVIOUS
<1> USE TimesAssumption DEF TypeOK, Never, Live, Pending, QueryResults
<1>1. CASE Advance
  BY <1>1 DEF Advance, row, caller, ticker
<1>2. CASE Create
  BY <1>2 DEF Create, ticker
<1>3. CASE Push \/ PushFails \/ TimerFires
  <2>1. CASE Push
    <3>1. timer' \in Nat
      BY <2>1 DEF Push
    <3>2. UNCHANGED <<now, since, created, query, ticker>>
          /\ state' = "STK_PUSHED" /\ calling' = FALSE /\ correlated' \in BOOLEAN
      BY <2>1 DEF Push
    <3> HIDE DEF Never
    <3> QED
      BY <3>1, <3>2 DEF ticker
  <2>2. CASE TimerFires
    BY <2>2 DEF TimerFires, ticker
  <2>3. CASE PushFails
    BY <2>3 DEF PushFails, ticker
  <2> QED
    BY <1>3, <2>1, <2>2, <2>3
<1>4. CASE Ticks
  BY <1>4 DEF Ticks, row, caller
<1>5. CASE Lists
  BY <1>5 DEF Lists, row, caller
<1>6. CASE Visiting \/ Sweeps
  BY <1>6 DEF Visiting, Skips, QueryUnsent, QuerySent, Visits, Sweeps, row,
     caller
<1>7. CASE UNCHANGED vars
  BY <1>7 DEF vars, row, caller, ticker
<1>8. CASE Crash
  BY <1>8 DEF Crash, row
<1>9. CASE Restart
  BY <1>9 DEF Restart, row, caller
<1> QED
  BY <1>1, <1>2, <1>3, <1>4, <1>5, <1>6, <1>7,
     <1>8, <1>9 DEF Next, Visiting

LEMMA PaceStep == TypeOK /\ PaceInv /\ [Next]_vars => PaceInv'
<1> SUFFICES ASSUME TypeOK, PaceInv, [Next]_vars PROVE PaceInv'
  OBVIOUS
<1> USE TimesAssumption DEF TypeOK, PaceInv, Never
<1>1. CASE Advance
  BY <1>1 DEF Advance, row, caller, ticker
<1>2. CASE Create
  BY <1>2 DEF Create, ticker
<1>3. CASE Push \/ PushFails \/ TimerFires
  BY <1>3 DEF Push, PushFails, TimerFires, ticker
<1>4. CASE Ticks
  BY <1>4 DEF Ticks, row, caller
<1>5. CASE Lists
  BY <1>5 DEF Lists, row, caller
<1>6. CASE Visiting \/ Sweeps
  BY <1>6 DEF Visiting, Skips, QueryUnsent, QuerySent, Visits, Sweeps, row,
     caller
<1>7. CASE UNCHANGED vars
  BY <1>7 DEF vars, row, caller, ticker
<1>8. CASE Crash \/ Restart
  BY <1>8 DEF Crash, Restart, row, caller
<1> QED
  BY <1>1, <1>2, <1>3, <1>4, <1>5, <1>6, <1>7,
     <1>8 DEF Next, Visiting

LEMMA TimerStep == TypeOK /\ TimerInv /\ [Next]_vars => TimerInv'
<1> SUFFICES ASSUME TypeOK, TimerInv, [Next]_vars PROVE TimerInv'
  OBVIOUS
<1> USE TimesAssumption
    DEF TypeOK, TimerInv, ExpiresAt, Never, Live
<1>1. CASE Advance
  BY <1>1 DEF Advance, row, caller, ticker
<1>2. CASE Create
  BY <1>2 DEF Create, row, ticker
<1>3. CASE Push \/ PushFails
  BY <1>3 DEF Push, PushFails, row, ticker
<1>4. CASE TimerFires
  BY <1>4 DEF TimerFires, row, ticker
<1>5. CASE Ticks \/ Lists
  BY <1>5 DEF Ticks, Lists, row, caller
<1>6. CASE Visiting \/ Sweeps
  BY <1>6 DEF Visiting, Skips, QueryUnsent, QuerySent, Visits, Sweeps, row,
     caller, Pending
<1>7. CASE UNCHANGED vars
  BY <1>7 DEF vars, row, caller
<1>8. CASE Crash \/ Restart
  BY <1>8 DEF Crash, Restart, row, caller
<1> QED
  BY <1>1, <1>2, <1>3, <1>4, <1>5, <1>6, <1>7,
     <1>8 DEF Next, Visiting

LEMMA ListedStep == ListedInv /\ [Next]_vars => ListedInv'
<1> SUFFICES ASSUME ListedInv, [Next]_vars PROVE ListedInv'
  OBVIOUS
<1> USE DEF ListedInv, Pending
<1>1. CASE Advance \/ Ticks \/ Lists \/ UNCHANGED vars
  BY <1>1 DEF Advance, Ticks, Lists, vars, row, ticker
<1>2. CASE Create \/ Push \/ PushFails \/ TimerFires
  BY <1>2 DEF Create, Push, PushFails, TimerFires, ticker
<1>3. CASE Visiting \/ Sweeps
  BY <1>3 DEF Visiting, Skips, QueryUnsent, QuerySent, Visits, Sweeps
<1>4. CASE Crash \/ Restart
  BY <1>4 DEF Crash, Restart, row
<1> QED
  BY <1>1, <1>2, <1>3, <1>4 DEF Next, Visiting

LEMMA EarlyStep ==
  TypeOK /\ TimerInv /\ NeverEarly /\ [Next]_vars => NeverEarly'
<1> SUFFICES ASSUME TypeOK, TimerInv, NeverEarly, [Next]_vars,
                    (state = "TIMEOUT")'
             PROVE  now' >= created' + TTL
  BY DEF NeverEarly, ExpiresAt
<1>a. ExpiresAt \in Nat /\ now \in Nat /\ TTL \in Nat
  BY TimesAssumption DEF ExpiresAt, TypeOK
<1>1. CASE state = "TIMEOUT"
  BY <1>1, <1>a
  DEF Next, vars, Advance, Create, Push, PushFails, TimerFires, Ticks, Lists,
      Skips, QueryUnsent, QuerySent, Visits, Pending, Sweeps, Crash, Restart, row, caller, ticker, NeverEarly, ExpiresAt,
      TypeOK
<1>2. CASE TimerFires /\ state # "TIMEOUT"
  BY <1>2, <1>a DEF TimerFires, TimerInv, ExpiresAt, TypeOK, Never
<1>3. CASE Sweeps /\ state # "TIMEOUT"
  <2>1. Before(ExpiresAt, now)
    BY <1>3 DEF Sweeps, caller
  <2>2. ExpiresAt < now
    BY <2>1, <1>a, BeforeIsEarlier
  <2> QED
    BY <1>3, <1>a, <2>2 DEF Sweeps, ExpiresAt, TypeOK
<1>4. CASE \/ Advance \/ Create \/ Push \/ PushFails \/ Ticks \/ Lists \/ Visiting
           \/ Crash \/ Restart \/ UNCHANGED vars
  BY <1>1, <1>4
  DEF vars, Advance, Create, Push, PushFails, Ticks, Lists, Visiting, Skips,
      QueryUnsent, QuerySent, Visits, Crash, Restart, row, caller, ticker
<1> QED
  BY <1>1, <1>2, <1>3, <1>4 DEF Next, Visiting

LEMMA SweepStep ==
  TypeOK /\ PaceInv /\ TimerInv /\ SweepInv /\ [Next]_vars => SweepInv'
<1> SUFFICES ASSUME TypeOK, PaceInv, TimerInv, SweepInv, [Next]_vars,
                    state' \in Live
             PROVE  SweepInv'
  BY DEF SweepInv
<1> USE TimesAssumption DEF TypeOK, SweepInv, AtHand, Due, ExpiresAt, Never
<1>1. CASE Advance
  BY <1>1 DEF Advance, row, caller, ticker
<1>2. CASE Create
  BY <1>2 DEF Create, ticker, PaceInv
<1>3. CASE Push \/ PushFails \/ TimerFires
  BY <1>3 DEF Push, PushFails, TimerFires, ticker, Live
<1>4. CASE Ticks
  BY <1>4 DEF Ticks, row, caller
<1>5. CASE Lists
  BY <1>5 DEF Lists, row, caller
<1>6. CASE Visiting
  BY <1>6 DEF Visiting, Skips, QueryUnsent, QuerySent, Visits, Pending, Live,
     row, caller
<1>7. CASE Sweeps
  <2>1. state \in Live /\ ~Before(created + TTL, now)
    BY <1>7 DEF Sweeps, Live
  <2>2. now < created + TTL + Second
    BY <2>1, NotBeforeIsClose
  <2> QED
    BY <1>7, <2>2 DEF Sweeps, PaceInv
<1>8. CASE UNCHANGED vars
  BY <1>8 DEF vars, row, caller, ticker
<1>9. CASE Crash \/ Restart
  BY <1>9 DEF Crash, Restart, row, caller, PaceInv
<1> QED
  BY <1>1, <1>2, <1>3, <1>4, <1>5, <1>6, <1>7, <1>8,
     <1>9 DEF Next, Visiting

LEMMA IInvStep == IInv /\ [Next]_vars => IInv'
  BY TypeStep, PaceStep, TimerStep, ListedStep, EarlyStep, SweepStep DEF IInv

-----------------------------------------------------------------------------
\* The inductive invariant holds in every reachable state: clock, ticker and
\* pass keep pace, and the next sweep of a live session is at hand.
THEOREM WindowInvariance == Spec => []IInv
  BY InitIInv, IInvStep, PTL DEF Spec

\* No session times out before its ExpiresAt, although the goroutine's TTL
\* and the row's are counted from different moments and times are cut to
\* seconds.
THEOREM NoneEarly == Spec => []NeverEarly
<1>1. IInv => NeverEarly
  BY DEF IInv
<1> QED
  BY <1>1, WindowInvariance, PTL

\* A session is over within a period, a pass and a second of its ExpiresAt.
THEOREM SettledByDeadline == Spec => []SettledInTime
<1>1. IInv => SettledInTime
  BY TimesAssumption DEF IInv, TypeOK, PaceInv, SweepInv, SettledInTime, AtHand,
     Due, ExpiresAt, Never
<1> QED
  BY <1>1, WindowInvariance, PTL

-----------------------------------------------------------------------------
(* Queried before swept.                                                   *)

\* A session that was old enough when the pass began is still to be visited,
\* if the pass can query it and none has.
VisitInv ==
  /\ pass = "visiting" /\ Unqueried
  /\ Before(created, began - QueryThreshold)
  => listed

\* Adding whole seconds on both sides changes no comparison.
LEMMA BeforeShifted ==
  ASSUME NEW t \in Int, NEW u \in Int, NEW k \in Nat, NEW d,
         d = k * Second, Before(t + d, u + d)
  PROVE  Before(t, u)
<1>1. Second \in Nat \ {0}
  BY TimesAssumption
<1>2. /\ (t + d) \div Second = t \div Second + k
      /\ (u + d) \div Second = u \div Second + k
  BY <1>1
<1> QED
  BY <1>1, <1>2 DEF Before, Text

\* And what is before a moment is before any later one.
LEMMA BeforeLater ==
  ASSUME NEW t \in Int, NEW u \in Int, NEW v \in Int, Before(t, u), u <= v
  PROVE  Before(t, v)
<1>1. Second \in Nat \ {0}
  BY TimesAssumption
<1>2. u \div Second <= v \div Second
  BY <1>1
<1> QED
  BY <1>1, <1>2 DEF Before, Text

LEMMA VisitStep ==
  ASSUME PushTime <= QueryThreshold
  PROVE  IInv /\ VisitInv /\ [Next]_vars => VisitInv'
<1> SUFFICES ASSUME IInv, VisitInv, [Next]_vars,
                    pass' = "visiting",
                    Unqueried',
                    Before(created', began' - QueryThreshold)
             PROVE  listed'
  BY DEF VisitInv, Before, Text
<1> USE DEF VisitInv, Unqueried
<1>1. CASE Advance \/ Ticks
  BY <1>1 DEF Advance, Ticks, row, ticker
<1>2. CASE Create
  BY <1>2 DEF Create, Pending
<1>p. CASE PushFails
  BY <1>p DEF PushFails, Pending, ticker
<1>3. CASE Push
  <2>1. /\ created \in Nat /\ began \in Nat /\ now \in Nat
        /\ began <= now /\ now <= created + PushTime
        /\ Before(created, began - QueryThreshold)
    BY <1>3 DEF Push, IInv, TypeOK, PaceInv, ticker
  <2>2. began - QueryThreshold <= created
    BY <2>1, TimesAssumption
  <2>3. Before(created, created)
    BY <2>1, <2>2, BeforeLater, TimesAssumption
  <2>4. created \div Second \in Int
    BY <2>1, TimesAssumption
  <2> QED
    BY <2>3, <2>4 DEF Before, Text
<1>4. CASE TimerFires
  BY <1>4 DEF TimerFires, Pending, ticker
<1>5. CASE Lists
  BY <1>5 DEF Lists, row, caller
<1>6. CASE Visiting
  BY <1>6 DEF Visiting, Skips, QueryUnsent, QuerySent, Visits, row, caller
<1>7. CASE Sweeps
  BY <1>7 DEF Sweeps, caller
<1>8. CASE UNCHANGED vars
  BY <1>8 DEF vars, row, caller, ticker
<1>9. CASE Crash \/ Restart
  BY <1>9 DEF Crash, Restart, row, caller
<1> QED
  BY <1>1, <1>2, <1>3, <1>4, <1>5, <1>6, <1>7, <1>8,
     <1>p, <1>9 DEF Next, Visiting

\* A sweep ends no session that a query was due for.
LEMMA SweepsQueried ==
  ASSUME NEW k \in Nat, TTL = k * Second,
         PassTime + QueryThreshold <= TTL,
         IInv, VisitInv, Sweeps, Unqueried, state' = "TIMEOUT"
  PROVE  FALSE
<1>1. pass = "visiting" /\ ~listed /\ Before(created + TTL, now)
  BY DEF Sweeps, ExpiresAt, Unqueried, Pending
<1>2. created \in Nat /\ began \in Nat /\ now \in Nat
      /\ now <= began + PassTime
  BY <1>1 DEF IInv, TypeOK, PaceInv
<1>3. now <= (began - QueryThreshold) + TTL
  BY <1>2, TimesAssumption
<1>4. Before(created + TTL, (began - QueryThreshold) + TTL)
  BY <1>1, <1>2, <1>3, BeforeLater, TimesAssumption
<1>5. Before(created, began - QueryThreshold)
  <2> DEFINE start == began - QueryThreshold
  <2>1. start \in Int /\ created \in Int /\ TTL \in Nat
    BY <1>2, TimesAssumption
  <2>2. Before(created + TTL, start + TTL)
    BY <1>4
  <2> HIDE DEF start
  <2>3. Before(created, start)
    BY <2>1, <2>2, BeforeShifted
  <2> QED
    BY <2>3 DEF start
<1> QED
  BY <1>1, <1>5 DEF VisitInv

\* Only sweeps and the timer end a session.
LEMMA EndingSteps ==
  ASSUME [Next]_vars,
         state \in Pending, state' = "TIMEOUT"
  PROVE  Sweeps \/ (TimerFires /\ pass' = pass)
<1> USE DEF Pending
<1>1. CASE \/ Advance \/ Create \/ Push \/ PushFails \/ Ticks \/ Lists
           \/ Crash \/ Restart \/ UNCHANGED vars
  BY <1>1 DEF vars, Advance, Create, Push, PushFails, Ticks, Lists, Crash, Restart, row,
              caller, ticker
<1>2. CASE Visiting
  BY <1>2 DEF Visiting, Skips, QueryUnsent, QuerySent, Visits, row
<1>3. CASE TimerFires
  BY <1>3 DEF TimerFires, ticker
<1> QED
  BY <1>1, <1>2, <1>3 DEF Next, Visiting

\* A sweep ends no session that has a checkout id before QuerySTKStatus was
\* called for it, whatever crashes come between, provided that storage calls
\* succeed, the TTL is whole seconds, a push takes no longer than
\* QueryThreshold and a pass no longer than the TTL leaves after it.
THEOREM QueriedBeforeSwept ==
  ASSUME NEW k \in Nat, TTL = k * Second,
         PushTime <= QueryThreshold,
         PassTime + QueryThreshold <= TTL
  PROVE  Spec => SweptAfterQuery
<1> DEFINE QInv == IInv /\ VisitInv
<1>1. Init => QInv
  BY InitIInv DEF Init, VisitInv
<1>2. QInv /\ [Next]_vars => QInv'
  BY IInvStep, VisitStep
<1>3. ASSUME QInv, [Next]_vars
      PROVE  [Unqueried /\ pass' # pass => state' # "TIMEOUT"]_vars
  <2> SUFFICES ASSUME Unqueried, state' = "TIMEOUT", pass' # pass
               PROVE  FALSE
    OBVIOUS
  <2>1. Sweeps
    BY <1>3, EndingSteps DEF Unqueried
  <2> QED
    BY <1>3, <2>1, SweepsQueried
<1> QED
  BY <1>1, <1>2, <1>3, PTL DEF Spec, SweptAfterQuery

-----------------------------------------------------------------------------
(* Queried in time.                                                        *)

\* A recovery pass that begins by then has, when it ends, queried the session
\* before its QueryAge, or it is the first since the restart.
Soon(t) ==
  \/ t + PassTime < created + QueryAge
  \/ t <= since + Period

\* The session is to be queried, or may still get a checkout id.
Awaited ==
  \/ Unqueried
  \/ /\ state = "CREATED" /\ calling /\ now <= created + PushTime
     /\ query = "none"

\* The pass that is to query the session is under way or soon begins; one that
\* goes on without it ends in time for the next.
ListInv ==
  Awaited /\ nextTick # Never =>
    /\ pass = "visiting" /\ listed => Soon(began)
    /\ pass = "visiting" /\ ~listed =>
         /\ began + 2 * PassTime < created + QueryAge
         /\ ~ticked => Soon(nextTick)
    /\ pass = "idle" /\ ticked  => Soon(now)
    /\ pass = "idle" /\ ~ticked => Soon(nextTick)

\* Goroutines are of the process that runs.
UpInv ==
  /\ timer # Never \/ calling => nextTick # Never /\ since <= created
  /\ timer # Never => created + TTL <= timer


LEMMA UpStep == IInv /\ UpInv /\ [Next]_vars => UpInv'
<1> SUFFICES ASSUME IInv, UpInv, [Next]_vars PROVE UpInv'
  OBVIOUS
<1> USE TimesAssumption DEF UpInv, IInv, TypeOK, PaceInv, Never
<1>1. CASE Advance \/ Ticks \/ UNCHANGED vars
  BY <1>1 DEF Advance, Ticks, vars, row, caller, ticker
<1>2. CASE Create \/ Push \/ PushFails
  BY <1>2 DEF Create, Push, PushFails, ticker, TimerInv
<1>3. CASE TimerFires
  BY <1>3 DEF TimerFires, ticker
<1>4. CASE Lists \/ Visiting \/ Sweeps
  BY <1>4 DEF Lists, Visiting, Skips, QueryUnsent, QuerySent, Visits, Sweeps,
     row, caller
<1>5. CASE Crash \/ Restart
  BY <1>5 DEF Crash, Restart, row, caller
<1> QED
  BY <1>1, <1>2, <1>3, <1>4, <1>5 DEF Next, Visiting

\* What QueryAge leaves room for.
LEMMA QueryAgeRoom ==
  /\ QueryAge \in Nat
  /\ QueryThreshold + Second + Period + PassTime <= QueryAge
  /\ QueryThreshold + Second + 2 * PassTime <= QueryAge
  BY TimesAssumption DEF QueryAge, NextPass

LEMMA ListStep ==
  ASSUME PushTime <= QueryThreshold
  PROVE  IInv /\ ListInv /\ [Next]_vars => ListInv'
<1> SUFFICES ASSUME IInv, ListInv, [Next]_vars, Awaited', nextTick' # Never
             PROVE  ListInv'
  BY DEF ListInv
<1> USE TimesAssumption, QueryAgeRoom DEF IInv, TypeOK, ListInv, Soon, Never, Unqueried, Pending
<1>1. CASE Advance
  BY <1>1 DEF Advance, row, caller, ticker, Awaited
<1>2. CASE Create
  BY <1>2 DEF Create, ticker, PaceInv
<1>3. CASE Push \/ PushFails \/ TimerFires
  BY <1>3 DEF Push, PushFails, TimerFires, ticker, Awaited
<1>4. CASE Ticks
  BY <1>4 DEF Ticks, row, caller, Awaited
<1>5. CASE Lists
  <2>1. Awaited /\ pass = "idle" /\ ticked /\ Soon(now)
        /\ pass' = "visiting" /\ ~ticked' /\ began' = now
        /\ UNCHANGED <<since, created, nextTick>>
    BY <1>5 DEF Lists, row, caller, Awaited
  <2>2. CASE listed'
    BY <2>1, <2>2
  <2>3. CASE ~listed'
    <3>1. now < created + QueryThreshold + Second
      <4>1. CASE state = "CREATED"
        BY <2>1, <4>1 DEF Awaited
      <4>2. CASE state # "CREATED"
        <5>1. ~Before(created, now - QueryThreshold)
          BY <1>5, <2>1, <2>3, <4>2 DEF Lists, Awaited
        <5>2. now - QueryThreshold < created + Second
          BY <5>1, NotBeforeIsClose
        <5> QED
          BY <5>2
      <4> QED
        BY <4>1, <4>2
    <3>2. nextTick <= now + Period
      BY <2>1, <1>5 DEF PaceInv, Lists
    <3> QED
      BY <2>1, <2>3, <3>1, <3>2
  <2> QED
    BY <2>2, <2>3
<1>6. CASE Visiting
  BY <1>6 DEF Visiting, Skips, QueryUnsent, QuerySent, Visits, row, caller,
     Awaited, ListedInv
<1>7. CASE Sweeps
  BY <1>7 DEF Sweeps, caller, Awaited, PaceInv
<1>8. CASE UNCHANGED vars
  BY <1>8 DEF vars, row, caller, ticker, Awaited
<1>9. CASE Crash \/ Restart
  BY <1>9 DEF Crash, Restart, row, caller, PaceInv
<1> QED
  BY <1>1, <1>2, <1>3, <1>4, <1>5, <1>6, <1>7, <1>8,
     <1>9 DEF Next, Visiting

LEMMA QueriedByThen == IInv /\ ListInv => QueriedInTime
<1> SUFFICES ASSUME IInv, ListInv,
                    Unqueried, nextTick # Never
             PROVE  \/ now < created + QueryAge
                    \/ now <= since + Period + PassTime
  BY DEF QueriedInTime
<1> USE TimesAssumption, QueryAgeRoom
    DEF IInv, TypeOK, PaceInv, ListInv, Awaited, Soon, Never
<1>1. CASE pass = "visiting"
  BY <1>1
<1>2. CASE pass = "idle"
  BY <1>2
<1> QED
  BY <1>1, <1>2

\* QuerySTKStatus is called for a session that has a checkout id before it is as
\* old as QueryAge, or in the first pass after a restart, although rows are
\* listed by times cut to seconds and a tick that comes during a pass waits for
\* its end; provided that storage calls succeed.
THEOREM QueriedByAge ==
  ASSUME PushTime <= QueryThreshold
  PROVE  Spec => []QueriedInTime
<1>1. Init => ListInv
  BY DEF Init, ListInv, Awaited, Unqueried
<1>2. IInv /\ ListInv /\ [Next]_vars => ListInv'
  BY ListStep
<1> QED
  BY <1>1, <1>2, InitIInv, IInvStep, QueriedByThen, PTL DEF Spec

\* No session that has a checkout id times out before QuerySTKStatus was called
\* for it, by a sweep or by its TTL goroutine, whatever crashes come between,
\* provided that storage calls succeed, that the TTL is whole seconds and no
\* less than QueryAge, and that pushes are answered before the threshold.
THEOREM QueriedBeforeTimeout ==
  ASSUME NEW k \in Nat, TTL = k * Second,
         PushTime <= QueryThreshold,
         QueryAge <= TTL
  PROVE  Spec => TimedOutAfterQuery
<1> DEFINE QInv == IInv /\ VisitInv /\ ListInv /\ UpInv
<1>1. Init => QInv
  BY InitIInv DEF Init, VisitInv, ListInv, Awaited, Unqueried, UpInv
<1>2. QInv /\ [Next]_vars => QInv'
  BY IInvStep, VisitStep, ListStep, UpStep
<1>3. ASSUME QInv, [Next]_vars
      PROVE  [Unqueried => state' # "TIMEOUT"]_vars
  <2> SUFFICES ASSUME Unqueried, state' = "TIMEOUT"
               PROVE  FALSE
    OBVIOUS
  <2>1. PassTime + QueryThreshold <= TTL
    BY QueryAgeRoom, TimesAssumption
  <2>2. CASE Sweeps
    BY <1>3, <2>1, <2>2, SweepsQueried
  <2>3. CASE TimerFires
    <3>1. now = timer /\ timer # Never /\ now \in Nat /\ created \in Nat
          /\ since \in Nat
      BY <1>3, <2>3 DEF TimerFires, IInv, TypeOK, Never
    <3>2. nextTick # Never /\ since <= created /\ created + TTL <= now
      BY <1>3, <3>1 DEF UpInv
    <3>3. QueriedInTime
      BY <1>3, QueriedByThen
    <3> QED
      BY <3>1, <3>2, <3>3, QueryAgeRoom, TimesAssumption DEF QueriedInTime
  <2> QED
    BY <1>3, <2>2, <2>3, EndingSteps DEF Unqueried
<1> QED
  BY <1>1, <1>2, <1>3, PTL DEF Spec, TimedOutAfterQuery
=============================================================================
