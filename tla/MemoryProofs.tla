---------------------------- MODULE MemoryProofs ----------------------------
(***************************************************************************)
(* The memory adapter implements the storage contract for every caller,    *)
(* and its two indexes agree, for any number of callers, sessions and      *)
(* checkout ids.                                                           *)
(***************************************************************************)
EXTENDS MemoryAdapter, StorageCallsProofs

Calls == [phase : Phases, req : Requests \cup {NoRequest}, reply : Reply]

Index == [Checkouts -> SessionIds \cup {NoSession}]

Held == {"locked", "checked", "performed"}

-----------------------------------------------------------------------------
(* The inductive invariant.                                                *)

\* A call that is under way has a request, and no reply before its effect.
CallInv ==
  \A c \in Callers :
    /\ call[c].phase # "idle" => call[c].req \in Requests
    /\ call[c].phase = "idle" => call[c].req = NoRequest
    /\ call[c].phase \in {"asked", "locked", "checked"} =>
         call[c].reply = Error("nil")

\* The history is up to date.
MayInv ==
  \A c \in Callers :
    /\ call[c].phase \in Waiting =>
         Refusals(sessions, call[c].req) \subseteq may[c]
    /\ call[c].phase \notin Waiting => may[c] = {}

\* Who is between Lock and Unlock has the lock its method takes.
LockInv ==
  /\ WellLocked(mu)
  /\ \A c \in Callers : call[c].phase \in Held =>
       c \in IF call[c].req.op \in Writers THEN mu.writer ELSE mu.readers

\* What the guards have seen is still so.
GuardInv ==
  \A c \in Callers : call[c].phase = "checked" => Guard(call[c].req) = "nil"

\* Only sessions whose push was accepted carry a checkout id.
RowInv ==
  \A i \in SessionIds :
    sessions[i].checkout # NoCheckout =>
      sessions[i].state \notin {"ABSENT", "CREATED"}

\* The empty checkout id leads to a session pushed without one.
BlankInv ==
  \A i \in SessionIds :
    byCheckout[NoCheckout] = i =>
      /\ sessions[i].checkout = NoCheckout
      /\ sessions[i].state \notin {"ABSENT", "CREATED"}

MapInv ==
  /\ sessions \in Table /\ byCheckout \in Index
  /\ IndexAgrees /\ RowInv /\ BlankInv

\* No other session has, or is being given, the checkout id of a call that
\* is to write one.
FreshInv ==
  \A c \in Callers :
    LET req == call[c].req
    IN /\ call[c].phase \in Waiting /\ Correlates(req)
       /\ req.move.update.checkout # NoCheckout
       => /\ \A i \in SessionIds \ {req.id} :
               sessions[i].checkout # req.move.update.checkout
          /\ \A d \in Callers :
               /\ Correlates(call[d].req)
               /\ call[d].req.move.update = req.move.update
               => call[d].req.id = req.id

IInv == /\ TypeOK /\ CallInv /\ MayInv /\ LockInv /\ GuardInv /\ MapInv
        /\ FreshInv

-----------------------------------------------------------------------------
(* The lock.                                                               *)

\* A caller that holds the write lock is alone.
LEMMA Exclusive ==
  ASSUME LockInv, NEW c \in Callers, NEW d \in Callers,
         call[c].phase \in Held, call[c].req.op \in Writers,
         call[d].phase \in Held
  PROVE  c = d
  BY DEF LockInv, WellLocked

LEMMA MutexTypes ==
  ASSUME NEW m \in Mutex(Callers), NEW c \in Callers
  PROVE  /\ Announce(m, c) \in Mutex(Callers)
         /\ Lock(m, c) \in Mutex(Callers)
         /\ RLock(m, c) \in Mutex(Callers)
         /\ Release(m, c) \in Mutex(Callers)
  BY DEF Mutex, Announce, Lock, RLock, Release, Unlock, RUnlock

\* What the lock operations keep and do.
LEMMA MutexSteps ==
  ASSUME NEW m \in Mutex(Callers), WellLocked(m), NEW c \in Callers
  PROVE  /\ CanAnnounce(m) => /\ WellLocked(Announce(m, c))
                              /\ Announce(m, c).writer = m.writer
                              /\ Announce(m, c).readers = m.readers
         /\ CanLock(m, c) => /\ WellLocked(Lock(m, c))
                             /\ m.writer = {} /\ m.readers = {}
                             /\ Lock(m, c).writer = {c}
         /\ CanRLock(m) => /\ WellLocked(RLock(m, c))
                           /\ m.writer = {}
                           /\ RLock(m, c).readers = m.readers \cup {c}
         /\ /\ c \in m.writer \cup m.readers
            => WellLocked(Release(m, c))
         /\ \A d \in Callers \ {c} :
              /\ d \in m.readers => d \in Release(m, c).readers
              /\ c \in m.writer \cup m.readers => d \notin m.writer
<1>1. CanAnnounce(m) => /\ WellLocked(Announce(m, c))
                        /\ Announce(m, c).writer = m.writer
                        /\ Announce(m, c).readers = m.readers
  BY DEF Mutex, CanAnnounce, WellLocked, Announce
<1>2. CanLock(m, c) => /\ WellLocked(Lock(m, c))
                       /\ m.writer = {} /\ m.readers = {}
                       /\ Lock(m, c).writer = {c}
  BY DEF Mutex, CanLock, WellLocked, Lock
<1>3. CanRLock(m) => /\ WellLocked(RLock(m, c))
                     /\ m.writer = {}
                     /\ RLock(m, c).readers = m.readers \cup {c}
  BY DEF Mutex, CanRLock, WellLocked, RLock
<1>4. ASSUME c \in m.writer \cup m.readers
      PROVE  WellLocked(Release(m, c))
  BY <1>4 DEF Mutex, WellLocked, Release, Unlock, RUnlock
<1>5. ASSUME NEW d \in Callers \ {c}
      PROVE  /\ d \in m.readers => d \in Release(m, c).readers
             /\ c \in m.writer \cup m.readers => d \notin m.writer
  BY DEF Mutex, WellLocked, Release, Unlock, RUnlock
<1> QED
  BY <1>1, <1>2, <1>3, <1>4, <1>5

-----------------------------------------------------------------------------
(* What a step does to the call that takes it, and to the maps.            *)

Writes(c) == call[c].phase = "checked" /\ call[c].req.op \in Writers

CallStep(c, k) ==
  /\ Becomes(c, k)
  /\ k \in Calls
  /\ \/ /\ k.phase = "asked" /\ call[c].phase = "idle"
        /\ k.req \in Requests /\ k.reply = Error("nil")
        /\ MayAsk(sessions, call, k.req)
        /\ UNCHANGED <<maps, mu>>
     \/ /\ k.phase = "locked" /\ call[c].phase = "asked"
        /\ k.req = call[c].req /\ k.reply = Error("nil")
        /\ IF k.req.op \in Writers
           THEN CanLock(mu, c) /\ mu' = Lock(mu, c)
           ELSE CanRLock(mu)   /\ mu' = RLock(mu, c)
        /\ UNCHANGED maps
     \/ /\ k.phase = "checked" /\ call[c].phase = "locked"
        /\ k.req = call[c].req /\ k.reply = Error("nil")
        /\ Guard(k.req) = "nil"
        /\ UNCHANGED <<maps, mu>>
     \/ /\ k.phase = "performed" /\ call[c].phase = "checked"
        /\ k.req = call[c].req
        /\ Writes(c) \/ UNCHANGED maps
        /\ UNCHANGED mu
     \/ /\ k.phase = "idle" /\ k.req = NoRequest
        /\ call[c].phase \in Held
        /\ mu' = Release(mu, c)
        /\ UNCHANGED maps

MapStep(c) ==
  /\ MapInv'
  /\ \A i \in SessionIds :
       sessions'[i].checkout # sessions[i].checkout =>
         /\ Correlates(call[c].req) /\ i = call[c].req.id
         /\ Writes(c)
         /\ sessions'[i].checkout = call[c].req.move.update.checkout

LEMMA SameMaps ==
  ASSUME MapInv, UNCHANGED maps, NEW c
  PROVE  MapStep(c)
<1>1. MapInv'
  BY DEF maps, MapInv, IndexAgrees, RowInv, BlankInv
<1> QED
  BY <1>1 DEF MapStep, maps

\* The calls that steps lead to.
LEMMA CallTypes ==
  /\ \A r \in Reply : /\ Done(r) \in Calls /\ Done(r).phase = "idle"
                      /\ Done(r).req = NoRequest
  /\ \A req \in Requests :
       /\ Asked(req) \in Calls /\ Asked(req).phase = "asked"
       /\ Asked(req).req = req /\ Asked(req).reply = Error("nil")
  /\ \A req \in Requests, r \in Reply, p \in Phases :
       LET k == [phase |-> p, req |-> req, reply |-> r]
       IN k \in Calls /\ k.phase = p /\ k.req = req /\ k.reply = r
<1>1. Error("nil") \in Reply
  BY ErrorType DEF Errors
<1> QED
  BY <1>1 DEF Calls, Done, Asked, Phases

LEMMA AnswersStep ==
  ASSUME NEW c \in Callers, call[c].req \in Requests,
         call[c].phase = "checked", UNCHANGED mu,
         Writes(c) \/ UNCHANGED maps,
         NEW r \in Reply, Answers(c, r)
  PROVE  \E k : CallStep(c, k)
<1> DEFINE k == [phase |-> "performed", req |-> call[c].req, reply |-> r]
<1>1. k \in Calls /\ k.phase = "performed" /\ k.req = call[c].req
  BY CallTypes DEF Phases
<1>2. Becomes(c, k)
  BY DEF Answers, Goes
<1> HIDE DEF k
<1> QED
  BY <1>1, <1>2 DEF CallStep

\* A method past its guards has a request whose guard still returns nil.
LEMMA PassedFacts ==
  ASSUME IInv, NEW c \in Callers, NEW op, Passed(c, op)
  PROVE  /\ call[c].phase = "checked" /\ call[c].req \in Requests
         /\ call[c].req.op = op /\ Guard(call[c].req) = "nil"
         /\ UNCHANGED mu /\ MapInv
  BY DEF Passed, IInv, CallInv, GuardInv

LEMMA CreateStep ==
  ASSUME IInv, NEW c \in Callers, Create(c)
  PROVE  MapStep(c) /\ \E k : CallStep(c, k)
<1> DEFINE id == call[c].req.id
<1>1. /\ call[c].phase = "checked" /\ call[c].req \in Requests
      /\ call[c].req.op = "Create" /\ Guard(call[c].req) = "nil"
      /\ UNCHANGED mu /\ MapInv
  BY PassedFacts DEF Create
<1>2. id \in SessionIds /\ sessions[id].state = "ABSENT"
  BY <1>1, RequestFields DEF Guard, Exists
<1>3. sessions[id].checkout = NoCheckout
  BY <1>1, <1>2 DEF MapInv, RowInv
<1>4. /\ sessions' = Inserted(sessions, id) /\ UNCHANGED byCheckout
      /\ Answers(c, Error("nil"))
  BY DEF Create
<1>5. /\ sessions' \in Table
      /\ sessions'[id].state = "CREATED" /\ sessions'[id].checkout = NoCheckout
      /\ \A i \in SessionIds \ {id} : sessions'[i] = sessions[i]
  BY <1>1, <1>2, <1>4 DEF MapInv, Table, Record, States, Inserted
<1>6. \A i \in SessionIds : sessions'[i].checkout = sessions[i].checkout
  BY <1>3, <1>5
<1>7. BlankInv' /\ RowInv' /\ IndexAgrees'
  BY <1>1, <1>2, <1>4, <1>5, <1>6
  DEF MapInv, BlankInv, RowInv, IndexAgrees
<1>8. Error("nil") \in Reply
  BY ErrorType DEF Errors
<1> QED
  BY <1>1, <1>4, <1>5, <1>6, <1>7, <1>8, AnswersStep
  DEF MapStep, MapInv, Writes, Writers

LEMMA TransitionStep ==
  ASSUME IInv, NEW c \in Callers, Transition(c)
  PROVE  MapStep(c) /\ \E k : CallStep(c, k)
<1> DEFINE req  == call[c].req
           id   == req.id
           move == req.move
           co   == move.update.checkout
<1>1. /\ call[c].phase = "checked" /\ req \in Requests
      /\ req.op = "Transition" /\ Guard(req) = "nil"
      /\ UNCHANGED mu /\ MapInv
  BY PassedFacts DEF Transition
<1>2. /\ id \in SessionIds /\ move \in Moves
      /\ sessions[id].state = move.from /\ sessions[id].state # "ABSENT"
  <2>1. id \in SessionIds /\ move \in Moves
    BY <1>1, RequestFields
  <2>2. move.from # "ABSENT"
    BY <2>1, MoveTypes DEF States
  <2>3. sessions[id].state = move.from /\ sessions[id].state # "ABSENT"
    BY <1>1, <2>2 DEF Guard
  <2> QED
    BY <2>1, <2>3
<1>3. /\ move.to \in States \ {"CREATED"}
      /\ move.update \in Updates
      /\ co # NoCheckout => Correlates(req)
      /\ Correlates(req) => move.from = "CREATED"
  BY <1>1, <1>2, MoveTypes DEF Correlates
<1>4. /\ sessions' = Updated(sessions, id, move.to, move.update)
      /\ byCheckout' = IF Correlates(req)
                       THEN [byCheckout EXCEPT ![co] = id] ELSE byCheckout
      /\ Answers(c, Error("nil"))
  BY DEF Transition
<1>5. co \in Checkouts
  BY <1>3 DEF Updates
<1>6. /\ sessions' \in Table
      /\ sessions'[id].state = move.to
      /\ sessions'[id].checkout =
           IF co = NoCheckout THEN sessions[id].checkout ELSE co
      /\ \A i \in SessionIds \ {id} : sessions'[i] = sessions[i]
  BY <1>1, <1>2, <1>3, <1>4 DEF MapInv, Table, Record, Updated, Updates,
     Checkouts
<1>7. move.to # "ABSENT"
  BY <1>3 DEF States
<1>8. byCheckout' \in Index
  BY <1>1, <1>2, <1>4, <1>5 DEF MapInv, Index
<1>9. RowInv'
  BY <1>1, <1>3, <1>6, <1>7 DEF MapInv, RowInv
<1>10. Correlates(req) => sessions[id].checkout = NoCheckout
  BY <1>1, <1>2, <1>3 DEF MapInv, RowInv
<1>11. BlankInv'
  <2> SUFFICES ASSUME NEW i \in SessionIds, byCheckout'[NoCheckout] = i
               PROVE  /\ sessions'[i].checkout = NoCheckout
                      /\ sessions'[i].state \notin {"ABSENT", "CREATED"}
    BY DEF BlankInv
  <2>1. CASE Correlates(req) /\ co = NoCheckout
    <3>1. i = id
      BY <1>1, <1>4, <1>5, <2>1 DEF MapInv, Index
    <3> QED
      BY <1>3, <1>6, <1>7, <1>10, <2>1, <3>1
  <2>2. CASE ~(Correlates(req) /\ co = NoCheckout)
    <3>1. byCheckout[NoCheckout] = i
      BY <1>1, <1>4, <1>5, <2>2 DEF MapInv, Index, Checkouts
    <3>2. /\ sessions[i].checkout = NoCheckout
          /\ sessions[i].state \notin {"ABSENT", "CREATED"}
      BY <1>1, <3>1 DEF MapInv, BlankInv
    <3>3. i = id => co = NoCheckout
      BY <1>2, <1>3, <3>2
    <3> QED
      BY <1>3, <1>6, <1>7, <3>2, <3>3
  <2> QED
    BY <2>1, <2>2
<1>12. IndexAgrees'
  <2> SUFFICES ASSUME NEW k \in CheckoutIds, NEW i \in SessionIds
               PROVE  byCheckout'[k] = i <=> sessions'[i].checkout = k
    BY DEF IndexAgrees
  <2>1. k # NoCheckout /\ k \in Checkouts
    BY NoCheckoutAssumption DEF Checkouts
  <2>2. byCheckout[k] = i <=> sessions[i].checkout = k
    BY <1>1 DEF MapInv, IndexAgrees
  <2>3. CASE co = k
    <3>1. byCheckout'[k] = id
      BY <1>1, <1>3, <1>4, <2>1, <2>3 DEF MapInv, Index
    <3>2. CASE i = id
      BY <1>6, <2>1, <2>3, <3>1, <3>2
    <3>3. CASE i # id
      <4>1. sessions[i].checkout # k
        BY <1>1, <1>3, <2>1, <2>3, <3>3 DEF IInv, FreshInv, Waiting
      <4> QED
        BY <1>6, <3>1, <3>3, <4>1
    <3> QED
      BY <3>2, <3>3
  <2>4. CASE co # k
    <3>1. byCheckout'[k] = byCheckout[k]
      BY <1>1, <1>4, <1>5, <2>1, <2>4 DEF MapInv, Index
    <3>2. sessions'[i].checkout = k <=> sessions[i].checkout = k
      BY <1>3, <1>6, <1>10, <2>1, <2>4
    <3> QED
      BY <2>2, <3>1, <3>2
  <2> QED
    BY <2>3, <2>4
<1>13. Error("nil") \in Reply
  BY ErrorType DEF Errors
<1>14. Writes(c)
  BY <1>1 DEF Writes, Writers
<1>15. MapStep(c)
  BY <1>3, <1>6, <1>8, <1>9, <1>11, <1>12, <1>14 DEF MapStep, MapInv
<1> QED
  BY <1>1, <1>4, <1>13, <1>14, <1>15, AnswersStep

\* The other writers leave the checkout ids alone.
LEMMA SameCheckouts ==
  ASSUME MapInv, sessions' \in Table, UNCHANGED byCheckout, NEW c,
         \A i \in SessionIds :
           /\ sessions'[i].checkout = sessions[i].checkout
           /\ \/ sessions'[i].state = sessions[i].state
              \/ sessions'[i].state \notin {"ABSENT", "CREATED"}
  PROVE  MapStep(c)
  BY DEF MapStep, MapInv, IndexAgrees, RowInv, BlankInv

LEMMA ConsumeStep ==
  ASSUME IInv, NEW c \in Callers, ConsumeIfConfirmed(c)
  PROVE  MapStep(c) /\ \E k : CallStep(c, k)
<1> DEFINE id == call[c].req.id
<1>1. /\ call[c].phase = "checked" /\ call[c].req \in Requests
      /\ call[c].req.op = "ConsumeIfConfirmed"
      /\ UNCHANGED mu /\ MapInv
  BY PassedFacts DEF ConsumeIfConfirmed
<1>2. id \in SessionIds
  BY <1>1, RequestFields
<1>3. /\ sessions' = [sessions EXCEPT ![id].state = "CONSUMED"]
      /\ UNCHANGED byCheckout /\ Answers(c, Rows(sessions', {id}))
  BY DEF ConsumeIfConfirmed
<1>4. /\ sessions' \in Table /\ sessions'[id].state = "CONSUMED"
      /\ sessions'[id].checkout = sessions[id].checkout
      /\ \A i \in SessionIds \ {id} : sessions'[i] = sessions[i]
  BY <1>1, <1>2, <1>3 DEF MapInv, Table, Record, States
<1>5. MapStep(c)
  BY <1>1, <1>3, <1>4, SameCheckouts
<1>6. Rows(sessions', {id}) \in Reply
  BY <1>2, <1>4, RowsType
<1> QED
  BY <1>1, <1>3, <1>5, <1>6, AnswersStep DEF Writes, Writers

LEMMA ExpireStep ==
  ASSUME IInv, NEW c \in Callers, ExpireStaleSessions(c)
  PROVE  MapStep(c) /\ \E k : CallStep(c, k)
<1> DEFINE old == call[c].req.old
           due == {i \in old : sessions[i].state \in NonTerminal}
<1>1. /\ call[c].phase = "checked" /\ call[c].req \in Requests
      /\ call[c].req.op = "ExpireStale"
      /\ UNCHANGED mu /\ MapInv
  BY PassedFacts DEF ExpireStaleSessions
<1>2. old \subseteq SessionIds
  BY <1>1, RequestFields
<1>3. /\ sessions' = ExpireStale(sessions, old)
      /\ UNCHANGED byCheckout /\ Answers(c, Rows(sessions', due))
  BY DEF ExpireStaleSessions
<1>4. ASSUME NEW i \in SessionIds
      PROVE  /\ sessions'[i] \in Record
             /\ sessions'[i].checkout = sessions[i].checkout
             /\ i \notin due => sessions'[i] = sessions[i]
             /\ i \in due => sessions'[i].state = "TIMEOUT"
  BY <1>1, <1>2, <1>3 DEF MapInv, Table, Record, ExpireStale, States
<1>5. sessions' \in Table
  BY <1>3, <1>4 DEF ExpireStale, Table
<1>6. MapStep(c)
  <2> HIDE DEF due
  <2> QED
    BY <1>1, <1>3, <1>4, <1>5, SameCheckouts
<1>7. Rows(sessions', due) \in Reply
  <2>1. \A i \in due : sessions'[i].state # "ABSENT"
    BY <1>2, <1>4
  <2> QED
    BY <1>2, <1>5, <2>1, RowsType
<1> QED
  BY <1>1, <1>3, <1>6, <1>7, AnswersStep DEF Writes, Writers

\* The readers return copies of rows that exist.
LEMMA ReadStep ==
  ASSUME IInv, NEW c \in Callers,
         Get(c) \/ GetByCheckoutID(c) \/ ListPendingSessions(c)
  PROVE  MapStep(c) /\ \E k : CallStep(c, k)
<1>1. ASSUME NEW ids \in SUBSET SessionIds, call[c].phase = "checked",
             call[c].req \in Requests, UNCHANGED <<maps, mu>>, MapInv,
             \A i \in ids : sessions[i].state # "ABSENT",
             Answers(c, Rows(sessions, ids))
      PROVE  MapStep(c) /\ \E k : CallStep(c, k)
  <2>1. Rows(sessions, ids) \in Reply
    BY <1>1, RowsType DEF MapInv
  <2> QED
    BY <1>1, <2>1, SameMaps, AnswersStep
<1>2. CASE Get(c)
  <2>1. /\ call[c].phase = "checked" /\ call[c].req \in Requests
        /\ call[c].req.op = "Get" /\ Guard(call[c].req) = "nil"
        /\ UNCHANGED mu /\ MapInv
    BY <1>2, PassedFacts DEF Get
  <2>2. /\ call[c].req.id \in SessionIds
        /\ sessions[call[c].req.id].state # "ABSENT"
    BY <2>1, RequestFields DEF Guard, Known, Exists
  <2> QED
    BY <1>1, <1>2, <2>1, <2>2 DEF Get
<1>3. CASE GetByCheckoutID(c)
  <2> DEFINE i == byCheckout[call[c].req.checkout]
  <2>1. /\ call[c].phase = "checked" /\ call[c].req \in Requests
        /\ call[c].req.op = "GetByCheckoutID" /\ Guard(call[c].req) = "nil"
        /\ UNCHANGED mu /\ MapInv
    BY <1>3, PassedFacts DEF GetByCheckoutID
  <2>2. i \in SessionIds \cup {NoSession}
    BY <2>1, RequestFields DEF MapInv, Index
  <2>3. i # NoSession /\ Known(i) = "nil"
    BY <2>1 DEF Guard
  <2>4. i \in SessionIds /\ sessions[i].state # "ABSENT"
    BY <2>2, <2>3 DEF Known, Exists
  <2> QED
    BY <1>1, <1>3, <2>1, <2>4 DEF GetByCheckoutID
<1>4. CASE ListPendingSessions(c)
  <2> DEFINE ids == {r.id : r \in ListPending(sessions, call[c].req.old)}
  <2>1. /\ call[c].phase = "checked" /\ call[c].req \in Requests
        /\ call[c].req.op = "ListPending" /\ UNCHANGED mu /\ MapInv
    BY <1>4, PassedFacts DEF ListPendingSessions
  <2>2. ASSUME NEW i \in ids
        PROVE  i \in SessionIds /\ sessions[i].state # "ABSENT"
    <3>1. PICK r \in ListPending(sessions, call[c].req.old) : i = r.id
      BY DEF ids
    <3>2. PICK j \in call[c].req.old :
            /\ sessions[j].state \in Pending
            /\ r = [id |-> j, from |-> sessions[j].state,
                    checkout |-> sessions[j].checkout]
      BY <3>1 DEF ListPending
    <3>3. call[c].req.old \subseteq SessionIds
      BY <2>1, RequestFields
    <3> QED
      BY <3>1, <3>2, <3>3 DEF Pending
  <2>3. UNCHANGED <<maps, mu>> /\ Answers(c, Rows(sessions, ids))
    BY <1>4, <2>1 DEF ListPendingSessions
  <2> HIDE DEF ids
  <2> QED
    BY <1>1, <2>1, <2>2, <2>3
<1> QED
  BY <1>2, <1>3, <1>4

LEMMA LockStep ==
  ASSUME IInv, NEW c \in Callers,
         Acquires(c) \/ Checks(c) \/ Returns(c)
  PROVE  MapStep(c) /\ \E k : CallStep(c, k)
<1> DEFINE K(p) == [phase |-> p, req |-> call[c].req, reply |-> Error("nil")]
<1>1. MapInv
  BY DEF IInv
<1>2. ASSUME call[c].phase # "idle", NEW p \in Phases
      PROVE  /\ K(p) \in Calls /\ K(p).phase = p /\ K(p).req = call[c].req
             /\ K(p).reply = Error("nil")
  <2>1. call[c].req \in Requests /\ Error("nil") \in Reply
    BY <1>2, ErrorType DEF IInv, CallInv, Errors
  <2> QED
    BY <2>1, CallTypes
<1>3. CASE Acquires(c)
  <2> DEFINE k == K("locked")
  <2>1. /\ k \in Calls /\ k.phase = "locked" /\ k.req = call[c].req
        /\ k.reply = Error("nil")
    BY <1>2, <1>3 DEF Acquires, Phases
  <2>2. Becomes(c, k) /\ UNCHANGED maps
    BY <1>3 DEF Acquires, Goes
  <2> HIDE DEF k
  <2>3. CallStep(c, k)
    BY <1>3, <2>1, <2>2 DEF CallStep, Acquires
  <2> QED
    BY <1>1, <2>2, <2>3, SameMaps
<1>4. CASE /\ call[c].phase = "locked" /\ UNCHANGED maps
           /\ Guard(call[c].req) = "nil"
           /\ UNCHANGED mu /\ Goes(c, "checked", Error("nil"))
  <2> DEFINE k == K("checked")
  <2>1. /\ k \in Calls /\ k.phase = "checked" /\ k.req = call[c].req
        /\ k.reply = Error("nil")
    BY <1>2, <1>4 DEF Phases
  <2>2. Becomes(c, k)
    BY <1>4 DEF Goes
  <2> HIDE DEF k
  <2>3. CallStep(c, k)
    BY <1>4, <2>1, <2>2 DEF CallStep
  <2> QED
    BY <1>1, <1>4, <2>3, SameMaps
<1>5. ASSUME NEW r \in Reply, UNCHANGED maps, call[c].phase \in Held,
             mu' = Release(mu, c), Becomes(c, Done(r))
      PROVE  MapStep(c) /\ \E k : CallStep(c, k)
  <2>1. CallStep(c, Done(r))
    BY <1>5, CallTypes DEF CallStep
  <2> QED
    BY <1>1, <1>5, <2>1, SameMaps
<1>6. CASE /\ call[c].phase = "locked" /\ UNCHANGED maps
           /\ mu' = Release(mu, c)
           /\ Becomes(c, Done(Error(Guard(call[c].req))))
  <2>1. Guard(call[c].req) \in Errors
    BY DEF Guard, Known, Errors
  <2>2. Error(Guard(call[c].req)) \in Reply
    BY <2>1, ErrorType
  <2> QED
    BY <1>5, <1>6, <2>2 DEF Held
<1>7. CASE Returns(c)
  BY <1>5, <1>7 DEF Returns, Held, IInv, TypeOK
<1>8. Checks(c) => \/ /\ call[c].phase = "locked" /\ UNCHANGED maps
                      /\ Guard(call[c].req) = "nil"
                      /\ UNCHANGED mu /\ Goes(c, "checked", Error("nil"))
                   \/ /\ call[c].phase = "locked" /\ UNCHANGED maps
                      /\ mu' = Release(mu, c)
                      /\ Becomes(c, Done(Error(Guard(call[c].req))))
  BY DEF Checks
<1> QED
  BY <1>3, <1>4, <1>6, <1>7, <1>8

\* Every step is a writer's announcement or one of those.
LEMMA CallerStep ==
  ASSUME IInv, Next
  PROVE  \E c \in Callers :
           Waits(c) \/ (MapStep(c) /\ \E k : CallStep(c, k))
<1>1. ASSUME NEW c \in Callers, NEW req \in Requests, Ask(c, req)
      PROVE  MapStep(c) /\ CallStep(c, Asked(req))
  BY <1>1, SameMaps, CallTypes DEF Ask, CallStep, IInv
<1> QED
  BY <1>1, LockStep, CreateStep, TransitionStep, ConsumeStep, ExpireStep,
     ReadStep DEF Next

-----------------------------------------------------------------------------
(* The invariant is inductive.                                             *)

LEMMA InitInv == Init => IInv
<1> SUFFICES ASSUME Init PROVE IInv
  OBVIOUS
<1> DEFINE d == Done(Error("nil"))
<1>1. d \in Calls /\ d.phase = "idle" /\ d.req = NoRequest
  BY ErrorType, CallTypes DEF Errors
<1> HIDE DEF d
<1>2. \A c \in Callers : call[c] = d
  BY DEF Init, d
<1>3. call \in [Callers -> Calls]
  BY <1>1, <1>2 DEF Init, d
<1>4. /\ sessions \in Table /\ \A i \in SessionIds : sessions[i] = NoRecord
      /\ byCheckout \in Index
      /\ \A k \in Checkouts : byCheckout[k] = NoSession
  BY DEF Init, Table, Index, Record, NoRecord, States
<1>5. mu \in Mutex(Callers) /\ WellLocked(mu)
  BY DEF Init, Unlocked, Mutex, WellLocked
<1>6. TypeOK
  BY <1>3, <1>4, <1>5 DEF TypeOK, Calls, Table, Index, Init
<1>7. CallInv /\ MayInv /\ LockInv /\ GuardInv /\ FreshInv
  BY <1>1, <1>2, <1>5
  DEF CallInv, MayInv, LockInv, GuardInv, FreshInv, Waiting, Held, Init
<1>8. NoRecord.checkout = NoCheckout
  BY DEF NoRecord
<1>9. MapInv
  BY <1>4, <1>8, NoCheckoutAssumption, NoSessionAssumption
  DEF MapInv, IndexAgrees, RowInv, BlankInv, Checkouts
<1> QED
  BY <1>6, <1>7, <1>9 DEF IInv

LEMMA WaitsInv ==
  ASSUME IInv, NEW c \in Callers, Waits(c)
  PROVE  IInv'
<1>1. UNCHANGED <<sessions, byCheckout, call, may>>
      /\ CanAnnounce(mu) /\ mu' = Announce(mu, c)
  BY DEF Waits, maps
<1>2. mu' \in Mutex(Callers) /\ WellLocked(mu')
      /\ mu'.writer = mu.writer /\ mu'.readers = mu.readers
  BY <1>1, MutexTypes, MutexSteps DEF IInv, TypeOK, LockInv
<1>3. TypeOK' /\ LockInv'
  BY <1>1, <1>2 DEF IInv, TypeOK, LockInv
<1>4. CallInv' /\ MayInv' /\ FreshInv'
  BY <1>1 DEF IInv, CallInv, MayInv, FreshInv
<1>5. GuardInv'
  BY <1>1 DEF IInv, GuardInv, Guard, Known, Exists
<1>6. MapInv'
  BY <1>1 DEF IInv, MapInv, IndexAgrees, RowInv, BlankInv
<1> QED
  BY <1>3, <1>4, <1>5, <1>6 DEF IInv

\* Checkout ids stay with the session they were given to.
LEMMA FreshStep ==
  ASSUME IInv, NEW c \in Callers, NEW k, CallStep(c, k), MapStep(c)
  PROVE  FreshInv'
<1>1. /\ call \in [Callers -> Calls]
      /\ call' = [call EXCEPT ![c] = k] /\ k \in Calls
  BY DEF IInv, TypeOK, Calls, CallStep, Becomes
<1>2. call'[c] = k /\ \A d \in Callers \ {c} : call'[d] = call[d]
  BY <1>1
<1>3. k.phase \in Waiting =>
        \/ k.req = call[c].req /\ call[c].phase \in Waiting
        \/ MayAsk(sessions, call, k.req) /\ UNCHANGED maps
  BY DEF CallStep, Waiting, Held
<1>4. Correlates(k.req) =>
        \/ k.req = call[c].req
        \/ MayAsk(sessions, call, k.req) /\ UNCHANGED maps
  BY DEF CallStep, Correlates, NoRequest
<1> SUFFICES ASSUME NEW d \in Callers, call'[d].phase \in Waiting,
                    Correlates(call'[d].req),
                    call'[d].req.move.update.checkout # NoCheckout
             PROVE  /\ \A i \in SessionIds \ {call'[d].req.id} :
                         sessions'[i].checkout
                           # call'[d].req.move.update.checkout
                    /\ \A e \in Callers :
                         /\ Correlates(call'[e].req)
                         /\ call'[e].req.move.update
                              = call'[d].req.move.update
                         => call'[e].req.id = call'[d].req.id
  BY DEF FreshInv
<1> DEFINE req == call'[d].req
<1>5. \/ req = call[d].req /\ call[d].phase \in Waiting
      \/ d = c /\ MayAsk(sessions, call, req) /\ UNCHANGED maps
  BY <1>2, <1>3
<1>6. ASSUME NEW e \in Callers, Correlates(call'[e].req),
             call'[e].req.move.update = req.move.update
      PROVE  call'[e].req.id = req.id
  <2>1. \/ call'[e].req = call[e].req
        \/ e = c /\ MayAsk(sessions, call, call'[e].req)
    BY <1>2, <1>4, <1>6
  <2>2. CASE /\ req = call[d].req /\ call[d].phase \in Waiting
             /\ call'[e].req = call[e].req
    BY <1>6, <2>2 DEF IInv, FreshInv
  <2>3. CASE /\ d = c /\ MayAsk(sessions, call, req)
             /\ call'[e].req = call[e].req
    BY <1>6, <2>3 DEF MayAsk
  <2>4. CASE /\ req = call[d].req
             /\ e = c /\ MayAsk(sessions, call, call'[e].req)
    BY <1>6, <2>4 DEF MayAsk
  <2>5. CASE d = c /\ e = c
    BY <2>5
  <2> QED
    BY <1>5, <2>1, <2>2, <2>3, <2>4, <2>5
<1>7. ASSUME NEW i \in SessionIds \ {req.id}
      PROVE  sessions'[i].checkout # req.move.update.checkout
  <2>1. CASE d = c /\ MayAsk(sessions, call, req) /\ UNCHANGED maps
    BY <2>1 DEF MayAsk, maps
  <2>2. CASE req = call[d].req /\ call[d].phase \in Waiting
    <3>1. sessions[i].checkout # req.move.update.checkout
      BY <2>2 DEF IInv, FreshInv
    <3>2. CASE sessions'[i].checkout = sessions[i].checkout
      BY <3>1, <3>2
    <3>3. CASE sessions'[i].checkout # sessions[i].checkout
      <4>1. /\ Correlates(call[c].req) /\ i = call[c].req.id
            /\ Writes(c)
            /\ sessions'[i].checkout = call[c].req.move.update.checkout
        BY <3>3 DEF MapStep
      <4>2. ASSUME call[c].req.move.update.checkout
                     = req.move.update.checkout
            PROVE  call[c].req.move.update = req.move.update
        <5>1. ASSUME NEW q \in Requests, Correlates(q)
              PROVE  q.move.update = CorrelationUpdate(q.move.update.checkout)
          <6>1. q.move \in Moves
            BY <5>1, RequestFields DEF Correlates
          <6> QED
            BY <5>1, <6>1, MoveTypes DEF Correlates
        <5>2. call[c].req \in Requests /\ req \in Requests
          BY <2>2, <4>1 DEF Writes, Waiting, IInv, CallInv
        <5> QED
          BY <4>1, <4>2, <5>1, <5>2
      <4>3. ASSUME call[c].req.move.update = req.move.update
            PROVE  call[c].req.id = req.id
        BY <2>2, <4>1, <4>3 DEF IInv, FreshInv
      <4> QED
        BY <4>1, <4>2, <4>3
    <3> QED
      BY <3>2, <3>3
  <2> QED
    BY <1>5, <2>1, <2>2
<1> QED
  BY <1>6, <1>7

LEMMA StepInv ==
  ASSUME IInv, NEW c \in Callers, NEW k, CallStep(c, k), MapStep(c)
  PROVE  IInv'
<1>1. /\ call \in [Callers -> Calls] /\ may \in [Callers -> SUBSET Errors]
      /\ mu \in Mutex(Callers)
      /\ call' = [call EXCEPT ![c] = k] /\ k \in Calls
      /\ may' = Justified(may, call', sessions')
  BY DEF IInv, TypeOK, Calls, CallStep, Becomes
<1>2. call' \in [Callers -> Calls] /\ call'[c] = k
      /\ \A d \in Callers \ {c} : call'[d] = call[d]
  BY <1>1
<1>3. MapInv'
  BY DEF MapStep
<1>4. TypeOK'
  <2>1. mu' \in Mutex(Callers)
    BY <1>1, MutexTypes DEF CallStep
  <2> QED
    BY <1>1, <1>2, <1>3, <2>1, JustifiedType
    DEF TypeOK, Calls, MapInv, Table, Index
<1>5. CallInv'
  <2>1. k.phase # "idle" => k.req \in Requests
    BY DEF CallStep, IInv, CallInv, Held
  <2>2. /\ k.phase = "idle" => k.req = NoRequest
        /\ k.phase \in {"asked", "locked", "checked"} =>
             k.reply = Error("nil")
    BY DEF CallStep
  <2> QED
    BY <1>2, <2>1, <2>2 DEF IInv, CallInv
<1>6. MayInv'
  BY <1>1, JustifiedNow DEF MayInv
<1>7. LockInv'
  <2>1. WellLocked(mu)
    BY DEF IInv, LockInv
  <2>2. CASE /\ k.phase = "locked" /\ call[c].phase = "asked"
             /\ k.req.op \in Writers
             /\ CanLock(mu, c) /\ mu' = Lock(mu, c)
    <3>1. WellLocked(mu') /\ mu'.writer = {c} /\ mu.writer = {}
          /\ mu.readers = {}
      BY <1>1, <2>1, <2>2, MutexSteps
    <3>2. \A d \in Callers \ {c} : call[d].phase \notin Held
      BY <3>1 DEF IInv, LockInv
    <3> QED
      BY <1>2, <2>2, <3>1, <3>2 DEF LockInv
  <2>3. CASE /\ k.phase = "locked" /\ call[c].phase = "asked"
             /\ k.req.op \notin Writers
             /\ CanRLock(mu) /\ mu' = RLock(mu, c)
    <3>1. /\ WellLocked(mu') /\ mu.writer = {}
          /\ mu'.readers = mu.readers \cup {c}
      BY <1>1, <2>1, <2>3, MutexSteps
    <3> QED
      BY <1>2, <2>3, <3>1 DEF IInv, LockInv
  <2>4. CASE /\ k.phase = "idle" /\ call[c].phase \in Held
             /\ mu' = Release(mu, c)
    <3>1. c \in mu.writer \cup mu.readers
      BY <2>4 DEF IInv, LockInv
    <3>2. WellLocked(mu')
      BY <1>1, <2>1, <2>4, <3>1, MutexSteps
    <3>3. ASSUME NEW d \in Callers \ {c}
          PROVE  /\ d \in mu.readers => d \in mu'.readers
                 /\ d \notin mu.writer
      BY <1>1, <2>1, <2>4, <3>1, MutexSteps
    <3>4. k.phase \notin Held
      BY <2>4 DEF Held
    <3> QED
      BY <1>2, <3>2, <3>3, <3>4 DEF IInv, LockInv
  <2>5. CASE UNCHANGED mu /\ k.phase = "asked"
    BY <1>2, <2>1, <2>5 DEF IInv, LockInv, Held
  <2>6. CASE /\ UNCHANGED mu /\ k.phase \in {"checked", "performed"}
             /\ k.req = call[c].req /\ call[c].phase \in {"locked", "checked"}
    BY <1>2, <2>1, <2>6 DEF IInv, LockInv, Held
  <2> QED
    BY <2>2, <2>3, <2>4, <2>5, <2>6 DEF CallStep
<1>8. GuardInv'
  <2> SUFFICES ASSUME NEW d \in Callers, call'[d].phase = "checked"
               PROVE  Guard(call[d].req)' = "nil"
    BY DEF GuardInv
  <2>1. UNCHANGED maps
    <3>1. CASE d = c
      BY <1>2, <3>1 DEF CallStep
    <3>2. CASE d # c
      <4>1. call[d].phase \in Held
        BY <1>2, <3>2 DEF Held
      <4>2. ~Writes(c)
        BY <3>2, <4>1, Exclusive DEF Writes, Held, IInv
      <4> QED
        BY <4>2 DEF CallStep
    <3> QED
      BY <3>1, <3>2
  <2>2. Guard(call'[d].req) = "nil"
    <3>1. CASE d = c
      BY <1>2, <3>1 DEF CallStep
    <3>2. CASE d # c
      BY <1>2, <3>2 DEF IInv, GuardInv
    <3> QED
      BY <3>1, <3>2
  <2> QED
    BY <2>1, <2>2 DEF Guard, Known, Exists, maps
<1> QED
  BY <1>3, <1>4, <1>5, <1>6, <1>7, <1>8, FreshStep DEF IInv

LEMMA NextInv == IInv /\ [Next]_vars => IInv'
<1> SUFFICES ASSUME IInv, [Next]_vars PROVE IInv'
  OBVIOUS
<1>1. CASE Next
  BY <1>1, CallerStep, WaitsInv, StepInv
<1>2. CASE UNCHANGED vars
  <2>1. UNCHANGED <<sessions, byCheckout, mu, call, may>>
    BY <1>2 DEF vars
  <2>2. TypeOK' /\ CallInv' /\ MayInv' /\ LockInv' /\ FreshInv'
    BY <2>1 DEF IInv, TypeOK, CallInv, MayInv, LockInv, FreshInv
  <2>3. GuardInv'
    BY <2>1 DEF IInv, GuardInv, Guard, Known, Exists
  <2>4. MapInv'
    BY <2>1 DEF IInv, MapInv, IndexAgrees, RowInv, BlankInv
  <2> QED
    BY <2>2, <2>3, <2>4 DEF IInv
<1> QED
  BY <1>1, <1>2

LEMMA Invariance == Spec => []IInv
  BY InitInv, NextInv, PTL DEF Spec

\* The maps hold records and session ids, replies hold rows that exist, and
\* the lock is held by callers.
THEOREM MemoryTypes == Spec => []TypeOK
<1>1. IInv => TypeOK
  BY DEF IInv
<1> QED
  BY <1>1, Invariance, PTL

\* The secondary index leads to a session exactly when it carries the
\* checkout id, whatever transitions race.
THEOREM IndexesAgree == Spec => []IndexAgrees
<1>1. IInv => IndexAgrees
  BY DEF IInv, MapInv
<1> QED
  BY <1>1, Invariance, PTL

-----------------------------------------------------------------------------
(* Nobody waits for a lock that nobody gives back.                         *)

\* The lock is held by calls that are past it, and announced by writers.
HolderInv ==
  \A c \in Callers :
    /\ c \in mu.readers \cup mu.writer => call[c].phase \in Held
    /\ c \in mu.pending => /\ call[c].phase = "asked"
                          /\ call[c].req.op \in Writers

LEMMA HolderStep ==
  ASSUME IInv, HolderInv, NEW c \in Callers, NEW k, CallStep(c, k)
  PROVE  HolderInv'
<1>1. /\ call'[c] = k
      /\ \A d \in Callers \ {c} : call'[d] = call[d]
      /\ mu \in Mutex(Callers)
  BY DEF IInv, TypeOK, Calls, CallStep, Becomes
<1>2. mu = [readers |-> mu.readers, pending |-> mu.pending,
            writer |-> mu.writer]
  BY <1>1 DEF Mutex
<1>3. CASE /\ k.phase = "asked" /\ call[c].phase = "idle"
           /\ UNCHANGED mu
  BY <1>1, <1>3 DEF HolderInv, Held
<1>4. CASE /\ k.phase = "locked"
           /\ CanLock(mu, c) /\ mu' = Lock(mu, c)
  <2>1. mu'.readers = {} /\ mu'.pending = {} /\ mu'.writer = {c}
    BY <1>2, <1>4 DEF CanLock, Lock
  <2> QED
    BY <1>1, <1>4, <2>1 DEF HolderInv, Held
<1>5. CASE /\ k.phase = "locked"
           /\ CanRLock(mu) /\ mu' = RLock(mu, c)
  <2>1. /\ mu'.readers = mu.readers \cup {c}
        /\ mu'.pending = {} /\ mu'.writer = {}
    BY <1>2, <1>5 DEF CanRLock, RLock
  <2> QED
    BY <1>1, <1>5, <2>1 DEF HolderInv, Held
<1>6. CASE /\ k.phase \in {"checked", "performed"}
           /\ call[c].phase \in {"locked", "checked"}
           /\ UNCHANGED mu
  BY <1>1, <1>6 DEF HolderInv, Held
<1>7. CASE /\ k.phase = "idle" /\ call[c].phase \in Held
           /\ mu' = Release(mu, c)
  <2>1. /\ mu'.readers = mu.readers \ {c}
        /\ mu'.pending = mu.pending /\ mu'.writer = {}
    BY <1>2, <1>7 DEF Release, RUnlock, Unlock
  <2> QED
    BY <1>1, <1>7, <2>1 DEF HolderInv, Held
<1> QED
  BY <1>3, <1>4, <1>5, <1>6, <1>7 DEF CallStep

LEMMA NextHolderInv ==
  ASSUME IInv, HolderInv, [Next]_vars
  PROVE  HolderInv'
<1>1. ASSUME NEW c \in Callers, Waits(c) PROVE HolderInv'
  <2>1. /\ UNCHANGED call
        /\ mu'.readers = mu.readers /\ mu'.pending = {c}
        /\ mu'.writer = mu.writer
    BY <1>1 DEF Waits, Announce, IInv, TypeOK, Mutex
  <2> QED
    BY <1>1, <2>1 DEF HolderInv, Waits
<1>2. CASE UNCHANGED vars
  BY <1>2 DEF vars, HolderInv
<1> QED
  BY <1>1, <1>2, CallerStep, HolderStep

\* Whenever a call waits for the lock, some call can go on.
THEOREM NoDeadlock == Spec => []NeverStuck
<1>1. Init => HolderInv
  BY DEF Init, HolderInv, Unlocked
<1>2. ASSUME IInv, HolderInv PROVE NeverStuck
  <2>1. /\ mu.readers \subseteq Callers /\ mu.pending \subseteq Callers
        /\ mu.writer \subseteq Callers
        /\ WellLocked(mu)
    BY <1>2 DEF IInv, TypeOK, Mutex, LockInv
  <2>2. CASE mu.readers \cup mu.writer # {}
    BY <1>2, <2>1, <2>2 DEF HolderInv, Held, NeverStuck, Proceeds
  <2>3. CASE mu.readers \cup mu.writer = {} /\ mu.pending = {}
    BY <2>3 DEF NeverStuck, Proceeds, CanRLock, CanAnnounce
  <2>4. ASSUME mu.readers = {}, NEW d \in mu.pending
        PROVE  NeverStuck
    BY <1>2, <2>1, <2>4
    DEF HolderInv, WellLocked, NeverStuck, Proceeds, CanLock
  <2> QED
    BY <2>1, <2>2, <2>3, <2>4
<1>3. IInv /\ HolderInv /\ [Next]_vars => HolderInv'
  BY NextHolderInv
<1>4. IInv /\ HolderInv => NeverStuck
  BY <1>2
<1> QED
  BY <1>1, <1>3, <1>4, Invariance, PTL DEF Spec

-----------------------------------------------------------------------------
(* The refinement.                                                         *)

View == [c \in Callers |-> Promised(call[c])]

\* The contract's notions are the adapter's.
LEMMA SameNotions ==
  /\ \A e : Contract!Error(e) = Error(e)
  /\ \A r : Contract!Done(r) = Done(r)
  /\ \A req : Contract!Asked(req) = Asked(req)
  /\ \A db, ids : Contract!Rows(db, ids) = Rows(db, ids)
  /\ \A s : Contract!IsTerminal(s) <=> IsTerminal(s)
  /\ Contract!NoRecord = NoRecord
  /\ Contract!NonTerminal = NonTerminal /\ Contract!Pending = Pending
  /\ \A db, c : Contract!Indexed(db, c) = Indexed(db, c)
<1>1. \A e : Contract!Error(e) = Error(e)
  BY DEF Error, Contract!Error
<1>2. Contract!NoRecord = NoRecord
  BY DEF NoRecord, Contract!NoRecord
<1>3. Contract!NonTerminal = NonTerminal /\ Contract!Pending = Pending
      /\ \A s : Contract!IsTerminal(s) <=> IsTerminal(s)
  BY DEF NonTerminal, Contract!NonTerminal, Pending, Contract!Pending,
         IsTerminal, Contract!IsTerminal, Terminal, Contract!Terminal,
         States, Contract!States
<1>4. \A r : Contract!Done(r) = Done(r)
  BY DEF Done, Contract!Done, NoRequest, Contract!NoRequest
<1>5. \A req : Contract!Asked(req) = Asked(req)
  BY <1>1 DEF Asked, Contract!Asked
<1>6. \A db, ids : Contract!Rows(db, ids) = Rows(db, ids)
  BY DEF Rows, Contract!Rows
<1>7. \A db, c : Contract!Indexed(db, c) = Indexed(db, c)
  BY DEF Indexed, Contract!Indexed
<1> QED
  BY <1>1, <1>2, <1>3, <1>4, <1>5, <1>6, <1>7

LEMMA SameRequests == Contract!Requests = Requests
<1>1. Contract!Checkouts = Checkouts
  BY DEF Checkouts, Contract!Checkouts
<1>2. Contract!Terminal = Terminal
  BY DEF Terminal, Contract!Terminal
<1>3. Contract!NoUpdate = NoUpdate
  BY DEF NoUpdate, Contract!NoUpdate
<1>4. \A e : Contract!UpdatesFor(e) = UpdatesFor(e)
  BY <1>1, <1>3 DEF UpdatesFor, Contract!UpdatesFor, CorrelationUpdate,
     Contract!CorrelationUpdate, ReceiptUpdate, Contract!ReceiptUpdate
<1>5. Contract!validTransitions = validTransitions
  BY DEF validTransitions, Contract!validTransitions
<1>6. Contract!TableMoves = TableMoves
  BY <1>4, <1>5 DEF TableMoves, Contract!TableMoves
<1>7. Contract!Moves = Moves
  BY <1>2, <1>3, <1>6 DEF Moves, Contract!Moves
<1> QED
  BY <1>1, <1>7 DEF Requests, Contract!Requests

LEMMA SameJustified ==
  ASSUME NEW m, NEW calls, NEW db
  PROVE  Contract!Justified(m, calls, db) = Justified(m, calls, db)
<1>1. ASSUME NEW req PROVE Contract!Refusals(db, req) = Refusals(db, req)
  BY SameNotions DEF Refusals, Contract!Refusals
<1> QED
  BY <1>1 DEF Justified, Contract!Justified, Waiting, Contract!Waiting

\* What the contract sees of a call.
LEMMA PromiseFields ==
  ASSUME NEW k \in Calls
  PROVE  /\ Promised(k).req = k.req
         /\ Promised(k).reply = k.reply
         /\ Promised(k).phase =
              IF k.phase \in {"locked", "checked"} THEN "asked" ELSE k.phase
         /\ Promised(k).phase \in Waiting <=> k.phase \in Waiting
         /\ k.phase \in {"idle", "asked", "performed"} => Promised(k) = k
         /\ Promised(k) = [phase |-> Promised(k).phase, req |-> k.req,
                           reply |-> k.reply]
  BY DEF Promised, Calls, Waiting, Phases

LEMMA ViewFields ==
  ASSUME IInv, NEW c \in Callers
  PROVE  /\ View[c] = Promised(call[c])
         /\ View[c].req = call[c].req /\ View[c].reply = call[c].reply
         /\ call[c].phase \in {"asked", "locked", "checked"} =>
              View[c].phase = "asked"
         /\ call[c].phase = "performed" => View[c].phase = "performed"
         /\ call[c].phase = "idle" => View[c].phase = "idle"
  BY PromiseFields DEF View, IInv, TypeOK, Calls

\* A step of one caller is seen as a step of that caller.
LEMMA ViewStep ==
  ASSUME IInv, IInv', NEW c \in Callers, NEW k, Becomes(c, k)
  PROVE  Contract!Becomes(c, Promised(k))
<1>1. /\ call \in [Callers -> Calls] /\ call' \in [Callers -> Calls]
      /\ call' = [call EXCEPT ![c] = k]
      /\ may' = Justified(may, call', sessions')
  BY DEF IInv, TypeOK, Calls, Becomes
<1> DEFINE views == [d \in Callers |-> Promised(call'[d])]
<1>2. View' = views
  BY DEF View, Promised
<1>3. View' = [View EXCEPT ![c] = Promised(k)]
  BY <1>1, <1>2 DEF View
<1>4. \A d \in Callers : /\ call'[d].phase \in Waiting
                            <=> views[d].phase \in Waiting
                         /\ call'[d].req = views[d].req
  BY <1>1, PromiseFields
<1>5. Justified(may, call', sessions') = Justified(may, views, sessions')
  BY <1>4, JustifiedAgrees
<1>6. may' = Contract!Justified(may, View', sessions')
  BY <1>1, <1>2, <1>5, SameJustified
<1> QED
  BY <1>3, <1>6 DEF Contract!Becomes, View

\* Taking the lock and passing the guards is invisible.
LEMMA StutterStep ==
  ASSUME IInv, IInv', NEW c \in Callers, NEW k, Becomes(c, k),
         UNCHANGED sessions, Promised(k) = View[c]
  PROVE  UNCHANGED <<sessions, View, may>>
<1>1. /\ View' = [View EXCEPT ![c] = View[c]]
      /\ may' = Justified(may, View', sessions')
  BY ViewStep, SameJustified DEF Contract!Becomes, View
<1>2. View' = View
  BY <1>1 DEF View
<1>3. Justified(may, View, sessions) = may
  <2>1. \A d \in Callers : /\ call[d].phase \in Waiting
                              <=> View[d].phase \in Waiting
                           /\ call[d].req = View[d].req
    BY PromiseFields DEF View, IInv, TypeOK, Calls
  <2>2. may \in [Callers -> SUBSET Errors]
    BY DEF IInv, TypeOK
  <2> HIDE DEF View
  <2> QED
    BY <2>1, <2>2 DEF Justified, IInv, MayInv
<1> QED
  BY <1>1, <1>2, <1>3

\* Past its guards a call answers in one of the contract's steps.
LEMMA AnswersView ==
  ASSUME IInv, IInv', NEW c \in Callers, NEW r, Answers(c, r)
  PROVE  Contract!Goes(c, "performed", r)
<1> DEFINE k == [phase |-> "performed", req |-> call[c].req, reply |-> r]
<1>1. Becomes(c, k)
  BY DEF Answers, Goes
<1>2. Promised(k) = k
  BY DEF Promised
<1>3. Contract!Becomes(c, k)
  <2> HIDE DEF k
  <2> QED
    BY <1>1, <1>2, ViewStep
<1>4. View[c].req = call[c].req
  BY ViewFields
<1> QED
  BY <1>3, <1>4 DEF Contract!Goes, View

\* An error of the guards is one the contract allows.
LEMMA GuardRefuses ==
  ASSUME IInv, NEW req \in Requests, Guard(req) # "nil"
  PROVE  Guard(req) \in Refusals(sessions, req)
<1>1. CASE req.op \in {"Create", "Get"}
  BY <1>1 DEF Guard, Known, Exists, Refusals
<1>2. CASE req.op = "GetByCheckoutID"
  <2> DEFINE k == req.checkout
  <2>1. k \in Checkouts
    BY <1>2, RequestFields
  <2>2. Guard(req) = "ErrNotFound"
    BY <1>2 DEF Guard, Known
  <2>3. CASE k = NoCheckout
    BY <1>2, <2>2, <2>3 DEF Refusals
  <2>4. CASE k # NoCheckout
    <3>1. k \in CheckoutIds
      BY <2>1, <2>4 DEF Checkouts
    <3>2. ASSUME NEW i \in SessionIds, i \in Indexed(sessions, k)
          PROVE  FALSE
      <4>1. sessions[i].checkout = k /\ sessions[i].state # "ABSENT"
        BY <3>2 DEF Indexed
      <4>2. byCheckout[k] = i
        BY <3>1, <4>1 DEF IInv, MapInv, IndexAgrees
      <4>3. Guard(req) = "nil"
        BY <1>2, <4>1, <4>2, NoSessionAssumption DEF Guard, Known, Exists
      <4> QED
        BY <4>3
    <3>3. Indexed(sessions, k) = {}
      BY <3>2 DEF Indexed
    <3> QED
      BY <1>2, <2>2, <3>3 DEF Refusals
  <2> QED
    BY <2>3, <2>4
<1>3. CASE req.op = "Transition"
  <2>1. req.move \in Moves
    BY <1>3, RequestFields
  <2>2. req.move.from # "ABSENT"
    BY <2>1, MoveTypes DEF States
  <2> QED
    BY <1>3, <2>2 DEF Guard, Refusals
<1>4. CASE req.op = "ConsumeIfConfirmed"
  BY <1>4 DEF Guard, Refusals
<1>5. CASE req.op \in {"ExpireStale", "ListPending"}
  BY <1>5 DEF Guard
<1> QED
  BY <1>1, <1>2, <1>3, <1>4, <1>5, RequestFields

LEMMA AskView ==
  ASSUME IInv, IInv', NEW c \in Callers, NEW req \in Requests, Ask(c, req)
  PROVE  Contract!Ask(c, req)
<1>1. Becomes(c, Asked(req)) /\ UNCHANGED sessions /\ call[c].phase = "idle"
      /\ MayAsk(sessions, call, req)
  BY DEF Ask, maps
<1>2. Promised(Asked(req)) = Asked(req)
  BY DEF Promised, Asked
<1>3. Contract!Becomes(c, Asked(req))
  BY <1>1, <1>2, ViewStep
<1>4. Contract!Becomes(c, Contract!Asked(req))
  BY <1>3, SameNotions
<1>5. View[c].phase = "idle"
  BY <1>1, ViewFields
<1>6. Contract!MayAsk(sessions, View, req)
  <2>1. \A d \in Callers : View[d].req = call[d].req
    BY ViewFields
  <2>2. \A q : Contract!Correlates(q) <=> Correlates(q)
    BY DEF Correlates, Contract!Correlates
  <2>3. \A i : Contract!Exists(sessions, i) <=> Exists(sessions, i)
    BY DEF Exists, Contract!Exists
  <2> HIDE DEF View
  <2> QED
    BY <1>1, <2>1, <2>2, <2>3 DEF MayAsk, Contract!MayAsk
<1> QED
  BY <1>1, <1>4, <1>5, <1>6 DEF Contract!Ask, View

\* The lock and the guards.
LEMMA LockView ==
  ASSUME IInv, IInv', NEW c \in Callers,
         Waits(c) \/ Acquires(c) \/ Checks(c) \/ Returns(c)
  PROVE  \/ UNCHANGED <<sessions, View, may>>
         \/ Contract!Refuses(c) \/ Contract!Returns(c)
<1> DEFINE K(p) == [phase |-> p, req |-> call[c].req, reply |-> Error("nil")]
<1>1. CASE Waits(c)
  BY <1>1 DEF Waits, maps, View, Promised
<1>2. ASSUME NEW p \in {"locked", "checked"},
             call[c].phase \in {"asked", "locked"},
             Goes(c, p, Error("nil")), UNCHANGED sessions
      PROVE  UNCHANGED <<sessions, View, may>>
  <2>1. Becomes(c, K(p))
    BY <1>2 DEF Goes
  <2>2. Promised(K(p)) = K("asked")
    BY DEF Promised
  <2>3. View[c] = [phase |-> "asked", req |-> call[c].req,
                   reply |-> call[c].reply]
    BY <1>2, ViewFields, PromiseFields DEF IInv, TypeOK, Calls
  <2>4. call[c].reply = Error("nil")
    BY <1>2 DEF IInv, CallInv
  <2>5. Promised(K(p)) = View[c]
    BY <2>2, <2>3, <2>4
  <2> HIDE DEF K
  <2> QED
    BY <1>2, <2>1, <2>5, StutterStep
<1>3. CASE Acquires(c)
  BY <1>2, <1>3 DEF Acquires, maps
<1>4. CASE Checks(c)
  <2> DEFINE e == Guard(call[c].req)
  <2>1. call[c].phase = "locked" /\ UNCHANGED sessions
        /\ call[c].req \in Requests
    BY <1>4 DEF Checks, maps, IInv, CallInv
  <2>2. CASE e = "nil"
    BY <1>2, <1>4, <2>1, <2>2 DEF Checks
  <2>3. CASE e # "nil"
    <3>1. Becomes(c, Done(Error(e)))
      BY <1>4, <2>3 DEF Checks
    <3>2. e \in may[c]
      BY <2>1, <2>3, GuardRefuses DEF IInv, MayInv, Waiting
    <3> HIDE DEF e
    <3>3. Promised(Done(Error(e))) = Contract!Done(Contract!Error(e))
      BY SameNotions DEF Promised, Done
    <3>4. Contract!Becomes(c, Contract!Done(Contract!Error(e)))
      BY <3>1, <3>3, ViewStep
    <3>5. View[c].phase = "asked"
      BY <2>1, ViewFields
    <3> QED
      BY <2>1, <3>2, <3>4, <3>5 DEF Contract!Refuses, View
  <2> QED
    BY <2>2, <2>3
<1>5. CASE Returns(c)
  <2>1. Becomes(c, Done(call[c].reply)) /\ UNCHANGED sessions
        /\ call[c].phase = "performed"
    BY <1>5 DEF Returns, maps
  <2>2. View[c].phase = "performed" /\ View[c].reply = call[c].reply
    BY <2>1, ViewFields
  <2>3. Promised(Done(call[c].reply)) = Contract!Done(View[c].reply)
    BY <2>2, SameNotions DEF Promised, Done
  <2>4. Contract!Becomes(c, Contract!Done(View[c].reply))
    BY <2>1, <2>3, ViewStep
  <2> QED
    BY <2>1, <2>2, <2>4 DEF Contract!Returns, View
<1> QED
  BY <1>1, <1>3, <1>4, <1>5

\* What the contract sees of a method past its guards.
LEMMA PassedView ==
  ASSUME IInv, NEW c \in Callers, NEW op, Passed(c, op)
  PROVE  /\ View[c].phase = "asked" /\ View[c].req = call[c].req
         /\ Contract!Asks(c, op)
  BY ViewFields DEF Passed, Contract!Asks, View

LEMMA WriteView ==
  ASSUME IInv, IInv', NEW c \in Callers,
         Create(c) \/ Transition(c) \/ ConsumeIfConfirmed(c)
  PROVE  Contract!Creates(c) \/ Contract!Transitions(c) \/ Contract!Consumes(c)
<1> DEFINE req == call[c].req
           id  == req.id
<1>1. CASE Create(c)
  <2>1. /\ req \in Requests /\ req.op = "Create" /\ Guard(req) = "nil"
    BY <1>1, PassedFacts DEF Create
  <2>2. sessions[id].state = "ABSENT"
    BY <2>1 DEF Guard, Exists
  <2>3. Contract!Goes(c, "performed", Contract!Error("nil"))
    BY <1>1, AnswersView, SameNotions DEF Create
  <2>4. Contract!Asks(c, "Create") /\ View[c].req = req
    BY <1>1, PassedView DEF Create
  <2>5. sessions' = [sessions EXCEPT ![id] =
                       [Contract!NoRecord EXCEPT !.state = "CREATED"]]
    <3>1. ASSUME NEW r \in Record
          PROVE  [r EXCEPT !.state = "CREATED"] =
                   [state |-> "CREATED", checkout |-> r.checkout,
                    receipt |-> r.receipt]
      BY DEF Record
    <3>2. NoRecord \in Record /\ NoRecord.checkout = NoCheckout
          /\ NoRecord.receipt = FALSE
      BY DEF NoRecord, Record
    <3>3. [NoRecord EXCEPT !.state = "CREATED"] =
            [state |-> "CREATED", checkout |-> NoCheckout, receipt |-> FALSE]
      BY <3>1, <3>2
    <3> QED
      BY <1>1, <3>3, SameNotions DEF Create, Inserted
  <2> QED
    BY <2>2, <2>3, <2>4, <2>5 DEF Contract!Creates, View
<1>2. CASE Transition(c)
  <2> DEFINE move == req.move
  <2>1. /\ req \in Requests /\ req.op = "Transition" /\ Guard(req) = "nil"
    BY <1>2, PassedFacts DEF Transition
  <2>2. id \in SessionIds /\ move \in Moves
    BY <2>1, RequestFields
  <2>3. move.from # "ABSENT"
    BY <2>2, MoveTypes DEF States
  <2>4. sessions[id].state = move.from /\ ~IsTerminal(move.from)
    BY <2>1, <2>3 DEF Guard
  <2>5. Contract!Goes(c, "performed", Contract!Error("nil"))
    BY <1>2, AnswersView, SameNotions DEF Transition
  <2>6. Contract!Asks(c, "Transition") /\ View[c].req = req
    BY <1>2, PassedView DEF Transition
  <2>7. sessions' = [sessions EXCEPT
          ![id].state    = move.to,
          ![id].checkout = IF move.update.checkout = NoCheckout THEN @
                           ELSE move.update.checkout,
          ![id].receipt  = @ \/ move.update.receipt]
    <3>1. sessions[id] \in Record /\ sessions \in [SessionIds -> Record]
      BY <2>2 DEF IInv, TypeOK
    <3>2. sessions' = Updated(sessions, id, move.to, move.update)
      BY <1>2 DEF Transition
    <3> QED
      BY <2>2, <3>1, <3>2 DEF Updated, Record
  <2> QED
    BY <2>4, <2>5, <2>6, <2>7, SameNotions DEF Contract!Transitions, View
<1>3. CASE ConsumeIfConfirmed(c)
  <2>1. /\ req \in Requests /\ req.op = "ConsumeIfConfirmed"
        /\ Guard(req) = "nil"
    BY <1>3, PassedFacts DEF ConsumeIfConfirmed
  <2>2. sessions[id].state = "CONFIRMED"
    BY <2>1 DEF Guard
  <2>3. Contract!Goes(c, "performed", Contract!Rows(sessions', {id}))
    BY <1>3, AnswersView, SameNotions DEF ConsumeIfConfirmed
  <2>4. Contract!Asks(c, "ConsumeIfConfirmed") /\ View[c].req = req
    BY <1>3, PassedView DEF ConsumeIfConfirmed
  <2> QED
    BY <1>3, <2>2, <2>3, <2>4 DEF ConsumeIfConfirmed, Contract!Consumes, View
<1> QED
  BY <1>1, <1>2, <1>3

LEMMA ReadView ==
  ASSUME IInv, IInv', NEW c \in Callers, Get(c) \/ GetByCheckoutID(c)
  PROVE  Contract!Gets(c) \/ Contract!LooksUp(c)
<1> DEFINE req == call[c].req
<1>1. CASE Get(c)
  <2>1. /\ req \in Requests /\ req.op = "Get" /\ Guard(req) = "nil"
    BY <1>1, PassedFacts DEF Get
  <2>2. sessions[req.id].state # "ABSENT"
    BY <2>1 DEF Guard, Known, Exists
  <2>3. Contract!Goes(c, "performed", Contract!Rows(sessions, {req.id}))
    BY <1>1, AnswersView, SameNotions DEF Get
  <2>4. Contract!Asks(c, "Get") /\ View[c].req = req
    BY <1>1, PassedView DEF Get
  <2> QED
    BY <1>1, <2>2, <2>3, <2>4 DEF Get, maps, Contract!Gets, View
<1>2. CASE GetByCheckoutID(c)
  <2> DEFINE k == req.checkout
             i == byCheckout[k]
  <2>1. /\ req \in Requests /\ req.op = "GetByCheckoutID"
        /\ Guard(req) = "nil"
    BY <1>2, PassedFacts DEF GetByCheckoutID
  <2>2. k \in Checkouts
    BY <2>1, RequestFields
  <2>3. i # NoSession /\ Known(i) = "nil"
    BY <2>1 DEF Guard
  <2>4. i \in SessionIds
    BY <2>2, <2>3 DEF IInv, MapInv, Index
  <2>5. /\ sessions[i].checkout = k
        /\ sessions[i].state \notin {"ABSENT", "CREATED"}
    <3>1. CASE k = NoCheckout
      BY <2>4, <3>1 DEF IInv, MapInv, BlankInv
    <3>2. CASE k # NoCheckout
      <4>1. sessions[i].checkout = k
        BY <2>2, <2>4, <3>2 DEF IInv, MapInv, IndexAgrees, Checkouts
      <4> QED
        BY <2>4, <3>2, <4>1 DEF IInv, MapInv, RowInv
    <3> QED
      BY <3>1, <3>2
  <2>6. i \in Contract!Indexed(sessions, k)
    BY <2>4, <2>5, SameNotions DEF Indexed
  <2>7. Contract!Goes(c, "performed", Contract!Rows(sessions, {i}))
    BY <1>2, AnswersView, SameNotions DEF GetByCheckoutID
  <2>8. Contract!Asks(c, "GetByCheckoutID") /\ View[c].req = req
    BY <1>2, PassedView DEF GetByCheckoutID
  <2> QED
    BY <1>2, <2>6, <2>7, <2>8 DEF GetByCheckoutID, maps, Contract!LooksUp, View
<1> QED
  BY <1>1, <1>2

LEMMA BulkView ==
  ASSUME IInv, IInv', NEW c \in Callers,
         ExpireStaleSessions(c) \/ ListPendingSessions(c)
  PROVE  Contract!Expires(c) \/ Contract!Lists(c)
<1> DEFINE old == call[c].req.old
<1>1. CASE ExpireStaleSessions(c)
  <2> DEFINE due == {i \in old : sessions[i].state \in NonTerminal}
  <2>1. sessions' = [i \in SessionIds |->
          IF i \in due THEN [sessions[i] EXCEPT !.state = "TIMEOUT"]
                       ELSE sessions[i]]
    BY <1>1 DEF ExpireStaleSessions, ExpireStale
  <2>2. Contract!Goes(c, "performed", Contract!Rows(sessions', due))
    <3>1. Answers(c, Rows(sessions', due))
      BY <1>1 DEF ExpireStaleSessions
    <3> HIDE DEF due
    <3> QED
      BY <3>1, AnswersView, SameNotions
  <2>3. Contract!Asks(c, "ExpireStale") /\ View[c].req = call[c].req
    BY <1>1, PassedView DEF ExpireStaleSessions
  <2>4. due = {i \in old : sessions[i].state \in Contract!NonTerminal}
    BY SameNotions
  <2> HIDE DEF due
  <2> QED
    BY <2>1, <2>2, <2>3, <2>4 DEF Contract!Expires, View
<1>2. CASE ListPendingSessions(c)
  <2> DEFINE ids  == {r.id : r \in ListPending(sessions, old)}
             open == {i \in old : sessions[i].state \in Pending}
  <2>1. ids = open
    <3>1. ASSUME NEW i \in ids PROVE i \in open
      <4>1. PICK r \in ListPending(sessions, old) : i = r.id
        BY DEF ids
      <4> QED
        BY <4>1 DEF ListPending
    <3>2. ASSUME NEW i \in open PROVE i \in ids
      <4> DEFINE r == [id |-> i, from |-> sessions[i].state,
                       checkout |-> sessions[i].checkout]
      <4>1. r \in ListPending(sessions, old) /\ r.id = i
        BY DEF ListPending
      <4> QED
        BY <4>1
    <3> QED
      BY <3>1, <3>2
  <2>2. Contract!Goes(c, "performed", Contract!Rows(sessions, open))
    <3>1. Answers(c, Rows(sessions, ids))
      BY <1>2 DEF ListPendingSessions
    <3> HIDE DEF ids, open
    <3> QED
      BY <2>1, <3>1, AnswersView, SameNotions
  <2>3. open = {i \in old : sessions[i].state \in Contract!Pending}
    BY SameNotions
  <2>4. Contract!Asks(c, "ListPending") /\ View[c].req = call[c].req
    BY <1>2, PassedView DEF ListPendingSessions
  <2>5. UNCHANGED sessions
    BY <1>2 DEF ListPendingSessions, maps
  <2> HIDE DEF open
  <2> QED
    BY <2>2, <2>3, <2>4, <2>5 DEF Contract!Lists, View
<1> QED
  BY <1>1, <1>2

-----------------------------------------------------------------------------

LEMMA InitView == Init => Contract!Init
<1> SUFFICES ASSUME Init PROVE Contract!Init
  OBVIOUS
<1>1. View = [c \in Callers |-> Contract!Done(Contract!Error("nil"))]
  <2>1. \A c \in Callers : Promised(call[c]) = Done(Error("nil"))
    BY DEF Init, Promised, Done
  <2> QED
    BY <2>1, SameNotions DEF View
<1> QED
  BY <1>1, SameNotions DEF Init, Contract!Init, View

LEMMA NextView ==
  ASSUME IInv, IInv', [Next]_vars
  PROVE  [Contract!Next]_<<sessions, View, may>>
<1>1. CASE Next
  <2>1. PICK c \in Callers :
          \/ \E req \in Requests : Ask(c, req)
          \/ Waits(c) \/ Acquires(c) \/ Checks(c)
          \/ Create(c) \/ Get(c) \/ GetByCheckoutID(c) \/ Transition(c)
          \/ ConsumeIfConfirmed(c) \/ ExpireStaleSessions(c)
          \/ ListPendingSessions(c) \/ Returns(c)
    BY <1>1 DEF Next
  <2>2. ASSUME NEW req \in Requests, Ask(c, req)
        PROVE  \E q \in Contract!Requests : Contract!Ask(c, q)
    BY <2>2, AskView, SameRequests
  <2>3. \/ \E q \in Contract!Requests : Contract!Ask(c, q)
        \/ Contract!Creates(c) \/ Contract!Gets(c) \/ Contract!LooksUp(c)
        \/ Contract!Transitions(c) \/ Contract!Consumes(c)
        \/ Contract!Expires(c) \/ Contract!Lists(c) \/ Contract!Returns(c)
        \/ Contract!Refuses(c)
        \/ UNCHANGED <<sessions, View, may>>
    BY <2>1, <2>2, LockView, WriteView, ReadView, BulkView
  <2> QED
    BY <2>3 DEF Contract!Next
<1>2. CASE UNCHANGED vars
  BY <1>2 DEF vars, View, Promised
<1> QED
  BY <1>1, <1>2

\* Every method of the memory adapter takes effect at one moment, and each
\* refusal was true during the call, whoever calls.
THEOREM MemoryImplementsContract == Spec => ImplementsContract
<1>1. IInv /\ IInv' /\ [Next]_vars => [Contract!Next]_<<sessions, View, may>>
  BY NextView
<1> QED
  BY <1>1, InitView, Invariance, PTL
  DEF Spec, ImplementsContract, Contract!Spec, View
=============================================================================
