--------------------------- MODULE MemoryAdapter ---------------------------
(***************************************************************************)
(* store/memory: concurrent calls of the adapter's methods on two maps     *)
(* under one RWMutex.  A method takes the lock, tests its guards, then     *)
(* writes or copies, and unlocks when it returns; all of these are steps.  *)
(***************************************************************************)
EXTENDS StorageCalls, RWMutex

CONSTANT NoSession   \* no session id in byCheckout

ASSUME NoSessionAssumption == NoSession \notin SessionIds

VARIABLES
  sessions,     \* primary index
  byCheckout,   \* secondary index: checkout id to session id
  mu,           \* the lock
  call,         \* per caller: phase, request and reply of its latest call
  may           \* history: the refusals that are justified by now

vars == <<sessions, byCheckout, mu, call, may>>

Phases == {"idle", "asked", "locked", "checked", "performed"}

\* The maps hold records and ids; the lock is held by callers.
TypeOK ==
  /\ sessions \in [SessionIds -> Record]
  /\ byCheckout \in [Checkouts -> SessionIds \cup {NoSession}]
  /\ mu \in Mutex(Callers)
  /\ call \in [Callers -> [phase : Phases, req : Requests \cup {NoRequest},
                           reply : Reply]]
  /\ may \in [Callers -> SUBSET Errors]

\* NewMemoryAdapter.
Init ==
  /\ sessions = [i \in SessionIds |-> NoRecord]
  /\ byCheckout = [c \in Checkouts |-> NoSession]
  /\ mu = Unlocked
  /\ call = [c \in Callers |-> Done(Error("nil"))]
  /\ may = [c \in Callers |-> {}]

maps == <<sessions, byCheckout>>

Becomes(c, k) ==
  /\ call' = [call EXCEPT ![c] = k]
  /\ may' = Justified(may, call', sessions')

Goes(c, phase, reply) ==
  Becomes(c, [phase |-> phase, req |-> call[c].req, reply |-> reply])

Ask(c, req) ==
  /\ call[c].phase = "idle"
  /\ MayAsk(sessions, call, req)
  /\ UNCHANGED <<maps, mu>>
  /\ Becomes(c, Asked(req))

-----------------------------------------------------------------------------
(* The lock.                                                               *)

\* Fault: ConsumeIfConfirmed takes the read lock.
WritersExceptConsume == {"Create", "Transition", "ExpireStale"}

\* Fault: Transition takes the read lock.
WritersExceptTransition == {"Create", "ConsumeIfConfirmed", "ExpireStale"}

Writers == {"Create", "Transition", "ConsumeIfConfirmed", "ExpireStale"}

Release(m, c) == Unlock(RUnlock(m, c), c)

Waits(c) ==
  /\ call[c].phase = "asked" /\ call[c].req.op \in Writers
  /\ CanAnnounce(mu)
  /\ mu' = Announce(mu, c)
  /\ UNCHANGED <<maps, call, may>>

Acquires(c) ==
  /\ call[c].phase = "asked"
  /\ IF call[c].req.op \in Writers
     THEN CanLock(mu, c) /\ mu' = Lock(mu, c)
     ELSE CanRLock(mu)   /\ mu' = RLock(mu, c)
  /\ UNCHANGED maps
  /\ Goes(c, "locked", Error("nil"))

-----------------------------------------------------------------------------
(* The guards of the methods: the error they return, or "nil".             *)

\* Fault: the second result of the map lookup is not looked at.
Assumed(id) == "nil"

Known(id) == IF Exists(sessions, id) THEN "nil" ELSE "ErrNotFound"

Guard(req) ==
  LET state == sessions[req.id].state
  IN CASE req.op = "Create" ->
            IF Exists(sessions, req.id) THEN "ErrSessionExists" ELSE "nil"
       [] req.op = "Get" -> Known(req.id)
       [] req.op = "GetByCheckoutID" ->
            IF byCheckout[req.checkout] = NoSession THEN "ErrNotFound"
            ELSE Known(byCheckout[req.checkout])
       [] req.op = "Transition" ->
            CASE state = "ABSENT"      -> "ErrNotFound"
              [] state = req.move.from /\ ~IsTerminal(state) -> "nil"
              [] OTHER                 -> "ErrInvalidTransition"
       [] req.op = "ConsumeIfConfirmed" ->
            CASE state = "ABSENT"    -> "ErrNotFound"
              [] state = "CONSUMED"  -> "ErrAlreadyConsumed"
              [] state = "CONFIRMED" -> "nil"
              [] OTHER               -> "ErrInvalidTransition"
       [] OTHER -> "nil"

\* Fault: an error returns without the Unlock.
ChecksLeaving(c) ==
  LET error == Guard(call[c].req)
  IN /\ call[c].phase = "locked"
     /\ UNCHANGED <<maps, mu>>
     /\ IF error = "nil"
        THEN Goes(c, "checked", Error("nil"))
        ELSE Becomes(c, Done(Error(error)))

\* An error returns at once, and the deferred Unlock runs.
Checks(c) ==
  LET error == Guard(call[c].req)
  IN /\ call[c].phase = "locked"
     /\ UNCHANGED maps
     /\ IF error = "nil"
        THEN UNCHANGED mu /\ Goes(c, "checked", Error("nil"))
        ELSE mu' = Release(mu, c) /\ Becomes(c, Done(Error(error)))

-----------------------------------------------------------------------------
(* Past its guards, a method writes the maps or copies records.            *)

Passed(c, op) ==
  /\ call[c].phase = "checked" /\ call[c].req.op = op
  /\ UNCHANGED mu

Answers(c, reply) == Goes(c, "performed", reply)

Create(c) ==
  /\ Passed(c, "Create")
  /\ sessions' = Inserted(sessions, call[c].req.id)
  /\ UNCHANGED byCheckout
  /\ Answers(c, Error("nil"))

Get(c) ==
  /\ Passed(c, "Get")
  /\ UNCHANGED maps
  /\ Answers(c, Rows(sessions, {call[c].req.id}))

GetByCheckoutID(c) ==
  /\ Passed(c, "GetByCheckoutID")
  /\ UNCHANGED maps
  /\ Answers(c, Rows(sessions, {byCheckout[call[c].req.checkout]}))

\* A checkout id that is not nil, the empty one included, is indexed.
Transition(c) ==
  LET id   == call[c].req.id
      move == call[c].req.move
  IN /\ Passed(c, "Transition")
     /\ sessions' = Updated(sessions, id, move.to, move.update)
     /\ byCheckout' = IF Correlates(call[c].req)
                      THEN [byCheckout EXCEPT ![move.update.checkout] = id]
                      ELSE byCheckout
     /\ Answers(c, Error("nil"))

ConsumeIfConfirmed(c) ==
  LET id == call[c].req.id
  IN /\ Passed(c, "ConsumeIfConfirmed")
     /\ sessions' = [sessions EXCEPT ![id].state = "CONSUMED"]
     /\ UNCHANGED byCheckout
     /\ Answers(c, Rows(sessions', {id}))

ExpireStaleSessions(c) ==
  LET due == {i \in call[c].req.old : sessions[i].state \in NonTerminal}
  IN /\ Passed(c, "ExpireStale")
     /\ sessions' = ExpireStale(sessions, call[c].req.old)
     /\ UNCHANGED byCheckout
     /\ Answers(c, Rows(sessions', due))

ListPendingSessions(c) ==
  /\ Passed(c, "ListPending")
  /\ UNCHANGED maps
  /\ Answers(c, Rows(sessions, {r.id : r \in
                                 ListPending(sessions, call[c].req.old)}))

Returns(c) ==
  /\ call[c].phase = "performed"
  /\ mu' = Release(mu, c)
  /\ UNCHANGED maps
  /\ Becomes(c, Done(call[c].reply))

Next ==
  \E c \in Callers :
    \/ \E req \in Requests : Ask(c, req)
    \/ Waits(c) \/ Acquires(c) \/ Checks(c)
    \/ Create(c) \/ Get(c) \/ GetByCheckoutID(c) \/ Transition(c)
    \/ ConsumeIfConfirmed(c) \/ ExpireStaleSessions(c)
    \/ ListPendingSessions(c) \/ Returns(c)

Spec == Init /\ [][Next]_vars

-----------------------------------------------------------------------------
(* Properties.                                                             *)

\* A checkout id leads to a session exactly when that session carries it: no
\* entry is left over from a transition that lost a race.
IndexAgrees ==
  \A k \in CheckoutIds, i \in SessionIds :
    byCheckout[k] = i <=> sessions[i].checkout = k

\* A call that the lock does not hold up.
Proceeds(c) ==
  \/ call[c].phase \in {"locked", "checked", "performed"}
  \/ /\ call[c].phase = "asked"
     /\ IF call[c].req.op \in Writers THEN CanAnnounce(mu) \/ CanLock(mu, c)
                                      ELSE CanRLock(mu)

\* Whenever a call waits for the lock, some call can go on: every path out of
\* a method, its errors included, gives the lock back.
NeverStuck ==
  (\E c \in Callers : call[c].phase = "asked")
  => \E d \in Callers : Proceeds(d)

\* The contract's view of a call: the lock and the guards come before the
\* effect.
Promised(k) ==
  IF k.phase \in {"locked", "checked"} THEN [k EXCEPT !.phase = "asked"]
                                       ELSE k

Contract == INSTANCE StorageContract WITH
  table <- sessions, call <- [c \in Callers |-> Promised(call[c])],
  Unchecked <- {}

\* For any caller, the errors included, the memory adapter keeps the
\* contract: what a guard has seen under the lock still holds at the write.
ImplementsContract == Contract!Spec
=============================================================================
