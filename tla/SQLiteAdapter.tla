--------------------------- MODULE SQLiteAdapter ---------------------------
(***************************************************************************)
(* store/sqlite: concurrent calls of the adapter's methods on one table.   *)
(* Each step is one SQL statement with the code up to the next one; only   *)
(* ConsumeIfConfirmed has two, the UPDATE and the SELECT that follows it.  *)
(***************************************************************************)
EXTENDS StorageCalls

VARIABLES
  sessions,   \* the sessions table
  call,       \* per caller: phase, request and reply of its latest call
  may         \* history: the refusals that are justified by now

vars == <<sessions, call, may>>

Phases == {"idle", "asked", "missed", "consumed", "performed"}

\* The table holds records, and replies are errors or rows that exist.
TypeOK ==
  /\ sessions \in [SessionIds -> Record]
  /\ call \in [Callers -> [phase : Phases, req : Requests \cup {NoRequest},
                           reply : Reply]]
  /\ may \in [Callers -> SUBSET Errors]

Init ==
  /\ sessions = [i \in SessionIds |-> NoRecord]
  /\ call = [c \in Callers |-> Done(Error("nil"))]
  /\ may = [c \in Callers |-> {}]

Becomes(c, k) ==
  /\ call' = [call EXCEPT ![c] = k]
  /\ may' = Justified(may, call', sessions')

Goes(c, phase, reply) ==
  Becomes(c, [phase |-> phase, req |-> call[c].req, reply |-> reply])

Refuses(c, error) == UNCHANGED sessions /\ Becomes(c, Done(Error(error)))

Ask(c, req) ==
  /\ call[c].phase = "idle"
  /\ MayAsk(sessions, call, req)
  /\ UNCHANGED sessions
  /\ Becomes(c, Asked(req))

Asks(c, op) == call[c].phase = "asked" /\ call[c].req.op = op

Create(c) ==
  LET id == call[c].req.id
  IN /\ Asks(c, "Create")
     /\ \/ /\ ~Exists(sessions, id)
           /\ sessions' = Inserted(sessions, id)
           /\ Goes(c, "performed", Error("nil"))
        \/ Exists(sessions, id) /\ Refuses(c, "ErrSessionExists")

\* A SELECT: the first of the rows it finds.
Selects(c, ids) ==
  \/ /\ UNCHANGED sessions
     /\ \E id \in ids : Goes(c, "performed", Rows(sessions, {id}))
  \/ ids = {} /\ Refuses(c, "ErrNotFound")

\* Fault: rows.Next() is not looked at.
GetUnchecked(c) == Asks(c, "Get") /\ Selects(c, {call[c].req.id})

Get(c) ==
  /\ Asks(c, "Get")
  /\ Selects(c, {call[c].req.id} \cap {i \in SessionIds : Exists(sessions, i)})

GetByCheckoutID(c) ==
  /\ Asks(c, "GetByCheckoutID")
  /\ Selects(c, FoundByCheckout(sessions, call[c].req.checkout))

Transition(c) ==
  LET id   == call[c].req.id
      move == call[c].req.move
  IN /\ Asks(c, "Transition")
     /\ \/ /\ Matches(sessions, id, move.from)
           /\ sessions' = Updated(sessions, id, move.to, move.update)
           /\ Goes(c, "performed", Error("nil"))
        \/ /\ ~Matches(sessions, id, move.from)
           /\ Refuses(c, "ErrInvalidTransition")

\* The UPDATE of ConsumeIfConfirmed.
ConsumeIfConfirmed(c) ==
  LET id == call[c].req.id
  IN /\ Asks(c, "ConsumeIfConfirmed")
     /\ \/ /\ Matches(sessions, id, "CONFIRMED")
           /\ sessions' = [sessions EXCEPT ![id].state = "CONSUMED"]
           /\ Goes(c, "consumed", Error("nil"))
        \/ /\ ~Matches(sessions, id, "CONFIRMED")
           /\ UNCHANGED sessions
           /\ Goes(c, "missed", Error("nil"))

\* The Get after an UPDATE that changed a row.
GetConsumed(c) ==
  /\ call[c].phase = "consumed"
  /\ UNCHANGED sessions
  /\ Becomes(c, Done(Rows(sessions, {call[c].req.id})))

\* The Get after an UPDATE that changed none: it tells the reasons apart.
GetMissed(c) ==
  LET state == sessions[call[c].req.id].state
  IN /\ call[c].phase = "missed"
     /\ Refuses(c, CASE state = "ABSENT"   -> "ErrNotFound"
                     [] state = "CONSUMED" -> "ErrAlreadyConsumed"
                     [] OTHER              -> "ErrInvalidTransition")

Expire(c) ==
  LET due == {i \in SessionIds :
                ExpireStale(sessions, call[c].req.old)[i] # sessions[i]}
  IN /\ Asks(c, "ExpireStale")
     /\ sessions' = ExpireStale(sessions, call[c].req.old)
     /\ Goes(c, "performed", Rows(sessions', due))

List(c) ==
  /\ Asks(c, "ListPending")
  /\ UNCHANGED sessions
  /\ Goes(c, "performed",
          Rows(sessions, {r.id : r \in
                            ListPending(sessions, call[c].req.old)}))

Return(c) ==
  /\ call[c].phase = "performed"
  /\ UNCHANGED sessions
  /\ Becomes(c, Done(call[c].reply))

\* The context is cancelled or the database is busy, with the statement
\* committed or not.
Fail(c) ==
  /\ call[c].phase # "idle"
  /\ UNCHANGED sessions
  /\ Becomes(c, Done(Error("failed")))

\* rows.Next() is false when the context is cancelled after the query, too,
\* and Get and GetByCheckoutID do not look at rows.Err().
Interrupted(c) ==
  /\ \/ Asks(c, "Get") \/ Asks(c, "GetByCheckoutID")
     \/ call[c].phase \in {"missed", "consumed"}
  /\ Refuses(c, "ErrNotFound")

Next ==
  \E c \in Callers :
    \/ \E req \in Requests : Ask(c, req)
    \/ Create(c) \/ Get(c) \/ GetByCheckoutID(c) \/ Transition(c)
    \/ ConsumeIfConfirmed(c) \/ GetConsumed(c) \/ GetMissed(c)
    \/ Expire(c) \/ List(c) \/ Return(c) \/ Fail(c)
    \/ Interrupted(c)

Spec == Init /\ [][Next]_vars

-----------------------------------------------------------------------------
(* Properties.                                                             *)

\* The contract's view of a call.  A call that has consumed will return the
\* record as the UPDATE left it.
Promised(k) ==
  CASE k.phase = "missed"   -> [k EXCEPT !.phase = "asked"]
    [] k.phase = "consumed" -> [k EXCEPT !.phase = "performed",
                                         !.reply = Rows(sessions, {k.req.id})]
    [] OTHER -> k

Contract == INSTANCE StorageContract WITH
  table <- sessions, call <- [c \in Callers |-> Promised(call[c])],
  Unchecked <- {"Get", "GetByCheckoutID", "ConsumeIfConfirmed"}

\* For the manager and the callback handler, every method of the adapter is
\* atomic and each refusal was true during the call, although
\* ConsumeIfConfirmed is two statements and others run between them.  Only
\* ErrNotFound may also stand for a read that failed.
ImplementsContract == Contract!Spec
=============================================================================
