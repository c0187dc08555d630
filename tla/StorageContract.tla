-------------------------- MODULE StorageContract --------------------------
(***************************************************************************)
(* What store.StorageAdapter promises its callers: every method takes      *)
(* effect at one moment between call and return, on a table of records     *)
(* that only the write methods change; a refusal is an error that was true *)
(* at some moment of the call; a failing call has taken effect or has not. *)
(***************************************************************************)
EXTENDS StorageCalls

CONSTANT Unchecked   \* methods that may report a failure as ErrNotFound; the
                     \* interface allows none

VARIABLES
  table,   \* the stored records
  call,    \* per caller: phase, request and reply of its latest call
  may      \* per caller: the refusals that are justified by now

Init ==
  /\ table = [i \in SessionIds |-> NoRecord]
  /\ call = [c \in Callers |-> Done(Error("nil"))]
  /\ may = [c \in Callers |-> {}]

Becomes(c, k) ==
  /\ call' = [call EXCEPT ![c] = k]
  /\ may' = Justified(may, call', table')

Goes(c, phase, reply) ==
  Becomes(c, [phase |-> phase, req |-> call[c].req, reply |-> reply])

Ask(c, req) ==
  /\ call[c].phase = "idle"
  /\ MayAsk(table, call, req)
  /\ UNCHANGED table
  /\ Becomes(c, Asked(req))

Asks(c, op) == call[c].phase = "asked" /\ call[c].req.op = op

Creates(c) ==
  LET id == call[c].req.id
  IN /\ Asks(c, "Create")
     /\ table[id].state = "ABSENT"
     /\ table' = [table EXCEPT ![id] = [NoRecord EXCEPT !.state = "CREATED"]]
     /\ Goes(c, "performed", Error("nil"))

Gets(c) ==
  LET id == call[c].req.id
  IN /\ Asks(c, "Get")
     /\ table[id].state # "ABSENT"
     /\ UNCHANGED table
     /\ Goes(c, "performed", Rows(table, {id}))

LooksUp(c) ==
  /\ Asks(c, "GetByCheckoutID")
  /\ UNCHANGED table
  /\ \E id \in Indexed(table, call[c].req.checkout) :
       Goes(c, "performed", Rows(table, {id}))

\* Terminal records are left alone, and nil fields keep their value.
Transitions(c) ==
  LET id   == call[c].req.id
      move == call[c].req.move
      keep == move.update.checkout = NoCheckout
  IN /\ Asks(c, "Transition")
     /\ table[id].state = move.from /\ ~IsTerminal(move.from)
     /\ table' = [table EXCEPT
          ![id].state    = move.to,
          ![id].checkout = IF keep THEN @ ELSE move.update.checkout,
          ![id].receipt  = @ \/ move.update.receipt]
     /\ Goes(c, "performed", Error("nil"))

\* The test and the write are one step: one caller succeeds.
Consumes(c) ==
  LET id == call[c].req.id
  IN /\ Asks(c, "ConsumeIfConfirmed")
     /\ table[id].state = "CONFIRMED"
     /\ table' = [table EXCEPT ![id].state = "CONSUMED"]
     /\ Goes(c, "performed", Rows(table', {id}))

Expires(c) ==
  LET due == {id \in call[c].req.old : table[id].state \in NonTerminal}
  IN /\ Asks(c, "ExpireStale")
     /\ table' = [id \in SessionIds |->
          IF id \in due THEN [table[id] EXCEPT !.state = "TIMEOUT"]
                        ELSE table[id]]
     /\ Goes(c, "performed", Rows(table', due))

Lists(c) ==
  /\ Asks(c, "ListPending")
  /\ UNCHANGED table
  /\ Goes(c, "performed",
          Rows(table, {id \in call[c].req.old : table[id].state \in Pending}))

Returns(c) ==
  /\ call[c].phase = "performed"
  /\ UNCHANGED table
  /\ Becomes(c, Done(call[c].reply))

Refuses(c) ==
  /\ call[c].phase = "asked"
  /\ UNCHANGED table
  /\ \E e \in may[c] : Becomes(c, Done(Error(e)))

Fails(c) ==
  /\ call[c].phase # "idle"
  /\ UNCHANGED table
  /\ \/ Becomes(c, Done(Error("failed")))
     \/ /\ call[c].req.op \in Unchecked
        /\ Becomes(c, Done(Error("ErrNotFound")))

Next ==
  \E c \in Callers :
    \/ \E req \in Requests : Ask(c, req)
    \/ Creates(c) \/ Gets(c) \/ LooksUp(c) \/ Transitions(c) \/ Consumes(c)
    \/ Expires(c) \/ Lists(c) \/ Returns(c) \/ Refuses(c) \/ Fails(c)

Spec == Init /\ [][Next]_<<table, call, may>>
=============================================================================
