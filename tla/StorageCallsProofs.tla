------------------------- MODULE StorageCallsProofs -------------------------
(***************************************************************************)
(* Lemmas about requests, replies and refusals, used in the proofs about   *)
(* both storage adapters.                                                  *)
(***************************************************************************)
EXTENDS StorageCalls, TLAPS

Table == [SessionIds -> Record]
Updates == [checkout : Checkouts, receipt : BOOLEAN]

\* The fields a request has.
LEMMA RequestFields ==
  ASSUME NEW req \in Requests
  PROVE  /\ req.op \in {"Create", "Get", "ConsumeIfConfirmed", "Transition",
                        "GetByCheckoutID", "ExpireStale", "ListPending"}
         /\ req.op \in {"Create", "Get", "ConsumeIfConfirmed", "Transition"}
            => req.id \in SessionIds
         /\ req.op = "Transition" => req.move \in Moves
         /\ req.op = "GetByCheckoutID" => req.checkout \in Checkouts
         /\ ManagerOnly /\ req.op = "GetByCheckoutID"
            => req.checkout \in CheckoutIds
         /\ req.op \in {"ExpireStale", "ListPending"}
            => req.old \subseteq SessionIds
<1>1. CASE req \in [op : {"Create", "Get", "ConsumeIfConfirmed"},
                    id : SessionIds]
  BY <1>1
<1>2. CASE req \in [op : {"Transition"}, id : SessionIds, move : Moves]
  BY <1>2
<1>3. CASE req \in [op : {"GetByCheckoutID"},
                    checkout : IF ManagerOnly THEN CheckoutIds ELSE Checkouts]
  BY <1>3 DEF Checkouts
<1>4. CASE req \in [op : {"ExpireStale", "ListPending"},
                    old : SUBSET SessionIds]
  BY <1>4
<1> QED
  BY <1>1, <1>2, <1>3, <1>4 DEF Requests

\* The updates that go with an event.
LEMMA UpdateTypes ==
  ASSUME NEW event, NEW u \in UpdatesFor(event)
  PROVE  /\ u \in Updates
         /\ u.checkout # NoCheckout => event = "STK_ACCEPTED"
         /\ event = "STK_ACCEPTED" => u = CorrelationUpdate(u.checkout)
<1>1. CASE event = "STK_ACCEPTED"
  <2>1. PICK c \in Checkouts : u = CorrelationUpdate(c)
    BY <1>1 DEF UpdatesFor
  <2> QED
    BY <1>1, <2>1 DEF CorrelationUpdate, Updates
<1>2. CASE event = "CALLBACK_SUCCESS"
  <2>1. PICK b \in BOOLEAN : u = ReceiptUpdate(b)
    BY <1>2 DEF UpdatesFor
  <2> QED
    BY <1>2, <2>1 DEF ReceiptUpdate, Updates, Checkouts
<1>3. CASE event \notin {"STK_ACCEPTED", "CALLBACK_SUCCESS"}
  <2>1. u = NoUpdate
    BY <1>3 DEF UpdatesFor
  <2> QED
    BY <1>3, <2>1 DEF NoUpdate, Updates, Checkouts
<1> QED
  BY <1>1, <1>2, <1>3

\* The transitions callers ask for.
LEMMA MoveTypes ==
  ASSUME NEW move \in Moves
  PROVE  /\ move.from \in States
         /\ move.to \in States \ {"CREATED"}
         /\ move.update \in Updates
         /\ move.update.checkout # NoCheckout =>
              move.from = "CREATED" /\ move.to = "STK_PUSHED"
         /\ move.to = "STK_PUSHED" =>
              /\ move.from = "CREATED"
              /\ move.update = CorrelationUpdate(move.update.checkout)
         /\ ManagerOnly => ~IsTerminal(move.from)
         /\ move.to = "CONFIRMED" /\ ManagerOnly =>
              move.from \in {"STK_PUSHED", "AWAITING_PIN"}
<1>1. ASSUME NEW t \in validTransitions
      PROVE  /\ t[1] \in NonTerminal
             /\ t[3] \in States \ {"CREATED"}
             /\ t[2] = "STK_ACCEPTED" =>
                  t[1] = "CREATED" /\ t[3] = "STK_PUSHED"
             /\ t[3] = "STK_PUSHED" =>
                  t[1] = "CREATED" /\ t[2] = "STK_ACCEPTED"
             /\ t[3] = "CONFIRMED" => t[1] \in {"STK_PUSHED", "AWAITING_PIN"}
  BY DEF validTransitions, NonTerminal, Terminal, States
<1>2. CASE \E t \in validTransitions : \E u \in UpdatesFor(t[2]) :
             move = [from |-> t[1], to |-> t[3], update |-> u]
  <2>a. PICK t \in validTransitions : \E u \in UpdatesFor(t[2]) :
               move = [from |-> t[1], to |-> t[3], update |-> u]
    BY <1>2
  <2>1. PICK u \in UpdatesFor(t[2]) :
               move = [from |-> t[1], to |-> t[3], update |-> u]
    BY <2>a
  <2>2. /\ u \in Updates
        /\ u.checkout # NoCheckout => t[2] = "STK_ACCEPTED"
        /\ t[2] = "STK_ACCEPTED" => u = CorrelationUpdate(u.checkout)
    BY UpdateTypes
  <2> QED
    BY <1>1, <2>1, <2>2 DEF NonTerminal, IsTerminal
<1>3. CASE /\ ~ManagerOnly
           /\ move \in [from : Terminal, to : {"CONFIRMED"},
                        update : {NoUpdate}]
  <2>1. NoUpdate \in Updates /\ NoUpdate.checkout = NoCheckout
    BY DEF NoUpdate, Updates, Checkouts
  <2> QED
    BY <1>3, <2>1 DEF Terminal, States
<1>4. \/ \E t \in validTransitions : \E u \in UpdatesFor(t[2]) :
           move = [from |-> t[1], to |-> t[3], update |-> u]
      \/ /\ ~ManagerOnly
         /\ move \in [from : Terminal, to : {"CONFIRMED"},
                      update : {NoUpdate}]
  <2>1. \/ move \in TableMoves
        \/ /\ ~ManagerOnly
           /\ move \in [from : Terminal, to : {"CONFIRMED"},
                        update : {NoUpdate}]
    BY DEF Moves
  <2>2. ASSUME move \in TableMoves
        PROVE  \E t \in validTransitions : \E u \in UpdatesFor(t[2]) :
                 move = [from |-> t[1], to |-> t[3], update |-> u]
    BY <2>2 DEF TableMoves
  <2> QED
    BY <2>1, <2>2
<1> QED
  BY <1>2, <1>3, <1>4

-----------------------------------------------------------------------------
(* Replies and refusals.                                                   *)

LEMMA ErrorType == ASSUME NEW e \in Errors PROVE Error(e) \in Reply
  BY DEF Error, Reply

\* Rows that exist are a reply.
LEMMA RowsType ==
  ASSUME NEW db \in Table, NEW ids \in SUBSET SessionIds,
         \A i \in ids : db[i].state # "ABSENT"
  PROVE  Rows(db, ids) \in Reply
<1>1. ASSUME NEW i \in ids
      PROVE  [id |-> i, row |-> db[i]] \in [id : SessionIds, row : Stored]
  BY DEF Stored, Table
<1>2. {[id |-> i, row |-> db[i]] : i \in ids}
        \subseteq [id : SessionIds, row : Stored]
  BY <1>1
<1>3. "nil" \in Errors
  BY DEF Errors
<1> QED
  BY <1>2, <1>3 DEF Rows, Reply

LEMMA RefusalsType ==
  ASSUME NEW db, NEW req
  PROVE  Refusals(db, req) \subseteq Errors
  BY DEF Refusals, Errors

-----------------------------------------------------------------------------
(* The history of justified refusals.                                      *)

\* Every refusal that is true now is justified, and nothing is without a call.
LEMMA JustifiedNow ==
  ASSUME NEW m, NEW calls, NEW db, NEW c \in Callers
  PROVE  /\ calls[c].phase \in Waiting =>
              Refusals(db, calls[c].req) \subseteq Justified(m, calls, db)[c]
         /\ calls[c].phase \in Waiting =>
              m[c] \subseteq Justified(m, calls, db)[c]
         /\ calls[c].phase \notin Waiting => Justified(m, calls, db)[c] = {}
  BY DEF Justified

LEMMA JustifiedType ==
  ASSUME NEW m \in [Callers -> SUBSET Errors], NEW calls, NEW db
  PROVE  Justified(m, calls, db) \in [Callers -> SUBSET Errors]
  BY RefusalsType DEF Justified

\* Two views of the calls that agree on who waits for what justify the same.
LEMMA JustifiedAgrees ==
  ASSUME NEW m, NEW calls, NEW views, NEW db,
         \A c \in Callers :
           /\ calls[c].phase \in Waiting <=> views[c].phase \in Waiting
           /\ calls[c].req = views[c].req
  PROVE  Justified(m, calls, db) = Justified(m, views, db)
  BY DEF Justified

\* And nothing is added when nothing changes.
LEMMA JustifiedAgain ==
  ASSUME NEW m, NEW calls, NEW db
  PROVE  LET j == Justified(m, calls, db) IN Justified(j, calls, db) = j
  BY DEF Justified
=============================================================================
