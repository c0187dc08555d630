---------------------------- MODULE SessionStore ----------------------------
(***************************************************************************)
(* The atomic storage operations the session manager runs its state        *)
(* machine on, as the SQLite adapter executes them: each is one SQL        *)
(* statement of store/sqlite/queries.  A store is a function db from       *)
(* session ids to records; an id without a row is in state "ABSENT".       *)
(*                                                                         *)
(* A definition under a "Fault" comment is a wrong variant of the one that *)
(* follows it: the properties are shown to notice the exchange.            *)
(***************************************************************************)
EXTENDS SessionStates

CONSTANTS
  SessionIds,   \* ULIDs the session manager may generate
  CheckoutIds,  \* CheckoutRequestIDs Daraja may assign
  NoCheckout    \* the empty CheckoutRequestID

ASSUME NoCheckoutAssumption == NoCheckout \notin CheckoutIds

\* store.Session, reduced to the fields control depends on.  receipt stands
\* for MpesaReceiptNumber, ConfirmedAmount and ConfirmedPhone, which are only
\* ever written together.
Record == [state    : States \cup {"ABSENT"},
           checkout : CheckoutIds \cup {NoCheckout},
           receipt  : BOOLEAN]

NoRecord == [state |-> "ABSENT", checkout |-> NoCheckout, receipt |-> FALSE]

\* store.Update; NoUpdate is the nil pointer.
NoUpdate == [checkout |-> NoCheckout, receipt |-> FALSE]
CorrelationUpdate(c) == [checkout |-> c, receipt |-> FALSE]
ReceiptUpdate(populated) == [checkout |-> NoCheckout, receipt |-> populated]

Exists(db, id) == db[id].state # "ABSENT"

\* INSERT of a session in state CREATED.
Inserted(db, id) ==
  [db EXCEPT ![id] = [state |-> "CREATED", checkout |-> NoCheckout,
                      receipt |-> FALSE]]

\* Fault: WHERE id = ?
MatchesAnyState(db, id, from) == Exists(db, id)

\* WHERE id = ? AND state = ?
Matches(db, id, from) == db[id].state = from

\* Fault: column = ?, so nil clears the column.
UpdatedWithNulls(db, id, to, u) ==
  [db EXCEPT ![id] = [state |-> to, checkout |-> u.checkout,
                      receipt |-> u.receipt]]

\* SET state = ?, column = COALESCE(?, column): nil keeps the old value.
Updated(db, id, to, u) ==
  [db EXCEPT ![id] =
     [state    |-> to,
      checkout |-> IF u.checkout = NoCheckout THEN db[id].checkout
                                              ELSE u.checkout,
      receipt  |-> db[id].receipt \/ u.receipt]]

\* WHERE checkout_request_id = ?
FoundByCheckout(db, c) ==
  {id \in SessionIds : Exists(db, id) /\ db[id].checkout = c}

\* Fault: state IN ('STK_PUSHED', 'AWAITING_PIN').
ExpireStalePending(db, old) ==
  [id \in SessionIds |->
     IF db[id].state \in Pending /\ id \in old
     THEN [db[id] EXCEPT !.state = "TIMEOUT"]
     ELSE db[id]]

\* Fault: no cutoff.
ExpireAll(db, old) ==
  [id \in SessionIds |->
     IF db[id].state \in NonTerminal
     THEN [db[id] EXCEPT !.state = "TIMEOUT"]
     ELSE db[id]]

\* expire_stale.sql: old is the set of ids with expires_at < cutoff.
ExpireStale(db, old) ==
  [id \in SessionIds |->
     IF db[id].state \in NonTerminal /\ id \in old
     THEN [db[id] EXCEPT !.state = "TIMEOUT"]
     ELSE db[id]]

\* Fault: state = 'STK_PUSHED'.
ListPushed(db, old) ==
  {[id |-> id, from |-> db[id].state, checkout |-> db[id].checkout] :
     id \in {i \in old : db[i].state = "STK_PUSHED"}}

\* Fault: no condition on the state.
ListAll(db, old) ==
  {[id |-> id, from |-> db[id].state, checkout |-> db[id].checkout] :
     id \in {i \in old : Exists(db, i)}}

\* list_pending.sql: old is the set of ids with created_at < threshold.  The
\* rows are returned as copies.
ListPending(db, old) ==
  {[id |-> id, from |-> db[id].state, checkout |-> db[id].checkout] :
     id \in {i \in old : db[i].state \in Pending}}
=============================================================================
