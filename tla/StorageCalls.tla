---------------------------- MODULE StorageCalls ----------------------------
(***************************************************************************)
(* The interface of store.StorageAdapter: what callers ask, what they are  *)
(* answered, and when an error is a true statement about the table.  Used  *)
(* by the contract of store/adapter.go and by both adapters.               *)
(***************************************************************************)
EXTENDS SessionStore

CONSTANTS
  Callers,      \* goroutines that call the adapter
  ManagerOnly   \* the callers are session.Manager and callback.Handler

ASSUME ManagerOnlyAssumption == ManagerOnly \in BOOLEAN

Checkouts == CheckoutIds \cup {NoCheckout}

-----------------------------------------------------------------------------
(* Requests.                                                               *)

\* What goes with an event: Daraja's checkout id, which may be empty, when
\* the push was accepted; the callback's receipt, if it had any; else nil.
UpdatesFor(event) ==
  CASE event = "STK_ACCEPTED"     -> {CorrelationUpdate(c) : c \in Checkouts}
    [] event = "CALLBACK_SUCCESS" -> {ReceiptUpdate(b) : b \in BOOLEAN}
    [] OTHER                      -> {NoUpdate}

TableMoves ==
  UNION { {[from |-> t[1], to |-> t[3], update |-> u] :
             u \in UpdatesFor(t[2])} : t \in validTransitions }

\* Any other caller may also try to take a settled session up again.
Moves ==
  IF ManagerOnly THEN TableMoves
  ELSE TableMoves
         \cup [from : Terminal, to : {"CONFIRMED"}, update : {NoUpdate}]

\* The update names a checkout id: u.CheckoutRequestID is not nil.
Correlates(req) == req.op = "Transition" /\ req.move.to = "STK_PUSHED"

\* old stands for the cutoff: the sessions created, or due, before it.
Requests ==
  [op : {"Create", "Get", "ConsumeIfConfirmed"}, id : SessionIds]
  \cup [op : {"Transition"}, id : SessionIds, move : Moves]
  \cup [op : {"GetByCheckoutID"},
        checkout : IF ManagerOnly THEN CheckoutIds ELSE Checkouts]
  \cup [op : {"ExpireStale", "ListPending"}, old : SUBSET SessionIds]

NoRequest == [op |-> "none"]

-----------------------------------------------------------------------------
(* Replies: an error, or nil with the rows returned (or counted).          *)

Errors == {"nil", "ErrSessionExists", "ErrNotFound", "ErrInvalidTransition",
           "ErrAlreadyConsumed", "failed"}

Stored == {r \in Record : r.state # "ABSENT"}

Reply == [error : Errors, rows : SUBSET [id : SessionIds, row : Stored]]

Error(e) == [error |-> e, rows |-> {}]

Rows(db, ids) ==
  [error |-> "nil", rows |-> {[id |-> i, row |-> db[i]] : i \in ids}]

\* The sessions that can be looked up under a checkout id.
Indexed(db, checkout) ==
  {id \in SessionIds : /\ db[id].checkout = checkout
                       /\ db[id].state \notin {"ABSENT", "CREATED"}}

\* The errors that are true of the table.
Refusals(db, req) ==
  LET state == db[req.id].state
      missing == IF state = "ABSENT" THEN {"ErrNotFound"} ELSE {}
  IN CASE req.op = "Create" ->
            IF state # "ABSENT" THEN {"ErrSessionExists"} ELSE {}
       [] req.op = "Get" -> missing
       [] req.op = "GetByCheckoutID" ->
            IF req.checkout = NoCheckout \/ Indexed(db, req.checkout) = {}
            THEN {"ErrNotFound"} ELSE {}
       [] req.op = "Transition" ->
            IF state # req.move.from \/ IsTerminal(state)
            THEN IF missing # {} THEN missing ELSE {"ErrInvalidTransition"}
            ELSE {}
       [] req.op = "ConsumeIfConfirmed" ->
            CASE state = "CONFIRMED" -> {}
              [] state = "CONSUMED"  -> {"ErrAlreadyConsumed"}
              [] state = "ABSENT"    -> missing
              [] OTHER               -> {"ErrInvalidTransition"}
       [] OTHER -> {}

-----------------------------------------------------------------------------
(* Calls.                                                                  *)

Done(reply) == [phase |-> "idle", req |-> NoRequest, reply |-> reply]
Asked(req) == [phase |-> "asked", req |-> req, reply |-> Error("nil")]

\* An adapter relies on its callers here: Daraja gives a checkout id to one
\* session only, and the manager transitions sessions it has created or read.
MayAsk(db, call, req) ==
  /\ req.op = "Transition" /\ ManagerOnly => Exists(db, req.id)
  /\ Correlates(req) /\ req.move.update.checkout # NoCheckout =>
       /\ \A i \in SessionIds \ {req.id} :
            db[i].checkout # req.move.update.checkout
       /\ \A d \in Callers :
            /\ Correlates(call[d].req)
            /\ call[d].req.move.update = req.move.update
            => call[d].req.id = req.id

\* The phases of a call before it takes effect.
Waiting == {"asked", "missed", "locked", "checked"}

\* The errors true of the table at some moment of a call so far.
Justified(may, call, db) ==
  [c \in Callers |-> IF call[c].phase \in Waiting
                     THEN may[c] \cup Refusals(db, call[c].req) ELSE {}]
=============================================================================
