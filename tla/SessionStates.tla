--------------------------- MODULE SessionStates ---------------------------
(***************************************************************************)
(* The payment session state machine: the states of store/state.go and the *)
(* events and transition table of session/state.go.                        *)
(***************************************************************************)

\* store.State.  An id without a record in storage is in the pseudo-state
\* "ABSENT", which is not a member of States.
States == {"CREATED", "STK_PUSHED", "AWAITING_PIN", "CONFIRMED",
           "CONSUMED", "TIMEOUT", "CANCELLED", "FAILED"}

Terminal == {"CONSUMED", "TIMEOUT", "CANCELLED", "FAILED"}

IsTerminal(state) == state \in Terminal

NonTerminal == States \ Terminal

\* The states ListPending selects: Daraja holds an unanswered prompt.
Pending == {"STK_PUSHED", "AWAITING_PIN"}

\* The map from state and event to the next state, as a set of triples.
validTransitions ==
  { <<"CREATED",      "STK_ACCEPTED",       "STK_PUSHED">>,
    <<"CREATED",      "STK_REJECTED",       "FAILED">>,
    <<"STK_PUSHED",   "CALLBACK_SUCCESS",   "CONFIRMED">>,
    <<"STK_PUSHED",   "CALLBACK_CANCELLED", "CANCELLED">>,
    <<"STK_PUSHED",   "CALLBACK_TIMEOUT",   "TIMEOUT">>,
    <<"STK_PUSHED",   "CALLBACK_FAILED",    "FAILED">>,
    <<"STK_PUSHED",   "TTL_EXPIRED",        "TIMEOUT">>,
    <<"STK_PUSHED",   "QUERY_AWAITING_PIN", "AWAITING_PIN">>,
    <<"AWAITING_PIN", "CALLBACK_SUCCESS",   "CONFIRMED">>,
    <<"AWAITING_PIN", "CALLBACK_CANCELLED", "CANCELLED">>,
    <<"AWAITING_PIN", "CALLBACK_TIMEOUT",   "TIMEOUT">>,
    <<"AWAITING_PIN", "CALLBACK_FAILED",    "FAILED">>,
    <<"AWAITING_PIN", "TTL_EXPIRED",        "TIMEOUT">>,
    <<"CONFIRMED",    "CONSUMED",           "CONSUMED">>,
    <<"CONFIRMED",    "TTL_EXPIRED",        "TIMEOUT">> }

-----------------------------------------------------------------------------
(* Result codes.  "0" is success, "1032" cancelled by the user, "1037" SIM *)
(* unreachable; "2001" stands for every other code.                        *)

ResultCodes == {"0", "1032", "1037", "2001"}

\* What the STK Push Query API answers while the PIN prompt is open.
StillProcessing == "500.001.1001"

\* Fault: a failed payment is taken for a rejected push.  (For the variants
\* marked "Fault" see SessionStore.)
resultCodeToRejection(code) ==
  CASE code = "0"    -> "CALLBACK_SUCCESS"
    [] code = "1032" -> "CALLBACK_CANCELLED"
    [] code = "1037" -> "CALLBACK_TIMEOUT"
    [] OTHER         -> "STK_REJECTED"

resultCodeToEvent(code) ==
  CASE code = "0"    -> "CALLBACK_SUCCESS"
    [] code = "1032" -> "CALLBACK_CANCELLED"
    [] code = "1037" -> "CALLBACK_TIMEOUT"
    [] OTHER         -> "CALLBACK_FAILED"

\* Fault: an open prompt is taken for a payment.
queryResultAsSuccess(code) ==
  IF code \in {"0", StillProcessing} THEN "CALLBACK_SUCCESS"
                                      ELSE "CALLBACK_FAILED"

queryResultCodeToEvent(code) ==
  CASE code = "0"             -> "CALLBACK_SUCCESS"
    [] code = StillProcessing -> "QUERY_AWAITING_PIN"
    [] OTHER                  -> "CALLBACK_FAILED"
=============================================================================
