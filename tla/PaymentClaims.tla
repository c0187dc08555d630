--------------------------- MODULE PaymentClaims ---------------------------
(***************************************************************************)
(* Statements of comments about payment sessions that the code does not    *)
(* keep.  Each is refuted by a run of its own; the behaviours that refute  *)
(* them are told in README.md.                                             *)
(***************************************************************************)
EXTENDS PaymentFlow

\* session/manager.go on HandleCallback: ErrInvalidTransition means that the
\* session is resolved already.  It may only have moved to AWAITING_PIN
\* between the handler's read and its write.
IgnoredCallbackMeansResolved ==
  \A h \in Handlers :
    handler[h].pc = "ignored" =>
      sessions[handler[h].id].state \notin Pending

\* store/state.go on CONSUMED: the session is consumed by releasing the
\* resource.  The read after the UPDATE may fail, and the client gets a 402.
ConsumedMeansReleased ==
  \A s \in SessionIds :
    sessions[s].state = "CONSUMED" =>
      \E r \in Redeemers : /\ redeemer[r].id = s
                           /\ redeemer[r].pc \in {"consumed", "served"}
=============================================================================
