---------------------------- MODULE OneTimeGate ----------------------------
(***************************************************************************)
(* What malipo promises at its boundary, without sessions, storage or      *)
(* Daraja's protocol: a purchase is paid at most once, and after that at   *)
(* most one request is granted the protected resource for it.              *)
(***************************************************************************)
CONSTANTS Purchases, Requests, NoPurchase

VARIABLES paid,     \* the purchases paid for
          granted   \* the purchase each request was granted for

Init ==
  /\ paid = {}
  /\ granted = [r \in Requests |-> NoPurchase]

Pay(p) ==
  /\ p \notin paid
  /\ paid' = paid \cup {p}
  /\ UNCHANGED granted

Grant(r, p) ==
  /\ granted[r] = NoPurchase
  /\ p \in paid
  /\ \A other \in Requests : granted[other] # p
  /\ granted' = [granted EXCEPT ![r] = p]
  /\ UNCHANGED paid

Next ==
  \/ \E p \in Purchases : Pay(p)
  \/ \E r \in Requests, p \in Purchases : Grant(r, p)

Spec == Init /\ [][Next]_<<paid, granted>>
=============================================================================
