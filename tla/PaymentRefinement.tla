------------------------- MODULE PaymentRefinement -------------------------
(***************************************************************************)
(* PaymentFlow implements OneTimeGate: a session is a purchase, a request  *)
(* with X-PAYMENT is the request it is granted to.                         *)
(***************************************************************************)
EXTENDS PaymentFlow

\* Daraja took the payer's money for the prompts that resolved with code 0.
PaidSessions == {owner[c] : c \in {d \in CheckoutIds : prompt[d] = "0"}}

\* The protected handler ran for the request.
ServedFor == [r \in Redeemers |->
                IF redeemer[r].pc = "served" THEN redeemer[r].id
                                             ELSE NoSession]

Promise == INSTANCE OneTimeGate WITH
  Purchases <- SessionIds, Requests <- Redeemers, NoPurchase <- NoSession,
  paid <- PaidSessions, granted <- ServedFor

\* Every behaviour of the payment flow, with its stale reads, retries, failing
\* calls and crashes, is one of the one-time gate: requests are granted only
\* for purchases already paid, and no purchase is granted twice.
ImplementsOneTimeGate == Promise!Spec
=============================================================================
