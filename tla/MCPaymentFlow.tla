--------------------------- MODULE MCPaymentFlow ---------------------------
EXTENDS PaymentRefinement, PaymentClaims, TLC

Symmetry == Permutations(SessionIds) \cup Permutations(CheckoutIds)
            \cup Permutations(Initiators) \cup Permutations(Handlers)
            \cup Permutations(Redeemers)
=============================================================================
