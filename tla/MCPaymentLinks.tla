--------------------------- MODULE MCPaymentLinks ---------------------------
EXTENDS PaymentLinks, TLC

Symmetry == Permutations(Others)
=============================================================================
