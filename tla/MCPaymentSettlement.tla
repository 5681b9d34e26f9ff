------------------------ MODULE MCPaymentSettlement ------------------------
(* Small instances of PaymentSettlement.                                     *)
EXTENDS PaymentSettlement, TLC

CONSTANTS i1, sp1, po1, t1, t2, w1, w2

\* One SePay link, or one link of each provider.
SePayOnly == [r \in {sp1} |-> "sepay"]
PayOSOnly == [r \in {po1} |-> "payos"]
BothProviders == (sp1 :> "sepay") @@ (po1 :> "payos")

OneSlot == [i \in {i1} |-> 1]

Symmetry == Permutations(Workers) \cup Permutations(Transfers)
=============================================================================
