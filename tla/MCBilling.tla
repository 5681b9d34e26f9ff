----------------------------- MODULE MCBilling -----------------------------
(* Small instances of Billing; a component is left out of a run by giving it *)
(* no processes.                                                             *)
EXTENDS Billing, TLC

CONSTANTS i1, i2, sp1, sp2, sp3, sp4, sp5, po1, t1, t2, w1, w2, e1, e2, g1, g2, c1

\* Two ids for the same room and period: the second after the first's deletion.
SameSlot == [i \in Invoices |-> 1]

Prefixes == [r \in Refs |-> IF r = po1 THEN "payos" ELSE "sepay"]

\* Every attempt yields the next reference; PayOS has one in these instances.
SePayRefs == <<sp1, sp2, sp3, sp4, sp5>>
Codes == [x \in Providers \X Invoices \X (0..MaxAttempts-1) |->
            IF x[1] = "payos" THEN po1 ELSE SePayRefs[x[3] + 1]]

Symmetry == Permutations(Workers) \cup Permutations(Editors)
              \cup Permutations(Issuers) \cup Permutations(Transfers)
=============================================================================
