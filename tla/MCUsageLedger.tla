--------------------------- MODULE MCUsageLedger ---------------------------
(* Small instances of UsageLedger for TLC. *)
EXTENDS UsageLedger, TLC

CONSTANTS k1, k2, d1, s1, s2

\* All peers are of one device.
OneDevice == [k \in Keys |-> d1]

\* A device that roams, and one with two keys on a server.
Roaming == k1 :> s1 @@ k2 :> s2
OneServer == [k \in Keys |-> s1]

\* Both keys are alike, and so are their servers.
Symmetry ==
    {f \in Permutations({k1, k2, s1, s2}) :
        <<f[k1], f[k2], f[s1], f[s2]>> \in {<<k1, k2, s1, s2>>, <<k2, k1, s2, s1>>}}
=============================================================================
