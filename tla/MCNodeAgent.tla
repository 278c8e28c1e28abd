---------------------------- MODULE MCNodeAgent ----------------------------
(* Small instances of NodeAgent for TLC. *)
EXTENDS NodeAgent, TLC

CONSTANTS k1, k2, a1, a2

\* The control plane leases an address to one key at a time.
OwnAddress == k1 :> {a1} @@ k2 :> {a2}

\* Quota names of which none is a prefix of another, as q_10_8_0_2, q_10_8_0_3.
DistinctNames == {<<a1, a1>>, <<a2, a2>>}

\* q_10_8_0_23 (a2) contains q_10_8_0_2 (a1).
NestedNames == DistinctNames \cup {<<a2, a1>>}

\* Both peers are alike: swapping them and their addresses changes nothing.
Symmetry ==
    {f \in Permutations({k1, k2, a1, a2}) :
        <<f[k1], f[k2], f[a1], f[a2]>> \in {<<k1, k2, a1, a2>>, <<k2, k1, a2, a1>>}}
=============================================================================
