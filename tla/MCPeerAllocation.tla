-------------------------- MODULE MCPeerAllocation --------------------------
(* A small instance of PeerAllocation for TLC. *)
EXTENDS PeerAllocation

\* Inside its block, as 10.7.0.9/16 is: the network's address is <<2, 1, 0, 0>>.
\* The two client addresses, <<2, 1, 0, 2>> and <<2, 1, 1, 0>>, lie on both sides
\* of a carry.
InsideBlock == <<2, 1, 1, 2>>
=============================================================================
