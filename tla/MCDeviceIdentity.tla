-------------------------- MODULE MCDeviceIdentity --------------------------
(* Small instances of DeviceIdentity for TLC. *)
EXTENDS DeviceIdentity, TLC

CONSTANTS c1, c2, k1, k2

\* Two clients with a key each; one client.
KeyEach == k1 :> c1 @@ k2 :> c2
OneKey == k1 :> c1

Symmetry == Permutations(Handlers)
=============================================================================
