------------------------------- MODULE IpPool -------------------------------
(***************************************************************************)
(* The addresses of one server's tunnel subnet, and which of them a client *)
(* is given (utils/ip.js).  An address is its four octets; the code counts *)
(* with the number they stand for.                                         *)
(***************************************************************************)
EXTENDS Integers

CONSTANTS
    Octet,       \* number of values of an octet: 256
    Subnet,      \* the address in servers.tunnel_subnet
    Size,        \* number of addresses of the block: 2 ** (32 - prefix)
    MaxPeers,    \* servers.max_peers, 0 for "no cap"
    None

Ips == [1 .. 4 -> 0 .. Octet - 1]

\* 2 ** 32, the modulus of >>> 0.
AddressCount == Octet * Octet * Octet * Octet

ASSUME OctetAssumption == Octet \in Nat \ {0}
ASSUME SubnetAssumption ==
    /\ Subnet \in Ips /\ Size \in Nat \ {0}
    /\ \E blocks \in 1 .. AddressCount : Size * blocks = AddressCount
ASSUME CapAssumption == MaxPeers \in Nat
ASSUME NoAddressAssumption == None \notin Ips

-----------------------------------------------------------------------------
(* Addresses and numbers *)

IpToInt(ip) == ((ip[1] * Octet + ip[2]) * Octet + ip[3]) * Octet + ip[4]

\* int >>> 8.
Shift(int) == int \div Octet

IntToIp(int) ==
    <<Shift(Shift(Shift(int))) % Octet, Shift(Shift(int)) % Octet,
      Shift(int) % Octet, int % Octet>>

\* parseCidr: the mask clears the bits that tell the addresses of a block apart.
NetworkInt == IpToInt(Subnet) - (IpToInt(Subnet) % Size)

Address(offset) == IntToIp((NetworkInt + offset) % AddressCount)

-----------------------------------------------------------------------------
(* The lowest free client address *)

FirstClientOffset == 2

\* "Last address in the block is the broadcast; never allocate it."
LastOffset == Size - 2

\* max_peers caps the pool only when it is neither NULL nor 0.
Cap ==
    IF MaxPeers # 0 /\ FirstClientOffset + MaxPeers - 1 < LastOffset
      THEN FirstClientOffset + MaxPeers - 1
      ELSE LastOffset

ClientOffsets == FirstClientOffset .. Cap

Usable == {Address(offset) : offset \in ClientOffsets}

\* The first of the offsets whose address is not used.
FirstFree(offsets, used) ==
    LET free == {offset \in offsets : Address(offset) \notin used}
    IN  IF free = {} THEN None
        ELSE Address(CHOOSE a \in free : \A b \in free : a <= b)

\* Faulty variant: the loop stops before the last address (offset < cap).
AllocateBelowCap(used) == FirstFree(ClientOffsets \ {Cap}, used)

\* Faulty variant: offset 1, the node's own address, is handed out too.
AllocateFromNode(used) == FirstFree(ClientOffsets \cup {1}, used)

AllocateAddress(used) == FirstFree(ClientOffsets, used)
=============================================================================
