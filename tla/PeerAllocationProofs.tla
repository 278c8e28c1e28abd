------------------------ MODULE PeerAllocationProofs ------------------------
(***************************************************************************)
(* Theorems of PeerAllocation, for every set of keys and of concurrent     *)
(* handlers, every subnet and every max_peers.                             *)
(***************************************************************************)
EXTENDS PeerAllocation, WellFoundedInduction, TLAPS

-----------------------------------------------------------------------------
(* Addresses and numbers *)

\* Quotient and remainder.
LEMMA DivMod ==
    ASSUME NEW n \in Nat, NEW d \in Nat \ {0}
    PROVE  n \div d \in Nat /\ n % d \in 0 .. d - 1 /\ n = d * (n \div d) + (n % d)
OBVIOUS

\* A number is made of one quotient and one remainder only.
LEMMA DivModUnique ==
    ASSUME NEW d \in Nat \ {0}, NEW q \in Nat, NEW r \in 0 .. d - 1
    PROVE  (q * d + r) \div d = q /\ (q * d + r) % d = r /\ q * d + r \in Nat
OBVIOUS

\* A number below the divisor is its own remainder.
LEMMA ModSmall ==
    ASSUME NEW d \in Nat, NEW n \in 0 .. d - 1
    PROVE  n % d = n
OBVIOUS

\* A number below k times d has a quotient below k.
LEMMA DivBound ==
    ASSUME NEW n \in Nat, NEW d \in Nat \ {0}, NEW k \in Nat, n < k * d
    PROVE  n \div d < k
<1>1. n \div d \in Nat /\ n % d \in 0 .. d - 1 /\ n = d * (n \div d) + (n % d)
  BY DivMod
<1> DEFINE q == n \div d
<1>2. q \in Nat /\ d * q <= n
  BY <1>1
<1> HIDE DEF q
<1>3. ASSUME q >= k PROVE FALSE
  <2>1. d * q >= d * k
    BY <1>2, <1>3
  <2> QED BY <1>2, <2>1
<1> QED BY <1>2, <1>3 DEF q

\* int >>> 8 leaves a number with one octet less, and the octet it drops.
LEMMA ShiftOctet ==
    ASSUME NEW int \in Nat, NEW k \in Nat, int < k * Octet
    PROVE  /\ Shift(int) \in Nat /\ Shift(int) < k
           /\ int % Octet \in 0 .. Octet - 1
           /\ int = Shift(int) * Octet + (int % Octet)
<1>1. /\ int \div Octet \in Nat /\ int % Octet \in 0 .. Octet - 1
      /\ int = Octet * (int \div Octet) + (int % Octet)
  BY OctetAssumption, DivMod
<1>2. int \div Octet < k
  BY OctetAssumption, DivBound
<1>3. Octet * (int \div Octet) = (int \div Octet) * Octet
  BY OctetAssumption, <1>1
<1> QED
  BY <1>1, <1>2, <1>3 DEF Shift

\* Four octets are a number of 32 bits.
LEMMA IntRange ==
    ASSUME NEW ip \in Ips
    PROVE  IpToInt(ip) \in 0 .. AddressCount - 1
<1> DEFINE a == ip[1] b == ip[2] c == ip[3] d == ip[4]
<1>1. /\ Octet \in Nat \ {0}
      /\ a \in 0 .. Octet - 1 /\ b \in 0 .. Octet - 1
      /\ c \in 0 .. Octet - 1 /\ d \in 0 .. Octet - 1
  BY OctetAssumption DEF Ips
<1> HIDE DEF a, b, c, d
<1>2. ASSUME NEW x \in Nat, NEW k \in Nat, x < k, NEW y \in 0 .. Octet - 1
      PROVE  x * Octet + y \in Nat /\ x * Octet + y < k * Octet
  <2>1. (x + 1) * Octet <= k * Octet
    BY <1>1, <1>2
  <2> QED BY <1>1, <1>2, <2>1
<1> DEFINE ab == a * Octet + b  abc == ab * Octet + c  abcd == abc * Octet + d
<1>3. ab \in Nat /\ ab < Octet * Octet
  BY <1>1, <1>2
<1> HIDE DEF ab
<1>4. abc \in Nat /\ abc < Octet * Octet * Octet
  BY <1>1, <1>2, <1>3
<1> HIDE DEF abc
<1>5. abcd \in Nat /\ abcd < Octet * Octet * Octet * Octet
  BY <1>1, <1>2, <1>4
<1> QED
  BY <1>1, <1>5 DEF IpToInt, AddressCount, abcd, abc, ab, a, b, c, d

\* An address read by ipToInt is written back the same by intToIp
\* (utils/ip.js:14, utils/ip.js:24): what the loop of allocateAddress compares
\* with the used addresses is the form in which they are stored.
THEOREM TextOfInt ==
    ASSUME NEW ip \in Ips
    PROVE  IntToIp(IpToInt(ip)) = ip
<1> DEFINE a == ip[1] b == ip[2] c == ip[3] d == ip[4]
           ab == a * Octet + b
           abc == ab * Octet + c
           abcd == abc * Octet + d
<1>1. /\ Octet \in Nat \ {0}
      /\ a \in 0 .. Octet - 1 /\ b \in 0 .. Octet - 1
      /\ c \in 0 .. Octet - 1 /\ d \in 0 .. Octet - 1
  BY OctetAssumption DEF Ips
<1>2. ip = <<a, b, c, d>>
  BY DEF Ips
<1> HIDE DEF a, b, c, d
<1>3. ab \in Nat /\ Shift(ab) = a /\ ab % Octet = b
  BY <1>1, DivModUnique DEF Shift
<1>4. a % Octet = a
  BY <1>1
<1> HIDE DEF ab
<1>5. abc \in Nat /\ Shift(abc) = ab /\ abc % Octet = c
  BY <1>1, <1>3, DivModUnique DEF Shift
<1> HIDE DEF abc
<1>6. abcd \in Nat /\ Shift(abcd) = abc /\ abcd % Octet = d
  BY <1>1, <1>5, DivModUnique DEF Shift
<1> HIDE DEF abcd
<1>7. IntToIp(abcd) = <<a, b, c, d>>
  BY <1>3, <1>4, <1>5, <1>6 DEF IntToIp
<1> QED BY <1>2, <1>7 DEF IpToInt, abcd, abc, ab, a, b, c, d

\* Every number of 32 bits is the number of the address intToIp writes for it,
\* so two numbers are never written alike.
THEOREM IntOfText ==
    ASSUME NEW int \in 0 .. AddressCount - 1
    PROVE  IntToIp(int) \in Ips /\ IpToInt(IntToIp(int)) = int
<1> DEFINE n1 == Shift(int)  n2 == Shift(n1)  n3 == Shift(n2)
<1>1. Octet \in Nat \ {0} /\ int \in Nat /\ int < Octet * Octet * Octet * Octet
  <2>1. AddressCount \in Nat
    BY OctetAssumption DEF AddressCount
  <2> QED
    BY <2>1, OctetAssumption DEF AddressCount
<1>2. /\ n1 \in Nat /\ n1 < Octet * Octet * Octet /\ int % Octet \in 0 .. Octet - 1
      /\ int = n1 * Octet + (int % Octet)
  <2>1. Octet * Octet * Octet \in Nat
    BY <1>1
  <2> QED
    BY <1>1, <2>1, ShiftOctet
<1> HIDE DEF n1
<1>3. /\ n2 \in Nat /\ n2 < Octet * Octet /\ n1 % Octet \in 0 .. Octet - 1
      /\ n1 = n2 * Octet + (n1 % Octet)
  <2>1. Octet * Octet \in Nat
    BY <1>1
  <2> QED
    BY <1>2, <2>1, ShiftOctet
<1> HIDE DEF n2
<1>4. /\ n3 \in Nat /\ n3 < Octet /\ n2 % Octet \in 0 .. Octet - 1
      /\ n2 = n3 * Octet + (n2 % Octet)
  BY <1>1, <1>3, ShiftOctet
<1> HIDE DEF n3
<1>5. n3 % Octet = n3 /\ n3 \in 0 .. Octet - 1
  BY <1>1, <1>4
<1>6. IntToIp(int) = <<n3, n2 % Octet, n1 % Octet, int % Octet>>
  BY <1>5 DEF IntToIp, n1, n2, n3
<1>7. IntToIp(int) \in Ips
  BY <1>2, <1>3, <1>4, <1>5, <1>6 DEF Ips
<1> QED
  BY <1>2, <1>3, <1>4, <1>6, <1>7 DEF IpToInt

\* The block that parseCidr finds around the subnet's address lies among the
\* 32-bit numbers: >>> 0 cuts nothing off.
LEMMA BlockFits ==
    /\ NetworkInt \in Nat /\ NetworkInt + Size <= AddressCount /\ AddressCount \in Nat
    /\ Size \in Nat
<1> DEFINE base == IpToInt(Subnet)  q == base \div Size
<1>1. base \in 0 .. AddressCount - 1
  BY SubnetAssumption, IntRange
<1>2. PICK blocks \in 1 .. AddressCount : Size * blocks = AddressCount
  BY SubnetAssumption
<1>3. AddressCount \in Nat /\ Size \in Nat \ {0} /\ blocks \in Nat /\ base \in Nat
  <2>1. AddressCount \in Nat
    BY OctetAssumption DEF AddressCount
  <2> QED
    BY <1>1, <1>2, <2>1, SubnetAssumption
<1> HIDE DEF base
<1>4. q \in Nat /\ base = Size * q + (base % Size) /\ base % Size \in 0 .. Size - 1
  BY <1>3, DivMod
<1>5. q < blocks
  <2>1. base < blocks * Size
    BY <1>1, <1>2, <1>3
  <2> QED
    BY <1>3, <2>1, DivBound
<1> HIDE DEF q
<1>6. Size * (q + 1) <= Size * blocks
  BY <1>3, <1>4, <1>5
<1>7. NetworkInt = Size * q
  BY <1>3, <1>4 DEF NetworkInt, base
<1>8. Size * (q + 1) = Size * q + Size /\ Size * q \in Nat
  BY <1>3, <1>4
<1> QED
  BY <1>2, <1>3, <1>6, <1>7, <1>8

\* The address at an offset of the block is that many addresses past the
\* network's.
LEMMA AddressOfOffset ==
    ASSUME NEW offset \in 0 .. Size - 1
    PROVE  Address(offset) \in Ips /\ IpToInt(Address(offset)) = NetworkInt + offset
<1>1. NetworkInt + offset \in 0 .. AddressCount - 1
  BY BlockFits
<1>2. (NetworkInt + offset) % AddressCount = NetworkInt + offset
  BY <1>1, BlockFits
<1> QED
  BY <1>1, <1>2, IntOfText DEF Address

\* Every address of the block is the address at its offset.
LEMMA OffsetOfAddress ==
    ASSUME NEW ip \in Ips, IpToInt(ip) - NetworkInt \in 0 .. Size - 1
    PROVE  Address(IpToInt(ip) - NetworkInt) = ip
<1>1. IpToInt(ip) \in 0 .. AddressCount - 1
  BY IntRange
<1>2. NetworkInt + (IpToInt(ip) - NetworkInt) = IpToInt(ip)
  BY <1>1, BlockFits
<1>3. IpToInt(ip) % AddressCount = IpToInt(ip)
  BY <1>1, BlockFits, ModSmall
<1> QED
  BY <1>2, <1>3, TextOfInt DEF Address

-----------------------------------------------------------------------------
(* The pool *)

\* The offsets of client addresses lie inside the block.
LEMMA ClientOffsetsInBlock == ClientOffsets \subseteq 0 .. Size - 1
  BY SubnetAssumption, CapAssumption
  DEF ClientOffsets, FirstClientOffset, Cap, LastOffset

\* A usable address is an address, not the null of an exhausted pool.
LEMMA UsableType == Usable \subseteq Ips /\ None \notin Usable
<1>1. Usable \subseteq Ips
  BY ClientOffsetsInBlock, AddressOfOffset DEF Usable
<1> QED
  BY <1>1, NoAddressAssumption

\* The offsets the loop of allocateAddress counts through (utils/ip.js:66) reach
\* every address of the subnet but the network's, the node's and the broadcast
\* address, up to max_peers of them, and no other address.
THEOREM UsableAddresses == Usable = ClientAddresses
<1>1. ASSUME NEW offset \in ClientOffsets
      PROVE  Address(offset) \in ClientAddresses
  <2>1. Address(offset) \in Ips /\ IpToInt(Address(offset)) = NetworkInt + offset
    BY ClientOffsetsInBlock, AddressOfOffset
  <2>2. IpToInt(Address(offset)) - NetworkInt = offset
    BY <2>1, BlockFits, ClientOffsetsInBlock
  <2> QED
    BY <2>1, <2>2, SubnetAssumption, CapAssumption
    DEF ClientAddresses, ClientOffsets, FirstClientOffset, Cap, LastOffset
<1>2. ASSUME NEW ip \in ClientAddresses PROVE ip \in Usable
  <2> DEFINE offset == IpToInt(ip) - NetworkInt
  <2>1. ip \in Ips /\ offset \in 0 .. Size - 1
    BY DEF ClientAddresses
  <2>2. Address(offset) = ip
    BY <2>1, OffsetOfAddress
  <2>3. offset \notin {0, 1, Size - 1} /\ (MaxPeers = 0 \/ offset - 2 < MaxPeers)
    BY DEF ClientAddresses
  <2> HIDE DEF offset
  <2>4. offset \in ClientOffsets
    BY <2>1, <2>3, SubnetAssumption, CapAssumption
    DEF ClientOffsets, FirstClientOffset, Cap, LastOffset
  <2> QED
    BY <2>2, <2>4 DEF Usable
<1> QED
  BY <1>1, <1>2 DEF Usable

\* The loop of allocateAddress returns a usable address that is not in use,
\* and null only when there is none (utils/ip.js:58).
THEOREM AllocateAddressCorrect ==
    ASSUME NEW used
    PROVE  LET ip == AllocateAddress(used)
           IN  \/ ip = None /\ Usable \subseteq used
               \/ ip # None /\ ip \in Usable \ used
<1> DEFINE free == {offset \in ClientOffsets : Address(offset) \notin used}
<1>1. CASE free = {}
  BY <1>1 DEF AllocateAddress, FirstFree, Usable
<1>2. CASE free # {}
  <2>1. free \subseteq Nat
    <3>1. free \subseteq 0 .. Size - 1
      BY ClientOffsetsInBlock
    <3>2. 0 .. Size - 1 \subseteq Nat
      BY BlockFits
    <3> QED
      BY ONLY <3>1, <3>2
  <2> DEFINE first == CHOOSE c \in free : \A b \in free : c <= b
  <2>2. PICK a \in free : \A b \in free : ~ (<<b, a>> \in OpToRel(<, Nat))
    BY ONLY <1>2, <2>1, NatLessThanWellFounded, WFMin
  <2>3. ASSUME NEW b \in free PROVE a <= b
    <3>1. a \in Nat /\ b \in Nat
      BY <2>1
    <3>2. b < a => <<b, a>> \in OpToRel(<, Nat)
      BY <3>1 DEF OpToRel
    <3>3. ~ (b < a)
      BY <2>2, <3>2
    <3> QED
      BY <3>1, <3>3
  <2>4. first \in free
    BY <2>3
  <2>5. AllocateAddress(used) = Address(first)
    BY <1>2 DEF AllocateAddress, FirstFree
  <2> HIDE DEF first
  <2>6. Address(first) \in Usable \ used
    BY <2>4 DEF Usable
  <2> QED
    BY <2>5, <2>6, UsableType
<1> QED
  BY <1>1, <1>2

-----------------------------------------------------------------------------
\* What every step keeps: the properties, and what a handler at each stage
\* knows of its key, its choice and the rows its SELECT returned.
HandlerKnows ==
    \A r \in Requests :
        /\ stage[r] # "idle" => key[r] \in Keys
        /\ stage[r] \in {"picked", "inserted"} => pick[r] \in Usable
        /\ held[r] \subseteq Committed
        /\ stage[r] = "full" => Usable \subseteq {rows[k] : k \in held[r]}

IndInv == TypeOK /\ UniqueLeases /\ HandlerKnows

\* Initially no row exists and no handler runs.
LEMMA InitIndInv == Init => IndInv
  BY NoneAssumption
  DEF Init, IndInv, TypeOK, UniqueLeases, HandlerKnows, Stages, Committed

\* Types are preserved by every statement.
LEMMA TypeStep == IndInv /\ [Next]_vars => TypeOK'
<1> SUFFICES ASSUME IndInv, [Next]_vars PROVE TypeOK'
  OBVIOUS
<1> USE DEF IndInv, TypeOK, HandlerKnows
<1>1. ASSUME NEW r \in Requests, NEW k \in Keys, Start(r, k) PROVE TypeOK'
  BY <1>1 DEF Start, Goto, Stages
<1>2. ASSUME NEW r \in Requests, Lookup(r) PROVE TypeOK'
  BY <1>2 DEF Lookup, Goto, Stages
<1>3. ASSUME NEW r \in Requests, SnapshotUsed(r) PROVE TypeOK'
  BY <1>3 DEF SnapshotUsed, Goto, Stages, Committed
<1>4. ASSUME NEW r \in Requests, LockUsed(r) PROVE TypeOK'
  <2> DEFINE ip == AllocateAddress({rows[k] : k \in held[r]})
  <2>1. ip \in Usable \cup {None}
    BY AllocateAddressCorrect
  <2>2. /\ stage' = [stage EXCEPT ![r] = IF ip = None THEN "full" ELSE "picked"]
        /\ pick' = [pick EXCEPT ![r] = ip]
        /\ UNCHANGED <<rows, key, held>>
    BY <1>4 DEF LockUsed, Goto
  <2> QED
    BY <2>1, <2>2 DEF Stages
<1>5. ASSUME NEW r \in Requests, Insert(r) PROVE TypeOK'
  BY <1>5 DEF Insert, Goto, Stages
<1>6. ASSUME NEW r \in Requests, Commit(r) PROVE TypeOK'
  BY <1>6 DEF Commit, EndTransaction, Goto, Stages
<1>7. ASSUME NEW r \in Requests, RollbackFull(r) \/ RollbackError(r) PROVE TypeOK'
  BY <1>7 DEF RollbackFull, RollbackError, EndTransaction, Goto, Stages
<1>8. ASSUME NEW r \in Requests, StatementFails(r) \/ Respond(r) PROVE TypeOK'
  BY <1>8 DEF StatementFails, Respond, Stages
<1>9. ASSUME NEW k \in Keys, Delete(k) PROVE TypeOK'
  BY <1>9 DEF Delete, Stages
<1>10. CASE UNCHANGED vars
  BY <1>10 DEF vars
<1> QED
  BY <1>1, <1>2, <1>3, <1>4, <1>5, <1>6, <1>7, <1>8, <1>9, <1>10 DEF Next, Step

\* Rows and pending rows stay unique: INSERT and COMMIT are the statements
\* that matter, the others only remove a row or a pending one.
LEMMA UniqueStep == IndInv /\ [Next]_vars => UniqueLeases'
<1> SUFFICES ASSUME IndInv, [Next]_vars PROVE UniqueLeases'
  OBVIOUS
<1> USE DEF IndInv, TypeOK, UniqueLeases, CommittedConflict, PendingConflict
<1>1. ASSUME NEW r \in Requests, NEW k \in Keys, Start(r, k) PROVE UniqueLeases'
  BY <1>1 DEF Start, Goto
<1>2. ASSUME NEW r \in Requests, Lookup(r) PROVE UniqueLeases'
  BY <1>2 DEF Lookup, Goto
<1>3. ASSUME NEW r \in Requests, SnapshotUsed(r) PROVE UniqueLeases'
  BY <1>3 DEF SnapshotUsed, Goto
<1>4. ASSUME NEW r \in Requests, LockUsed(r) PROVE UniqueLeases'
  <2>1. /\ stage[r] = "locking"
        /\ stage'[r] \in {"full", "picked"}
        /\ \A s \in Requests \ {r} : stage'[s] = stage[s] /\ pick'[s] = pick[s]
        /\ UNCHANGED <<rows, key>>
    BY <1>4 DEF LockUsed, Goto
  <2> QED
    BY <2>1
<1>5. ASSUME NEW r \in Requests, Insert(r) PROVE UniqueLeases'
  BY <1>5 DEF Insert, Goto
<1>6. ASSUME NEW r \in Requests, Commit(r) PROVE UniqueLeases'
  <2>1. /\ stage[r] = "inserted"
        /\ stage'[r] # "inserted"
        /\ \A s \in Requests \ {r} : stage'[s] = stage[s] /\ pick'[s] = pick[s]
        /\ key' = key
        /\ rows' = [rows EXCEPT ![key[r]] = pick[r]]
    BY <1>6 DEF Commit, EndTransaction, Goto
  <2>2. key[r] \in Keys /\ pick[r] # None
    BY <2>1, UsableType DEF HandlerKnows
  <2>3. \A j, k \in Keys : rows'[j] = rows'[k] /\ rows'[j] # None => j = k
    BY <2>1, <2>2
  <2>4. ASSUME NEW s \in Requests, stage'[s] = "inserted"
        PROVE  ~ CommittedConflict(key[s], pick[s])' /\ ~ PendingConflict(s)'
    <3>1. s # r /\ stage[s] = "inserted" /\ key[s] # key[r] /\ pick[s] # pick[r]
      BY <2>1, <2>4
    <3> QED
      BY <2>1, <2>2, <3>1
  <2> QED
    BY <2>1, <2>3, <2>4
<1>7. ASSUME NEW r \in Requests, RollbackFull(r) \/ RollbackError(r)
      PROVE  UniqueLeases'
  BY <1>7 DEF RollbackFull, RollbackError, EndTransaction, Goto
<1>8. ASSUME NEW r \in Requests, StatementFails(r) \/ Respond(r)
      PROVE  UniqueLeases'
  BY <1>8 DEF StatementFails, Respond
<1>9. ASSUME NEW k \in Keys, Delete(k) PROVE UniqueLeases'
  <2>1. \A s \in Requests : stage[s] = "inserted" => pick[s] # None
    BY UsableType DEF HandlerKnows
  <2> QED
    BY <1>9, <2>1 DEF Delete
<1>10. CASE UNCHANGED vars
  BY <1>10 DEF vars
<1> QED
  BY <1>1, <1>2, <1>3, <1>4, <1>5, <1>6, <1>7, <1>8, <1>9, <1>10 DEF Next, Step

\* What the handlers know stays true: the rows they have locked cannot go, and
\* COMMIT fills a slot that was free.
LEMMA KnowledgeStep == IndInv /\ [Next]_vars => HandlerKnows'
<1> SUFFICES ASSUME IndInv, [Next]_vars PROVE HandlerKnows'
  OBVIOUS
<1> USE DEF IndInv, TypeOK, HandlerKnows, Committed
<1>1. ASSUME NEW r \in Requests, NEW k \in Keys, Start(r, k) PROVE HandlerKnows'
  BY <1>1 DEF Start, Goto
<1>2. ASSUME NEW r \in Requests, Lookup(r) PROVE HandlerKnows'
  BY <1>2 DEF Lookup, Goto
<1>3. ASSUME NEW r \in Requests, SnapshotUsed(r) PROVE HandlerKnows'
  BY <1>3 DEF SnapshotUsed, Goto
<1>4. ASSUME NEW r \in Requests, LockUsed(r) PROVE HandlerKnows'
  <2> DEFINE used == {rows[k] : k \in held[r]}
  <2> DEFINE ip == AllocateAddress(used)
  <2>1. \/ ip = None /\ Usable \subseteq used
        \/ ip # None /\ ip \in Usable
    BY AllocateAddressCorrect
  <2>2. /\ stage[r] = "locking"
        /\ stage' = [stage EXCEPT ![r] = IF ip = None THEN "full" ELSE "picked"]
        /\ pick' = [pick EXCEPT ![r] = ip]
        /\ UNCHANGED <<rows, key, held>>
    BY <1>4 DEF LockUsed, Goto
  <2> HIDE DEF ip
  <2> QED
    BY <2>1, <2>2
<1>5. ASSUME NEW r \in Requests, Insert(r) PROVE HandlerKnows'
  BY <1>5 DEF Insert, Goto
<1>6. ASSUME NEW r \in Requests, Commit(r) PROVE HandlerKnows'
  <2>1. /\ stage[r] = "inserted"
        /\ stage'[r] \in {"granted", "error"}
        /\ held'[r] = {}
        /\ \A s \in Requests \ {r} :
              stage'[s] = stage[s] /\ pick'[s] = pick[s] /\ held'[s] = held[s]
        /\ key' = key
        /\ rows' = [rows EXCEPT ![key[r]] = pick[r]]
    BY <1>6 DEF Commit, EndTransaction, Goto
  <2>2. rows[key[r]] = None /\ pick[r] # None
    BY <2>1, UsableType DEF UniqueLeases, CommittedConflict
  <2>3. \A k \in Committed : rows'[k] = rows[k]
    BY <2>1, <2>2
  <2> QED
    BY <2>1, <2>3
<1>7. ASSUME NEW r \in Requests, RollbackFull(r) \/ RollbackError(r)
      PROVE  HandlerKnows'
  BY <1>7 DEF RollbackFull, RollbackError, EndTransaction, Goto
<1>8. ASSUME NEW r \in Requests, StatementFails(r) \/ Respond(r)
      PROVE  HandlerKnows'
  BY <1>8 DEF StatementFails, Respond
<1>9. ASSUME NEW k \in Keys, Delete(k) PROVE HandlerKnows'
  <2>1. ASSUME NEW r \in Requests, stage[r] = "full"
        PROVE  k \notin held[r] /\ held'[r] = held[r]
    BY <1>9, <2>1 DEF Delete, Locked, HoldsLocks
  <2> QED
    BY <1>9, <2>1 DEF Delete
<1>10. CASE UNCHANGED vars
  BY <1>10 DEF vars
<1> QED
  BY <1>1, <1>2, <1>3, <1>4, <1>5, <1>6, <1>7, <1>8, <1>9, <1>10 DEF Next, Step

-----------------------------------------------------------------------------
\* The inductive invariant holds in every reachable state.
THEOREM Invariance == Spec => []IndInv
<1>1. IndInv /\ [Next]_vars => IndInv'
  BY TypeStep, UniqueStep, KnowledgeStep DEF IndInv
<1> QED
  BY InitIndInv, <1>1, PTL DEF Spec

\* Rows, handlers and their choices always have their types: in particular a
\* leased address is one of Usable, never the node's or the broadcast address.
THEOREM TypeCorrect == Spec => []TypeOK
<1>1. IndInv => TypeOK
  BY DEF IndInv
<1> QED
  BY Invariance, <1>1, PTL

\* No two clients of a server ever share a tunnel address or a peers slot, in
\* whatever order the statements of concurrent POST /sessions, DELETEs and
\* failures interleave.
THEOREM LeasesUnique == Spec => []UniqueLeases
<1>1. IndInv => UniqueLeases
  BY DEF IndInv
<1> QED
  BY Invariance, <1>1, PTL

\* "Server at capacity" is answered only while the whole pool is leased.
THEOREM LockedRowsRemain == Spec => []LockedRowsStay
<1>1. IndInv => LockedRowsStay
  BY DEF IndInv, HandlerKnows, LockedRowsStay, TypeOK
<1> QED
  BY Invariance, <1>1, PTL

-----------------------------------------------------------------------------
\* An EXCEPT on stage is the same EXCEPT on the answers of AddressPool.
LEMMA AnswerStep ==
    ASSUME TypeOK, NEW r \in Requests, NEW s,
           stage' = [stage EXCEPT ![r] = s]
    PROVE  [q \in Requests |-> Answer(stage[q])]'
             = [[q \in Requests |-> Answer(stage[q])] EXCEPT ![r] = Answer(s)]
  BY DEF TypeOK

\* Each statement is a step of the promise, or changes nothing it speaks of:
\* the answer is settled by the lookup, by the SELECT that finds the pool full
\* and by the COMMIT.
LEMMA PoolStep == IndInv /\ [Next]_vars => [Pool!Next]_(Pool!vars)
<1> SUFFICES ASSUME IndInv, [Next]_vars PROVE [Pool!Next]_(Pool!vars)
  OBVIOUS
<1> DEFINE ans == [q \in Requests |-> Answer(stage[q])]
<1> USE DEF IndInv
<1>0. /\ \A r \in Requests : ans[r] = Answer(stage[r])
      /\ \A r \in Requests : key[r] \in Keys \/ stage[r] = "idle"
      /\ \A r \in Requests : stage[r] \in Stages
  BY DEF HandlerKnows, TypeOK
<1> USE DEF Pool!Settle
<1>1. ASSUME NEW r \in Requests, NEW k \in Keys, Start(r, k)
      PROVE  Pool!Ask(r, k)
  <2>1. ans' = [ans EXCEPT ![r] = Answer("lookup")]
    BY <1>1, AnswerStep DEF Start, Goto
  <2> QED
    BY <1>0, <1>1, <2>1 DEF Start, Goto, Answer, Pool!Ask
<1>2. ASSUME NEW r \in Requests, Lookup(r)
      PROVE  Pool!Reuse(r) \/ UNCHANGED Pool!vars
  <2>1. CASE rows[key[r]] # None
    <3>1. ans' = [ans EXCEPT ![r] = Answer("reused")]
      BY <1>2, <2>1, AnswerStep DEF Lookup, Goto
    <3> QED
      BY <1>0, <1>2, <2>1, <3>1 DEF Lookup, Goto, Answer, Pool!Reuse
  <2>2. CASE rows[key[r]] = None
    <3>1. ans' = [ans EXCEPT ![r] = Answer("begin")]
      BY <1>2, <2>2, AnswerStep DEF Lookup, Goto
    <3> QED
      BY <1>0, <1>2, <3>1 DEF Lookup, Goto, Answer, Pool!vars
  <2> QED
    BY <2>1, <2>2
<1>3. ASSUME NEW r \in Requests, SnapshotUsed(r) PROVE UNCHANGED Pool!vars
  <2>1. ans' = [ans EXCEPT ![r] = Answer("locking")]
    BY <1>3, AnswerStep DEF SnapshotUsed, Goto
  <2> QED
    BY <1>0, <1>3, <2>1 DEF SnapshotUsed, Goto, Answer, Pool!vars
<1>4. ASSUME NEW r \in Requests, LockUsed(r)
      PROVE  Pool!Refuse(r) \/ UNCHANGED Pool!vars
  <2> DEFINE used == {rows[k] : k \in held[r]}
  <2> DEFINE ip == AllocateAddress(used)
  <2>1. /\ stage[r] = "locking"
        /\ stage' = [stage EXCEPT ![r] = IF ip = None THEN "full" ELSE "picked"]
        /\ UNCHANGED <<rows, key>>
    BY <1>4 DEF LockUsed, Goto
  <2>2. ip = None => Usable \subseteq used
    BY AllocateAddressCorrect
  <2>3. used \subseteq {rows[k] : k \in Keys}
    BY DEF TypeOK
  <2> HIDE DEF ip, used
  <2>4. CASE ip = None
    <3>1. ans' = [ans EXCEPT ![r] = Answer("full")]
      BY <2>1, <2>4, AnswerStep
    <3>2. \A a \in ClientAddresses : ~ Pool!Free(a)
      BY <2>2, <2>3, <2>4, UsableAddresses DEF Pool!Free
    <3> QED
      BY <1>0, <2>1, <3>1, <3>2 DEF Answer, Pool!Refuse
  <2>5. CASE ip # None
    <3>1. ans' = [ans EXCEPT ![r] = Answer("picked")]
      BY <2>1, <2>5, AnswerStep
    <3> QED
      BY <1>0, <2>1, <3>1 DEF Answer, Pool!vars
  <2> QED
    BY <2>4, <2>5
<1>5. ASSUME NEW r \in Requests, Insert(r) PROVE UNCHANGED Pool!vars
  <2>1. PICK s \in {"failing", "inserted"} :
          stage[r] = "picked" /\ stage' = [stage EXCEPT ![r] = s]
    BY <1>5 DEF Insert, Goto
  <2>2. ans' = [ans EXCEPT ![r] = Answer(s)]
    BY <2>1, AnswerStep
  <2> QED
    BY <1>0, <1>5, <2>1, <2>2 DEF Insert, Answer, Pool!vars
<1>6. ASSUME NEW r \in Requests, Commit(r)
      PROVE  Pool!Grant(r, "granted") \/ Pool!Grant(r, "error")
  <2>1. PICK outcome \in {"granted", "error"} :
          /\ stage[r] = "inserted"
          /\ stage' = [stage EXCEPT ![r] = outcome]
          /\ key' = key
          /\ rows' = [rows EXCEPT ![key[r]] = pick[r]]
    BY <1>6 DEF Commit, EndTransaction, Goto
  <2>2. ans' = [ans EXCEPT ![r] = Answer(outcome)]
    BY <2>1, AnswerStep
  <2>3. pick[r] \in ClientAddresses /\ Pool!Free(pick[r]) /\ rows[key[r]] = None
    BY <2>1, UsableAddresses
    DEF HandlerKnows, UniqueLeases, CommittedConflict, Pool!Free
  <2> QED
    BY <1>0, <2>1, <2>2, <2>3 DEF Answer, Pool!Grant
<1>7. ASSUME NEW r \in Requests, RollbackFull(r) PROVE UNCHANGED Pool!vars
  <2>1. ans' = [ans EXCEPT ![r] = Answer("refused")]
    BY <1>7, AnswerStep DEF RollbackFull, EndTransaction, Goto
  <2> QED
    BY <1>0, <1>7, <2>1
    DEF RollbackFull, EndTransaction, Goto, Answer, Pool!vars
<1>8. ASSUME NEW r \in Requests, RollbackError(r) PROVE Pool!Fail(r)
  <2>1. ans' = [ans EXCEPT ![r] = Answer("error")]
    BY <1>8, AnswerStep DEF RollbackError, EndTransaction, Goto
  <2> QED
    BY <1>0, <1>8, <2>1
    DEF RollbackError, EndTransaction, Goto, Answer, Pool!Fail
<1>9. ASSUME NEW r \in Requests, StatementFails(r) PROVE UNCHANGED Pool!vars
  <2>1. ans' = [ans EXCEPT ![r] = Answer("failing")]
    BY <1>9, AnswerStep DEF StatementFails
  <2> QED
    BY <1>0, <1>9, <2>1 DEF StatementFails, Answer, Pool!vars
<1>10. ASSUME NEW r \in Requests, Respond(r) PROVE Pool!Finish(r)
  <2>1. ans' = [ans EXCEPT ![r] = Answer("idle")]
    BY <1>10, AnswerStep DEF Respond
  <2> QED
    BY <1>0, <1>10, <2>1 DEF Respond, Answer, Pool!Finish
<1>11. ASSUME NEW k \in Keys, Delete(k) PROVE Pool!Release(k)
  BY <1>11 DEF Delete, Pool!Release
<1>12. CASE UNCHANGED vars
  BY <1>12 DEF vars, Pool!vars
<1> QED
  BY <1>1, <1>2, <1>3, <1>4, <1>5, <1>6, <1>7, <1>8, <1>9, <1>10, <1>11, <1>12
  DEF Next, Step, Pool!Next

\* The statements of POST /v1/sessions, run by any number of handlers over
\* Postgres, keep the promise AddressPool makes about a server's addresses.
THEOREM AllocationImplementsPool == Spec => ImplementsAddressPool
<1>1. Init => Pool!Init
  BY DEF Init, Pool!Init, Answer
<1> QED
  BY Invariance, <1>1, PoolStep, PTL DEF Spec, ImplementsAddressPool, Pool!Spec
=============================================================================
