--------------------------- MODULE MeteringProofs ---------------------------
(***************************************************************************)
(* Proofs about Metering, for any set of keys, any number of addresses,    *)
(* any allowance and any bounds.                                           *)
(***************************************************************************)
EXTENDS Metering, FiniteSetTheorems, WellFoundedInduction, TLAPS

-----------------------------------------------------------------------------
(* Numbers *)

\* A set of numbers that is not empty has a least one.
LEMMA LeastExists ==
    ASSUME NEW S, S \subseteq Nat, S # {}
    PROVE  \E n \in S : \A m \in S : n <= m
<1>1. \E n \in S : \A m \in S : ~ (<<m, n>> \in OpToRel(<, Nat))
  BY NatLessThanWellFounded, WFMin
<1>2. PICK n \in S : \A m \in S : ~ (<<m, n>> \in OpToRel(<, Nat))
  BY <1>1
<1>3. \A m \in S : ~ (m < n)
  BY <1>2 DEF OpToRel
<1> QED
  BY <1>3

\* allocatePeer chooses a free address when there is one.
LEMMA MinIsFree == ASSUME Free # {} PROVE Min(Free) \in Free
<1>1. Free \subseteq Nat
  BY DEF Free, Addrs
<1>2. \E n \in Free : \A m \in Free : n <= m
  BY <1>1, LeastExists
<1> QED
  BY <1>2 DEF Min

LEMMA RemainingType ==
    ASSUME used \in Nat
    PROVE  /\ Remaining \in 0 .. Limit
           /\ Remaining = 0 \/ Remaining + used = Limit
<1>1. Limit \in Nat
  BY SizesAssumption
<1>2. CASE Limit <= used
  <2>1. 0 \in {0, Limit - used} /\ \A y \in {0, Limit - used} : 0 >= y
    BY <1>1, <1>2
  <2>2. \A x \in {0, Limit - used} : x >= 0 => x = 0
    BY <1>1, <1>2
  <2>3. Remaining = 0
    BY <2>1, <2>2 DEF Remaining, Max
  <2> QED
    BY <1>1, <2>3
<1>3. CASE used < Limit
  <2>1. /\ Limit - used \in {0, Limit - used}
        /\ \A y \in {0, Limit - used} : Limit - used >= y
    BY <1>1, <1>3
  <2>2. \A x \in {0, Limit - used} : x >= Limit - used => x = Limit - used
    BY <1>1, <1>3
  <2>3. Remaining = Limit - used
    BY <2>1, <2>2 DEF Remaining, Max
  <2> QED
    BY <1>1, <1>3, <2>3
<1> QED
  BY <1>1, <1>2, <1>3

-----------------------------------------------------------------------------
(* Type correctness *)

Records == [ip : Addrs, bytes : 0 .. Limit]

Quotas == [bytes : 0 .. Limit, left : 0 .. Limit]

\* The types, with what an "add" carries.
MeterType ==
    /\ TypeOK
    /\ registry \in [Keys -> Records \cup {None}]
    /\ quota \in [Addrs -> Quotas \cup {None}]
    /\ \A c \in calls : c.op = "add" => c.ip \in Addrs /\ c.bytes \in 0 .. Limit

\* The row a request has or gets.
LEMMA HaveRowType ==
    ASSUME TypeOK, NEW k \in Keys, HaveRow(k)
    PROVE  /\ row' \in [Keys -> Addrs \cup {None}] /\ row'[k] \in Addrs
           /\ \A i, j \in Keys : row'[i] # None /\ row'[i] = row'[j] => i = j
<1>1. CASE row[k] # None
  BY <1>1 DEF TypeOK, HaveRow
<1>2. CASE row[k] = None
  <2>1. Min(Free) \in Addrs /\ \A j \in Keys : row[j] # Min(Free)
    BY <1>2, MinIsFree DEF HaveRow, Free
  <2>2. row' = [row EXCEPT ![k] = Min(Free)]
    BY <1>2 DEF HaveRow
  <2> HIDE DEF HaveRow
  <2> QED
    BY <2>1, <2>2 DEF TypeOK
<1> QED
  BY <1>1, <1>2

\* A row that goes leaves the others as they are.
LEMMA RowGoes ==
    ASSUME TypeOK, NEW k \in Keys, row' = row \/ row' = [row EXCEPT ![k] = None]
    PROVE  /\ row' \in [Keys -> Addrs \cup {None}]
           /\ \A i, j \in Keys : row'[i] # None /\ row'[i] = row'[j] => i = j
BY DEF TypeOK

\* What a call in progress may be.
LEMMA CallType ==
    ASSUME MeterType, NEW c \in calls
    PROVE  /\ c.key \in Keys /\ c.op \in {"add", "remove"} /\ c \in Calls
           /\ c.op # "remove" => c.ip \in Addrs /\ c.bytes \in 0 .. Limit
BY DEF MeterType, TypeOK, Calls

CallsTyped(cs) ==
    /\ cs \subseteq Calls
    /\ \A c \in cs : c.op = "add" => c.ip \in Addrs /\ c.bytes \in 0 .. Limit

LEMMA CallsShrink ==
    ASSUME MeterType, NEW cs, cs \subseteq calls
    PROVE  CallsTyped(cs)
BY DEF MeterType, TypeOK, CallsTyped

LEMMA NewCallType ==
    ASSUME MeterType, NEW op \in {"add", "remove"}, NEW k \in Keys, NEW ip \in Addrs \cup {None},
           NEW bytes \in (0 .. Limit) \cup {None}, NEW fresh \in BOOLEAN,
           op = "add" => ip \in Addrs /\ bytes \in 0 .. Limit,
           Call(op, k, ip, bytes, fresh)
    PROVE  CallsTyped(calls')
<1> DEFINE c == [op |-> op, key |-> k, ip |-> ip, bytes |-> bytes,
                 fresh |-> fresh, waited |-> TRUE, timely |-> op = "add" /\ LedgerUpToDate]
<1>1. calls' = calls \cup {c}
  BY DEF Call
<1>2. c \in Calls
  BY DEF Calls
<1>3. c.op = "add" => c.ip \in Addrs /\ c.bytes \in 0 .. Limit
  OBVIOUS
<1> HIDE DEF c
<1> QED
  BY <1>1, <1>2, <1>3 DEF MeterType, TypeOK, CallsTyped

\* The agent's handlers.
NodeTyped ==
    /\ wg' \in [Keys -> Addrs \cup {NoAddr, None}]
    /\ registry' \in [Keys -> Records \cup {None}]
    /\ quota' \in [Addrs -> Quotas \cup {None}]
    /\ \A a \in Addrs : quota'[a] # None => quota'[a].left <= quota'[a].bytes
    /\ excess' \in 0 .. MaxExcess

LEMMA DropPeerType ==
    ASSUME MeterType, NEW k \in Keys, DropPeer(k)
    PROVE  NodeTyped
BY DEF MeterType, TypeOK, DropPeer, NodeTyped, Records

LEMMA PostPeerType ==
    ASSUME MeterType, NEW c \in calls, c.op # "remove", PostPeer(c.key, c)
    PROVE  NodeTyped
<1>1. c.key \in Keys /\ c.ip \in Addrs /\ c.bytes \in 0 .. Limit /\ Limit \in Nat
      /\ MaxExcess \in Nat
  BY CallType, SizesAssumption
<1>2. wg' \in [Keys -> Addrs \cup {NoAddr, None}]
  BY <1>1 DEF MeterType, TypeOK, PostPeer
<1>3. registry' \in [Keys -> Records \cup {None}]
  BY <1>1 DEF MeterType, PostPeer, Records
<1>4. /\ quota' \in [Addrs -> Quotas \cup {None}]
      /\ \A a \in Addrs : quota'[a] # None => quota'[a].left <= quota'[a].bytes
  <2>1. /\ quota' = [quota EXCEPT ![c.ip] = [bytes |-> c.bytes, left |-> c.bytes]]
        /\ [bytes |-> c.bytes, left |-> c.bytes] \in Quotas
    BY <1>1 DEF PostPeer, Quotas
  <2> QED
    BY <1>1, <2>1 DEF MeterType, TypeOK
<1>5. excess' \in 0 .. MaxExcess
  BY <1>1 DEF MeterType, TypeOK, PostPeer
<1> QED
  BY <1>2, <1>3, <1>4, <1>5 DEF NodeTyped

LEMMA ApplyType ==
    ASSUME MeterType, NEW c \in calls, Apply(c)
    PROVE  NodeTyped
BY CallType, DropPeerType, PostPeerType DEF Apply

\* What remains to be shown when the parts are typed.
LEMMA TypeFromParts ==
    ASSUME MeterType, NodeTyped, CallsTyped(calls'),
           row' \in [Keys -> Addrs \cup {None}],
           \A i, j \in Keys : row'[i] # None /\ row'[i] = row'[j] => i = j,
           used' \in Nat, pending' \in Nat, passed' \in Nat, turns' \in 0 .. MaxTurns
    PROVE  MeterType'
<1>1. \A a \in Addrs : quota'[a] # None =>
         quota'[a].bytes \in 0 .. Limit /\ quota'[a].left \in 0 .. quota'[a].bytes
  BY SizesAssumption DEF NodeTyped, Quotas
<1>2. \A k \in Keys : registry'[k] # None => registry'[k] \in [ip : Addrs, bytes : 0 .. Limit]
  BY DEF NodeTyped, Records
<1>3. TypeOK'
  BY <1>1, <1>2 DEF NodeTyped, TypeOK, CallsTyped
<1> QED
  BY <1>3 DEF MeterType, NodeTyped, CallsTyped

LEMMA SameNodeTyped ==
    ASSUME MeterType, UNCHANGED <<node, excess>>
    PROVE  NodeTyped
BY SizesAssumption DEF MeterType, TypeOK, NodeTyped, node, Quotas

LEMMA TypeInit == Init => MeterType
<1> SUFFICES ASSUME Init PROVE MeterType
  OBVIOUS
<1>1. \A k \in Keys : row[k] = None /\ registry[k] = None
  BY DEF Init
<1>2. \A a \in Addrs : quota[a] = None
  BY DEF Init
<1>3. /\ row \in [Keys -> Addrs \cup {None}] /\ wg \in [Keys -> Addrs \cup {NoAddr, None}]
      /\ registry \in [Keys -> Records \cup {None}] /\ quota \in [Addrs -> Quotas \cup {None}]
  BY DEF Init
<1>4. /\ calls = {} /\ {used, pending, passed} \subseteq Nat
      /\ turns \in 0 .. MaxTurns /\ excess \in 0 .. MaxExcess
  BY SizesAssumption DEF Init
<1> QED
  BY <1>1, <1>2, <1>3, <1>4 DEF MeterType, TypeOK

\* Every step keeps the types.
LEMMA TypeStep == MeterType /\ [Next]_vars => MeterType'
<1> SUFFICES ASSUME MeterType, [Next]_vars PROVE MeterType'
  OBVIOUS
<1> USE DEF control, node, ledger, history
<1>1. TypeOK /\ used \in Nat /\ pending \in Nat /\ passed \in Nat /\ turns \in 0 .. MaxTurns
      /\ CallsTyped(calls) /\ MaxTurns \in Nat
  BY CallsShrink, SizesAssumption DEF MeterType, TypeOK
<1>2. /\ row \in [Keys -> Addrs \cup {None}]
      /\ \A i, j \in Keys : row[i] # None /\ row[i] = row[j] => i = j
  BY <1>1 DEF TypeOK
<1>3. ASSUME NEW k \in Keys, Open(k) PROVE MeterType'
  <2>1. NodeTyped
    BY <1>3, SameNodeTyped DEF Open
  <2>2. Remaining \in 0 .. Limit
    BY <1>1, RemainingType
  <2>3. CallsTyped(calls')
    BY <1>1, <1>3, <2>2, HaveRowType, NewCallType DEF Open
  <2> QED
    BY <1>1, <1>3, <2>1, <2>3, HaveRowType, TypeFromParts DEF Open
<1>4. ASSUME NEW k \in Keys, Reserve(k) PROVE MeterType'
  <2>1. NodeTyped
    BY <1>4, SameNodeTyped DEF Reserve
  <2> QED
    BY <1>1, <1>4, <2>1, HaveRowType, TypeFromParts DEF Reserve
<1>5. ASSUME NEW k \in Keys, Authorize(k) PROVE MeterType'
  <2>1. NodeTyped
    BY <1>5, SameNodeTyped DEF Authorize
  <2>2. Remaining \in 0 .. Limit /\ row[k] \in Addrs
    BY <1>1, <1>2, <1>5, RemainingType DEF Authorize
  <2>3. CallsTyped(calls')
    BY <1>5, <2>2, NewCallType DEF Authorize
  <2> QED
    BY <1>1, <1>2, <1>5, <2>1, <2>3, TypeFromParts DEF Authorize
<1>6. ASSUME NEW k \in Keys, Close(k) PROVE MeterType'
  <2>1. NodeTyped
    BY <1>6, SameNodeTyped DEF Close
  <2>2. CallsTyped(calls')
    BY <1>6, NewCallType DEF Close
  <2> QED
    BY <1>1, <1>2, <1>6, <2>1, <2>2, TypeFromParts DEF Close
<1>7. ASSUME NEW k \in Keys, Reap(k) PROVE MeterType'
  <2>1. NodeTyped
    BY <1>7, DropPeerType DEF Reap
  <2> QED
    BY <1>1, <1>7, <2>1, RowGoes, TypeFromParts DEF Reap
<1>8. ASSUME NEW k \in Keys, ReapTimesOut(k) PROVE MeterType'
  <2>1. NodeTyped
    BY <1>8, SameNodeTyped DEF ReapTimesOut
  <2>2. CallsTyped(calls')
    <3> DEFINE c == [op |-> "remove", key |-> k, ip |-> None, bytes |-> None,
                     fresh |-> FALSE, waited |-> FALSE, timely |-> FALSE]
    <3>1. calls' = calls \cup {c}
      BY <1>8 DEF ReapTimesOut
    <3>2. c \in Calls /\ c.op # "add"
      BY DEF Calls
    <3> HIDE DEF c
    <3> QED
      BY <1>1, <3>1, <3>2 DEF CallsTyped
  <2> QED
    BY <1>1, <1>2, <1>8, <2>1, <2>2, TypeFromParts DEF ReapTimesOut
<1>9. ASSUME NEW k \in Keys, ReapUnauthorized(k) PROVE MeterType'
  <2>1. NodeTyped
    BY <1>9, SameNodeTyped DEF ReapUnauthorized
  <2> QED
    BY <1>1, <1>9, <2>1, RowGoes, TypeFromParts DEF ReapUnauthorized
<1>10. ASSUME NEW k \in Keys, Sweep(k) PROVE MeterType'
  <2>1. NodeTyped
    BY <1>10, DropPeerType DEF Sweep
  <2> QED
    BY <1>1, <1>2, <1>10, <2>1, TypeFromParts DEF Sweep
<1>11. ASSUME NEW k \in Keys, Transfer(k) PROVE MeterType'
  <2>1. NodeTyped
    <3>1. wg[k] \in Addrs /\ quota[wg[k]] \in Quotas /\ quota[wg[k]].left > 0
          /\ quota[wg[k]].left <= quota[wg[k]].bytes
      BY <1>11 DEF Transfer, Live, MeterType, TypeOK
    <3>2. [quota[wg[k]] EXCEPT !.left = @ - 1] \in Quotas
      BY <3>1, SizesAssumption DEF Quotas
    <3>3. quota' = [quota EXCEPT ![wg[k]] = [quota[wg[k]] EXCEPT !.left = @ - 1]]
      BY <1>11, <3>1 DEF Transfer, MeterType
    <3>4. /\ [quota[wg[k]] EXCEPT !.left = @ - 1].left <= [quota[wg[k]] EXCEPT !.left = @ - 1].bytes
      BY <3>1, SizesAssumption DEF Quotas
    <3>5. /\ quota' \in [Addrs -> Quotas \cup {None}]
          /\ \A a \in Addrs : quota'[a] # None => quota'[a].left <= quota'[a].bytes
      BY <1>1, <3>1, <3>2, <3>3, <3>4 DEF MeterType, TypeOK
    <3> QED
      BY <1>1, <1>11, <3>5 DEF Transfer, MeterType, TypeOK, NodeTyped
  <2>2. CallsTyped(calls')
    <3>1. \A c \in calls : [c EXCEPT !.timely = FALSE] \in Calls
                           /\ [c EXCEPT !.timely = FALSE].op = c.op
                           /\ [c EXCEPT !.timely = FALSE].ip = c.ip
                           /\ [c EXCEPT !.timely = FALSE].bytes = c.bytes
      BY <1>1 DEF CallsTyped, Calls
    <3>2. ASSUME NEW d \in calls'
          PROVE  d \in Calls /\ (d.op = "add" => d.ip \in Addrs /\ d.bytes \in 0 .. Limit)
      <4>1. PICK c \in calls : d = [c EXCEPT !.timely = FALSE]
        BY <1>11 DEF Transfer
      <4>2. d \in Calls /\ d.op = c.op /\ d.ip = c.ip /\ d.bytes = c.bytes
        BY <3>1, <4>1
      <4> QED
        BY <1>1, <4>2 DEF CallsTyped
    <3> QED
      BY <3>2 DEF CallsTyped
  <2> QED
    BY <1>1, <1>2, <1>11, <2>1, <2>2, TypeFromParts DEF Transfer
<1>12. ASSUME NEW c \in calls, CallSucceeds(c) PROVE MeterType'
  <2>1. NodeTyped
    BY <1>12, ApplyType DEF CallSucceeds
  <2>2. CallsTyped(calls') /\ c.key \in Keys
    BY <1>12, CallsShrink, CallType DEF CallSucceeds
  <2>3. row' = row \/ row' = [row EXCEPT ![c.key] = None]
    BY <1>12 DEF CallSucceeds, Conclude
  <2> QED
    BY <1>1, <1>12, <2>1, <2>2, <2>3, RowGoes, TypeFromParts DEF CallSucceeds
<1>13. ASSUME NEW c \in calls, CallRefused(c) PROVE MeterType'
  <2>1. NodeTyped
    BY <1>13, SameNodeTyped DEF CallRefused
  <2>2. CallsTyped(calls') /\ c.key \in Keys
    BY <1>13, CallsShrink, CallType DEF CallRefused
  <2>3. row' = row \/ row' = [row EXCEPT ![c.key] = None]
    BY <1>13 DEF CallRefused, Conclude
  <2> QED
    BY <1>1, <1>13, <2>1, <2>2, <2>3, RowGoes, TypeFromParts DEF CallRefused
<1>14. ASSUME NEW c \in calls, CallTimesOut(c) PROVE MeterType'
  <2>1. NodeTyped
    BY <1>14, SameNodeTyped DEF CallTimesOut
  <2>2. CallsTyped(calls') /\ c.key \in Keys
    <3> DEFINE e == [c EXCEPT !.waited = FALSE, !.fresh = FALSE]
    <3>1. c \in Calls /\ c.key \in Keys
      BY CallType
    <3>2. e \in Calls /\ e.op = c.op /\ e.ip = c.ip /\ e.bytes = c.bytes
      BY <3>1 DEF Calls
    <3>3. calls' = (calls \ {c}) \cup {e}
      BY <1>14 DEF CallTimesOut
    <3> HIDE DEF e
    <3> QED
      BY <1>1, <3>1, <3>2, <3>3 DEF CallsTyped
  <2>3. row' = row \/ row' = [row EXCEPT ![c.key] = None]
    BY <1>14 DEF CallTimesOut, Conclude
  <2> QED
    BY <1>1, <1>14, <2>1, <2>2, <2>3, RowGoes, TypeFromParts DEF CallTimesOut
<1>15. ASSUME NEW c \in calls, LateCall(c) PROVE MeterType'
  <2>1. NodeTyped /\ CallsTyped(calls')
    BY <1>15, ApplyType, CallsShrink DEF LateCall
  <2> QED
    BY <1>1, <1>2, <1>15, <2>1, TypeFromParts DEF LateCall
<1>16. ASSUME NEW c \in calls, LostCall(c) PROVE MeterType'
  <2>1. NodeTyped /\ CallsTyped(calls')
    BY <1>16, SameNodeTyped, CallsShrink DEF LostCall
  <2> QED
    BY <1>1, <1>2, <1>16, <2>1, TypeFromParts DEF LostCall
<1>17. CASE Reboot
  <2>1. turns' \in 0 .. MaxTurns
    BY <1>1, <1>17 DEF Reboot
  <2>2. PICK bytes \in [Addrs -> 0 .. Limit] :
           /\ quota' = [a \in Addrs |->
                 IF {registry[k] : k \in {j \in Keys : registry[j] # None /\ registry[j].ip = a}} = {}
                   THEN None ELSE [bytes |-> bytes[a], left |-> bytes[a]]]
           /\ excess' = excess + Cardinality({a \in Addrs :
                 bytes[a] > (IF quota[a] = None THEN 0 ELSE quota[a].left)})
           /\ excess' <= MaxExcess
    BY <1>17 DEF Reboot
  <2>3. excess' \in 0 .. MaxExcess
    <3> DEFINE B == {a \in Addrs : bytes[a] > (IF quota[a] = None THEN 0 ELSE quota[a].left)}
    <3>1. IsFiniteSet(Addrs) /\ B \subseteq Addrs
      BY SizesAssumption, FS_Interval DEF Addrs
    <3> HIDE DEF B
    <3>2. Cardinality(B) \in Nat
      BY <3>1, FS_Subset, FS_CardinalityType
    <3> QED
      BY <1>1, <2>2, <3>2, SizesAssumption DEF B, TypeOK
  <2>4. \A a \in Addrs : [bytes |-> bytes[a], left |-> bytes[a]] \in Quotas
    BY DEF Quotas
  <2>5. /\ quota' \in [Addrs -> Quotas \cup {None}]
        /\ \A a \in Addrs : quota'[a] # None => quota'[a].left <= quota'[a].bytes
    <3>1. \A a \in Addrs : \/ quota'[a] = None
                           \/ quota'[a] = [bytes |-> bytes[a], left |-> bytes[a]]
      BY <2>2
    <3>2. quota' = [a \in Addrs |-> quota'[a]]
      BY <2>2
    <3>3. \A a \in Addrs : bytes[a] <= bytes[a]
      BY SizesAssumption
    <3> HIDE <2>2
    <3> QED
      BY <2>4, <3>1, <3>2, <3>3
  <2>6. NodeTyped
    BY <1>17, <2>3, <2>5 DEF Reboot, MeterType, TypeOK, NodeTyped
  <2> QED
    BY <1>1, <1>2, <1>17, <2>1, <2>6, TypeFromParts DEF Reboot
<1>18. ASSUME NEW n \in 1 .. pending, Book(n) PROVE MeterType'
  <2>1. NodeTyped /\ used' \in Nat /\ pending' \in Nat
    BY <1>1, <1>18, SameNodeTyped DEF Book
  <2> QED
    BY <1>1, <1>2, <1>18, <2>1, TypeFromParts DEF Book
<1>19. CASE MonthEnds
  <2>1. NodeTyped /\ turns' \in 0 .. MaxTurns
    BY <1>1, <1>19, SameNodeTyped DEF MonthEnds
  <2> QED
    BY <1>1, <1>2, <1>19, <2>1, TypeFromParts DEF MonthEnds
<1>20. CASE UNCHANGED vars
  <2>1. NodeTyped
    BY <1>20, SameNodeTyped DEF vars
  <2> QED
    BY <1>1, <1>2, <1>20, <2>1, TypeFromParts DEF vars
<1> QED
  BY <1>3, <1>4, <1>5, <1>6, <1>7, <1>8, <1>9, <1>10, <1>11, <1>12, <1>13, <1>14, <1>15,
     <1>16, <1>17, <1>18, <1>19, <1>20 DEF Next

LEMMA MeterTypeCorrect == Spec => []MeterType
BY TypeInit, TypeStep, PTL DEF Spec

\* The type invariant, for any keys, addresses, allowance and bounds.
THEOREM TypeCorrect == Spec => []TypeOK
<1>1. MeterType => TypeOK
  BY DEF MeterType
<1> QED
  BY <1>1, MeterTypeCorrect, PTL

-----------------------------------------------------------------------------
(* The cap *)

\* What may still pass under the quota of a.
Left(a) == IF quota[a] = None THEN 0 ELSE quota[a].left

Allowances(n) == Limit * (1 + n)

\* bound[a] is no less than what may still pass under the quotas of 1 .. a.
Bounds(bound) ==
    /\ bound \in [0 .. Size -> Nat]
    /\ \A m, n \in 0 .. Size : m <= n => bound[m] <= bound[n]
    /\ \A a \in Addrs : bound[a - 1] + Left(a) <= bound[a]

\* What passed and what may still pass, together, are within the budgets.
Within == \E bound : Bounds(bound) /\ passed + bound[Size] <= Allowances(excess)

\* The budget of a call that is timely fits in what is left of the month's.
TimelyFits ==
    \A c \in calls : c.timely => c.op = "add" /\ (c.bytes = 0 \/ c.bytes + passed <= Limit)

CapInv == Within /\ TimelyFits

LEMMA AllowancesGrow ==
    ASSUME NEW n \in Nat, NEW j \in Nat
    PROVE  /\ Allowances(n) \in Nat /\ Limit <= Allowances(n)
           /\ Allowances(n + j) = Allowances(n) + Limit * j /\ Limit * j \in Nat
           /\ Limit * (j + 1) = Limit * j + Limit /\ Limit * 0 = 0 /\ Limit * 1 = Limit
<1>1. Limit \in Nat
  BY SizesAssumption
<1>2. Limit * n \in Nat /\ Limit * j \in Nat
  BY <1>1
<1>3. Limit * (1 + n) = Limit + Limit * n
  BY <1>1
<1>4. Limit * (1 + (n + j)) = Limit + Limit * n + Limit * j
  BY <1>1
<1>5. Limit * (j + 1) = Limit * j + Limit
  BY <1>1
<1> QED
  BY <1>1, <1>2, <1>3, <1>4, <1>5 DEF Allowances

LEMMA LeftType ==
    ASSUME MeterType, MeterType', NEW a \in Addrs
    PROVE  /\ Left(a) \in 0 .. Limit /\ Left(a) \in Nat
           /\ Left(a)' \in 0 .. Limit /\ Left(a)' \in Nat
BY SizesAssumption DEF MeterType, Left, Quotas

LEMMA AddrsAreNumbers ==
    /\ Size \in Nat /\ Limit \in Nat /\ Size \in 0 .. Size /\ 0 \in 0 .. Size
    /\ \A a \in Addrs : a \in 0 .. Size /\ a - 1 \in 0 .. Size /\ a \in Nat
BY SizesAssumption DEF Addrs

\* Quotas that have no more left than before stay within the bounds.
LEMMA LessLeft ==
    ASSUME MeterType, MeterType', CapInv,
           \A a \in Addrs : Left(a)' <= Left(a),
           passed' <= passed, excess' = excess
    PROVE  Within'
<1>1. PICK bound : Bounds(bound) /\ passed + bound[Size] <= Allowances(excess)
  BY DEF CapInv, Within
<1>2. /\ bound \in [0 .. Size -> Nat]
      /\ \A m, n \in 0 .. Size : m <= n => bound[m] <= bound[n]
      /\ \A a \in Addrs : bound[a - 1] + Left(a) <= bound[a]
  BY <1>1 DEF Bounds
<1>3. ASSUME NEW a \in Addrs PROVE bound[a - 1] + Left(a)' <= bound[a]
  <2>1. Left(a) \in Nat /\ Left(a)' \in Nat /\ bound[a - 1] \in Nat /\ bound[a] \in Nat
    BY <1>2, LeftType, AddrsAreNumbers
  <2>2. bound[a - 1] + Left(a) <= bound[a] /\ Left(a)' <= Left(a)
    BY <1>2
  <2> QED
    BY <2>1, <2>2
<1>4. Bounds(bound)'
  BY <1>2, <1>3 DEF Bounds
<1>5. passed' + bound[Size] <= Allowances(excess)'
  <2>1. passed \in Nat /\ passed' \in Nat /\ bound[Size] \in Nat /\ excess \in Nat
    BY <1>2, AddrsAreNumbers DEF MeterType, TypeOK
  <2>2. Allowances(excess)' = Allowances(excess) /\ Allowances(excess) \in Nat
    BY <2>1, AllowancesGrow DEF Allowances
  <2> QED
    BY <1>1, <2>1, <2>2
<1> QED
  BY <1>4, <1>5 DEF Within

\* A budget more at the address a, and an untimely one more in the count.
LEMMA OneMoreBudget ==
    ASSUME MeterType, MeterType', CapInv, NEW a \in Addrs,
           \A b \in Addrs \ {a} : Left(b)' = Left(b),
           passed' = passed, excess' = excess + 1
    PROVE  Within'
<1>1. PICK bound : Bounds(bound) /\ passed + bound[Size] <= Allowances(excess)
  BY DEF CapInv, Within
<1>2. /\ bound \in [0 .. Size -> Nat]
      /\ \A m, n \in 0 .. Size : m <= n => bound[m] <= bound[n]
      /\ \A b \in Addrs : bound[b - 1] + Left(b) <= bound[b]
  BY <1>1 DEF Bounds
<1> DEFINE more == [n \in 0 .. Size |-> IF n < a THEN bound[n] ELSE bound[n] + Limit]
<1>3. more \in [0 .. Size -> Nat]
  BY <1>2, AddrsAreNumbers
<1>4. ASSUME NEW m \in 0 .. Size, NEW n \in 0 .. Size, m <= n PROVE more[m] <= more[n]
  <2>1. bound[m] \in Nat /\ bound[n] \in Nat /\ bound[m] <= bound[n]
    BY <1>2, <1>4
  <2> QED
    BY <1>4, <2>1, AddrsAreNumbers
<1>5. ASSUME NEW b \in Addrs PROVE more[b - 1] + Left(b)' <= more[b]
  <2>1. /\ Left(b) \in Nat /\ Left(b)' \in 0 .. Limit
        /\ bound[b - 1] \in Nat /\ bound[b] \in Nat /\ bound[b - 1] <= bound[b]
        /\ b \in Nat /\ b \in 0 .. Size /\ b - 1 \in 0 .. Size
        /\ bound[b - 1] + Left(b) <= bound[b]
    BY <1>2, LeftType, AddrsAreNumbers
  <2>2. CASE b = a
    BY <2>1, <2>2, AddrsAreNumbers
  <2>3. CASE b # a
    <3>1. Left(b)' = Left(b)
      BY <2>3
    <3> QED
      BY <2>1, <2>3, <3>1, AddrsAreNumbers
  <2> QED
    BY <2>2, <2>3
<1>6. Bounds(more)'
  BY <1>3, <1>4, <1>5 DEF Bounds
<1>7. passed' + more[Size] <= Allowances(excess)'
  <2>1. passed \in Nat /\ excess \in Nat /\ bound[Size] \in Nat
    BY <1>2, AddrsAreNumbers DEF MeterType, TypeOK
  <2>2. /\ Allowances(excess)' = Allowances(excess) + Limit /\ Allowances(excess) \in Nat
    <3>1. /\ Allowances(excess + 1) = Allowances(excess) + Limit * 1
          /\ Limit * 1 = Limit /\ Allowances(excess) \in Nat
      BY <2>1, AllowancesGrow
    <3> QED
      BY <3>1 DEF Allowances
  <2>3. more[Size] = bound[Size] + Limit
    BY AddrsAreNumbers DEF Addrs
  <2> QED
    BY <1>1, <2>1, <2>2, <2>3, AddrsAreNumbers
<1> QED
  BY <1>6, <1>7 DEF Within

\* A timely budget, when no other address has anything left.
LEMMA TimelyBudget ==
    ASSUME MeterType, MeterType', NEW a \in Addrs, NEW bytes \in 0 .. Limit,
           Left(a)' <= bytes, \A b \in Addrs \ {a} : Left(b)' = 0,
           bytes + passed <= Limit, passed' = passed, excess' = excess
    PROVE  Within'
<1> DEFINE bound == [n \in 0 .. Size |-> IF n < a THEN 0 ELSE bytes]
<1>1. bytes \in Nat /\ passed \in Nat /\ excess \in Nat
  BY AddrsAreNumbers DEF MeterType, TypeOK
<1>2. bound \in [0 .. Size -> Nat]
  BY <1>1
<1>3. \A m, n \in 0 .. Size : m <= n => bound[m] <= bound[n]
  BY <1>1, AddrsAreNumbers
<1>4. ASSUME NEW b \in Addrs PROVE bound[b - 1] + Left(b)' <= bound[b]
  <2>1. b \in Nat /\ b \in 0 .. Size /\ b - 1 \in 0 .. Size /\ a \in Nat /\ Left(b)' \in Nat
    BY LeftType, AddrsAreNumbers
  <2>2. CASE b = a
    BY <1>1, <2>1, <2>2
  <2>3. CASE b # a
    BY <1>1, <2>1, <2>3
  <2> QED
    BY <2>2, <2>3
<1>5. Bounds(bound)'
  BY <1>2, <1>3, <1>4 DEF Bounds
<1>6. passed' + bound[Size] <= Allowances(excess)'
  <2>1. Allowances(excess)' = Allowances(excess) /\ Limit <= Allowances(excess)
        /\ Allowances(excess) \in Nat
    BY <1>1, AllowancesGrow DEF Allowances
  <2>2. bound[Size] = bytes
    BY AddrsAreNumbers DEF Addrs
  <2> QED
    BY <1>1, <2>1, <2>2, AddrsAreNumbers
<1> QED
  BY <1>5, <1>6 DEF Within

\* A byte passes: it was left under the quota of a.
LEMMA ByteWithin ==
    ASSUME MeterType, MeterType', CapInv, NEW a \in Addrs,
           Left(a) > 0, Left(a)' <= Left(a) - 1,
           \A b \in Addrs \ {a} : Left(b)' = Left(b),
           passed' = passed + 1, excess' = excess
    PROVE  Within'
<1>1. PICK bound : Bounds(bound) /\ passed + bound[Size] <= Allowances(excess)
  BY DEF CapInv, Within
<1>2. /\ bound \in [0 .. Size -> Nat]
      /\ \A m, n \in 0 .. Size : m <= n => bound[m] <= bound[n]
      /\ \A b \in Addrs : bound[b - 1] + Left(b) <= bound[b]
  BY <1>1 DEF Bounds
<1>3. /\ Left(a) \in Nat /\ Left(a)' \in Nat /\ bound[a - 1] \in Nat /\ bound[a] \in Nat
      /\ bound[a - 1] + Left(a) <= bound[a] /\ a \in Nat /\ a \in 0 .. Size
  BY <1>2, LeftType, AddrsAreNumbers
<1> DEFINE less == [n \in 0 .. Size |-> IF n < a THEN bound[n] ELSE bound[n] - 1]
<1>4. ASSUME NEW n \in 0 .. Size, ~ (n < a) PROVE bound[n] \in Nat /\ bound[a] <= bound[n]
  BY <1>2, <1>3, <1>4
<1>5. less \in [0 .. Size -> Nat]
  <2>1. ASSUME NEW n \in 0 .. Size, ~ (n < a) PROVE bound[n] - 1 \in Nat
    BY <1>3, <1>4, <2>1
  <2> QED
    BY <1>2, <2>1
<1>6. ASSUME NEW m \in 0 .. Size, NEW n \in 0 .. Size, m <= n PROVE less[m] <= less[n]
  <2>1. bound[m] \in Nat /\ bound[n] \in Nat /\ bound[m] <= bound[n]
    BY <1>2, <1>6
  <2>2. CASE m < a /\ ~ (n < a)
    <3>1. bound[m] <= bound[a - 1]
      BY <1>2, <1>3, <2>2, AddrsAreNumbers
    <3>2. bound[a] <= bound[n]
      BY <1>4, <2>2
    <3>3. less[m] = bound[m] /\ less[n] = bound[n] - 1
      BY <2>2
    <3> QED
      BY <1>3, <2>1, <3>1, <3>2, <3>3
  <2>3. CASE ~ (m < a /\ ~ (n < a))
    BY <1>3, <1>6, <2>1, <2>3
  <2> QED
    BY <2>2, <2>3
<1>7. ASSUME NEW b \in Addrs PROVE less[b - 1] + Left(b)' <= less[b]
  <2>1. /\ Left(b) \in Nat /\ Left(b)' \in Nat
        /\ bound[b - 1] \in Nat /\ bound[b] \in Nat
        /\ b \in Nat /\ b \in 0 .. Size /\ b - 1 \in 0 .. Size
        /\ bound[b - 1] + Left(b) <= bound[b]
    BY <1>2, LeftType, AddrsAreNumbers
  <2>2. CASE b = a
    BY <1>3, <2>1, <2>2
  <2>3. CASE b # a
    <3>1. Left(b)' = Left(b)
      BY <2>3
    <3> QED
      BY <1>3, <2>1, <2>3, <3>1
  <2> QED
    BY <2>2, <2>3
<1>8. Bounds(less)'
  BY <1>5, <1>6, <1>7 DEF Bounds
<1>9. passed' + less[Size] <= Allowances(excess)'
  <2>1. passed \in Nat /\ excess \in Nat /\ bound[Size] \in Nat
    BY <1>2, AddrsAreNumbers DEF MeterType, TypeOK
  <2>2. Allowances(excess)' = Allowances(excess) /\ Allowances(excess) \in Nat
    BY <2>1, AllowancesGrow DEF Allowances
  <2>3. less[Size] = bound[Size] - 1
    BY AddrsAreNumbers DEF Addrs
  <2> QED
    BY <1>1, <2>1, <2>2, <2>3
<1> QED
  BY <1>8, <1>9 DEF Within

\* A reboot: each address whose budget grows is one in the count.
LEMMA RebootWithin ==
    ASSUME MeterType, MeterType', CapInv, Reboot
    PROVE  Within'
<1>1. PICK bytes \in [Addrs -> 0 .. Limit] :
         /\ quota' = [a \in Addrs |->
               IF {registry[k] : k \in {j \in Keys : registry[j] # None /\ registry[j].ip = a}} = {}
                 THEN None ELSE [bytes |-> bytes[a], left |-> bytes[a]]]
         /\ excess' = excess + Cardinality({a \in Addrs :
               bytes[a] > (IF quota[a] = None THEN 0 ELSE quota[a].left)})
  BY DEF Reboot
<1>0. PICK Grown : Grown = {a \in Addrs : bytes[a] > Left(a)}
  OBVIOUS
<1> DEFINE GrownTo(n) == Grown \cap (1 .. n)
<1>2. /\ \A a \in Addrs : Left(a)' = 0 \/ Left(a)' = bytes[a]
      /\ excess' = excess + Cardinality(Grown)
  BY <1>0, <1>1 DEF Left
<1>3. passed' = passed
  BY DEF Reboot
<1>4. PICK bound : Bounds(bound) /\ passed + bound[Size] <= Allowances(excess)
  BY DEF CapInv, Within
<1>5. /\ bound \in [0 .. Size -> Nat]
      /\ \A m, n \in 0 .. Size : m <= n => bound[m] <= bound[n]
      /\ \A b \in Addrs : bound[b - 1] + Left(b) <= bound[b]
  BY <1>4 DEF Bounds
<1>6. \A n \in 0 .. Size : IsFiniteSet(GrownTo(n)) /\ Cardinality(GrownTo(n)) \in Nat
  <2>1. \A n \in 0 .. Size : IsFiniteSet(1 .. n) /\ GrownTo(n) \in SUBSET (1 .. n)
    BY <1>0, FS_Interval, AddrsAreNumbers
  <2> HIDE DEF GrownTo
  <2> QED
    BY <2>1, FS_Subset, FS_CardinalityType
<1>7. ASSUME NEW m \in 0 .. Size, NEW n \in 0 .. Size, m <= n
      PROVE  Cardinality(GrownTo(m)) <= Cardinality(GrownTo(n))
  <2>1. GrownTo(m) \in SUBSET GrownTo(n)
    BY <1>7, AddrsAreNumbers
  <2> HIDE DEF GrownTo
  <2> QED
    BY <1>6, <2>1, FS_Subset
<1>8. ASSUME NEW a \in Addrs
      PROVE  Cardinality(GrownTo(a)) =
               IF a \in Grown THEN Cardinality(GrownTo(a - 1)) + 1 ELSE Cardinality(GrownTo(a - 1))
  <2>1. a - 1 \in 0 .. Size /\ a \notin GrownTo(a - 1) /\ a \in Nat
    BY AddrsAreNumbers
  <2>2. IsFiniteSet(GrownTo(a - 1))
    BY <1>6, <2>1
  <2>3. CASE a \in Grown
    <3>1. GrownTo(a) = GrownTo(a - 1) \cup {a}
      BY <2>1, <2>3, AddrsAreNumbers DEF Addrs
    <3> HIDE DEF GrownTo
    <3> QED
      BY <2>1, <2>2, <2>3, <3>1, FS_AddElement
  <2>4. CASE a \notin Grown
    <3>1. GrownTo(a) = GrownTo(a - 1)
      BY <2>1, <2>4, AddrsAreNumbers DEF Addrs
    <3> QED
      BY <2>4, <3>1
  <2> QED
    BY <2>3, <2>4
<1>9. GrownTo(Size) = Grown
  BY <1>0, AddrsAreNumbers DEF Addrs
<1>10. \A a \in Addrs : a \notin Grown => bytes[a] <= Left(a)
  BY <1>0, LeftType, AddrsAreNumbers
<1> HIDE DEF GrownTo
<1> DEFINE count(n) == Cardinality(GrownTo(n))
           more == [n \in 0 .. Size |-> bound[n] + Limit * count(n)]
<1>11. ASSUME NEW j \in Nat, NEW l \in Nat, j <= l
       PROVE  Limit * j \in Nat /\ Limit * l \in Nat /\ Limit * j <= Limit * l
  BY <1>11, AddrsAreNumbers
<1>12. more \in [0 .. Size -> Nat]
  <2>1. ASSUME NEW n \in 0 .. Size PROVE bound[n] + Limit * count(n) \in Nat
    <3>1. count(n) \in Nat /\ bound[n] \in Nat
      BY <1>5, <1>6
    <3>2. Limit * count(n) \in Nat
      BY <1>11, <3>1
    <3> HIDE DEF count
    <3> QED
      BY <3>1, <3>2
  <2> HIDE DEF count
  <2> QED
    BY <2>1
<1>13. ASSUME NEW m \in 0 .. Size, NEW n \in 0 .. Size, m <= n PROVE more[m] <= more[n]
  <2>1. /\ count(m) \in Nat /\ count(n) \in Nat /\ count(m) <= count(n)
        /\ bound[m] \in Nat /\ bound[n] \in Nat /\ bound[m] <= bound[n]
    BY <1>5, <1>6, <1>7, <1>13
  <2> HIDE DEF count
  <2>2. /\ Limit * count(m) \in Nat /\ Limit * count(n) \in Nat
        /\ Limit * count(m) <= Limit * count(n)
    BY <1>11, <2>1
  <2> QED
    BY <2>1, <2>2
<1>14. ASSUME NEW b \in Addrs PROVE more[b - 1] + Left(b)' <= more[b]
  <2>1. /\ Left(b) \in Nat /\ Left(b)' \in 0 .. Limit /\ Left(b)' \in Nat
        /\ b \in 0 .. Size /\ b - 1 \in 0 .. Size
    BY LeftType, AddrsAreNumbers
  <2>2. /\ bound[b - 1] \in Nat /\ bound[b] \in Nat /\ bound[b - 1] + Left(b) <= bound[b]
        /\ count(b - 1) \in Nat /\ count(b) \in Nat
    BY <1>5, <1>6, <2>1
  <2>3. more[b - 1] = bound[b - 1] + Limit * count(b - 1) /\ more[b] = bound[b] + Limit * count(b)
    BY <2>1
  <2>4. CASE b \in Grown
    <3>1. count(b) = count(b - 1) + 1
      BY <1>8, <2>4
    <3> HIDE DEF count
    <3>2. /\ Limit * count(b) = Limit * count(b - 1) + Limit
          /\ Limit * count(b - 1) \in Nat
      BY <2>2, <3>1, AllowancesGrow
    <3> HIDE DEF more
    <3> QED
      BY <2>1, <2>2, <2>3, <3>2, AddrsAreNumbers
  <2>5. CASE b \notin Grown
    <3>1. count(b) = count(b - 1) /\ Left(b)' <= Left(b)
      BY <1>2, <1>8, <1>10, <2>1, <2>5
    <3> HIDE DEF count
    <3>2. Limit * count(b - 1) \in Nat
      BY <1>11, <2>2
    <3> HIDE DEF more
    <3> QED
      BY <2>1, <2>2, <2>3, <3>1, <3>2
  <2> QED
    BY <2>4, <2>5
<1> HIDE DEF more
<1>15. Bounds(more)'
  BY <1>12, <1>13, <1>14 DEF Bounds
<1>16. passed' + more[Size] <= Allowances(excess)'
  <2>1. passed \in Nat /\ excess \in Nat /\ bound[Size] \in Nat /\ count(Size) \in Nat
    BY <1>5, <1>6, AddrsAreNumbers DEF MeterType, TypeOK
  <2>2. excess' = excess + count(Size) /\ more[Size] = bound[Size] + Limit * count(Size)
    BY <1>2, <1>9, AddrsAreNumbers DEF more
  <2> HIDE DEF count
  <2>3. /\ Allowances(excess + count(Size)) = Allowances(excess) + Limit * count(Size)
        /\ Limit * count(Size) \in Nat /\ Allowances(excess) \in Nat
    BY <2>1, AllowancesGrow
  <2>4. Allowances(excess)' = Allowances(excess) + Limit * count(Size)
    BY <2>2, <2>3 DEF Allowances
  <2> QED
    BY <1>3, <1>4, <2>1, <2>2, <2>3, <2>4
<1> QED
  BY <1>15, <1>16 DEF Within

\* The agent's handlers stay within the budgets.
LEMMA DropPeerWithin ==
    ASSUME MeterType, MeterType', CapInv, NEW k \in Keys, DropPeer(k), passed' = passed
    PROVE  Within'
<1>1. ASSUME NEW a \in Addrs PROVE Left(a)' <= Left(a)
  <2>1. quota'[a] = quota[a] \/ quota'[a] = None
    BY DEF DropPeer, MeterType
  <2> QED
    BY <2>1, LeftType DEF Left
<1>2. passed \in Nat /\ excess' = excess
  BY DEF DropPeer, MeterType, TypeOK
<1> QED
  BY <1>1, <1>2, LessLeft

LEMMA PostPeerWithin ==
    ASSUME MeterType, MeterType', CapInv, NEW c \in calls, c.op # "remove",
           PostPeer(c.key, c), passed' = passed
    PROVE  Within'
<1>1. c.key \in Keys /\ c.ip \in Addrs /\ c.bytes \in 0 .. Limit /\ c.bytes \in Nat
  BY CallType, AddrsAreNumbers
<1>2. /\ \A b \in Addrs \ {c.ip} : Left(b)' = Left(b)
      /\ Left(c.ip)' <= c.bytes
  <2>1. /\ quota'[c.ip] = [bytes |-> c.bytes, left |-> c.bytes]
        /\ \A b \in Addrs \ {c.ip} : quota'[b] = quota[b]
    BY <1>1 DEF PostPeer, MeterType
  <2> QED
    BY <1>1, <2>1 DEF Left
<1>3. CASE c.timely /\ ~ \E b \in Addrs \ {c.ip} : Live(b)
  <2>1. excess' = excess
    BY <1>3 DEF PostPeer
  <2>2. ASSUME NEW b \in Addrs \ {c.ip} PROVE Left(b) = 0
    BY <1>3, LeftType DEF Live, Left
  <2>3. CASE c.bytes = 0
    <3>1. \A a \in Addrs : Left(a)' <= Left(a)
      BY <1>1, <1>2, <2>3, LeftType
    <3>2. passed \in Nat
      BY DEF MeterType, TypeOK
    <3> QED
      BY <2>1, <3>1, <3>2, LessLeft
  <2>4. CASE c.bytes + passed <= Limit
    BY <1>1, <1>2, <2>1, <2>2, <2>4, TimelyBudget
  <2> QED
    BY <1>3, <2>3, <2>4 DEF CapInv, TimelyFits
<1>4. CASE ~ (c.timely /\ ~ \E b \in Addrs \ {c.ip} : Live(b))
  <2>1. excess' = excess + 1
    BY <1>4 DEF PostPeer
  <2> QED
    BY <1>1, <1>2, <2>1, OneMoreBudget
<1> QED
  BY <1>3, <1>4

LEMMA ApplyWithin ==
    ASSUME MeterType, MeterType', CapInv, NEW c \in calls, Apply(c), passed' = passed
    PROVE  Within'
BY CallType, DropPeerWithin, PostPeerWithin DEF Apply

LEMMA SameNodeWithin ==
    ASSUME MeterType, MeterType', CapInv, UNCHANGED <<node, excess>>, passed' <= passed
    PROVE  Within'
<1>1. \A a \in Addrs : Left(a)' <= Left(a)
  BY LeftType DEF Left, node
<1> QED
  BY <1>1, LessLeft

\* A call's budget is timely when everything that passed was booked.
LEMMA NewCallFits ==
    ASSUME MeterType, CapInv, NEW op, NEW k, NEW ip, NEW bytes, NEW fresh,
           Call(op, k, ip, bytes, fresh), op = "add" => bytes = Remaining,
           passed' = passed
    PROVE  TimelyFits'
<1> DEFINE c == [op |-> op, key |-> k, ip |-> ip, bytes |-> bytes,
                 fresh |-> fresh, waited |-> TRUE, timely |-> op = "add" /\ LedgerUpToDate]
<1>1. calls' = calls \cup {c}
  BY DEF Call
<1>2. c.timely => c.op = "add" /\ (c.bytes = 0 \/ c.bytes + passed <= Limit)
  <2>1. used \in Nat /\ passed \in Nat /\ Limit \in Nat
    BY AddrsAreNumbers DEF MeterType, TypeOK
  <2>2. Remaining \in 0 .. Limit /\ (Remaining = 0 \/ Remaining + used = Limit)
    BY <2>1, RemainingType
  <2>3. ASSUME c.timely PROVE op = "add" /\ passed <= used /\ c.bytes = Remaining
    BY <2>1, <2>3 DEF LedgerUpToDate
  <2>4. ASSUME passed <= used PROVE Remaining = 0 \/ Remaining + passed <= Limit
    BY <2>1, <2>2, <2>4
  <2>5. c.op = op
    OBVIOUS
  <2> HIDE DEF c
  <2> QED
    BY <2>3, <2>4, <2>5
<1> HIDE DEF c
<1> QED
  BY <1>1, <1>2 DEF CapInv, TimelyFits

LEMMA OldCallsFit ==
    ASSUME CapInv, calls' \subseteq calls, passed' = passed
    PROVE  TimelyFits'
BY DEF CapInv, TimelyFits

LEMMA CapInit == Init => CapInv
<1> SUFFICES ASSUME Init PROVE CapInv
  OBVIOUS
<1> DEFINE bound == [n \in 0 .. Size |-> 0]
<1>1. \A a \in Addrs : Left(a) = 0
  BY DEF Init, Left
<1>2. \A a \in Addrs : bound[a - 1] = 0 /\ bound[a] = 0
  BY AddrsAreNumbers
<1>3. bound \in [0 .. Size -> Nat] /\ bound[Size] = 0
  BY AddrsAreNumbers
<1>4. Bounds(bound)
  <2>1. \A m, n \in 0 .. Size : m <= n => bound[m] <= bound[n]
    OBVIOUS
  <2> HIDE DEF bound
  <2>2. ASSUME NEW a \in Addrs PROVE bound[a - 1] + Left(a) <= bound[a]
    BY <1>1, <1>2
  <2> QED
    BY <1>3, <2>1, <2>2 DEF Bounds
<1>5. passed = 0 /\ Allowances(excess) \in Nat
  BY AllowancesGrow DEF Init
<1>6. passed + bound[Size] <= Allowances(excess)
  <2> HIDE DEF bound
  <2> QED
    BY <1>3, <1>5
<1>7. Within
  BY <1>4, <1>6 DEF Within
<1> QED
  BY <1>7 DEF Init, CapInv, TimelyFits

\* Every step stays within the budgets.
LEMMA CapStep == MeterType /\ MeterType' /\ CapInv /\ [Next]_vars => CapInv'
<1> SUFFICES ASSUME MeterType, MeterType', CapInv, [Next]_vars PROVE CapInv'
  OBVIOUS
<1> USE DEF control, ledger, history
<1>1. passed \in Nat /\ passed <= passed
  BY DEF MeterType, TypeOK
<1>2. ASSUME UNCHANGED <<node, excess, passed>>, calls' \subseteq calls PROVE CapInv'
  BY <1>1, <1>2, SameNodeWithin, OldCallsFit DEF CapInv
<1>3. ASSUME NEW k \in Keys, Open(k) PROVE CapInv'
  BY <1>1, <1>3, SameNodeWithin, NewCallFits DEF Open, CapInv
<1>4. ASSUME NEW k \in Keys, Reserve(k) PROVE CapInv'
  BY <1>2, <1>4 DEF Reserve
<1>5. ASSUME NEW k \in Keys, Authorize(k) PROVE CapInv'
  BY <1>1, <1>5, SameNodeWithin, NewCallFits DEF Authorize, CapInv
<1>6. ASSUME NEW k \in Keys, Close(k) PROVE CapInv'
  BY <1>1, <1>6, SameNodeWithin, NewCallFits DEF Close, CapInv
<1>7. ASSUME NEW k \in Keys, Reap(k) PROVE CapInv'
  BY <1>7, DropPeerWithin, OldCallsFit DEF Reap, CapInv
<1>8. ASSUME NEW k \in Keys, ReapTimesOut(k) PROVE CapInv'
  <2>1. TimelyFits'
    BY <1>8 DEF ReapTimesOut, CapInv, TimelyFits
  <2> QED
    BY <1>1, <1>8, <2>1, SameNodeWithin DEF ReapTimesOut, CapInv
<1>9. ASSUME NEW k \in Keys, ReapUnauthorized(k) PROVE CapInv'
  BY <1>2, <1>9 DEF ReapUnauthorized
<1>10. ASSUME NEW k \in Keys, Sweep(k) PROVE CapInv'
  BY <1>10, DropPeerWithin, OldCallsFit DEF Sweep, CapInv
<1>11. ASSUME NEW k \in Keys, Transfer(k) PROVE CapInv'
  <2>1. PICK a \in Addrs : a = wg[k]
    BY <1>11 DEF Transfer
  <2>2. /\ Live(a) /\ passed' = passed + 1 /\ excess' = excess
        /\ quota' = [quota EXCEPT ![a].left = @ - 1]
    BY <1>11, <2>1 DEF Transfer
  <2>3. \A b \in Addrs \ {a} : Left(b)' = Left(b)
    BY <2>2 DEF Left, MeterType
  <2>4. Left(a) > 0 /\ Left(a)' <= Left(a) - 1
    <3>1. quota[a] \in Quotas /\ quota[a] # None /\ quota[a].left > 0
      BY <2>2 DEF Live, MeterType
    <3>2. quota'[a].left = quota[a].left - 1
      BY <2>2, <3>1 DEF MeterType, Quotas
    <3>3. Left(a) \in Nat /\ Left(a) = quota[a].left
      BY <3>1, LeftType DEF Left
    <3>4. Left(a)' = 0 \/ Left(a)' = quota'[a].left
      BY DEF Left
    <3> QED
      BY <3>1, <3>2, <3>3, <3>4
  <2>6. Within'
    BY <2>2, <2>3, <2>4, ByteWithin
  <2>5. TimelyFits'
    <3>1. calls' = {[c EXCEPT !.timely = FALSE] : c \in calls}
      BY <1>11 DEF Transfer
    <3>2. \A c \in calls : c \in Calls
      BY CallType
    <3>3. \A d \in calls' : ~ d.timely
      BY <3>1, <3>2 DEF Calls
    <3> QED
      BY <3>3 DEF TimelyFits
  <2> QED
    BY <2>5, <2>6 DEF CapInv
<1>12. ASSUME NEW c \in calls, CallSucceeds(c) PROVE CapInv'
  BY <1>12, ApplyWithin, OldCallsFit DEF CallSucceeds, CapInv
<1>13. ASSUME NEW c \in calls, CallRefused(c) PROVE CapInv'
  BY <1>2, <1>13 DEF CallRefused
<1>14. ASSUME NEW c \in calls, CallTimesOut(c) PROVE CapInv'
  <2> DEFINE e == [c EXCEPT !.waited = FALSE, !.fresh = FALSE]
  <2>1. calls' = (calls \ {c}) \cup {e} /\ UNCHANGED <<node, excess, passed>>
    BY <1>14 DEF CallTimesOut
  <2>2. e.timely = c.timely /\ e.op = c.op /\ e.bytes = c.bytes
    BY CallType DEF Calls
  <2> HIDE DEF e
  <2>3. TimelyFits'
    BY <2>1, <2>2 DEF CapInv, TimelyFits
  <2> QED
    BY <1>1, <2>1, <2>3, SameNodeWithin DEF CapInv
<1>15. ASSUME NEW c \in calls, LateCall(c) PROVE CapInv'
  BY <1>15, ApplyWithin, OldCallsFit DEF LateCall, CapInv
<1>16. ASSUME NEW c \in calls, LostCall(c) PROVE CapInv'
  BY <1>2, <1>16 DEF LostCall
<1>17. CASE Reboot
  BY <1>17, RebootWithin, OldCallsFit DEF Reboot, CapInv
<1>18. ASSUME NEW n \in 1 .. pending, Book(n) PROVE CapInv'
  BY <1>2, <1>18 DEF Book
<1>19. CASE MonthEnds
  <2>1. UNCHANGED <<node, excess, calls>> /\ passed' = 0 /\ 0 <= passed
    BY <1>1, <1>19 DEF MonthEnds
  <2>2. ASSUME NEW c \in calls, c.timely PROVE c.bytes = 0 \/ c.bytes + 0 <= Limit
    <3>1. c.op = "add"
      BY <2>2 DEF CapInv, TimelyFits
    <3>2. c.bytes \in 0 .. Limit
      BY <3>1, CallType
    <3> QED
      BY <3>2, AddrsAreNumbers
  <2>3. TimelyFits'
    BY <2>1, <2>2 DEF CapInv, TimelyFits
  <2> QED
    BY <2>1, <2>3, SameNodeWithin DEF CapInv
<1>20. CASE UNCHANGED vars
  BY <1>2, <1>20 DEF vars
<1> QED
  BY <1>3, <1>4, <1>5, <1>6, <1>7, <1>8, <1>9, <1>10, <1>11, <1>12, <1>13, <1>14, <1>15,
     <1>16, <1>17, <1>18, <1>19, <1>20 DEF Next

\* Under its quotas a device passes its allowance once and once more for each budget
\* that was not timely, whatever calls are late, addresses change hands, readings are
\* missing or months end (services/quota.js:90-98, node-agent/index.js:234-246).
THEOREM CapKept == Spec => []CapWithinBudgets
<1>1. Init => MeterType /\ CapInv
  BY TypeInit, CapInit
<1>2. MeterType /\ CapInv /\ [Next]_vars => (MeterType /\ CapInv)'
  BY TypeStep, CapStep
<1>3. MeterType /\ CapInv => CapWithinBudgets
  <2> SUFFICES ASSUME MeterType, CapInv PROVE CapWithinBudgets
    OBVIOUS
  <2>1. PICK bound : Bounds(bound) /\ passed + bound[Size] <= Allowances(excess)
    BY DEF CapInv, Within
  <2>2. bound[Size] \in Nat /\ passed \in Nat /\ excess \in Nat
    BY <2>1, AddrsAreNumbers DEF Bounds, MeterType, TypeOK
  <2>3. Allowances(excess) \in Nat
    BY <2>2, AllowancesGrow
  <2>4. passed <= Allowances(excess)
    BY <2>1, <2>2, <2>3
  <2> QED
    BY <2>4 DEF CapWithinBudgets, Allowances
<1> QED
  BY <1>1, <1>2, <1>3, PTL DEF Spec
=============================================================================
