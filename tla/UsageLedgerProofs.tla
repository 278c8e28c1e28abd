-------------------------- MODULE UsageLedgerProofs --------------------------
(***************************************************************************)
(* Proofs about UsageLedger, for any peers, devices, servers and passes    *)
(* and any bounds.                                                         *)
(***************************************************************************)
EXTENDS UsageLedger, FiniteSetTheorems, WellFoundedInduction, TLAPS

\* p has a reading of k still to book.
Holds(p, k) == pass[p] # None /\ k \in DOMAIN pass[p]

\* Booking two readings one after the other charges no less than booking the
\* later one alone, whatever resets lie between them.
LEMMA DeltaTriangle ==
    ASSUME NEW a \in Nat, NEW b \in Nat, NEW c \in Nat
    PROVE  /\ Delta(a, b) \in Nat /\ Delta(a, a) = 0 /\ Delta(a, 0) = 0
           /\ Delta(a, c) <= Delta(a, b) + Delta(b, c)
           /\ Delta(a, b + 1) <= Delta(a, b) + 1
BY DEF Delta

-----------------------------------------------------------------------------
(* Type correctness *)

\* The types, and what makes Transfer keep them: a counter counts what passed.
LedgerType ==
    /\ TypeOK
    /\ DOMAIN pass = Passes /\ pass = [p \in Passes |-> pass[p]]
    /\ \A k \in Keys : raw[k] # None => raw[k] <= passed[k]

LEMMA ReadingType ==
    ASSUME TypeOK, NEW p \in Passes, NEW k, Holds(p, k)
    PROVE  k \in Keys /\ pass[p][k] \in 0 .. MaxPassed
BY DEF TypeOK, Holds

\* Going on from a peer forgets its reading and changes no other.
LEMMA DoneWithEffect ==
    ASSUME LedgerType, NEW p \in Passes, NEW k, Holds(p, k), DoneWith(p, k)
    PROVE  /\ DOMAIN pass' = Passes /\ pass' = [q \in Passes |-> pass'[q]]
           /\ \A q \in Passes : pass'[q] # None =>
                 /\ pass'[q] \in [DOMAIN pass'[q] -> 0 .. MaxPassed]
                 /\ DOMAIN pass'[q] \subseteq Keys
           /\ \A q \in Passes : \A j \in Keys : Holds(q, j)' =>
                 Holds(q, j) /\ pass'[q][j] = pass[q][j] /\ ~ (q = p /\ j = k)
<1>1. /\ DOMAIN pass' = Passes /\ pass' = [q \in Passes |-> pass'[q]]
      /\ \A q \in Passes \ {p} : pass'[q] = pass[q]
      /\ pass'[p] = None \/ pass'[p] = [j \in DOMAIN pass[p] \ {k} |-> pass[p][j]]
  BY DEF DoneWith, LedgerType, Restrict
<1>2. pass[p] \in [DOMAIN pass[p] -> 0 .. MaxPassed] /\ DOMAIN pass[p] \subseteq Keys
  BY DEF LedgerType, TypeOK, Holds
<1>3. ASSUME pass'[p] # None
      PROVE  /\ DOMAIN pass'[p] = DOMAIN pass[p] \ {k}
             /\ \A j \in DOMAIN pass'[p] : pass'[p][j] = pass[p][j]
             /\ pass'[p] \in [DOMAIN pass'[p] -> 0 .. MaxPassed]
  BY <1>1, <1>2, <1>3
<1>4. \A q \in Passes \ {p} : pass'[q] # None =>
         pass'[q] \in [DOMAIN pass'[q] -> 0 .. MaxPassed] /\ DOMAIN pass'[q] \subseteq Keys
  BY <1>1 DEF LedgerType, TypeOK
<1> QED
  BY <1>1, <1>2, <1>3, <1>4 DEF Holds

LEMMA AddUsageType ==
    ASSUME used \in [Devices -> [Months -> Nat]], month \in Months,
           NEW d \in Devices, NEW delta \in Nat, AddUsage(d, delta)
    PROVE  used' \in [Devices -> [Months -> Nat]]
<1>1. [used[d] EXCEPT ![month] = @ + delta] \in [Months -> Nat]
  OBVIOUS
<1> QED
  BY <1>1 DEF AddUsage

LEMMA TypeInit == Init => LedgerType
<1> SUFFICES ASSUME Init PROVE LedgerType
  OBVIOUS
<1>1. month \in Months /\ \A p \in Passes : pass[p] = None
  BY LedgerBounds DEF Init, Months
<1>2. raw \in [Keys -> (0 .. MaxPassed) \cup {None}] /\ \A k \in Keys : raw[k] = None
  BY DEF Init
<1>3. sample \in [Keys -> (0 .. MaxPassed) \cup {None}]
  BY DEF Init
<1>4. used \in [Devices -> [Months -> Nat]]
  BY DEF Init
<1>5. created \in [Keys -> 0 .. MaxRows] /\ passed \in [Keys -> 0 .. MaxPassed]
  BY LedgerBounds DEF Init
<1>6. charged \in [Keys -> Nat] /\ DOMAIN pass = Passes /\ pass = [p \in Passes |-> pass[p]]
  BY DEF Init
<1> QED
  BY <1>1, <1>2, <1>3, <1>4, <1>5, <1>6 DEF LedgerType, TypeOK

\* Every step keeps the types.
LEMMA TypeStep == LedgerType /\ [Next]_vars => LedgerType'
<1> SUFFICES ASSUME LedgerType, [Next]_vars PROVE LedgerType'
  OBVIOUS
<1>1. TypeOK /\ MaxPassed \in Nat /\ MaxRows \in Nat /\ MaxMonths \in Nat
  BY LedgerBounds DEF LedgerType
<1>2. ASSUME NEW p \in Passes, NEW s \in Servers, Fetch(p, s) PROVE LedgerType'
  <2> DEFINE peers == {k \in Keys : Server[k] = s /\ raw[k] # None}
  <2>1. /\ pass' = [pass EXCEPT ![p] = [k \in peers |-> raw[k]]]
        /\ UNCHANGED <<raw, sample, used, month, created, passed, charged>>
    BY <1>2 DEF Fetch, Restrict
  <2>2. [k \in peers |-> raw[k]] \in [peers -> 0 .. MaxPassed] /\ peers \subseteq Keys
    BY <1>1 DEF TypeOK
  <2> HIDE DEF peers
  <2>3. \A q \in Passes : pass'[q] # None =>
           pass'[q] \in [DOMAIN pass'[q] -> 0 .. MaxPassed] /\ DOMAIN pass'[q] \subseteq Keys
    BY <1>1, <2>1, <2>2 DEF LedgerType, TypeOK
  <2>4. DOMAIN pass' = Passes /\ pass' = [q \in Passes |-> pass'[q]]
    BY <2>1 DEF LedgerType
  <2> QED
    BY <1>1, <2>1, <2>3, <2>4 DEF LedgerType, TypeOK
<1>3. ASSUME NEW p \in Passes, NEW k \in Keys, Ingest(p, k) PROVE LedgerType'
  <2>1. Holds(p, k) /\ DoneWith(p, k) /\ UNCHANGED <<raw, month, created, passed>>
    BY <1>3 DEF Ingest, Holds
  <2>2. pass[p][k] \in 0 .. MaxPassed /\ sample[k] \in 0 .. MaxPassed
    BY <1>1, <1>3, <2>1, ReadingType DEF Ingest, TypeOK
  <2>3. Delta(sample[k], pass[p][k]) \in Nat
    BY <1>1, <2>2, DeltaTriangle
  <2>4. used' \in [Devices -> [Months -> Nat]]
    BY <1>1, <1>3, <2>3, OwnerAssumption, AddUsageType DEF Ingest, TypeOK
  <2>5. sample' \in [Keys -> (0 .. MaxPassed) \cup {None}] /\ charged' \in [Keys -> Nat]
    BY <1>1, <1>3, <2>2, <2>3 DEF Ingest, TypeOK
  <2> QED
    BY <1>1, <2>1, <2>4, <2>5, DoneWithEffect DEF LedgerType, TypeOK
<1>4. ASSUME NEW p \in Passes, NEW k \in Keys, IngestUnknown(p, k) PROVE LedgerType'
  <2>1. /\ Holds(p, k) /\ DoneWith(p, k)
        /\ UNCHANGED <<raw, sample, used, month, created, passed, charged>>
    BY <1>4 DEF IngestUnknown, Holds
  <2> QED
    BY <1>1, <2>1, DoneWithEffect DEF LedgerType, TypeOK
<1>5. ASSUME NEW p \in Passes, pass' = [pass EXCEPT ![p] = None],
             UNCHANGED <<raw, sample, used, month, created, passed, charged>>
      PROVE  LedgerType'
  BY <1>1, <1>5 DEF LedgerType, TypeOK
<1>6. ASSUME NEW p \in Passes, NEW k \in Keys, IngestFails(p, k) PROVE LedgerType'
  <2>1. /\ Holds(p, k) /\ UNCHANGED <<raw, sample, used, month, created, passed, charged>>
        /\ DoneWith(p, k) \/ pass' = [pass EXCEPT ![p] = None]
    BY <1>6 DEF IngestFails, Holds
  <2>2. CASE DoneWith(p, k)
    BY <1>1, <2>1, <2>2, DoneWithEffect DEF LedgerType, TypeOK
  <2> QED
    BY <1>5, <2>1, <2>2
<1>7. ASSUME NEW p \in Passes, Abandon(p) PROVE LedgerType'
  BY <1>5, <1>7 DEF Abandon
<1>8. ASSUME NEW k \in Keys, CreateRow(k) PROVE LedgerType'
  BY <1>1, <1>8 DEF CreateRow, LedgerType, TypeOK
<1>9. ASSUME NEW k \in Keys, DeleteRow(k) PROVE LedgerType'
  BY <1>1, <1>9 DEF DeleteRow, LedgerType, TypeOK
<1>10. ASSUME NEW k \in Keys, AddPeer(k) PROVE LedgerType'
  BY <1>1, <1>10 DEF AddPeer, LedgerType, TypeOK
<1>11. ASSUME NEW k \in Keys, RemovePeer(k) PROVE LedgerType'
  BY <1>1, <1>11 DEF RemovePeer, LedgerType, TypeOK
<1>12. ASSUME NEW k \in Keys, Transfer(k) PROVE LedgerType'
  BY <1>1, <1>12, NoneAssumption DEF Transfer, LedgerType, TypeOK
<1>13. ASSUME NEW s \in Servers, Reboot(s) PROVE LedgerType'
  BY <1>1, <1>13 DEF Reboot, LedgerType, TypeOK
<1>14. CASE MonthEnds
  BY <1>1, <1>14 DEF MonthEnds, LedgerType, TypeOK, Months
<1>15. CASE UNCHANGED vars
  BY <1>1, <1>15 DEF vars, LedgerType, TypeOK
<1> QED
  BY <1>2, <1>3, <1>4, <1>6, <1>7, <1>8, <1>9, <1>10, <1>11, <1>12, <1>13, <1>14, <1>15
     DEF Next, Book

LEMMA LedgerTypeCorrect == Spec => []LedgerType
BY TypeInit, TypeStep, PTL DEF Spec

\* The type invariant, for any peers, passes and bounds.
THEOREM TypeCorrect == Spec => []TypeOK
<1>1. LedgerType => TypeOK
  BY DEF LedgerType
<1> QED
  BY <1>1, LedgerTypeCorrect, PTL

-----------------------------------------------------------------------------
(* What booking a reading costs *)

\* However many passes there are, and in whatever order their readings are booked,
\* a booking charges at least what it takes from what the next reading adds
\* (services/usagePoller.js:55-68).
THEOREM BookingSafe == Spec => BookingLosesNothing
<1>1. ASSUME LedgerType, LedgerType', NEW p \in Passes, NEW k \in Keys, Ingest(p, k)
      PROVE  Unaccounted(k)' <= Unaccounted(k)
  <2>1. /\ sample[k] \in Nat /\ pass[p][k] \in Nat /\ sample'[k] = pass[p][k]
        /\ charged[k] \in Nat /\ passed[k] \in Nat /\ passed' = passed /\ raw' = raw
        /\ charged'[k] = charged[k] + Delta(sample[k], pass[p][k])
    <3>1. pass[p][k] \in 0 .. MaxPassed
      BY <1>1, ReadingType DEF Ingest, Holds, LedgerType
    <3> QED
      BY <1>1, <3>1, LedgerBounds DEF Ingest, LedgerType, TypeOK
  <2>2. sample[k] # None /\ sample'[k] # None
    BY <2>1, NoneAssumption
  <2>3. CASE raw[k] = None
    BY <2>1, <2>2, <2>3, DeltaTriangle DEF Unaccounted, Pending
  <2>4. CASE raw[k] # None
    <3>1. raw[k] \in Nat
      BY <1>1, <2>4 DEF LedgerType, TypeOK
    <3>2. /\ Pending(k) = Delta(sample[k], raw[k])
          /\ Pending(k)' = Delta(pass[p][k], raw[k])
      BY <2>1, <2>2, <2>4 DEF Pending, Delta
    <3>3. /\ Unaccounted(k) = passed[k] - charged[k] - Pending(k)
          /\ Unaccounted(k)' = passed[k] - charged'[k] - Pending(k)'
      BY <2>1 DEF Unaccounted
    <3>4. /\ Delta(sample[k], raw[k]) \in Nat /\ Delta(sample[k], pass[p][k]) \in Nat
          /\ Delta(pass[p][k], raw[k]) \in Nat
          /\ Delta(sample[k], raw[k])
               <= Delta(sample[k], pass[p][k]) + Delta(pass[p][k], raw[k])
      BY <2>1, <3>1, DeltaTriangle
    <3> QED
      BY <2>1, <3>2, <3>3, <3>4
  <2> QED
    BY <2>3, <2>4
<1>2. LedgerType /\ LedgerType' /\ [Next]_vars =>
         [\A p \in Passes, k \in Keys :
             Ingest(p, k) => Unaccounted(k)' <= Unaccounted(k)]_vars
  BY <1>1
<1> QED
  BY <1>2, LedgerTypeCorrect, PTL DEF Spec, BookingLosesNothing

-----------------------------------------------------------------------------
(* One pass at a time, one row for a key *)

\* What the reading after one of v will charge.
Rest(k, v) == IF raw[k] = None THEN 0 ELSE Delta(v, raw[k])

\* What k was charged, and will be by the reading that waits to be booked and by
\* the next one, it has passed.  A key that never had a row has nothing to book.
KeyCovered(k) ==
    /\ charged[k] <= passed[k]
    /\ sample[k] # None => created[k] # 0
    /\ created[k] = 0 => raw[k] = None /\ \A p \in Passes : ~ Holds(p, k)
    /\ sample[k] # None =>
          /\ charged[k] + Rest(k, sample[k]) <= passed[k]
          /\ \A p \in Passes : Holds(p, k) =>
                charged[k] + Delta(sample[k], pass[p][k]) + Rest(k, pass[p][k]) <= passed[k]

Covered == \A k \in Keys : KeyCovered(k)

\* What the types say of a key, as numbers.
LEMMA KeyTypes ==
    ASSUME LedgerType, NEW k \in Keys
    PROVE  /\ charged[k] \in Nat /\ passed[k] \in Nat /\ created[k] \in Nat
           /\ sample[k] # None => sample[k] \in Nat
           /\ raw[k] # None => raw[k] \in Nat
           /\ \A p \in Passes : Holds(p, k) => pass[p][k] \in Nat
<1>1. \A p \in Passes : Holds(p, k) => pass[p][k] \in 0 .. MaxPassed
  BY ReadingType DEF LedgerType
<1> QED
  BY <1>1, LedgerBounds DEF LedgerType, TypeOK

LEMMA RestType ==
    ASSUME LedgerType, NEW k \in Keys, NEW v \in Nat
    PROVE  Rest(k, v) \in Nat
BY KeyTypes, DeltaTriangle DEF Rest

\* A key the step has nothing to do with stays covered.
LEMMA Untouched ==
    ASSUME NEW k \in Keys, KeyCovered(k),
           raw'[k] = raw[k], sample'[k] = sample[k], created'[k] = created[k],
           passed'[k] = passed[k], charged'[k] = charged[k],
           \A p \in Passes : Holds(p, k)' => Holds(p, k) /\ pass'[p][k] = pass[p][k]
    PROVE  KeyCovered(k)'
BY DEF KeyCovered, Rest, Delta

LEMMA CoveredInit == Init => Covered
BY DEF Init, Covered, KeyCovered, Holds

\* A booking: the reading's charge and the rest after it were covered, and no
\* other pass has a reading of the peer.
LEMMA IngestCovered ==
    ASSUME LedgerType, LedgerType', Covered, \A p, q \in Passes : p = q,
           NEW p \in Passes, NEW k \in Keys, Ingest(p, k)
    PROVE  Covered'
<1>1. Holds(p, k) /\ DoneWith(p, k) /\ sample[k] # None
  BY DEF Ingest, Holds
<1>2. \A q \in Passes, j \in Keys : Holds(q, j)' =>
         Holds(q, j) /\ pass'[q][j] = pass[q][j] /\ ~ (q = p /\ j = k)
  BY <1>1, DoneWithEffect
<1>3. ASSUME NEW j \in Keys \ {k} PROVE KeyCovered(j)'
  <2>1. /\ raw'[j] = raw[j] /\ sample'[j] = sample[j] /\ created'[j] = created[j]
        /\ passed'[j] = passed[j] /\ charged'[j] = charged[j]
    BY DEF Ingest, LedgerType, TypeOK
  <2> QED
    BY <1>2, <2>1, Untouched DEF Covered
<1>4. KeyCovered(k)'
  <2>1. /\ raw' = raw /\ passed' = passed /\ created' = created
        /\ sample'[k] = pass[p][k]
        /\ charged'[k] = charged[k] + Delta(sample[k], pass[p][k])
    BY DEF Ingest, LedgerType, TypeOK
  <2>2. \A q \in Passes : ~ Holds(q, k)'
    BY <1>2
  <2>3. charged[k] + Delta(sample[k], pass[p][k]) + Rest(k, pass[p][k]) <= passed[k]
    BY <1>1 DEF Covered, KeyCovered
  <2>4. /\ charged[k] \in Nat /\ passed[k] \in Nat
        /\ Delta(sample[k], pass[p][k]) \in Nat /\ Rest(k, pass[p][k]) \in Nat
    BY <1>1, KeyTypes, RestType, DeltaTriangle
  <2>5. Rest(k, sample[k])' = Rest(k, pass[p][k])
    BY <2>1 DEF Rest, Delta
  <2>6. charged'[k] <= passed'[k] /\ charged'[k] + Rest(k, sample[k])' <= passed'[k]
    BY <2>1, <2>3, <2>4, <2>5
  <2>7. created'[k] # 0
    BY <1>1, <2>1 DEF Covered, KeyCovered
  <2> QED
    BY <2>2, <2>6, <2>7 DEF KeyCovered
<1> QED
  BY <1>3, <1>4 DEF Covered

\* A counter that disappears or starts at 0 leaves nothing to the next reading.
LEMMA CounterReset ==
    ASSUME LedgerType, LedgerType', NEW k \in Keys, KeyCovered(k),
           raw'[k] = raw[k] \/ raw'[k] = None \/ raw'[k] = 0,
           raw'[k] # None => created[k] # 0,
           UNCHANGED <<sample, used, month, pass, created, passed, charged>>
    PROVE  KeyCovered(k)'
<1>1. ASSUME NEW v \in Nat PROVE Rest(k, v)' \in Nat /\ Rest(k, v)' <= Rest(k, v)
  <2>1. Rest(k, v) \in Nat /\ Delta(v, 0) = 0
    BY RestType, DeltaTriangle
  <2>2. CASE raw'[k] = raw[k]
    BY <2>1, <2>2 DEF Rest, Delta
  <2>3. CASE raw'[k] = None
    BY <2>1, <2>3 DEF Rest
  <2>4. CASE raw'[k] = 0
    BY <2>1, <2>4 DEF Rest, Delta
  <2> QED
    BY <2>2, <2>3, <2>4
<1>2. \A p \in Passes : Holds(p, k)' <=> Holds(p, k)
  BY DEF Holds
<1>3. charged[k] \in Nat /\ passed[k] \in Nat
  BY KeyTypes
<1>4. ASSUME sample[k] # None
      PROVE  charged[k] + Rest(k, sample[k])' <= passed[k]
  <2>1. sample[k] \in Nat /\ Rest(k, sample[k]) \in Nat
    BY <1>4, KeyTypes, RestType
  <2>2. charged[k] + Rest(k, sample[k]) <= passed[k]
    BY <1>4 DEF KeyCovered
  <2>3. Rest(k, sample[k])' \in Nat /\ Rest(k, sample[k])' <= Rest(k, sample[k])
    <3>1. sample'[k] = sample[k]
      OBVIOUS
    <3> QED
      BY <1>1, <2>1, <3>1 DEF Rest, Delta
  <2> QED
    BY <1>3, <2>1, <2>2, <2>3
<1>5. ASSUME sample[k] # None, NEW p \in Passes, Holds(p, k)
      PROVE  charged[k] + Delta(sample[k], pass[p][k]) + Rest(k, pass[p][k])' <= passed[k]
  <2>1. /\ sample[k] \in Nat /\ pass[p][k] \in Nat
        /\ Delta(sample[k], pass[p][k]) \in Nat /\ Rest(k, pass[p][k]) \in Nat
    BY <1>5, KeyTypes, RestType, DeltaTriangle
  <2>2. charged[k] + Delta(sample[k], pass[p][k]) + Rest(k, pass[p][k]) <= passed[k]
    BY <1>5 DEF KeyCovered
  <2>3. Rest(k, pass[p][k])' \in Nat /\ Rest(k, pass[p][k])' <= Rest(k, pass[p][k])
    <3>1. pass' = pass
      OBVIOUS
    <3> QED
      BY <1>1, <2>1, <3>1 DEF Rest, Delta
  <2> QED
    BY <1>3, <2>1, <2>2, <2>3
<1> QED
  BY <1>2, <1>4, <1>5 DEF KeyCovered, Delta, Holds

\* A byte passes, and the next reading charges at most one more for it.
LEMMA TransferCovered ==
    ASSUME LedgerType, LedgerType', NEW k \in Keys, KeyCovered(k), Transfer(k)
    PROVE  KeyCovered(k)'
<1>1. /\ raw[k] # None /\ raw'[k] # None /\ raw'[k] = raw[k] + 1 /\ passed'[k] = passed[k] + 1
      /\ UNCHANGED <<sample, used, month, pass, created, charged>>
  BY NoneAssumption, KeyTypes DEF Transfer, LedgerType, TypeOK
<1>2. charged[k] \in Nat /\ passed[k] \in Nat /\ raw[k] \in Nat
  BY <1>1, KeyTypes
<1>3. ASSUME NEW v \in Nat
      PROVE  /\ Delta(v, raw[k]) \in Nat /\ Delta(v, raw[k] + 1) \in Nat
             /\ Delta(v, raw[k] + 1) <= Delta(v, raw[k]) + 1
  <2>1. raw[k] + 1 \in Nat
    BY <1>2
  <2> QED
    BY <1>2, <2>1, DeltaTriangle
<1>4. charged'[k] <= passed'[k] /\ created[k] # 0
  BY <1>1, <1>2 DEF KeyCovered
<1>5. ASSUME sample[k] # None
      PROVE  charged[k] + Delta(sample[k], raw[k] + 1) <= passed[k] + 1
  <2>1. sample[k] \in Nat
    BY <1>5, KeyTypes
  <2>2. charged[k] + Delta(sample[k], raw[k]) <= passed[k]
    BY <1>1, <1>5 DEF KeyCovered, Rest
  <2>3. /\ Delta(sample[k], raw[k]) \in Nat /\ Delta(sample[k], raw[k] + 1) \in Nat
        /\ Delta(sample[k], raw[k] + 1) <= Delta(sample[k], raw[k]) + 1
    BY <1>3, <2>1
  <2> QED
    BY <1>2, <2>2, <2>3
<1>6. ASSUME sample[k] # None, NEW p \in Passes, Holds(p, k)
      PROVE  charged[k] + Delta(sample[k], pass[p][k]) + Delta(pass[p][k], raw[k] + 1)
               <= passed[k] + 1
  <2>1. sample[k] \in Nat /\ pass[p][k] \in Nat
    BY <1>6, KeyTypes
  <2>2. charged[k] + Delta(sample[k], pass[p][k]) + Delta(pass[p][k], raw[k]) <= passed[k]
    BY <1>1, <1>6 DEF KeyCovered, Rest
  <2>3. /\ Delta(pass[p][k], raw[k]) \in Nat /\ Delta(pass[p][k], raw[k] + 1) \in Nat
        /\ Delta(pass[p][k], raw[k] + 1) <= Delta(pass[p][k], raw[k]) + 1
    BY <1>3, <2>1
  <2>4. Delta(sample[k], pass[p][k]) \in Nat
    BY <2>1, DeltaTriangle
  <2> QED
    BY <1>2, <2>2, <2>3, <2>4
<1>7. \A p \in Passes : Holds(p, k)' <=> Holds(p, k)
  BY <1>1 DEF Holds
<1> QED
  BY <1>1, <1>4, <1>5, <1>6, <1>7 DEF KeyCovered, Rest, Delta

\* A new reading charges what the next reading would have, and leaves it nothing.
LEMMA FetchCovered ==
    ASSUME LedgerType, LedgerType', Covered, \A p, q \in Passes : p = q,
           NEW p \in Passes, NEW s \in Servers, Fetch(p, s)
    PROVE  Covered'
<1> DEFINE peers == {k \in Keys : Server[k] = s /\ raw[k] # None}
<1>1. /\ pass'[p] = [k \in peers |-> raw[k]]
      /\ UNCHANGED <<raw, sample, used, month, created, passed, charged>>
  BY DEF Fetch, LedgerType, Restrict
<1>2. \A q \in Passes, k \in Keys : Holds(q, k)' =>
         q = p /\ raw[k] # None /\ pass'[q][k] = raw[k]
  BY <1>1 DEF Holds
<1> HIDE DEF peers
<1> SUFFICES ASSUME NEW k \in Keys PROVE KeyCovered(k)'
  BY DEF Covered
<1>3. KeyCovered(k)
  BY DEF Covered
<1>4. ASSUME sample[k] # None, NEW q \in Passes, Holds(q, k)'
      PROVE  charged[k] + Delta(sample[k], pass'[q][k]) + Rest(k, pass'[q][k]) <= passed[k]
  <2>1. raw[k] # None /\ raw[k] \in Nat /\ sample[k] \in Nat
    BY <1>2, <1>4, KeyTypes
  <2>2. pass'[q][k] = raw[k]
    BY <1>2, <1>4
  <2>3. Rest(k, raw[k]) = 0 /\ Rest(k, sample[k]) = Delta(sample[k], raw[k])
    BY <2>1, DeltaTriangle DEF Rest
  <2>4. charged[k] + Rest(k, sample[k]) <= passed[k]
    BY <1>3, <1>4 DEF KeyCovered
  <2>5. charged[k] \in Nat /\ passed[k] \in Nat /\ Rest(k, sample[k]) \in Nat
    BY <2>1, KeyTypes, RestType
  <2> QED
    BY <2>2, <2>3, <2>4, <2>5
<1> QED
  BY <1>1, <1>2, <1>3, <1>4 DEF KeyCovered, Rest, Delta

\* Every step keeps each key covered.
LEMMA CoveredStep ==
    ASSUME \A p, q \in Passes : p = q, MaxRows = 1,
           LedgerType, LedgerType', Covered, [Next]_vars
    PROVE  Covered'
<1>1. ASSUME NEW p \in Passes, NEW s \in Servers, Fetch(p, s) PROVE Covered'
  BY <1>1, FetchCovered
<1>2. ASSUME NEW p \in Passes, NEW k \in Keys, Ingest(p, k) PROVE Covered'
  BY <1>2, IngestCovered
<1>3. ASSUME UNCHANGED <<raw, sample, used, created, passed, charged>>,
             \A q \in Passes, j \in Keys :
                Holds(q, j)' => Holds(q, j) /\ pass'[q][j] = pass[q][j]
      PROVE  Covered'
  BY <1>3, Untouched DEF Covered
<1>4. ASSUME NEW p \in Passes, NEW k \in Keys, Holds(p, k), DoneWith(p, k),
             UNCHANGED <<raw, sample, used, created, passed, charged>>
      PROVE  Covered'
  BY <1>3, <1>4, DoneWithEffect
<1>5. ASSUME NEW p \in Passes, pass' = [pass EXCEPT ![p] = None],
             UNCHANGED <<raw, sample, used, created, passed, charged>>
      PROVE  Covered'
  <2>1. \A q \in Passes, j \in Keys :
           Holds(q, j)' => Holds(q, j) /\ pass'[q][j] = pass[q][j]
    BY <1>5 DEF Holds, LedgerType
  <2> QED
    BY <1>3, <1>5, <2>1
<1>6. ASSUME NEW p \in Passes, NEW k \in Keys, IngestUnknown(p, k) PROVE Covered'
  BY <1>4, <1>6 DEF IngestUnknown, Holds
<1>7. ASSUME NEW p \in Passes, NEW k \in Keys, IngestFails(p, k) PROVE Covered'
  BY <1>4, <1>5, <1>7 DEF IngestFails, Holds
<1>8. ASSUME NEW p \in Passes, Abandon(p) PROVE Covered'
  BY <1>5, <1>8 DEF Abandon
<1>9. ASSUME NEW k \in Keys, CreateRow(k) PROVE Covered'
  <2>1. ASSUME NEW j \in Keys \ {k} PROVE KeyCovered(j)'
    BY <1>9, <2>1, Untouched DEF CreateRow, Covered, LedgerType, TypeOK, Holds
  <2>2. KeyCovered(k)'
    <3>1. created[k] = 0 /\ created'[k] = 1
      BY <1>9, KeyTypes DEF CreateRow, LedgerType, TypeOK
    <3>2. raw[k] = None /\ charged[k] <= passed[k] /\ \A p \in Passes : ~ Holds(p, k)
      BY <3>1 DEF Covered, KeyCovered
    <3>3. \A p \in Passes : ~ Holds(p, k)'
      BY <1>9, <3>2 DEF CreateRow, Holds
    <3>4. charged[k] \in Nat /\ passed[k] \in Nat
      BY KeyTypes
    <3> QED
      BY <1>9, <3>1, <3>2, <3>3, <3>4 DEF CreateRow, KeyCovered, Rest
  <2> QED
    BY <2>1, <2>2 DEF Covered
<1>10. ASSUME NEW k \in Keys, DeleteRow(k) PROVE Covered'
  <2>1. ASSUME NEW j \in Keys \ {k} PROVE KeyCovered(j)'
    BY <1>10, <2>1, Untouched DEF DeleteRow, Covered, LedgerType, TypeOK, Holds
  <2>2. KeyCovered(k)'
    BY <1>10 DEF DeleteRow, Covered, KeyCovered, LedgerType, TypeOK, Holds
  <2> QED
    BY <2>1, <2>2 DEF Covered
<1>11. ASSUME NEW k \in Keys, AddPeer(k) PROVE Covered'
  <2>1. ASSUME NEW j \in Keys
        PROVE  (raw'[j] = raw[j] \/ raw'[j] = 0) /\ (raw'[j] # None => created[j] # 0)
    BY <1>11, <2>1 DEF AddPeer, Covered, KeyCovered, LedgerType, TypeOK
  <2> QED
    BY <1>11, <2>1, CounterReset DEF AddPeer, Covered
<1>12. ASSUME NEW k \in Keys, RemovePeer(k) PROVE Covered'
  <2>1. ASSUME NEW j \in Keys
        PROVE  (raw'[j] = raw[j] \/ raw'[j] = None) /\ (raw'[j] # None => created[j] # 0)
    BY <1>12, <2>1 DEF RemovePeer, Covered, KeyCovered, LedgerType, TypeOK
  <2> QED
    BY <1>12, <2>1, CounterReset DEF RemovePeer, Covered
<1>13. ASSUME NEW s \in Servers, Reboot(s) PROVE Covered'
  <2>1. ASSUME NEW j \in Keys
        PROVE  (raw'[j] = raw[j] \/ raw'[j] = 0) /\ (raw'[j] # None => created[j] # 0)
    BY <1>13, <2>1 DEF Reboot, Covered, KeyCovered
  <2> QED
    BY <1>13, <2>1, CounterReset DEF Reboot, Covered
<1>14. ASSUME NEW k \in Keys, Transfer(k) PROVE Covered'
  <2>1. ASSUME NEW j \in Keys \ {k} PROVE KeyCovered(j)'
    BY <1>14, <2>1, Untouched DEF Transfer, Covered, LedgerType, TypeOK, Holds
  <2>2. KeyCovered(k)'
    BY <1>14, TransferCovered DEF Covered
  <2> QED
    BY <2>1, <2>2 DEF Covered
<1>15. CASE MonthEnds
  BY <1>3, <1>15 DEF MonthEnds, Holds
<1>16. CASE UNCHANGED vars
  BY <1>3, <1>16 DEF vars, Holds
<1> QED
  BY <1>1, <1>2, <1>6, <1>7, <1>8, <1>9, <1>10, <1>11, <1>12, <1>13, <1>14, <1>15, <1>16
     DEF Next, Book

\* With one pass at a time, and no row created again over a counter that has run on,
\* no client is charged a byte it did not transfer, whatever resets, failures and
\* late bookings come between (services/usagePoller.js:49-68).
THEOREM SinglePassNeverOvercharges ==
    ASSUME \A p, q \in Passes : p = q, MaxRows = 1
    PROVE  Spec => []NeverOvercharged
<1>1. Init => LedgerType /\ Covered
  BY TypeInit, CoveredInit
<1>2. LedgerType /\ Covered /\ [Next]_vars => (LedgerType /\ Covered)'
  BY TypeStep, CoveredStep
<1>3. Covered => NeverOvercharged
  BY DEF Covered, KeyCovered, NeverOvercharged
<1> QED
  BY <1>1, <1>2, <1>3, PTL DEF Spec
-----------------------------------------------------------------------------
(* Sums over finite sets *)

\* Induction over the parts of a finite set: the parts of which something holds are
\* a set here, because the provers cannot instantiate a rule about an operator.
LEMMA PartInduction ==
    ASSUME NEW S, IsFiniteSet(S), NEW Good,
           \A T \in SUBSET S : (\A U \in SUBSET T : U # T => U \in Good) => T \in Good
    PROVE  \A T \in SUBSET S : T \in Good
<1> DEFINE Bad == (SUBSET S) \ Good
<1>1. ASSUME Bad # {} PROVE FALSE
  <2>1. Bad \subseteq FiniteSubsetsOf(S)
    BY FS_FiniteSubsetsOfFinite
  <2>2. \E T \in Bad : \A U \in Bad : ~ (<<U, T>> \in StrictSubsetOrdering(S))
    <3> HIDE DEF Bad
    <3> QED
      BY <1>1, <2>1, FS_StrictSubsetOrderingWellFounded, WFMin
  <2>3. PICK T \in Bad : \A U \in Bad : ~ (<<U, T>> \in StrictSubsetOrdering(S))
    BY <2>2
  <2>4. ASSUME NEW U \in SUBSET T, U # T PROVE U \in Good
    BY <2>3, <2>4 DEF StrictSubsetOrdering
  <2>5. T \in SUBSET S /\ T \notin Good
    BY <2>3
  <2> HIDE DEF Bad
  <2> QED
    BY <2>4, <2>5
<1> QED
  BY <1>1

\* The element a sum over S takes out of S first.
Chosen(S) == CHOOSE x \in S : TRUE

\* g gives every part of S its sum of f: the equation of the fold behind Total.
Sums(f, S, g) ==
    g = [s \in SUBSET S |-> IF s = {} THEN 0 ELSE f[Chosen(s)] + g[s \ {Chosen(s)}]]

SumsOf(f, S) == CHOOSE g : Sums(f, S, g)

LEMMA ChosenIn == ASSUME NEW S, S # {} PROVE Chosen(S) \in S
BY DEF Chosen

LEMMA TotalChoice == ASSUME NEW f, NEW S PROVE Total(f, S) = SumsOf(f, S)[S]
BY DEF Total, MapThenSumSet, MapThenFoldSet, Sums, SumsOf, Chosen

LEMMA SumsAt ==
    ASSUME NEW f, NEW S, NEW g, Sums(f, S, g), NEW s \in SUBSET S
    PROVE  g[s] = IF s = {} THEN 0 ELSE f[Chosen(s)] + g[s \ {Chosen(s)}]
BY DEF Sums

\* Two functions that satisfy the equation are the same.
LEMMA SumsUnique ==
    ASSUME NEW f, NEW S, IsFiniteSet(S), NEW g, Sums(f, S, g), NEW h, Sums(f, S, h)
    PROVE  g = h
<1> DEFINE Same == {s \in SUBSET S : g[s] = h[s]}
<1>1. ASSUME NEW T \in SUBSET S, \A U \in SUBSET T : U # T => U \in Same
      PROVE  T \in Same
  <2>1. CASE T = {}
    BY <2>1, SumsAt
  <2>2. CASE T # {}
    <3>1. Chosen(T) \in T
      BY <2>2, ChosenIn
    <3>2. g[T \ {Chosen(T)}] = h[T \ {Chosen(T)}]
      BY <1>1, <3>1
    <3>3. /\ g[T] = f[Chosen(T)] + g[T \ {Chosen(T)}]
          /\ h[T] = f[Chosen(T)] + h[T \ {Chosen(T)}]
      BY <2>2, SumsAt
    <3> QED
      BY <3>2, <3>3
  <2> QED
    BY <2>1, <2>2
<1> HIDE DEF Same
<1>2. \A T \in SUBSET S : T \in Same
  BY <1>1, PartInduction
<1>3. \A s \in SUBSET S : g[s] = h[s]
  BY <1>2 DEF Same
<1>4. g = [s \in SUBSET S |-> g[s]] /\ h = [s \in SUBSET S |-> h[s]]
  BY DEF Sums
<1> QED
  BY <1>3, <1>4

\* What satisfies it on the parts of S does so on those of a part.
LEMMA SumsRestrict ==
    ASSUME NEW f, NEW S, NEW T \in SUBSET S, NEW g, Sums(f, S, g)
    PROVE  Sums(f, T, Restrict(g, SUBSET T)) /\ Restrict(g, SUBSET T)[T] = g[T]
<1> DEFINE h == [s \in SUBSET T |-> g[s]]
<1>1. ASSUME NEW s \in SUBSET T
      PROVE  h[s] = IF s = {} THEN 0 ELSE f[Chosen(s)] + h[s \ {Chosen(s)}]
  <2>1. g[s] = IF s = {} THEN 0 ELSE f[Chosen(s)] + g[s \ {Chosen(s)}]
    BY SumsAt
  <2>2. s \ {Chosen(s)} \in SUBSET T
    OBVIOUS
  <2> QED
    BY <2>1, <2>2
<1>2. Sums(f, T, h)
  BY <1>1 DEF Sums
<1>3. h[T] = g[T]
  OBVIOUS
<1> QED
  BY <1>2, <1>3 DEF Restrict

\* A finite set has such a function: what the smaller parts have defines it.
LEMMA SumsExist ==
    ASSUME NEW f, NEW S, IsFiniteSet(S)
    PROVE  Sums(f, S, SumsOf(f, S))
<1> DEFINE Summed == {T \in SUBSET S : \E g : Sums(f, T, g)}
<1>1. ASSUME NEW T \in SUBSET S, \A U \in SUBSET T : U # T => U \in Summed
      PROVE  T \in Summed
  <2> DEFINE h == [s \in SUBSET T |->
                     IF s = {} THEN 0
                     ELSE f[Chosen(s)] + SumsOf(f, s \ {Chosen(s)})[s \ {Chosen(s)}]]
  <2>1. ASSUME NEW U \in SUBSET T, U # T PROVE Sums(f, U, SumsOf(f, U)) /\ IsFiniteSet(U)
    BY <1>1, <2>1, FS_Subset DEF SumsOf
  <2>2. ASSUME NEW U \in SUBSET T, U # T PROVE SumsOf(f, U)[U] = h[U]
    <3>1. CASE U = {}
      <4>1. SumsOf(f, U)[U] = 0
        BY <2>1, <2>2, <3>1, SumsAt
      <4> QED
        BY <3>1, <4>1
    <3>2. CASE U # {}
      <4> DEFINE V == U \ {Chosen(U)}
      <4>1. V \in SUBSET U /\ V \in SUBSET T /\ V # T
        BY <2>2, <3>2, ChosenIn
      <4>2. /\ Sums(f, V, Restrict(SumsOf(f, U), SUBSET V))
            /\ Restrict(SumsOf(f, U), SUBSET V)[V] = SumsOf(f, U)[V]
        BY <2>1, <2>2, <4>1, SumsRestrict
      <4>3. SumsOf(f, V) = Restrict(SumsOf(f, U), SUBSET V)
        BY <2>1, <4>1, <4>2, SumsUnique
      <4>4. SumsOf(f, V)[V] = SumsOf(f, U)[V]
        BY <4>2, <4>3
      <4>5. SumsOf(f, U)[U] = f[Chosen(U)] + SumsOf(f, U)[V]
        BY <2>1, <2>2, <3>2, SumsAt
      <4> QED
        BY <3>2, <4>4, <4>5
    <3> QED
      BY <3>1, <3>2
  <2>3. ASSUME NEW s \in SUBSET T
        PROVE  h[s] = IF s = {} THEN 0 ELSE f[Chosen(s)] + h[s \ {Chosen(s)}]
    <3>1. CASE s = {}
      BY <3>1
    <3>2. CASE s # {}
      <4>1. s \ {Chosen(s)} \in SUBSET T /\ s \ {Chosen(s)} # T
        BY <3>2, ChosenIn
      <4>2. SumsOf(f, s \ {Chosen(s)})[s \ {Chosen(s)}] = h[s \ {Chosen(s)}]
        BY <2>2, <4>1
      <4> QED
        BY <3>2, <4>2
    <3> QED
      BY <3>1, <3>2
  <2>4. h = [s \in SUBSET T |-> h[s]]
    OBVIOUS
  <2> HIDE DEF h
  <2>5. Sums(f, T, h)
    BY <2>3, <2>4 DEF Sums
  <2> QED
    BY <2>5
<1> HIDE DEF Summed
<1>2. \A T \in SUBSET S : T \in Summed
  BY <1>1, PartInduction
<1> QED
  BY <1>2 DEF Summed, SumsOf

\* The fold is what its equation says.
LEMMA TotalStep ==
    ASSUME NEW f, NEW S, IsFiniteSet(S)
    PROVE  /\ Total(f, {}) = 0
           /\ \A T \in SUBSET S : T # {} =>
                 Chosen(T) \in T /\ Total(f, T) = f[Chosen(T)] + Total(f, T \ {Chosen(T)})
<1> DEFINE g == SumsOf(f, S)
<1>1. Sums(f, S, g)
  BY SumsExist
<1> HIDE DEF g
<1>2. ASSUME NEW T \in SUBSET S PROVE Total(f, T) = g[T]
  <2>1. IsFiniteSet(T)
    BY FS_Subset
  <2>2. Sums(f, T, Restrict(g, SUBSET T)) /\ Restrict(g, SUBSET T)[T] = g[T]
    BY <1>1, SumsRestrict
  <2>3. SumsOf(f, T) = Restrict(g, SUBSET T)
    BY <2>1, <2>2, SumsExist, SumsUnique
  <2> QED
    BY <2>2, <2>3, TotalChoice
<1>3. \A T \in SUBSET S : g[T] = IF T = {} THEN 0 ELSE f[Chosen(T)] + g[T \ {Chosen(T)}]
  BY <1>1, SumsAt
<1>4. \A T \in SUBSET S : T \ {Chosen(T)} \in SUBSET S
  OBVIOUS
<1> QED
  BY <1>2, <1>3, <1>4, ChosenIn

LEMMA TotalType ==
    ASSUME NEW S, IsFiniteSet(S), NEW f, \A x \in S : f[x] \in Nat
    PROVE  \A T \in SUBSET S : Total(f, T) \in Nat
<1> DEFINE Typed == {T \in SUBSET S : Total(f, T) \in Nat}
<1>1. ASSUME NEW T \in SUBSET S, \A U \in SUBSET T : U # T => U \in Typed
      PROVE  T \in Typed
  <2>1. CASE T = {}
    <3>1. Total(f, {}) = 0 /\ 0 \in Nat
      BY TotalStep
    <3> QED
      BY <2>1, <3>1
  <2>2. CASE T # {}
    <3>1. Chosen(T) \in T /\ Total(f, T) = f[Chosen(T)] + Total(f, T \ {Chosen(T)})
      BY <2>2, TotalStep
    <3>2. Total(f, T \ {Chosen(T)}) \in Nat /\ f[Chosen(T)] \in Nat
      BY <1>1, <3>1
    <3> QED
      BY <3>1, <3>2
  <2> QED
    BY <2>1, <2>2
<1> HIDE DEF Typed
<1>2. \A T \in SUBSET S : T \in Typed
  BY <1>1, PartInduction
<1> QED
  BY <1>2 DEF Typed

\* Any element may be taken out first.
LEMMA TotalRemove ==
    ASSUME NEW S, IsFiniteSet(S), NEW f, \A x \in S : f[x] \in Nat
    PROVE  \A x \in S : Total(f, S) = f[x] + Total(f, S \ {x})
<1> DEFINE Splits == {T \in SUBSET S : \A x \in T : Total(f, T) = f[x] + Total(f, T \ {x})}
<1>1. ASSUME NEW T \in SUBSET S, \A U \in SUBSET T : U # T => U \in Splits
      PROVE  T \in Splits
  <2>1. SUFFICES ASSUME NEW x \in T PROVE Total(f, T) = f[x] + Total(f, T \ {x})
    OBVIOUS
  <2> DEFINE c == Chosen(T)  rest == T \ {c, x}
  <2>2. c \in T /\ Total(f, T) = f[c] + Total(f, T \ {c})
    BY <2>1, TotalStep
  <2> HIDE DEF c
  <2>3. CASE c = x
    BY <2>2, <2>3
  <2>4. CASE c # x
    <3>1. Total(f, T \ {c}) = f[x] + Total(f, rest)
      <4>1. (T \ {c}) \ {x} = rest
        OBVIOUS
      <4> QED
        BY <1>1, <2>1, <2>2, <2>4, <4>1
    <3>2. Total(f, T \ {x}) = f[c] + Total(f, rest)
      <4>1. (T \ {x}) \ {c} = rest
        OBVIOUS
      <4> QED
        BY <1>1, <2>1, <2>2, <2>4, <4>1
    <3>3. f[c] \in Nat /\ f[x] \in Nat /\ Total(f, rest) \in Nat
      BY <2>2, TotalType
    <3> QED
      BY <2>2, <3>1, <3>2, <3>3
  <2> QED
    BY <2>3, <2>4
<1> HIDE DEF Splits
<1>2. \A T \in SUBSET S : T \in Splits
  BY <1>1, PartInduction
<1> QED
  BY <1>2 DEF Splits

\* A sum depends on what is summed only.
LEMMA TotalEqual ==
    ASSUME NEW S, IsFiniteSet(S), NEW f, NEW g, \A x \in S : f[x] = g[x]
    PROVE  Total(f, S) = Total(g, S)
<1> DEFINE Same == {T \in SUBSET S : Total(f, T) = Total(g, T)}
<1>1. ASSUME NEW T \in SUBSET S, \A U \in SUBSET T : U # T => U \in Same
      PROVE  T \in Same
  <2>1. CASE T = {}
    <3>1. Total(f, {}) = 0 /\ Total(g, {}) = 0
      BY TotalStep
    <3> QED
      BY <2>1, <3>1
  <2>2. CASE T # {}
    <3>1. /\ Chosen(T) \in T
          /\ Total(f, T) = f[Chosen(T)] + Total(f, T \ {Chosen(T)})
          /\ Total(g, T) = g[Chosen(T)] + Total(g, T \ {Chosen(T)})
      BY <2>2, TotalStep
    <3>2. Total(f, T \ {Chosen(T)}) = Total(g, T \ {Chosen(T)})
      BY <1>1, <3>1
    <3>3. f[Chosen(T)] = g[Chosen(T)]
      BY <3>1
    <3> QED
      BY <3>1, <3>2, <3>3
  <2> QED
    BY <2>1, <2>2
<1> HIDE DEF Same
<1>2. \A T \in SUBSET S : T \in Same
  BY <1>1, PartInduction
<1> QED
  BY <1>2 DEF Same

\* Adding n to one element adds n to the sum.
LEMMA TotalAdd ==
    ASSUME NEW S, IsFiniteSet(S), NEW f, NEW g, NEW x \in S, NEW n \in Nat,
           \A y \in S : f[y] \in Nat,
           g[x] = f[x] + n, \A y \in S \ {x} : g[y] = f[y]
    PROVE  Total(g, S) = Total(f, S) + n
<1>1. Total(f, S) = f[x] + Total(f, S \ {x})
  BY TotalRemove
<1>2. \A y \in S : g[y] \in Nat
  OBVIOUS
<1>3. Total(g, S) = g[x] + Total(g, S \ {x})
  BY <1>2, TotalRemove
<1>4. IsFiniteSet(S \ {x}) /\ S \ {x} \in SUBSET S
  BY FS_Subset
<1>5. Total(g, S \ {x}) = Total(f, S \ {x})
  BY <1>4, TotalEqual
<1>6. Total(f, S \ {x}) \in Nat
  BY <1>4, TotalType
<1> QED
  BY <1>1, <1>3, <1>5, <1>6

\* A sum of zeros is zero: a first element adds nothing.
LEMMA TotalZero ==
    ASSUME NEW S, IsFiniteSet(S), NEW f, \A x \in S : f[x] = 0
    PROVE  Total(f, S) = 0
<1> DEFINE Zero == {T \in SUBSET S : Total(f, T) = 0}
<1>1. ASSUME NEW T \in SUBSET S, \A U \in SUBSET T : U # T => U \in Zero
      PROVE  T \in Zero
  <2>1. CASE T = {}
    <3>1. Total(f, {}) = 0
      BY TotalStep
    <3> QED
      BY <2>1, <3>1
  <2>2. CASE T # {}
    <3>1. Chosen(T) \in T /\ Total(f, T) = f[Chosen(T)] + Total(f, T \ {Chosen(T)})
      BY <2>2, TotalStep
    <3>2. Total(f, T \ {Chosen(T)}) = 0 /\ f[Chosen(T)] = 0
      BY <1>1, <3>1
    <3> QED
      BY <3>1, <3>2
  <2> QED
    BY <2>1, <2>2
<1> HIDE DEF Zero
<1>2. \A T \in SUBSET S : T \in Zero
  BY <1>1, PartInduction
<1> QED
  BY <1>2 DEF Zero
-----------------------------------------------------------------------------
(* The months of a device and its peers *)

\* The step that changes both sides: a booking adds its delta to one month of one
\* device and to one of that device's peers.
LEMMA IngestSums ==
    ASSUME LedgerType, LedgerSumsPeers, NEW p \in Passes, NEW k \in Keys, Ingest(p, k)
    PROVE  LedgerSumsPeers'
<1> DEFINE delta == Delta(sample[k], pass[p][k])
           peers(d) == {j \in Keys : Owner[j] = d}
<1>1. delta \in Nat
  <2>1. sample[k] \in Nat /\ pass[p][k] \in Nat
    BY KeyTypes DEF Ingest, Holds
  <2> QED
    BY <2>1, DeltaTriangle
<1>2. /\ Owner[k] \in Devices /\ month \in Months
      /\ used \in [Devices -> [Months -> Nat]] /\ charged \in [Keys -> Nat]
  BY OwnerAssumption DEF LedgerType, TypeOK
<1>3. /\ used' = [used EXCEPT ![Owner[k]][month] = @ + delta]
      /\ charged' = [charged EXCEPT ![k] = @ + delta]
  BY DEF Ingest, AddUsage
<1> HIDE DEF delta
<1>4. IsFiniteSet(Months) /\ \A d \in Devices : IsFiniteSet(peers(d))
  BY KeysAssumption, LedgerBounds, FS_Interval, FS_Subset DEF Months
<1>5. ASSUME NEW d \in Devices PROVE Total(used'[d], Months) = Total(charged', peers(d))
  <2>1. Total(used[d], Months) = Total(charged, peers(d))
    BY DEF LedgerSumsPeers
  <2>2. CASE d = Owner[k]
    <3>1. Total(used'[d], Months) = Total(used[d], Months) + delta
      <4> DEFINE before == used[d]  after == used'[d]
      <4>1. /\ \A m \in Months : before[m] \in Nat
            /\ after[month] = before[month] + delta
            /\ \A m \in Months \ {month} : after[m] = before[m]
        BY <1>2, <1>3, <2>2
      <4>2. IsFiniteSet(Months) /\ month \in Months
        BY <1>2, <1>4
      <4> HIDE DEF before, after, peers
      <4>3. Total(after, Months) = Total(before, Months) + delta
        BY <1>1, <4>1, <4>2, TotalAdd
      <4> QED
        BY <4>3 DEF before, after
    <3>2. Total(charged', peers(d)) = Total(charged, peers(d)) + delta
      <4>1. /\ k \in peers(d) /\ \A j \in peers(d) : charged[j] \in Nat
            /\ charged'[k] = charged[k] + delta
            /\ \A j \in peers(d) \ {k} : charged'[j] = charged[j]
        BY <1>2, <1>3, <2>2
      <4> HIDE DEF peers
      <4> QED
        BY <1>1, <1>4, <4>1, TotalAdd
    <3> QED
      BY <2>1, <3>1, <3>2
  <2>3. CASE d # Owner[k]
    <3>1. used'[d] = used[d]
      BY <1>2, <1>3, <2>3
    <3>2. \A j \in peers(d) : charged'[j] = charged[j]
      BY <1>2, <1>3, <2>3
    <3>3. Total(charged', peers(d)) = Total(charged, peers(d))
      <4> HIDE DEF peers
      <4> QED
        BY <1>4, <3>2, TotalEqual
    <3> QED
      BY <2>1, <3>1, <3>3
  <2> QED
    BY <2>2, <2>3
<1> QED
  BY <1>5 DEF LedgerSumsPeers

\* "its 1 GB is the sum across every node it used" (docs/BACKEND.md:380): for any
\* peers on any nodes, however their bookings fail or come late, what the months of
\* a device add up to is what was booked for its peers.
THEOREM LedgerBalances == Spec => []LedgerSumsPeers
<1>1. Init => LedgerSumsPeers
  <2> SUFFICES ASSUME Init, NEW d \in Devices
               PROVE  Total(used[d], Months) = Total(charged, {k \in Keys : Owner[k] = d})
    BY DEF LedgerSumsPeers
  <2> DEFINE peers == {k \in Keys : Owner[k] = d}
  <2>1. IsFiniteSet(Months) /\ IsFiniteSet(peers)
    BY KeysAssumption, LedgerBounds, FS_Interval, FS_Subset DEF Months
  <2>2. (\A m \in Months : used[d][m] = 0) /\ (\A k \in peers : charged[k] = 0)
    BY DEF Init
  <2> HIDE DEF peers
  <2>3. Total(used[d], Months) = 0 /\ Total(charged, peers) = 0
    BY <2>1, <2>2, TotalZero
  <2> QED
    BY <2>3 DEF peers
<1>2. LedgerType /\ LedgerSumsPeers /\ [Next]_vars => LedgerSumsPeers'
  <2> SUFFICES ASSUME LedgerType, LedgerSumsPeers, [Next]_vars PROVE LedgerSumsPeers'
    OBVIOUS
  <2>1. ASSUME UNCHANGED <<used, charged>> PROVE LedgerSumsPeers'
    BY <2>1 DEF LedgerSumsPeers
  <2>2. CASE \E p \in Passes, k \in Keys : Ingest(p, k)
    BY <2>2, IngestSums
  <2>3. CASE ~ \E p \in Passes, k \in Keys : Ingest(p, k)
    <3>1. UNCHANGED <<used, charged>>
      BY <2>3 DEF Next, Book, Fetch, IngestUnknown, IngestFails, Abandon, CreateRow,
        DeleteRow, AddPeer, RemovePeer, Transfer, Reboot, MonthEnds, vars
    <3> QED
      BY <2>1, <3>1
  <2> QED
    BY <2>2, <2>3
<1> QED
  BY <1>1, <1>2, LedgerTypeCorrect, PTL DEF Spec
=============================================================================
