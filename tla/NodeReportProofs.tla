-------------------------- MODULE NodeReportProofs --------------------------
(***************************************************************************)
(* Proofs about NodeReport, for any peers, devices, workers, pools, plans  *)
(* and bounds.                                                             *)
(***************************************************************************)
EXTENDS NodeReport, FiniteSetTheorems, TLAPS

\* The job r, as w may have it: something is left to book, only a report looks a
\* quota up, and whom it has crossed it has named, but for the peer at hand.
JobOK(w, r) ==
    /\ r \in Jobs
    /\ DOMAIN r.todo # {}
    /\ r.at \in {"connect", "select"} \/ r.key \in DOMAIN r.todo
    /\ r.at \in {"device", "quota"} => w \in Reporters
    /\ r.at = "commit" => r.prev # None
    /\ r.crossed \subseteq r.remove \cup (IF r.at \in {"device", "quota"} THEN {r.key} ELSE {})

JobsOK == \A w \in Workers : work[w] # None => JobOK(w, work[w])

PoolOK == IsFiniteSet(Holders) /\ Cardinality(Holders) <= poolMax

\* Devices that have used up their plan.
Spent(keys) == \A k \in keys : used[Owner[k]] >= Limit

NamedAreSpent == \A w \in Workers : work[w] # None => Spent(work[w].crossed \cup work[w].remove)

\* w is in the transaction that books k.
Books(w, k) == work[w] # None /\ work[w].at \in {"book", "commit"} /\ work[w].key = k

\* Locks are those of the transactions in progress; a transaction that has found its
\* row has it locked, and what it read is what the row says.
LocksOK ==
    /\ \A w \in Workers, k \in Keys :
          /\ rowLock[k] = w => Books(w, k)
          /\ Books(w, k) /\ work[w].prev # None => rowLock[k] = w /\ sample[k] = work[w].prev
    /\ \A w \in Workers, d \in Devices :
          sumLock[d] = w => work[w] # None /\ work[w].at = "commit" /\ Owner[work[w].key] = d

Types ==
    /\ poolMax \in Nat
    /\ raw \in [Keys -> (0 .. MaxPassed) \cup {None}]
    /\ sample \in [Keys -> (0 .. MaxPassed) \cup {None}]
    /\ used \in [Devices -> Nat]
    /\ created \in [Keys -> 0 .. MaxRows]
    /\ rowLock \in [Keys -> Workers \cup {None}]
    /\ sumLock \in [Devices -> Workers \cup {None}]
    /\ work \in [Workers -> Jobs \cup {None}]
    /\ charged \in [Keys -> Nat]

ReportInv ==
    /\ Types /\ poolMax \in PoolSizes
    /\ JobsOK /\ PoolOK /\ NamedAreSpent /\ LocksOK

LEMMA ReportTypes == ReportInv => TypeOK
<1> SUFFICES ASSUME ReportInv PROVE TypeOK
  OBVIOUS
<1>1. Free >= 0
  <2>1. Cardinality(Holders) \in Nat
    BY FS_CardinalityType DEF ReportInv, PoolOK
  <2> QED
    BY <2>1 DEF ReportInv, Types, PoolOK, Free
<1> QED
  BY <1>1 DEF ReportInv, Types, JobsOK, JobOK, TypeOK

-----------------------------------------------------------------------------
(* Readings and jobs *)

LEMMA ReadingsAre ==
    /\ \A f \in Readings : DOMAIN f \subseteq Keys /\ f \in [DOMAIN f -> 0 .. MaxPassed]
    /\ \A peers \in SUBSET Keys : [peers -> 0 .. MaxPassed] \subseteq Readings
BY DEF Readings

\* What is left of some readings.
LEMMA RestOfReadings ==
    ASSUME NEW f \in Readings, NEW k
    PROVE  /\ Restrict(f, DOMAIN f \ {k}) \in Readings
           /\ DOMAIN Restrict(f, DOMAIN f \ {k}) = DOMAIN f \ {k}
<1>1. Restrict(f, DOMAIN f \ {k}) = [j \in DOMAIN f \ {k} |-> f[j]]
  BY DEF Restrict
<1>2. [j \in DOMAIN f \ {k} |-> f[j]] \in [DOMAIN f \ {k} -> 0 .. MaxPassed]
  BY ReadingsAre
<1>3. DOMAIN f \ {k} \in SUBSET Keys
  BY ReadingsAre
<1> QED
  BY <1>1, <1>2, <1>3, ReadingsAre

\* Done with a peer, a worker has nothing left or goes on with the others.
LEMMA ProceedEffect ==
    ASSUME NEW w \in Workers, NEW rec \in Jobs, rec.key \in DOMAIN rec.todo, Proceed(w, rec)
    PROVE  \E r : /\ work' = [work EXCEPT ![w] = r]
                  /\ IF DOMAIN rec.todo = {rec.key} THEN r = None
                     ELSE /\ r \in Jobs /\ r.at \in {"connect", "select"}
                          /\ r.todo = Restrict(rec.todo, DOMAIN rec.todo \ {rec.key})
                          /\ DOMAIN r.todo # {}
                          /\ r.crossed = rec.crossed /\ r.remove = rec.remove
<1>1. CASE DOMAIN rec.todo = {rec.key}
  BY <1>1 DEF Proceed, Set
<1>2. CASE DOMAIN rec.todo # {rec.key}
  <2> DEFINE left == Restrict(rec.todo, DOMAIN rec.todo \ {rec.key})
  <2>1. rec.todo \in Readings
    BY DEF Jobs
  <2>2. left \in Readings /\ DOMAIN left = DOMAIN rec.todo \ {rec.key}
    BY <2>1, RestOfReadings
  <2>3. DOMAIN left # {}
    BY <1>2, <2>2
  <2>4. PICK at : at = IF w \in Pollers THEN "connect" ELSE "select"
    OBVIOUS
  <2>5. PICK r : r = [rec EXCEPT !.todo = left, !.key = None, !.prev = None, !.at = at]
    OBVIOUS
  <2>6. work' = [work EXCEPT ![w] = r]
    BY <1>2, <2>4, <2>5 DEF Proceed, Set
  <2> HIDE DEF left
  <2>7. /\ r \in Jobs /\ r.at = at /\ r.todo = left
        /\ r.crossed = rec.crossed /\ r.remove = rec.remove
    BY <2>2, <2>4, <2>5 DEF Jobs
  <2>8. at \in {"connect", "select"}
    BY <2>4
  <2> QED
    BY <1>2, <2>3, <2>6, <2>7, <2>8 DEF left
<1> QED
  BY <1>1, <1>2

-----------------------------------------------------------------------------
(* The pool *)

\* A worker that has a connection goes on, or gives it back.
LEMMA PoolGoesOn ==
    ASSUME ReportInv, UNCHANGED poolMax, Holders' \subseteq Holders
    PROVE  PoolOK'
<1>1. IsFiniteSet(Holders') /\ Cardinality(Holders') <= Cardinality(Holders)
  BY FS_Subset DEF ReportInv, PoolOK
<1>2. Cardinality(Holders) \in Nat /\ Cardinality(Holders') \in Nat
  BY <1>1, FS_CardinalityType DEF ReportInv, PoolOK
<1> QED
  BY <1>1, <1>2 DEF ReportInv, Types, PoolOK

\* A worker takes a connection that is to be had.
LEMMA PoolTaken ==
    ASSUME ReportInv, UNCHANGED poolMax, NEW w \in Workers, Free > 0,
           Holders' \subseteq Holders \cup {w}
    PROVE  PoolOK'
<1>1. /\ IsFiniteSet(Holders \cup {w})
      /\ Cardinality(Holders \cup {w}) <= Cardinality(Holders) + 1
      /\ Cardinality(Holders) \in Nat
  <2>1. IsFiniteSet(Holders)
    BY DEF ReportInv, PoolOK
  <2>2. Cardinality(Holders) \in Nat
    BY <2>1, FS_CardinalityType
  <2>3. /\ IsFiniteSet(Holders \cup {w})
        /\ Cardinality(Holders \cup {w}) =
              IF w \in Holders THEN Cardinality(Holders) ELSE Cardinality(Holders) + 1
    BY <2>1, FS_AddElement
  <2> QED
    BY <2>2, <2>3
<1>2. /\ IsFiniteSet(Holders') /\ Cardinality(Holders') \in Nat
      /\ Cardinality(Holders') <= Cardinality(Holders \cup {w})
      /\ Cardinality(Holders \cup {w}) \in Nat
  BY <1>1, FS_Subset, FS_CardinalityType
<1> QED
  BY <1>1, <1>2 DEF ReportInv, Types, PoolOK, Free

-----------------------------------------------------------------------------
(* Steps of a worker *)

\* A worker goes on with the job r, or is done.
LEMMA JobsGoOn ==
    ASSUME ReportInv, NEW w \in Workers, NEW r, r # None => JobOK(w, r),
           work' = [work EXCEPT ![w] = r]
    PROVE  /\ work' \in [Workers -> Jobs \cup {None}] /\ JobsOK'
           /\ \A v \in Workers : work'[v] = IF v = w THEN r ELSE work[v]
<1>1. \A v \in Workers : work'[v] = IF v = w THEN r ELSE work[v]
  BY DEF ReportInv, Types
<1>2. work' \in [Workers -> Jobs \cup {None}]
  BY DEF ReportInv, Types, JobOK
<1>3. JobsOK'
  BY <1>1 DEF ReportInv, JobsOK, JobOK
<1> QED
  BY <1>1, <1>2, <1>3

\* Whom anyone has named stays spent: usage only grows.
LEMMA NamedStaySpent ==
    ASSUME ReportInv, NEW w \in Workers, NEW r,
           \A v \in Workers : work'[v] = IF v = w THEN r ELSE work[v],
           used' \in [Devices -> Nat], \A d \in Devices : used'[d] >= used[d],
           r # None => r \in Jobs /\ Spent(r.crossed \cup r.remove)'
    PROVE  NamedAreSpent'
<1> SUFFICES ASSUME NEW v \in Workers, work'[v] # None,
                    NEW k \in work'[v].crossed \cup work'[v].remove
             PROVE  used'[Owner[k]] >= Limit
  BY DEF NamedAreSpent, Spent
<1>1. CASE v = w
  BY <1>1 DEF Spent
<1>2. CASE v # w
  <2>1. work[v] \in Jobs /\ used[Owner[k]] >= Limit
    BY <1>2 DEF ReportInv, JobsOK, JobOK, NamedAreSpent, Spent
  <2>2. k \in Keys
    BY <1>2, <2>1 DEF Jobs
  <2>3. Owner[k] \in Devices
    BY <2>2, OwnerAssumption
  <2> QED
    BY <2>1, <2>3, PoolAssumption DEF ReportInv, Types
<1> QED
  BY <1>1, <1>2

-----------------------------------------------------------------------------
(* The locks *)

\* A worker that is in no transaction has nothing locked.
LEMMA OutsideUnlocked ==
    ASSUME LocksOK, NEW w \in Workers, work[w] = None \/ work[w].at \notin {"book", "commit"}
    PROVE  /\ \A k \in Keys : rowLock[k] # w
           /\ \A d \in Devices : sumLock[d] # w
BY DEF LocksOK, Books

\* A step of w outside of its transactions.
LEMMA LocksOutside ==
    ASSUME ReportInv, NEW w \in Workers, NEW r,
           work[w] = None \/ work[w].at \notin {"book", "commit"},
           r = None \/ r.at \notin {"book", "commit"},
           \A v \in Workers : work'[v] = IF v = w THEN r ELSE work[v],
           UNCHANGED <<rowLock, sumLock, sample>>
    PROVE  LocksOK'
<1>1. LocksOK
  BY DEF ReportInv
<1>2. /\ \A k \in Keys : rowLock[k] # w
      /\ \A d \in Devices : sumLock[d] # w
  BY <1>1, OutsideUnlocked
<1>3. \A v \in Workers, k \in Keys : Books(v, k)' <=> v # w /\ Books(v, k)
  BY DEF Books
<1> QED
  BY <1>1, <1>2, <1>3 DEF LocksOK

\* w ends its transaction: its locks are gone, and only its own row has changed.
LEMMA LocksReleased ==
    ASSUME ReportInv, NEW w \in Workers, NEW r, r = None \/ r.at \notin {"book", "commit"},
           \A v \in Workers : work'[v] = IF v = w THEN r ELSE work[v],
           Unlock(w), \A k \in Keys : rowLock[k] # w => sample'[k] = sample[k]
    PROVE  /\ LocksOK'
           /\ rowLock' \in [Keys -> Workers \cup {None}]
           /\ sumLock' \in [Devices -> Workers \cup {None}]
<1>1. LocksOK /\ Types
  BY DEF ReportInv
<1>2. /\ rowLock' = [k \in Keys |-> IF rowLock[k] = w THEN None ELSE rowLock[k]]
      /\ sumLock' = [d \in Devices |-> IF sumLock[d] = w THEN None ELSE sumLock[d]]
  BY DEF Unlock
<1>3. /\ rowLock' \in [Keys -> Workers \cup {None}]
      /\ sumLock' \in [Devices -> Workers \cup {None}]
  BY <1>1, <1>2 DEF Types
<1>4. \A v \in Workers, k \in Keys : Books(v, k)' <=> v # w /\ Books(v, k)
  BY DEF Books
<1>5. None \notin Workers
  BY NoneAssumption
<1>6. ASSUME NEW v \in Workers, NEW k \in Keys
      PROVE  /\ rowLock'[k] = v => Books(v, k)'
             /\ Books(v, k)' /\ work'[v].prev # None
                   => rowLock'[k] = v /\ sample'[k] = work'[v].prev
  BY <1>1, <1>2, <1>4, <1>5 DEF LocksOK
<1>7. ASSUME NEW v \in Workers, NEW d \in Devices, sumLock'[d] = v
      PROVE  work'[v] # None /\ work'[v].at = "commit" /\ Owner[work'[v].key] = d
  BY <1>1, <1>2, <1>5, <1>7 DEF LocksOK
<1> QED
  BY <1>3, <1>6, <1>7 DEF LocksOK

\* Rows that nobody has locked come and go.
LEMMA LocksElse ==
    ASSUME ReportInv, UNCHANGED <<rowLock, sumLock, work>>, NEW k \in Keys,
           sample[k] = None \/ rowLock[k] = None,
           \A j \in Keys : j # k => sample'[j] = sample[j]
    PROVE  LocksOK'
<1>1. LocksOK
  BY DEF ReportInv
<1>2. \A v \in Workers, j \in Keys : Books(v, j)' <=> Books(v, j)
  BY DEF Books
<1>3. None \notin Workers
  BY NoneAssumption
<1>4. ASSUME NEW v \in Workers, Books(v, k), work[v].prev # None PROVE FALSE
  BY <1>1, <1>3, <1>4 DEF LocksOK
<1> QED
  BY <1>1, <1>2, <1>4 DEF LocksOK

-----------------------------------------------------------------------------
(* The invariant *)

LEMMA ReportInit == Init => ReportInv
<1> SUFFICES ASSUME Init PROVE ReportInv
  OBVIOUS
<1>1. None \notin Workers
  BY NoneAssumption
<1>2. Types /\ poolMax \in PoolSizes
  BY PoolAssumption, BoundsAssumption DEF Init, Types
<1>3. PoolOK
  <2>1. Holders = {}
    BY DEF Init, Holders
  <2> QED
    BY <1>2, <2>1, FS_EmptySet DEF PoolOK, Types
<1> QED
  BY <1>1, <1>2, <1>3 DEF Init, ReportInv, JobsOK, NamedAreSpent, LocksOK, Books

\* How much a booking adds is a number of bytes.
LEMMA DeltaType ==
    ASSUME ReportInv, NEW w \in Workers, work[w] # None, work[w].prev # None,
           work[w].key \in DOMAIN work[w].todo
    PROVE  /\ Delta(w) \in Nat /\ work[w].key \in Keys
           /\ work[w].todo[work[w].key] \in 0 .. MaxPassed
<1>1. PICK r : r = work[w]
  OBVIOUS
<1>2. r \in Jobs /\ r.todo \in Readings
  BY <1>1 DEF ReportInv, JobsOK, JobOK, Jobs
<1>3. r.key \in Keys /\ r.todo[r.key] \in 0 .. MaxPassed
  BY <1>1, <1>2, ReadingsAre
<1>4. r.prev \in 0 .. MaxPassed
  BY <1>1, <1>2 DEF Jobs
<1>5. \A a, b \in Nat : (IF a >= b THEN a - b ELSE a) \in Nat
  OBVIOUS
<1>6. r.prev \in Nat /\ r.todo[r.key] \in Nat
  BY <1>3, <1>4, BoundsAssumption
<1>7. Delta(w) = IF r.todo[r.key] >= r.prev THEN r.todo[r.key] - r.prev ELSE r.todo[r.key]
  BY <1>1 DEF Delta
<1> QED
  BY <1>1, <1>3, <1>5, <1>6, <1>7

\* A step of w outside of its transactions that books nothing.
LEMMA StepOutside ==
    ASSUME ReportInv, NEW w \in Workers, NEW r, work' = [work EXCEPT ![w] = r],
           work[w] = None \/ work[w].at \notin {"book", "commit"},
           r # None => /\ JobOK(w, r) /\ r.at \notin {"book", "commit"}
                       /\ Spent(r.crossed \cup r.remove),
           UNCHANGED <<poolMax, raw, table, locks, charged>>,
           Holders' \subseteq Holders \/ (Free > 0 /\ Holders' \subseteq Holders \cup {w})
    PROVE  ReportInv'
<1>1. UNCHANGED <<poolMax, raw, sample, used, created, rowLock, sumLock, charged>>
  BY DEF table, locks
<1>2. /\ work' \in [Workers -> Jobs \cup {None}] /\ JobsOK'
      /\ \A v \in Workers : work'[v] = IF v = w THEN r ELSE work[v]
  BY JobsGoOn
<1>3. Types' /\ poolMax' \in PoolSizes
  BY <1>1, <1>2 DEF ReportInv, Types
<1>4. PoolOK'
  BY <1>1, PoolGoesOn, PoolTaken
<1>5. LocksOK'
  BY <1>1, <1>2, LocksOutside
<1>6. used' \in [Devices -> Nat] /\ \A d \in Devices : used'[d] >= used[d]
  BY <1>1 DEF ReportInv, Types
<1>7. r # None => r \in Jobs /\ Spent(r.crossed \cup r.remove)'
  BY <1>1 DEF JobOK, Spent
<1>8. NamedAreSpent'
  BY <1>2, <1>6, <1>7, NamedStaySpent
<1> QED
  BY <1>3, <1>4, <1>2, <1>5, <1>8 DEF ReportInv

\* w has a job in one of these stages, and none of its named devices has any left.
LEMMA AtWork ==
    ASSUME ReportInv, NEW w \in Workers, work[w] # None
    PROVE  /\ JobOK(w, work[w]) /\ work[w] \in Jobs /\ work[w].todo \in Readings
           /\ Spent(work[w].crossed \cup work[w].remove)
BY DEF ReportInv, JobsOK, JobOK, Jobs, NamedAreSpent

\* w keeps its connection while it works.
LEMMA KeepsConnection ==
    ASSUME NEW w \in Workers, NEW r,
           \A v \in Workers : work'[v] = IF v = w THEN r ELSE work[v],
           work[w] # None /\ work[w].at # "connect"
    PROVE  Holders' \subseteq Holders
BY DEF Holders

LEMMA TakesConnection ==
    ASSUME NEW w \in Workers, NEW r,
           \A v \in Workers : work'[v] = IF v = w THEN r ELSE work[v]
    PROVE  /\ Holders' \subseteq Holders \cup {w}
           /\ r = None \/ r.at = "connect" => Holders' \subseteq Holders
BY DEF Holders

\* w ends the transaction of its peer without having booked anything.
LEMMA StepBack ==
    ASSUME ReportInv, NEW w \in Workers, NEW r, work' = [work EXCEPT ![w] = r],
           work[w] # None, work[w].at \in {"book", "commit"},
           r # None => /\ JobOK(w, r) /\ r.at \notin {"book", "commit"}
                       /\ r.crossed = work[w].crossed /\ r.remove = work[w].remove,
           Unlock(w), UNCHANGED <<poolMax, raw, table, charged>>
    PROVE  ReportInv'
<1>1. UNCHANGED <<poolMax, raw, sample, used, created, charged>>
  BY DEF table
<1>2. /\ work' \in [Workers -> Jobs \cup {None}] /\ JobsOK'
      /\ \A v \in Workers : work'[v] = IF v = w THEN r ELSE work[v]
  BY JobsGoOn
<1>3. LocksOK' /\ rowLock' \in [Keys -> Workers \cup {None}]
      /\ sumLock' \in [Devices -> Workers \cup {None}]
  BY <1>1, <1>2, LocksReleased
<1>4. PoolOK'
  BY <1>1, <1>2, KeepsConnection, PoolGoesOn
<1>5. used' \in [Devices -> Nat] /\ \A d \in Devices : used'[d] >= used[d]
  BY <1>1 DEF ReportInv, Types
<1>6. r # None => r \in Jobs /\ Spent(r.crossed \cup r.remove)'
  BY <1>1, AtWork DEF JobOK, Spent
<1>7. NamedAreSpent'
  BY <1>2, <1>5, <1>6, NamedStaySpent
<1> QED
  BY <1>1, <1>2, <1>3, <1>4, <1>7 DEF ReportInv, Types

\* Done with a peer in a transaction that has booked nothing.
LEMMA ProceedBack ==
    ASSUME ReportInv, NEW w \in Workers, work[w] # None, work[w].at \in {"book", "commit"},
           Proceed(w, work[w]), Unlock(w), UNCHANGED <<poolMax, raw, table, charged>>
    PROVE  ReportInv'
<1>1. PICK rec : rec = work[w]
  OBVIOUS
<1>2. JobOK(w, rec) /\ rec \in Jobs /\ rec.key \in DOMAIN rec.todo
  BY <1>1, AtWork DEF JobOK
<1>3. PICK r : /\ work' = [work EXCEPT ![w] = r]
               /\ IF DOMAIN rec.todo = {rec.key} THEN r = None
                  ELSE /\ r \in Jobs /\ r.at \in {"connect", "select"}
                       /\ r.todo = Restrict(rec.todo, DOMAIN rec.todo \ {rec.key})
                       /\ DOMAIN r.todo # {}
                       /\ r.crossed = rec.crossed /\ r.remove = rec.remove
  BY <1>1, <1>2, ProceedEffect
<1>4. r # None => /\ JobOK(w, r) /\ r.at \notin {"book", "commit"}
                  /\ r.crossed = rec.crossed /\ r.remove = rec.remove
  BY <1>1, <1>2, <1>3 DEF JobOK
<1> QED
  BY <1>1, <1>3, <1>4, StepBack

\* COMMIT keeps the invariant: the row and the counter are the worker's own, a peer is
\* crossed when its device has nothing left.
LEMMA CommitStep ==
    ASSUME ReportInv, NEW w \in Workers, Commit(w)
    PROVE  ReportInv'
<1>1. PICK rec : rec = work[w]
  OBVIOUS
<1>2. PICK k : k = rec.key
  OBVIOUS
<1>3. PICK d : d = Owner[k]
  OBVIOUS
<1>4. PICK delta : delta = Delta(w)
  OBVIOUS
<1>5. /\ rec # None /\ rec.at = "commit" /\ rec.prev # None /\ rec.key \in DOMAIN rec.todo
      /\ JobOK(w, rec) /\ rec \in Jobs /\ Spent(rec.crossed \cup rec.remove)
  BY <1>1, AtWork DEF Commit, At, JobOK
<1>6. delta \in Nat /\ k \in Keys /\ rec.todo[k] \in 0 .. MaxPassed
  BY <1>1, <1>2, <1>4, <1>5, DeltaType
<1>7. /\ sample' = [sample EXCEPT ![k] = rec.todo[k]]
      /\ used' = [used EXCEPT ![d] = @ + delta]
      /\ charged' = [charged EXCEPT ![k] = @ + delta]
      /\ Unlock(w) /\ UNCHANGED <<poolMax, raw, created>>
  BY <1>1, <1>2, <1>3, <1>4 DEF Commit
<1>8. d \in Devices
  BY <1>3, <1>6, OwnerAssumption
<1>9. used' \in [Devices -> Nat] /\ \A e \in Devices : used'[e] >= used[e]
  <2>1. used \in [Devices -> Nat]
    BY DEF ReportInv, Types
  <2> QED
    BY <1>6, <1>7, <1>8, <2>1
<1>10. PICK r : /\ work' = [work EXCEPT ![w] = r]
                /\ r # None => /\ JobOK(w, r) /\ r.at \notin {"book", "commit"}
                               /\ Spent(r.crossed \cup r.remove)'
  <2>1. \A j \in Keys : used[Owner[j]] >= Limit => used'[Owner[j]] >= Limit
    <3> SUFFICES ASSUME NEW j \in Keys, used[Owner[j]] >= Limit PROVE used'[Owner[j]] >= Limit
      OBVIOUS
    <3>1. Owner[j] \in Devices
      BY OwnerAssumption
    <3> QED
      BY <1>9, <3>1, PoolAssumption DEF ReportInv, Types
  <2>2. rec.crossed \subseteq Keys /\ rec.remove \subseteq Keys
    BY <1>5 DEF Jobs
  <2>3. Spent(rec.crossed \cup rec.remove)'
    BY <1>5, <2>1, <2>2 DEF Spent
  <2>4. CASE w \in Pollers
    <3>1. Proceed(w, rec)
      BY <1>1, <2>4 DEF Commit
    <3>2. PICK r : /\ work' = [work EXCEPT ![w] = r]
                   /\ IF DOMAIN rec.todo = {rec.key} THEN r = None
                      ELSE /\ r \in Jobs /\ r.at \in {"connect", "select"}
                           /\ r.todo = Restrict(rec.todo, DOMAIN rec.todo \ {rec.key})
                           /\ DOMAIN r.todo # {}
                           /\ r.crossed = rec.crossed /\ r.remove = rec.remove
      BY <1>5, <3>1, ProceedEffect
    <3>3. r # None => /\ JobOK(w, r) /\ r.at \notin {"book", "commit"}
                      /\ r.crossed = rec.crossed /\ r.remove = rec.remove
      BY <1>5, <3>2 DEF JobOK
    <3> QED
      BY <2>3, <3>2, <3>3 DEF Spent
  <2>5. CASE w \notin Pollers
    <3>1. PICK c : c = IF used'[d] >= Limit THEN rec.crossed \cup {k} ELSE rec.crossed
      OBVIOUS
    <3>2. PICK r : r = [rec EXCEPT !.at = "device", !.prev = None, !.crossed = c]
      OBVIOUS
    <3>3. work' = [work EXCEPT ![w] = r]
      BY <1>1, <1>2, <1>3, <2>5, <3>1, <3>2 DEF Commit, Set
    <3>4. c \subseteq rec.crossed \cup {k} /\ c \in SUBSET Keys
      BY <1>6, <2>2, <3>1
    <3>5. /\ r \in Jobs /\ r.at = "device" /\ r.crossed = c /\ r.key = k
          /\ r.remove = rec.remove /\ r.todo = rec.todo
      BY <1>2, <1>5, <3>2, <3>4 DEF Jobs
    <3>6. JobOK(w, r)
      BY <1>2, <1>5, <2>5, <3>4, <3>5 DEF JobOK, Workers
    <3>7. Spent(r.crossed \cup r.remove)'
      BY <1>3, <2>3, <3>1, <3>5 DEF Spent
    <3> QED
      BY <3>3, <3>5, <3>6, <3>7
  <2> QED
    BY <2>4, <2>5
<1>11. /\ work' \in [Workers -> Jobs \cup {None}] /\ JobsOK'
       /\ \A v \in Workers : work'[v] = IF v = w THEN r ELSE work[v]
  BY <1>10, JobsGoOn
<1>12. rowLock[k] = w
  BY <1>1, <1>2, <1>5, <1>6 DEF ReportInv, LocksOK, Books
<1>13. \A j \in Keys : rowLock[j] # w => sample'[j] = sample[j]
  BY <1>7, <1>12 DEF ReportInv, Types
<1>14. LocksOK' /\ rowLock' \in [Keys -> Workers \cup {None}]
       /\ sumLock' \in [Devices -> Workers \cup {None}]
  BY <1>7, <1>10, <1>11, <1>13, LocksReleased
<1>15. PoolOK'
  BY <1>1, <1>5, <1>7, <1>11, KeepsConnection, PoolGoesOn
<1>16. NamedAreSpent'
  <2>1. r # None => r \in Jobs
    BY <1>10 DEF JobOK
  <2> QED
    BY <1>9, <1>10, <1>11, <2>1, NamedStaySpent
<1>17. sample' \in [Keys -> (0 .. MaxPassed) \cup {None}] /\ charged' \in [Keys -> Nat]
  <2>1. sample \in [Keys -> (0 .. MaxPassed) \cup {None}] /\ charged \in [Keys -> Nat]
    BY DEF ReportInv, Types
  <2> QED
    BY <1>6, <1>7, <2>1
<1> QED
  BY <1>7, <1>9, <1>11, <1>14, <1>15, <1>16, <1>17 DEF ReportInv, Types

LEMMA ReportStep == ReportInv /\ [Next]_vars => ReportInv'
<1> SUFFICES ASSUME ReportInv, [Next]_vars PROVE ReportInv'
  OBVIOUS
<1>1. ASSUME NEW w \in Workers, NEW s \in Servers, Fetch(w, s) PROVE ReportInv'
  <2> DEFINE peers == {k \in Keys : Server[k] = s /\ raw[k] # None}
             readings == Restrict(raw, peers)
  <2>1. readings = [k \in peers |-> raw[k]] /\ peers # {}
    BY <1>1 DEF Fetch, Restrict
  <2>2. readings \in [peers -> 0 .. MaxPassed]
    BY <2>1 DEF ReportInv, Types
  <2>3. readings \in Readings /\ DOMAIN readings # {}
    BY <2>1, <2>2, ReadingsAre
  <2>4. PICK r : r = [at |-> "connect", todo |-> readings, key |-> None,
                      prev |-> None, crossed |-> {}, remove |-> {}]
    OBVIOUS
  <2>5. work[w] = None /\ UNCHANGED <<poolMax, raw, table, locks, charged>>
        /\ work' = [work EXCEPT ![w] = r]
    BY <1>1, <2>4 DEF Fetch, Set
  <2> HIDE DEF readings
  <2>6. r \in Jobs /\ r.at = "connect" /\ r.todo = readings /\ r.crossed = {} /\ r.remove = {}
    BY <2>3, <2>4 DEF Jobs
  <2>7. JobOK(w, r) /\ Spent(r.crossed \cup r.remove)
    BY <2>3, <2>6 DEF JobOK, Spent
  <2>8. \A v \in Workers : work'[v] = IF v = w THEN r ELSE work[v]
    BY <2>5 DEF ReportInv, Types
  <2>9. Holders' \subseteq Holders
    BY <2>6, <2>8, TakesConnection
  <2> QED
    BY <2>5, <2>6, <2>7, <2>9, StepOutside
<1>2. ASSUME NEW w \in Workers, Connect(w) PROVE ReportInv'
  <2>1. PICK rec : rec = work[w]
    OBVIOUS
  <2>2. /\ rec # None /\ rec.at = "connect" /\ Free > 0 /\ JobOK(w, rec) /\ rec \in Jobs
        /\ Spent(rec.crossed \cup rec.remove)
        /\ UNCHANGED <<poolMax, raw, table, locks, charged>>
    BY <1>2, <2>1, AtWork DEF Connect, At
  <2>3. PICK r : r = [rec EXCEPT !.at = "select"]
    OBVIOUS
  <2>4. work' = [work EXCEPT ![w] = r]
    BY <1>2, <2>1, <2>3 DEF Connect, Set
  <2>5. /\ r \in Jobs /\ r.at = "select" /\ r.todo = rec.todo
        /\ r.crossed = rec.crossed /\ r.remove = rec.remove
    BY <2>2, <2>3 DEF Jobs
  <2>6. JobOK(w, r)
    BY <2>2, <2>5 DEF JobOK
  <2>7. \A v \in Workers : work'[v] = IF v = w THEN r ELSE work[v]
    BY <2>4 DEF ReportInv, Types
  <2>8. Holders' \subseteq Holders \cup {w}
    BY <2>7, TakesConnection
  <2> QED
    BY <2>1, <2>2, <2>4, <2>5, <2>6, <2>8, StepOutside
<1>3. ASSUME NEW w \in Workers, Select(w) PROVE ReportInv'
  <2>1. PICK rec : rec = work[w]
    OBVIOUS
  <2>2. /\ rec # None /\ rec.at = "select" /\ JobOK(w, rec) /\ rec \in Jobs
        /\ rec.todo \in Readings
        /\ Spent(rec.crossed \cup rec.remove)
        /\ UNCHANGED <<poolMax, raw, sample, used, created, sumLock, charged>>
    BY <1>3, <2>1, AtWork DEF Select, At, table
  <2>3. PICK k \in DOMAIN rec.todo :
           /\ rowLock[k] \in {None, w}
           /\ Set(w, [rec EXCEPT !.at = "book", !.key = k, !.prev = sample[k]])
           /\ rowLock' = IF sample[k] = None THEN rowLock ELSE [rowLock EXCEPT ![k] = w]
    BY <1>3, <2>1 DEF Select
  <2>4. k \in Keys /\ sample[k] \in 0 .. MaxPassed \cup {None}
    BY <2>2, ReadingsAre DEF ReportInv, Types
  <2>5. PICK r : r = [rec EXCEPT !.at = "book", !.key = k, !.prev = sample[k]]
    OBVIOUS
  <2>6. work' = [work EXCEPT ![w] = r]
    BY <2>3, <2>5 DEF Set
  <2>7. /\ r \in Jobs /\ r.at = "book" /\ r.todo = rec.todo /\ r.key = k /\ r.prev = sample[k]
        /\ r.crossed = rec.crossed /\ r.remove = rec.remove
    BY <2>2, <2>4, <2>5 DEF Jobs
  <2>8. JobOK(w, r)
    BY <2>2, <2>3, <2>7 DEF JobOK
  <2>9. /\ work' \in [Workers -> Jobs \cup {None}] /\ JobsOK'
        /\ \A v \in Workers : work'[v] = IF v = w THEN r ELSE work[v]
    BY <2>6, <2>8, JobsGoOn
  <2>10. PoolOK'
    BY <2>1, <2>2, <2>9, KeepsConnection, PoolGoesOn
  <2>11. NamedAreSpent'
    <3>1. used' \in [Devices -> Nat] /\ \A d \in Devices : used'[d] >= used[d]
      BY <2>2 DEF ReportInv, Types
    <3>2. r \in Jobs /\ Spent(r.crossed \cup r.remove)'
      BY <2>2, <2>7 DEF Spent
    <3> QED
      BY <2>9, <3>1, <3>2, NamedStaySpent
  <2>12. LocksOK' /\ rowLock' \in [Keys -> Workers \cup {None}]
    <3>1. LocksOK /\ Types
      BY DEF ReportInv
    <3>2. /\ \A j \in Keys : rowLock[j] # w
          /\ \A d \in Devices : sumLock[d] # w
      BY <2>1, <2>2, <3>1, OutsideUnlocked
    <3>3. \A j \in Keys : rowLock'[j] = IF j = k /\ sample[k] # None THEN w ELSE rowLock[j]
      BY <2>3, <2>4, <3>1 DEF Types
    <3>4. rowLock[k] = None /\ None \notin Workers /\ None \notin Jobs
      BY <2>3, <2>4, <3>2, NoneAssumption
    <3>5. ASSUME NEW v \in Workers, v # w, NEW j \in Keys
          PROVE  /\ Books(v, j)' <=> Books(v, j)
                 /\ work'[v] = work[v]
                 /\ rowLock'[j] = v <=> rowLock[j] = v
      BY <2>9, <3>3, <3>4, <3>5 DEF Books
    <3>6. \A j \in Keys : Books(w, j)' <=> j = k
      BY <2>7, <2>9, <3>4 DEF Books
    <3>7. ASSUME NEW v \in Workers, NEW j \in Keys
          PROVE  /\ rowLock'[j] = v => Books(v, j)'
                 /\ Books(v, j)' /\ work'[v].prev # None
                       => rowLock'[j] = v /\ sample'[j] = work'[v].prev
      <4>1. CASE v = w
        BY <2>2, <2>7, <2>9, <3>2, <3>3, <3>6, <4>1
      <4>2. CASE v # w
        BY <2>2, <3>1, <3>5, <4>2 DEF LocksOK
      <4> QED
        BY <4>1, <4>2
    <3>8. ASSUME NEW v \in Workers, NEW d \in Devices, sumLock'[d] = v
          PROVE  work'[v] # None /\ work'[v].at = "commit" /\ Owner[work'[v].key] = d
      BY <2>2, <2>9, <3>1, <3>2, <3>8 DEF LocksOK
    <3>9. rowLock' \in [Keys -> Workers \cup {None}]
      BY <2>3, <3>1 DEF Types
    <3> QED
      BY <3>7, <3>8, <3>9 DEF LocksOK
  <2> QED
    BY <2>2, <2>9, <2>10, <2>11, <2>12 DEF ReportInv, Types
<1>4. ASSUME NEW w \in Workers, SkipUnknown(w) PROVE ReportInv'
  BY <1>4, ProceedBack DEF SkipUnknown, At
<1>5. ASSUME NEW w \in Workers, WriteUsage(w) PROVE ReportInv'
  <2>1. PICK rec : rec = work[w]
    OBVIOUS
  <2>2. /\ rec # None /\ rec.at = "book" /\ rec.prev # None /\ JobOK(w, rec) /\ rec \in Jobs
        /\ rec.key \in DOMAIN rec.todo
        /\ Spent(rec.crossed \cup rec.remove)
        /\ UNCHANGED <<poolMax, raw, sample, used, created, rowLock, charged>>
    BY <1>5, <2>1, AtWork DEF WriteUsage, At, table, JobOK
  <2>3. PICK d : d = Owner[rec.key]
    OBVIOUS
  <2>4. /\ Delta(w) = 0 \/ sumLock[d] \in {None, w}
        /\ sumLock' = IF Delta(w) = 0 THEN sumLock ELSE [sumLock EXCEPT ![d] = w]
    BY <1>5, <2>1, <2>3 DEF WriteUsage
  <2>5. rec.key \in Keys /\ d \in Devices
    BY <2>1, <2>2, <2>3, DeltaType, OwnerAssumption
  <2>6. PICK r : r = [rec EXCEPT !.at = "commit"]
    OBVIOUS
  <2>7. work' = [work EXCEPT ![w] = r]
    BY <1>5, <2>1, <2>6 DEF WriteUsage, Set
  <2>8. /\ r \in Jobs /\ r.at = "commit" /\ r.todo = rec.todo /\ r.key = rec.key
        /\ r.prev = rec.prev /\ r.crossed = rec.crossed /\ r.remove = rec.remove
    BY <2>2, <2>6 DEF Jobs
  <2>9. JobOK(w, r)
    BY <2>2, <2>8 DEF JobOK
  <2>10. /\ work' \in [Workers -> Jobs \cup {None}] /\ JobsOK'
         /\ \A v \in Workers : work'[v] = IF v = w THEN r ELSE work[v]
    BY <2>7, <2>9, JobsGoOn
  <2>11. PoolOK'
    BY <2>1, <2>2, <2>10, KeepsConnection, PoolGoesOn
  <2>12. NamedAreSpent'
    <3>1. used' \in [Devices -> Nat] /\ \A e \in Devices : used'[e] >= used[e]
      BY <2>2 DEF ReportInv, Types
    <3>2. r \in Jobs /\ Spent(r.crossed \cup r.remove)'
      BY <2>2, <2>8 DEF Spent
    <3> QED
      BY <2>10, <3>1, <3>2, NamedStaySpent
  <2>13. LocksOK'
    <3>1. LocksOK /\ Types
      BY DEF ReportInv
    <3>2. None \notin Workers /\ None \notin Jobs
      BY NoneAssumption
    <3>3. \A v \in Workers, j \in Keys : Books(v, j)' <=> Books(v, j)
      BY <2>1, <2>2, <2>8, <2>10, <3>2 DEF Books
    <3>4. ASSUME NEW v \in Workers, NEW j \in Keys
          PROVE  /\ rowLock'[j] = v => Books(v, j)'
                 /\ Books(v, j)' /\ work'[v].prev # None
                       => rowLock'[j] = v /\ sample'[j] = work'[v].prev
      BY <2>1, <2>2, <2>8, <2>10, <3>1, <3>3 DEF LocksOK
    <3>5. ASSUME NEW v \in Workers, NEW e \in Devices, sumLock'[e] = v
          PROVE  work'[v] # None /\ work'[v].at = "commit" /\ Owner[work'[v].key] = e
      <4>1. sumLock[e] = v \/ (v = w /\ e = d)
        BY <2>4, <2>5, <3>1, <3>5 DEF Types
      <4>2. CASE v = w /\ e = d
        BY <2>3, <2>8, <2>10, <3>2, <4>2
      <4>3. CASE sumLock[e] = v
        <5>1. work[v] # None /\ work[v].at = "commit" /\ Owner[work[v].key] = e
          BY <3>1, <4>3 DEF LocksOK
        <5>2. v # w
          BY <2>1, <2>2, <5>1
        <5> QED
          BY <2>10, <5>1, <5>2
      <4> QED
        BY <4>1, <4>2, <4>3
    <3> QED
      BY <3>4, <3>5 DEF LocksOK
  <2>14. sumLock' \in [Devices -> Workers \cup {None}]
    BY <2>4 DEF ReportInv, Types
  <2> QED
    BY <2>2, <2>10, <2>11, <2>12, <2>13, <2>14 DEF ReportInv, Types
<1>6. ASSUME NEW w \in Workers, GetDevice(w) PROVE ReportInv'
  <2>1. PICK rec : rec = work[w]
    OBVIOUS
  <2>2. /\ rec # None /\ rec.at = "device" /\ JobOK(w, rec) /\ rec \in Jobs
        /\ Spent(rec.crossed \cup rec.remove)
        /\ UNCHANGED <<poolMax, raw, table, locks, charged>>
    BY <1>6, <2>1, AtWork DEF GetDevice, At
  <2>3. PICK r : r = [rec EXCEPT !.at = "quota"]
    OBVIOUS
  <2>4. work' = [work EXCEPT ![w] = r]
    BY <1>6, <2>1, <2>3 DEF GetDevice, Set
  <2>5. /\ r \in Jobs /\ r.at = "quota" /\ r.todo = rec.todo /\ r.key = rec.key
        /\ r.crossed = rec.crossed /\ r.remove = rec.remove
    BY <2>2, <2>3 DEF Jobs
  <2>6. JobOK(w, r)
    BY <2>2, <2>5 DEF JobOK
  <2>7. \A v \in Workers : work'[v] = IF v = w THEN r ELSE work[v]
    BY <2>4 DEF ReportInv, Types
  <2>8. Holders' \subseteq Holders
    BY <2>1, <2>2, <2>7, KeepsConnection
  <2> QED
    BY <2>1, <2>2, <2>4, <2>5, <2>6, <2>8, StepOutside
<1>7. ASSUME NEW w \in Workers, QuotaFor(w) PROVE ReportInv'
  <2>1. PICK job : job = work[w]
    OBVIOUS
  <2>2. /\ job # None /\ job.at = "quota" /\ JobOK(w, job) /\ job \in Jobs
        /\ Spent(job.crossed \cup job.remove) /\ job.key \in DOMAIN job.todo
        /\ job.todo \in Readings
        /\ UNCHANGED <<poolMax, raw, table, locks, charged>>
    BY <1>7, <2>1, AtWork DEF QuotaFor, At, JobOK
  <2>3. PICK c : c = IF used[Owner[job.key]] >= Limit THEN job.remove \cup {job.key}
                     ELSE job.remove
    OBVIOUS
  <2>4. PICK rec : rec = [job EXCEPT !.remove = c]
    OBVIOUS
  <2>5. Proceed(w, rec)
    BY <1>7, <2>1, <2>3, <2>4 DEF QuotaFor
  <2>6. job.key \in Keys
    BY <2>2, ReadingsAre
  <2>7. c \in SUBSET Keys
    BY <2>2, <2>3, <2>6 DEF Jobs
  <2>8. /\ rec \in Jobs /\ rec.at = "quota" /\ rec.todo = job.todo /\ rec.key = job.key
        /\ rec.crossed = job.crossed /\ rec.remove = c
    BY <2>2, <2>4, <2>7 DEF Jobs
  <2>9. PICK r : /\ work' = [work EXCEPT ![w] = r]
                 /\ IF DOMAIN rec.todo = {rec.key} THEN r = None
                    ELSE /\ r \in Jobs /\ r.at \in {"connect", "select"}
                         /\ r.todo = Restrict(rec.todo, DOMAIN rec.todo \ {rec.key})
                         /\ DOMAIN r.todo # {}
                         /\ r.crossed = rec.crossed /\ r.remove = rec.remove
    BY <2>2, <2>5, <2>8, ProceedEffect
  <2>10. job.crossed \subseteq c
    <3>1. job.crossed \subseteq job.remove \cup {job.key}
      BY <2>2 DEF JobOK
    <3> QED
      BY <2>2, <2>3, <3>1 DEF Spent
  <2>11. Spent(c)
    BY <2>2, <2>3 DEF Spent
  <2>12. r # None => JobOK(w, r) /\ r.at \notin {"book", "commit"}
                     /\ Spent(r.crossed \cup r.remove)
    BY <2>8, <2>9, <2>10, <2>11 DEF JobOK, Spent
  <2>13. \A v \in Workers : work'[v] = IF v = w THEN r ELSE work[v]
    BY <2>9 DEF ReportInv, Types
  <2>14. Holders' \subseteq Holders
    BY <2>1, <2>2, <2>13, KeepsConnection
  <2> QED
    BY <2>1, <2>2, <2>9, <2>12, <2>14, StepOutside
<1>8. ASSUME NEW w \in Workers, StatementFails(w) PROVE ReportInv'
  <2>1. CASE Proceed(w, work[w])
    BY <1>8, <2>1, ProceedBack DEF StatementFails
  <2>2. CASE Set(w, None)
    BY <1>8, <2>2, StepBack DEF StatementFails, Set
  <2> QED
    BY <1>8, <2>1, <2>2 DEF StatementFails
<1>9. ASSUME NEW w \in Workers, TimeOut(w) PROVE ReportInv'
  <2>1. /\ work' = [work EXCEPT ![w] = None] /\ work[w].at \notin {"book", "commit"}
        /\ UNCHANGED <<poolMax, raw, table, locks, charged>>
    BY <1>9 DEF TimeOut, Set
  <2>2. \A v \in Workers : work'[v] = IF v = w THEN None ELSE work[v]
    BY <2>1 DEF ReportInv, Types
  <2>3. Holders' \subseteq Holders
    BY <2>2, TakesConnection
  <2> QED
    BY <2>1, <2>3, StepOutside
<1>10. ASSUME UNCHANGED <<poolMax, used, rowLock, sumLock, work, charged>>,
              raw' \in [Keys -> (0 .. MaxPassed) \cup {None}],
              sample' \in [Keys -> (0 .. MaxPassed) \cup {None}],
              created' \in [Keys -> 0 .. MaxRows], LocksOK'
       PROVE  ReportInv'
  <2>1. JobsOK' /\ PoolOK' /\ NamedAreSpent'
    BY <1>10 DEF ReportInv, JobsOK, JobOK, PoolOK, Holders, NamedAreSpent, Spent
  <2> QED
    BY <1>10, <2>1 DEF ReportInv, Types
<1>11. ASSUME NEW k \in Keys, CreateRow(k) PROVE ReportInv'
  <2>1. /\ sample[k] = None /\ created[k] < MaxRows
        /\ sample' = [sample EXCEPT ![k] = 0] /\ created' = [created EXCEPT ![k] = @ + 1]
        /\ UNCHANGED <<poolMax, raw, used, rowLock, sumLock, work, charged>>
    BY <1>11 DEF CreateRow, locks
  <2>2. created' \in [Keys -> 0 .. MaxRows]
    BY <2>1, BoundsAssumption DEF ReportInv, Types
  <2>3. /\ sample' \in [Keys -> (0 .. MaxPassed) \cup {None}]
        /\ \A j \in Keys : j # k => sample'[j] = sample[j]
    BY <2>1, BoundsAssumption DEF ReportInv, Types
  <2>4. LocksOK'
    BY <2>1, <2>3, LocksElse
  <2>5. raw' \in [Keys -> (0 .. MaxPassed) \cup {None}]
    BY <2>1 DEF ReportInv, Types
  <2> QED
    BY <1>10, <2>1, <2>2, <2>3, <2>4, <2>5
<1>12. ASSUME NEW k \in Keys, DeleteRow(k) PROVE ReportInv'
  <2>1. /\ rowLock[k] = None /\ sample' = [sample EXCEPT ![k] = None]
        /\ UNCHANGED <<poolMax, raw, used, created, rowLock, sumLock, work, charged>>
    BY <1>12 DEF DeleteRow, locks
  <2>2. /\ sample' \in [Keys -> (0 .. MaxPassed) \cup {None}]
        /\ \A j \in Keys : j # k => sample'[j] = sample[j]
    BY <2>1 DEF ReportInv, Types
  <2>3. LocksOK'
    BY <2>1, <2>2, LocksElse
  <2>4. /\ raw' \in [Keys -> (0 .. MaxPassed) \cup {None}]
        /\ created' \in [Keys -> 0 .. MaxRows]
    BY <2>1 DEF ReportInv, Types
  <2> QED
    BY <1>10, <2>1, <2>2, <2>3, <2>4
<1>13. ASSUME UNCHANGED <<poolMax, table, locks, work, charged>>,
              raw' \in [Keys -> (0 .. MaxPassed) \cup {None}]
       PROVE  ReportInv'
  <2>1. UNCHANGED <<poolMax, sample, used, created, rowLock, sumLock, work, charged>>
    BY <1>13 DEF table, locks
  <2>2. LocksOK'
    BY <2>1 DEF ReportInv, LocksOK, Books
  <2> QED
    BY <1>10, <1>13, <2>1, <2>2 DEF ReportInv, Types
<1>14. ASSUME NEW k \in Keys, AddPeer(k) PROVE ReportInv'
  <2>1. raw' \in [Keys -> (0 .. MaxPassed) \cup {None}]
    BY <1>14, BoundsAssumption DEF AddPeer, ReportInv, Types
  <2> QED
    BY <1>13, <1>14, <2>1 DEF AddPeer
<1>15. ASSUME NEW k \in Keys, Transfer(k) PROVE ReportInv'
  <2>1. raw[k] \in 0 .. MaxPassed /\ raw[k] < MaxPassed /\ raw' = [raw EXCEPT ![k] = @ + 1]
    BY <1>15 DEF Transfer, ReportInv, Types
  <2>2. raw[k] + 1 \in 0 .. MaxPassed
    BY <2>1, BoundsAssumption
  <2>3. raw' \in [Keys -> (0 .. MaxPassed) \cup {None}]
    BY <2>1, <2>2 DEF ReportInv, Types
  <2> QED
    BY <1>13, <1>15, <2>3 DEF Transfer
<1>16. CASE UNCHANGED vars
  BY <1>13, <1>16 DEF vars, ReportInv, Types
<1> QED
  BY <1>1, <1>2, <1>3, <1>4, <1>5, <1>6, <1>7, <1>8, <1>9, <1>11, <1>12, <1>14, <1>15, <1>16,
     CommitStep DEF Next, Execute, FetchNothing

LEMMA ReportCorrect == Spec => []ReportInv
BY ReportInit, ReportStep, PTL DEF Spec

\* The type invariant: no worker is ever given a connection that is not to be had, for
\* any pool, peers and bounds.
THEOREM TypeCorrect == Spec => []TypeOK
BY ReportTypes, ReportCorrect, PTL

\* The answer of a report names whom it has crossed, and none that has any left
\* (routes/internal.js:76-82).
THEOREM AnswersRight == Spec => []RemoveNamesTheExhausted
<1>1. ReportInv => RemoveNamesTheExhausted
  <2> SUFFICES ASSUME ReportInv, NEW w \in Workers, work[w] # None
               PROVE  /\ work[w].at = "select" => work[w].crossed \subseteq work[w].remove
                      /\ \A k \in work[w].remove : used[Owner[k]] >= Limit
    BY DEF RemoveNamesTheExhausted
  <2>1. JobOK(w, work[w]) /\ Spent(work[w].crossed \cup work[w].remove)
    BY AtWork
  <2> QED
    BY <2>1 DEF JobOK, Spent
<1> QED
  BY <1>1, ReportCorrect, PTL

-----------------------------------------------------------------------------
(* Waiting *)

\* A worker that waits for a row or a counter waits for one in COMMIT, which waits for
\* nothing; so all wait for the pool, and only reports that have booked a peer do so
\* with a connection of their own (routes/internal.js:76-82, db/pool.js:12-18).
THEOREM NoCircle == Spec => []OnlyReportsStarve
<1>1. ReportInv => OnlyReportsStarve
  <2> SUFFICES ASSUME ReportInv,
                      \A w \in Workers : work[w] # None => WaitsForPool(w) \/ WaitsForRow(w)
               PROVE  /\ \A w \in Workers : work[w] # None => WaitsForPool(w)
                      /\ \A w \in Holders : w \in Reporters
    BY DEF OnlyReportsStarve
  <2>1. ASSUME NEW w \in Workers, work[w] # None PROVE work[w].at # "commit"
    BY <2>1 DEF WaitsForPool, WaitsForRow
  <2>2. \A d \in Devices : sumLock[d] = None
    BY <2>1 DEF ReportInv, Types, LocksOK
  <2>3. ASSUME NEW w \in Workers, work[w] # None PROVE work[w].at # "book"
    <3> SUFFICES ASSUME work[w].at = "book" PROVE FALSE
      OBVIOUS
    <3>1. JobOK(w, work[w]) /\ work[w].todo \in Readings
      BY <2>3, AtWork
    <3>2. work[w].key \in Keys
      BY <3>1, ReadingsAre DEF JobOK
    <3>3. sumLock[Owner[work[w].key]] = None
      BY <2>2, <3>2, OwnerAssumption
    <3> QED
      BY <2>3, <3>3 DEF WaitsForPool, WaitsForRow
  <2>4. \A k \in Keys : rowLock[k] = None
    BY <2>1, <2>3 DEF ReportInv, Types, LocksOK, Books
  <2>5. ASSUME NEW w \in Workers, work[w] # None PROVE WaitsForPool(w)
    <3>1. JobOK(w, work[w]) /\ work[w].todo \in Readings
      BY <2>5, AtWork
    <3>2. PICK k \in DOMAIN work[w].todo : TRUE
      BY <3>1 DEF JobOK
    <3>3. rowLock[k] = None
      BY <2>4, <3>1, ReadingsAre
    <3> QED
      BY <2>3, <2>5, <3>2, <3>3 DEF WaitsForRow
  <2>6. ASSUME NEW w \in Holders PROVE w \in Reporters
    <3>1. w \in Workers /\ work[w] # None /\ work[w].at # "connect"
      BY DEF Holders
    <3>2. work[w].at \in {"device", "quota"}
      BY <2>5, <3>1 DEF WaitsForPool
    <3> QED
      BY <3>1, <3>2, AtWork DEF JobOK
  <2> QED
    BY <2>5, <2>6
<1> QED
  BY <1>1, ReportCorrect, PTL

-----------------------------------------------------------------------------
(* Booking statement by statement is booking *)

\* What is left of some readings, without that of k.
Rest(f, k) == IF DOMAIN f = {k} THEN None ELSE Restrict(f, DOMAIN f \ {k})

\* What UsageLedger sees of a job.
Booking(r) ==
    IF r = None THEN None
    ELSE IF r.at \in {"device", "quota"} \/ (r.at = "book" /\ r.prev = None)
      THEN Rest(r.todo, r.key) ELSE r.todo

LEMMA PassIs == \A w \in Workers : pass[w] = Booking(work[w])
BY DEF pass, ToBook, Settled, Booking, Rest

LEMMA PassGoesOn ==
    ASSUME NEW w \in Workers, NEW r, work \in [Workers -> Jobs \cup {None}],
           work' = [work EXCEPT ![w] = r]
    PROVE  pass' = [pass EXCEPT ![w] = Booking(r)]
<1>1. \A v \in Workers : work'[v] = IF v = w THEN r ELSE work[v]
  OBVIOUS
<1>2. \A v \in Workers : ToBook(v)' = IF v = w THEN Booking(r) ELSE ToBook(v)
  BY <1>1 DEF ToBook, Settled, Booking, Rest
<1> QED
  BY <1>2 DEF pass

LEMMA PassStays ==
    ASSUME NEW w \in Workers, NEW r, work \in [Workers -> Jobs \cup {None}],
           work' = [work EXCEPT ![w] = r], Booking(r) = Booking(work[w])
    PROVE  UNCHANGED pass
<1>1. pass' = [pass EXCEPT ![w] = Booking(r)]
  BY PassGoesOn
<1>2. pass[w] = Booking(r)
  BY PassIs
<1> QED
  BY <1>1, <1>2 DEF pass

\* Readings that are left are not None.
LEMMA RestIsSome ==
    ASSUME NEW f \in Readings, NEW k, DOMAIN f # {k}
    PROVE  Rest(f, k) # None /\ Rest(f, k) = Restrict(f, DOMAIN f \ {k})
<1>1. Restrict(f, DOMAIN f \ {k}) \in Readings
  BY RestOfReadings
<1> QED
  BY <1>1, NoneAssumption DEF Rest

\* Done with a peer, its reading is forgotten.
LEMMA ProceedForgets ==
    ASSUME Types, NEW w \in Workers, NEW rec \in Jobs, rec.key \in DOMAIN rec.todo,
           Proceed(w, rec)
    PROVE  pass' = [pass EXCEPT ![w] = Rest(rec.todo, rec.key)]
<1>1. PICK r : /\ work' = [work EXCEPT ![w] = r]
               /\ IF DOMAIN rec.todo = {rec.key} THEN r = None
                  ELSE /\ r \in Jobs /\ r.at \in {"connect", "select"}
                       /\ r.todo = Restrict(rec.todo, DOMAIN rec.todo \ {rec.key})
                       /\ DOMAIN r.todo # {}
                       /\ r.crossed = rec.crossed /\ r.remove = rec.remove
  BY ProceedEffect
<1>2. None \notin Jobs
  BY NoneAssumption
<1>3. Booking(r) = Rest(rec.todo, rec.key)
  BY <1>1, <1>2 DEF Booking, Rest
<1> QED
  BY <1>1, <1>3, PassGoesOn DEF Types

LEMMA MonthsAdd ==
    ASSUME used \in [Devices -> Nat], NEW d \in Devices, NEW delta \in Nat,
           used' = [used EXCEPT ![d] = @ + delta]
    PROVE  Ledger!AddUsage(d, delta)
<1>1. \A e \in Devices : used'[e] = IF e = d THEN used[d] + delta ELSE used[e]
  OBVIOUS
<1>2. usedByMonth' = [e \in Devices |-> [m \in 1 .. 1 |->
                        IF e = d THEN used[d] + delta ELSE used[e]]]
  BY <1>1 DEF usedByMonth
<1>3. [usedByMonth[d] EXCEPT ![1] = @ + delta] = [m \in 1 .. 1 |-> used[d] + delta]
  BY DEF usedByMonth
<1>4. usedByMonth' = [usedByMonth EXCEPT ![d] = [usedByMonth[d] EXCEPT ![1] = @ + delta]]
  BY <1>2, <1>3 DEF usedByMonth
<1> QED
  BY <1>4 DEF Ledger!AddUsage

\* Every step is a step of UsageLedger or none: the SELECT that finds no row is the
\* booking of an unknown peer, COMMIT is a booking, an error what it was there.
LEMMA LedgerStep == ReportInv /\ [Next]_vars => [Ledger!Next]_(Ledger!vars)
<1> SUFFICES ASSUME ReportInv, [Next]_vars PROVE Ledger!Next \/ UNCHANGED Ledger!vars
  OBVIOUS
<1>1. Types /\ Ledger!Passes = Workers
  BY DEF ReportInv, Ledger!Passes, Workers
<1>2. ASSUME UNCHANGED raw PROVE UNCHANGED passed
  BY <1>2 DEF passed
<1>3. ASSUME UNCHANGED used PROVE UNCHANGED usedByMonth
  BY <1>3 DEF usedByMonth
<1>4. ASSUME UNCHANGED <<raw, table, charged, pass>> PROVE UNCHANGED Ledger!vars
  BY <1>2, <1>3, <1>4 DEF table, Ledger!vars
<1>5. ASSUME NEW w \in Workers, NEW r, work' = [work EXCEPT ![w] = r],
             Booking(r) = Booking(work[w]), UNCHANGED <<raw, table, charged>>
      PROVE  UNCHANGED Ledger!vars
  BY <1>1, <1>4, <1>5, PassStays DEF Types
<1>6. ASSUME NEW w \in Workers, work[w] # None, Set(w, None), UNCHANGED <<raw, table, charged>>
      PROVE  Ledger!Next \/ UNCHANGED Ledger!vars
  <2>1. pass' = [pass EXCEPT ![w] = None]
    BY <1>1, <1>6, PassGoesOn DEF Set, Types, Booking
  <2>2. CASE pass[w] = None
    BY <1>4, <1>6, <2>1, <2>2 DEF pass
  <2>3. CASE pass[w] # None
    <3>1. Ledger!Abandon(w)
      BY <1>2, <1>3, <1>6, <2>1, <2>3 DEF table, Ledger!Abandon
    <3> QED
      BY <1>1, <3>1 DEF Ledger!Next
  <2> QED
    BY <2>2, <2>3
<1>7. ASSUME NEW w \in Workers, NEW s \in Servers, Fetch(w, s) PROVE Ledger!Next
  <2>1. PICK readings : readings = Restrict(raw, {k \in Keys : Server[k] = s /\ raw[k] # None})
    OBVIOUS
  <2>2. PICK r : r = [at |-> "connect", todo |-> readings, key |-> None,
                      prev |-> None, crossed |-> {}, remove |-> {}]
    OBVIOUS
  <2>3. /\ work[w] = None /\ {k \in Keys : Server[k] = s /\ raw[k] # None} # {}
        /\ work' = [work EXCEPT ![w] = r] /\ UNCHANGED <<raw, table, charged>>
    BY <1>7, <2>1, <2>2 DEF Fetch, Set
  <2>4. r # None
    <3>1. readings \in [{k \in Keys : Server[k] = s /\ raw[k] # None} -> 0 .. MaxPassed]
      BY <1>1, <2>1 DEF Types, Restrict
    <3>2. readings \in Readings
      BY <3>1, ReadingsAre
    <3>3. r \in Jobs
      BY <2>2, <3>2 DEF Jobs
    <3> QED
      BY <3>3, NoneAssumption
  <2>5. Booking(r) = readings
    BY <2>2, <2>4 DEF Booking
  <2>6. pass' = [pass EXCEPT ![w] = readings] /\ pass[w] = None
    BY <1>1, <2>3, <2>5, PassGoesOn, PassIs DEF Types, Booking
  <2>7. Ledger!Fetch(w, s)
    BY <1>2, <1>3, <2>1, <2>3, <2>6 DEF table, Ledger!Fetch, Restrict, Ledger!Restrict
  <2> QED
    BY <1>1, <2>7 DEF Ledger!Next
<1>8. ASSUME NEW w \in Workers, Connect(w) PROVE UNCHANGED Ledger!vars
  <2>1. PICK rec : rec = work[w]
    OBVIOUS
  <2>2. rec # None /\ rec.at = "connect" /\ rec \in Jobs
    BY <1>8, <2>1, AtWork DEF Connect, At
  <2>3. PICK r : r = [rec EXCEPT !.at = "select"]
    OBVIOUS
  <2>4. r \in Jobs /\ r # None /\ r.at = "select" /\ r.todo = rec.todo
    BY <2>2, <2>3, NoneAssumption DEF Jobs
  <2>5. work' = [work EXCEPT ![w] = r] /\ UNCHANGED <<raw, table, charged>>
    BY <1>8, <2>1, <2>3 DEF Connect, Set
  <2>6. Booking(r) = Booking(rec)
    BY <2>2, <2>4 DEF Booking
  <2> QED
    BY <1>5, <2>1, <2>5, <2>6
<1>9. ASSUME NEW w \in Workers, Select(w) PROVE Ledger!Next \/ UNCHANGED Ledger!vars
  <2>1. PICK rec : rec = work[w]
    OBVIOUS
  <2>2. /\ rec # None /\ rec.at = "select" /\ rec \in Jobs /\ rec.todo \in Readings
        /\ UNCHANGED <<raw, table, charged>>
    BY <1>9, <2>1, AtWork DEF Select, At
  <2>3. PICK k \in DOMAIN rec.todo :
           Set(w, [rec EXCEPT !.at = "book", !.key = k, !.prev = sample[k]])
    BY <1>9, <2>1 DEF Select
  <2>4. k \in Keys /\ sample[k] \in 0 .. MaxPassed \cup {None}
    BY <1>1, <2>2, ReadingsAre DEF Types
  <2>5. PICK r : r = [rec EXCEPT !.at = "book", !.key = k, !.prev = sample[k]]
    OBVIOUS
  <2>6. work' = [work EXCEPT ![w] = r]
    BY <2>3, <2>5 DEF Set
  <2>7. r \in Jobs /\ r.at = "book" /\ r.todo = rec.todo /\ r.key = k /\ r.prev = sample[k]
    BY <2>2, <2>4, <2>5 DEF Jobs
  <2>8. r # None
    BY <2>7, NoneAssumption
  <2>9. CASE sample[k] # None
    <3>1. Booking(r) = Booking(rec)
      BY <2>2, <2>7, <2>8, <2>9 DEF Booking
    <3> QED
      BY <1>5, <2>1, <2>2, <2>6, <3>1
  <2>10. CASE sample[k] = None
    <3>1. Booking(r) = Rest(rec.todo, k)
      BY <2>7, <2>8, <2>10 DEF Booking
    <3>2. pass' = [pass EXCEPT ![w] = Rest(rec.todo, k)]
      BY <1>1, <2>6, <3>1, PassGoesOn DEF Types
    <3>3. pass[w] = rec.todo
      BY <2>1, <2>2, PassIs DEF Booking
    <3>4. rec.todo # None
      BY <2>2, NoneAssumption
    <3>5. Ledger!DoneWith(w, k)
      BY <3>2, <3>3 DEF Ledger!DoneWith, Rest, Restrict, Ledger!Restrict
    <3>6. Ledger!IngestUnknown(w, k)
      BY <1>2, <1>3, <2>2, <2>3, <2>10, <3>3, <3>4, <3>5 DEF table, Ledger!IngestUnknown
    <3> QED
      BY <1>1, <2>4, <3>6 DEF Ledger!Next, Ledger!Book
  <2> QED
    BY <2>9, <2>10
<1>10. ASSUME NEW w \in Workers, SkipUnknown(w) PROVE UNCHANGED Ledger!vars
  <2>1. PICK rec : rec = work[w]
    OBVIOUS
  <2>2. /\ rec # None /\ rec.at = "book" /\ rec.prev = None /\ rec \in Jobs /\ JobOK(w, rec)
        /\ Proceed(w, rec) /\ UNCHANGED <<raw, table, charged>>
    BY <1>10, <2>1, AtWork DEF SkipUnknown, At
  <2>3. pass' = [pass EXCEPT ![w] = Rest(rec.todo, rec.key)]
    BY <1>1, <2>2, ProceedForgets DEF JobOK
  <2>4. pass[w] = Rest(rec.todo, rec.key)
    BY <2>1, <2>2, PassIs DEF Booking
  <2>5. UNCHANGED pass
    BY <2>3, <2>4 DEF pass
  <2> QED
    BY <1>4, <2>2, <2>5
<1>11. ASSUME NEW w \in Workers, WriteUsage(w) PROVE UNCHANGED Ledger!vars
  <2>1. PICK rec : rec = work[w]
    OBVIOUS
  <2>2. rec # None /\ rec.at = "book" /\ rec.prev # None /\ rec \in Jobs
    BY <1>11, <2>1, AtWork DEF WriteUsage, At
  <2>3. PICK r : r = [rec EXCEPT !.at = "commit"]
    OBVIOUS
  <2>4. r \in Jobs /\ r # None /\ r.at = "commit" /\ r.todo = rec.todo
    BY <2>2, <2>3, NoneAssumption DEF Jobs
  <2>5. work' = [work EXCEPT ![w] = r] /\ UNCHANGED <<raw, table, charged>>
    BY <1>11, <2>1, <2>3 DEF WriteUsage, Set
  <2>6. Booking(r) = Booking(rec)
    BY <2>2, <2>4 DEF Booking
  <2> QED
    BY <1>5, <2>1, <2>5, <2>6
<1>12. ASSUME NEW w \in Workers, Commit(w) PROVE Ledger!Next
  <2>1. PICK rec : rec = work[w]
    OBVIOUS
  <2>2. PICK k : k = rec.key
    OBVIOUS
  <2>3. PICK delta : delta = Delta(w)
    OBVIOUS
  <2>4. /\ rec # None /\ rec.at = "commit" /\ rec.prev # None /\ rec.key \in DOMAIN rec.todo
        /\ JobOK(w, rec) /\ rec \in Jobs /\ rec.todo \in Readings
    BY <1>12, <2>1, AtWork DEF Commit, At, JobOK
  <2>5. delta \in Nat /\ k \in Keys
    BY <2>1, <2>2, <2>3, <2>4, DeltaType
  <2>6. /\ sample' = [sample EXCEPT ![k] = rec.todo[k]]
        /\ used' = [used EXCEPT ![Owner[k]] = @ + delta]
        /\ charged' = [charged EXCEPT ![k] = @ + delta]
        /\ UNCHANGED <<raw, created>>
    BY <1>12, <2>1, <2>2, <2>3 DEF Commit
  <2>7. sample[k] = rec.prev
    BY <2>1, <2>2, <2>4, <2>5 DEF ReportInv, LocksOK, Books
  <2>8. pass[w] = rec.todo /\ rec.todo # None
    BY <2>1, <2>4, PassIs, NoneAssumption DEF Booking
  <2>9. Ledger!Delta(sample[k], pass[w][k]) = delta
    BY <2>1, <2>2, <2>3, <2>7, <2>8 DEF Ledger!Delta, Delta
  <2>10. Ledger!AddUsage(Owner[k], delta)
    BY <1>1, <2>5, <2>6, OwnerAssumption, MonthsAdd DEF Types
  <2>11. pass' = [pass EXCEPT ![w] = Rest(rec.todo, k)]
    <3>1. CASE w \in Pollers
      <4>1. Proceed(w, rec)
        BY <1>12, <2>1, <3>1 DEF Commit
      <4> QED
        BY <1>1, <2>2, <2>4, <4>1, ProceedForgets
    <3>2. CASE w \notin Pollers
      <4>1. PICK c : c = IF used'[Owner[k]] >= Limit THEN rec.crossed \cup {k} ELSE rec.crossed
        OBVIOUS
      <4>2. PICK r : r = [rec EXCEPT !.at = "device", !.prev = None, !.crossed = c]
        OBVIOUS
      <4>3. work' = [work EXCEPT ![w] = r]
        BY <1>12, <2>1, <2>2, <3>2, <4>1, <4>2 DEF Commit, Set
      <4>4. c \in SUBSET Keys
        BY <2>4, <2>5, <4>1 DEF Jobs
      <4>5. r \in Jobs /\ r.at = "device" /\ r.todo = rec.todo /\ r.key = k
        BY <2>2, <2>4, <4>2, <4>4 DEF Jobs
      <4>6. Booking(r) = Rest(rec.todo, k)
        BY <4>5, NoneAssumption DEF Booking
      <4> QED
        BY <1>1, <4>3, <4>6, PassGoesOn DEF Types
    <3> QED
      BY <3>1, <3>2
  <2>12. Ledger!DoneWith(w, k)
    BY <2>8, <2>11 DEF Ledger!DoneWith, Rest, Restrict, Ledger!Restrict
  <2>13. sample[k] # None /\ k \in DOMAIN pass[w] /\ sample' = [sample EXCEPT ![k] = pass[w][k]]
    BY <2>2, <2>4, <2>6, <2>7, <2>8
  <2>14. Ledger!Ingest(w, k)
    BY <1>2, <2>6, <2>8, <2>9, <2>10, <2>12, <2>13 DEF Ledger!Ingest
  <2> QED
    BY <1>1, <2>5, <2>14 DEF Ledger!Next, Ledger!Book
<1>13. ASSUME NEW w \in Workers, GetDevice(w) PROVE UNCHANGED Ledger!vars
  <2>1. PICK rec : rec = work[w]
    OBVIOUS
  <2>2. rec # None /\ rec.at = "device" /\ rec \in Jobs
    BY <1>13, <2>1, AtWork DEF GetDevice, At
  <2>3. PICK r : r = [rec EXCEPT !.at = "quota"]
    OBVIOUS
  <2>4. r \in Jobs /\ r # None /\ r.at = "quota" /\ r.todo = rec.todo /\ r.key = rec.key
    BY <2>2, <2>3, NoneAssumption DEF Jobs
  <2>5. work' = [work EXCEPT ![w] = r] /\ UNCHANGED <<raw, table, charged>>
    BY <1>13, <2>1, <2>3 DEF GetDevice, Set
  <2>6. Booking(r) = Booking(rec)
    BY <2>2, <2>4 DEF Booking
  <2> QED
    BY <1>5, <2>1, <2>5, <2>6
<1>14. ASSUME NEW w \in Workers, QuotaFor(w) PROVE UNCHANGED Ledger!vars
  <2>1. PICK job : job = work[w]
    OBVIOUS
  <2>2. /\ job # None /\ job.at = "quota" /\ JobOK(w, job) /\ job \in Jobs
        /\ job.key \in DOMAIN job.todo /\ job.todo \in Readings
        /\ UNCHANGED <<raw, table, charged>>
    BY <1>14, <2>1, AtWork DEF QuotaFor, At, JobOK
  <2>3. PICK c : c = IF used[Owner[job.key]] >= Limit THEN job.remove \cup {job.key}
                     ELSE job.remove
    OBVIOUS
  <2>4. PICK rec : rec = [job EXCEPT !.remove = c]
    OBVIOUS
  <2>5. Proceed(w, rec)
    BY <1>14, <2>1, <2>3, <2>4 DEF QuotaFor
  <2>6. c \in SUBSET Keys
    BY <2>2, <2>3, ReadingsAre DEF Jobs
  <2>7. rec \in Jobs /\ rec.todo = job.todo /\ rec.key = job.key
    BY <2>2, <2>4, <2>6 DEF Jobs
  <2>8. pass' = [pass EXCEPT ![w] = Rest(job.todo, job.key)]
    BY <1>1, <2>2, <2>5, <2>7, ProceedForgets
  <2>9. pass[w] = Rest(job.todo, job.key)
    BY <2>1, <2>2, PassIs DEF Booking
  <2>10. UNCHANGED pass
    BY <2>8, <2>9 DEF pass
  <2> QED
    BY <1>4, <2>2, <2>10
<1>15. ASSUME NEW w \in Workers, StatementFails(w) PROVE Ledger!Next \/ UNCHANGED Ledger!vars
  <2>1. PICK rec : rec = work[w]
    OBVIOUS
  <2>2. /\ rec # None /\ rec.at \in {"book", "commit"} /\ rec.key \in FailingKeys
        /\ rec \in Jobs /\ rec.todo \in Readings /\ JobOK(w, rec)
        /\ UNCHANGED <<raw, table, charged>>
    BY <1>15, <2>1, AtWork DEF StatementFails
  <2>3. CASE Set(w, None)
    BY <1>6, <2>1, <2>2, <2>3
  <2>4. CASE w \in Pollers /\ Proceed(w, rec)
    <3>1. pass' = [pass EXCEPT ![w] = Rest(rec.todo, rec.key)]
      BY <1>1, <2>2, <2>4, ProceedForgets DEF JobOK
    <3>2. CASE rec.at = "book" /\ rec.prev = None
      <4>1. pass[w] = Rest(rec.todo, rec.key)
        BY <2>1, <2>2, <3>2, PassIs DEF Booking
      <4>2. UNCHANGED pass
        BY <3>1, <4>1 DEF pass
      <4> QED
        BY <1>4, <2>2, <4>2
    <3>3. CASE ~ (rec.at = "book" /\ rec.prev = None)
      <4>1. pass[w] = rec.todo
        BY <2>1, <2>2, <3>3, PassIs DEF Booking
      <4>2. rec.todo # None /\ rec.key \in DOMAIN rec.todo /\ rec.key \in Keys
        BY <2>2, ReadingsAre, NoneAssumption DEF JobOK
      <4>3. Ledger!DoneWith(w, rec.key)
        BY <3>1, <4>1 DEF Ledger!DoneWith, Rest, Restrict, Ledger!Restrict
      <4>4. Ledger!IngestFails(w, rec.key)
        BY <1>2, <1>3, <2>2, <2>4, <4>1, <4>2, <4>3 DEF table, Ledger!IngestFails
      <4> QED
        BY <1>1, <4>2, <4>4 DEF Ledger!Next, Ledger!Book
    <3> QED
      BY <3>2, <3>3
  <2> QED
    BY <1>15, <2>1, <2>3, <2>4 DEF StatementFails
<1>16. ASSUME NEW w \in Workers, TimeOut(w) PROVE Ledger!Next \/ UNCHANGED Ledger!vars
  BY <1>6, <1>16 DEF TimeOut
<1>17. ASSUME UNCHANGED work PROVE UNCHANGED pass
  BY <1>17 DEF pass, ToBook, Settled
<1>18. ASSUME NEW k \in Keys, CreateRow(k) PROVE Ledger!Next
  <2>1. Ledger!CreateRow(k)
    BY <1>2, <1>3, <1>17, <1>18 DEF CreateRow, Ledger!CreateRow
  <2> QED
    BY <2>1 DEF Ledger!Next
<1>19. ASSUME NEW k \in Keys, DeleteRow(k) PROVE Ledger!Next
  <2>1. Ledger!DeleteRow(k)
    BY <1>2, <1>3, <1>17, <1>19 DEF DeleteRow, Ledger!DeleteRow
  <2> QED
    BY <2>1 DEF Ledger!Next
<1>20. ASSUME NEW k \in Keys, AddPeer(k) PROVE Ledger!Next
  <2>1. \A j \in Keys : (IF raw'[j] = None THEN 0 ELSE raw'[j])
                          = (IF raw[j] = None THEN 0 ELSE raw[j])
    BY <1>1, <1>20 DEF AddPeer, Types
  <2>2. UNCHANGED passed
    BY <2>1 DEF passed
  <2>3. Ledger!AddPeer(k)
    BY <1>3, <1>17, <1>20, <2>2 DEF AddPeer, table, Ledger!AddPeer
  <2> QED
    BY <2>3 DEF Ledger!Next
<1>21. ASSUME NEW k \in Keys, Transfer(k) PROVE Ledger!Next
  <2>1. raw[k] \in 0 .. MaxPassed /\ raw[k] < MaxPassed /\ raw' = [raw EXCEPT ![k] = @ + 1]
    BY <1>1, <1>21 DEF Transfer, Types
  <2>2. raw[k] # None /\ raw[k] + 1 # None
    BY <1>21, <2>1, BoundsAssumption, NoneAssumption DEF Transfer
  <2>3. passed[k] = raw[k]
    BY <2>2 DEF passed
  <2>4. passed' = [passed EXCEPT ![k] = @ + 1]
    <3>1. \A j \in Keys : (IF raw'[j] = None THEN 0 ELSE raw'[j])
                            = IF j = k THEN raw[k] + 1 ELSE IF raw[j] = None THEN 0 ELSE raw[j]
      BY <1>1, <2>1, <2>2 DEF Types
    <3> QED
      BY <2>3, <3>1 DEF passed
  <2>5. Ledger!Transfer(k)
    BY <1>3, <1>17, <1>21, <2>1, <2>2, <2>3, <2>4 DEF Transfer, table, Ledger!Transfer
  <2> QED
    BY <2>5 DEF Ledger!Next
<1>22. CASE UNCHANGED vars
  BY <1>4, <1>17, <1>22 DEF vars
<1> QED
  BY <1>7, <1>8, <1>9, <1>10, <1>11, <1>12, <1>13, <1>14, <1>15, <1>16, <1>18, <1>19, <1>20,
     <1>21, <1>22 DEF Next, Execute, FetchNothing

\* Reports and passes that book the same peers at once, statement by statement, over
\* whatever pool, do what UsageLedger does in one step (routes/internal.js:46-75).
THEOREM ReportsImplementLedger == Spec => ImplementsUsageLedger
<1>1. Init => Ledger!Init
  <2> SUFFICES ASSUME Init PROVE Ledger!Init
    OBVIOUS
  <2>1. pass = [p \in Ledger!Passes |-> None]
    BY DEF Init, pass, ToBook, Ledger!Passes, Workers
  <2>2. passed = [k \in Keys |-> 0]
    BY DEF Init, passed
  <2>3. usedByMonth = [d \in Devices |-> [m \in Ledger!Months |-> 0]]
    BY DEF Init, usedByMonth, Ledger!Months
  <2> QED
    BY <2>1, <2>2, <2>3 DEF Init, Ledger!Init
<1> QED
  BY <1>1, LedgerStep, ReportCorrect, PTL DEF Spec, ImplementsUsageLedger, Ledger!Spec

-----------------------------------------------------------------------------
(* What the ledger's theorems say of reports *)

LedgerProofs == INSTANCE UsageLedgerProofs WITH
    MaxMonths <- 1, month <- 1, PoolRefuses <- TRUE, used <- usedByMonth

\* The constants of this module satisfy what UsageLedger assumes of its own.
LEMMA LedgerAssumptions ==
    /\ LedgerProofs!KeysAssumption /\ LedgerProofs!OwnerAssumption
    /\ LedgerProofs!FailingAssumption /\ LedgerProofs!LedgerBounds
    /\ LedgerProofs!NoneAssumption
<1>1. LedgerProofs!KeysAssumption
  BY KeysAssumption DEF IsFiniteSet, LedgerProofs!KeysAssumption, LedgerProofs!IsFiniteSet
<1>2. /\ LedgerProofs!OwnerAssumption /\ LedgerProofs!FailingAssumption
      /\ LedgerProofs!LedgerBounds /\ LedgerProofs!NoneAssumption
  BY OwnerAssumption, WorkersAssumption, BoundsAssumption, NoneAssumption
  DEF LedgerProofs!OwnerAssumption, LedgerProofs!FailingAssumption,
      LedgerProofs!LedgerBounds, LedgerProofs!NoneAssumption
<1> QED
  BY <1>1, <1>2

\* The two instances of UsageLedger, with and without its proofs, are the same.
LEMMA SameInit == Ledger!Init => LedgerProofs!Init
BY DEF Ledger!Init, LedgerProofs!Init, Ledger!Passes, LedgerProofs!Passes,
       Ledger!Months, LedgerProofs!Months

LEMMA SameNext ==
    [Ledger!Next]_(Ledger!vars) => [LedgerProofs!Next]_(LedgerProofs!vars)
BY DEF Ledger!Next, LedgerProofs!Next, Ledger!Book, LedgerProofs!Book, Ledger!Fetch,
       LedgerProofs!Fetch, Ledger!Abandon, LedgerProofs!Abandon, Ledger!Ingest,
       LedgerProofs!Ingest, Ledger!IngestUnknown, LedgerProofs!IngestUnknown,
       Ledger!IngestFails, LedgerProofs!IngestFails, Ledger!CreateRow,
       LedgerProofs!CreateRow, Ledger!DeleteRow, LedgerProofs!DeleteRow,
       Ledger!AddPeer, LedgerProofs!AddPeer, Ledger!RemovePeer,
       LedgerProofs!RemovePeer, Ledger!Transfer, LedgerProofs!Transfer, Ledger!Reboot,
       LedgerProofs!Reboot, Ledger!MonthEnds, LedgerProofs!MonthEnds, Ledger!DoneWith,
       LedgerProofs!DoneWith, Ledger!AddUsage, LedgerProofs!AddUsage, Ledger!Delta,
       LedgerProofs!Delta, Ledger!Passes, LedgerProofs!Passes, Ledger!Restrict,
       LedgerProofs!Restrict, Ledger!vars, LedgerProofs!vars

LEMMA ReportsAreLedger == Spec => LedgerProofs!Spec
BY ReportsImplementLedger, SameInit, SameNext, PTL
DEF ImplementsUsageLedger, Ledger!Spec, LedgerProofs!Spec

LEMMA SameTotal ==
    ASSUME NEW f, NEW S PROVE LedgerProofs!Total(f, S) = Ledger!Total(f, S)
BY DEF Ledger!Total, LedgerProofs!Total, Ledger!MapThenSumSet, LedgerProofs!MapThenSumSet,
       Ledger!MapThenFoldSet, LedgerProofs!MapThenFoldSet

\* The sum over a single month is that month.
LEMMA TotalOfMonth ==
    ASSUME NEW f, f[1] \in Nat
    PROVE  LedgerProofs!Total(f, 1 .. 1) = f[1]
<1>1. 1 .. 1 = {1} /\ LedgerProofs!IsFiniteSet({1})
  <2>1. IsFiniteSet({1})
    BY FS_Singleton
  <2> QED
    BY <2>1 DEF IsFiniteSet, LedgerProofs!IsFiniteSet
<1>2. /\ LedgerProofs!Total(f, {}) = 0
      /\ LedgerProofs!Chosen({1}) \in {1}
      /\ LedgerProofs!Total(f, {1})
           = f[LedgerProofs!Chosen({1})]
               + LedgerProofs!Total(f, {1} \ {LedgerProofs!Chosen({1})})
  BY <1>1, LedgerAssumptions, LedgerProofs!TotalStep
<1>3. LedgerProofs!Chosen({1}) = 1 /\ {1} \ {1} = {}
  BY <1>2
<1> QED
  BY <1>1, <1>2, <1>3

\* Statement by statement, over any pool, and whatever fails: the counters of the
\* devices are the sum of what was booked for their peers (routes/internal.js:46-75).
THEOREM ReportsBalance == Spec => []CountersBalance
<1>1. LedgerProofs!Spec => []LedgerProofs!LedgerSumsPeers
  BY LedgerAssumptions, LedgerProofs!LedgerBalances
<1>2. TypeOK /\ LedgerProofs!LedgerSumsPeers => CountersBalance
  <2> SUFFICES ASSUME TypeOK, LedgerProofs!LedgerSumsPeers, NEW d \in Devices
               PROVE  used[d] = Ledger!Total(charged, {k \in Keys : Owner[k] = d})
    BY DEF CountersBalance
  <2>1. usedByMonth[d][1] = used[d] /\ used[d] \in Nat
    BY DEF usedByMonth, TypeOK
  <2>2. LedgerProofs!Total(usedByMonth[d], 1 .. 1)
          = LedgerProofs!Total(charged, {k \in Keys : Owner[k] = d})
    BY DEF LedgerProofs!LedgerSumsPeers, LedgerProofs!Months
  <2>3. LedgerProofs!Total(usedByMonth[d], 1 .. 1) = used[d]
    BY <2>1, TotalOfMonth
  <2> QED
    BY <2>2, <2>3, SameTotal
<1> QED
  BY <1>1, <1>2, TypeCorrect, ReportsAreLedger, PTL

\* Booking a reading loses no byte, in the transactions of reports and passes too
\* (services/usagePoller.js:15, routes/internal.js:50).
THEOREM ReportsLoseNothing == Spec => Ledger!BookingLosesNothing
<1>1. LedgerProofs!Spec => LedgerProofs!BookingLosesNothing
  BY LedgerAssumptions, LedgerProofs!BookingSafe
<1>2. LedgerProofs!BookingLosesNothing => Ledger!BookingLosesNothing
  <2>1. [\A p \in LedgerProofs!Passes, k \in Keys : LedgerProofs!Ingest(p, k)
            => LedgerProofs!Unaccounted(k)' <= LedgerProofs!Unaccounted(k)]_(LedgerProofs!vars)
        => [\A p \in Ledger!Passes, k \in Keys : Ledger!Ingest(p, k)
            => Ledger!Unaccounted(k)' <= Ledger!Unaccounted(k)]_(Ledger!vars)
    BY DEF Ledger!Passes, LedgerProofs!Passes, Ledger!Ingest, LedgerProofs!Ingest,
           Ledger!Unaccounted, LedgerProofs!Unaccounted, Ledger!Pending,
           LedgerProofs!Pending, Ledger!Delta, LedgerProofs!Delta, Ledger!AddUsage,
           LedgerProofs!AddUsage, Ledger!DoneWith, LedgerProofs!DoneWith,
           Ledger!Restrict, LedgerProofs!Restrict, Ledger!vars, LedgerProofs!vars
  <2> QED
    BY <2>1, PTL DEF Ledger!BookingLosesNothing, LedgerProofs!BookingLosesNothing
<1> QED
  BY <1>1, <1>2, ReportsAreLedger, PTL
=============================================================================
