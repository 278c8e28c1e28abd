---------------------------- MODULE StartupProofs ----------------------------
(***************************************************************************)
(* Proofs about Startup, for any set of instances, images of any size and  *)
(* with any faulty files, any number of deploys, deaths and lost answers.  *)
(***************************************************************************)
EXTENDS Startup, WellFoundedInduction, TLAPS

\* A set of pending files that is not empty has a first one.
LEMMA FirstFile ==
    ASSUME NEW S, S \subseteq Nat, S # {}
    PROVE  \E f \in S : \A g \in S : f <= g
<1>1. \E f \in S : \A g \in S : ~ (<<g, f>> \in OpToRel(<, Nat))
  BY NatLessThanWellFounded, WFMin
<1>2. PICK f \in S : \A g \in S : ~ (<<g, f>> \in OpToRel(<, Nat))
  BY <1>1
<1>3. \A g \in S : ~ (g < f)
  BY <1>2 DEF OpToRel
<1> QED
  BY <1>3

\* The file an instance is about to apply is the first of its pending ones.
LEMMA CurrentIsFirst ==
    ASSUME NEW i \in Instances, todo[i] \subseteq Nat, todo[i] # {}
    PROVE  /\ Current(i) \in todo[i]
           /\ \A g \in todo[i] : Current(i) <= g
<1>1. \E f \in todo[i] : \A g \in todo[i] : f <= g
  BY FirstFile
<1> QED
  BY <1>1 DEF Current

LEMMA CurrentUnchanged ==
    ASSUME NEW i \in Instances, todo'[i] = todo[i]
    PROVE  Current(i)' = Current(i)
BY DEF Current

LEMMA FilesAreNumbers ==
    Files \subseteq Nat /\ \A t \in Tops : t \in Nat /\ 1 .. t \subseteq Files
BY TopsAssumption DEF Files

-----------------------------------------------------------------------------
(* Type correctness *)

\* Every step keeps the types.
LEMMA TypeStep == TypeOK /\ [Next]_vars => TypeOK'
<1> SUFFICES ASSUME TypeOK, [Next]_vars PROVE TypeOK'
  OBVIOUS
<1> USE DEF TypeOK
<1>1. ASSUME NEW i \in Instances, Launch(i) PROVE TypeOK'
  BY <1>1 DEF Launch, Goto, database
<1>2. ASSUME NEW i \in Instances, CreateTable(i) PROVE TypeOK'
  BY <1>2 DEF CreateTable
<1>3. ASSUME NEW i \in Instances, ListPending(i) PROVE TypeOK'
  <2>1. (1 .. own[i].top) \ recorded \in SUBSET Files
    BY FilesAreNumbers
  <2> QED
    BY <1>3, <2>1 DEF ListPending, Continue, Goto, database
<1>4. ASSUME NEW i \in Instances, RunSql(i) PROVE TypeOK'
  BY <1>4 DEF RunSql, Exit, Goto, database
<1>5. ASSUME NEW i \in Instances, Record(i) PROVE TypeOK'
  BY <1>5 DEF Record, Exit, Goto, database
<1>6. ASSUME NEW i \in Instances, Commit(i) PROVE TypeOK'
  <2>1. Current(i) \in Files
    BY <1>6, CurrentIsFirst, FilesAreNumbers DEF Commit
  <2>2. recorded' \subseteq Files /\ effects' \in [Files -> Nat]
    BY <1>6, <2>1 DEF Commit
  <2>3. CASE Continue(i, todo[i] \ {Current(i)}) /\ UNCHANGED failures
    BY <1>6, <2>2, <2>3 DEF Commit, Continue, Goto
  <2>4. CASE /\ failures < MaxFailures /\ failures' = failures + 1
             /\ Goto(i, "down") /\ todo' = [todo EXCEPT ![i] = {}]
    BY <1>6, <2>2, <2>4, BoundsAssumption DEF Commit, Goto
  <2> QED
    BY <1>6, <2>3, <2>4 DEF Commit
<1>7. ASSUME NEW i \in Instances, Die(i) PROVE TypeOK'
  BY <1>7, BoundsAssumption DEF Die, Goto, database
<1>8. ASSUME NEW top \in Tops, NEW bad \in SUBSET Flawed, Deploy(top, bad) PROVE TypeOK'
  BY <1>8, BoundsAssumption DEF Deploy, database
<1>9. CASE UNCHANGED vars
  BY <1>9 DEF vars, database
<1> QED
  BY <1>1, <1>2, <1>3, <1>4, <1>5, <1>6, <1>7, <1>8, <1>9 DEF Next, Start, Serve

LEMMA TypeInit == Init => TypeOK
<1> SUFFICES ASSUME Init PROVE TypeOK
  OBVIOUS
<1>1. effects \in [Files -> Nat] /\ todo \in [Instances -> SUBSET Files]
  BY DEF Init
<1>2. own \in [Instances -> [top : Tops, bad : SUBSET Flawed]]
  BY DEF Init
<1>3. \A i \in Instances : at[i] = "down"
  BY DEF Init
<1>4. deploys \in 0 .. MaxDeploys /\ failures \in 0 .. MaxFailures
  BY BoundsAssumption DEF Init
<1> QED
  BY <1>1, <1>2, <1>3, <1>4 DEF Init, TypeOK

\* The type invariant, for any instances, images and bounds.
THEOREM TypeCorrect == Spec => []TypeOK
BY TypeInit, TypeStep, PTL DEF Spec

-----------------------------------------------------------------------------
(* Migrations *)

InLoop(i) == at[i] \in {"sql", "record", "commit"}

\* What an instance in the loop over `pending' has not to do is done, and what
\* it is about to commit is not.
PendingInv ==
    \A i \in Instances :
        /\ InLoop(i) => /\ todo[i] \subseteq 1 .. own[i].top
                        /\ (1 .. own[i].top) \ todo[i] \subseteq recorded
        /\ at[i] = "commit" => Current(i) \notin recorded

\* Of two transactions that have recorded a file, one waits for the other.
OneCommitPerFile ==
    \A i, j \in Instances :
        i # j /\ at[i] = "commit" /\ at[j] = "commit" => Current(i) # Current(j)

MigrationInv ==
    /\ TypeOK
    /\ AppliedOnceAndRecorded /\ InFilenameOrder /\ ServesOnItsSchema
    /\ PendingInv /\ OneCommitPerFile

LEMMA MigrationInit == Init => MigrationInv
<1> SUFFICES ASSUME Init PROVE MigrationInv
  OBVIOUS
<1>1. \A i \in Instances : at[i] = "down"
  BY DEF Init
<1>2. PendingInv /\ OneCommitPerFile /\ ServesOnItsSchema
  BY <1>1 DEF PendingInv, InLoop, OneCommitPerFile, ServesOnItsSchema
<1>3. AppliedOnceAndRecorded /\ InFilenameOrder
  BY DEF Init, AppliedOnceAndRecorded, InFilenameOrder
<1> QED
  BY <1>2, <1>3, TypeInit DEF MigrationInv

\* A step after which each instance goes on from where it was, has left the loop
\* or is short of it, and nothing is committed, keeps the invariant.
LEMMA QuietStep ==
    ASSUME MigrationInv, TypeOK',
           recorded' = recorded, effects' = effects,
           \A i \in Instances :
               \/ at'[i] = at[i] /\ todo'[i] = todo[i] /\ own'[i] = own[i]
               \/ at'[i] \in {"down", "create", "list"}
    PROVE  MigrationInv'
<1>1. AppliedOnceAndRecorded' /\ InFilenameOrder'
  BY DEF MigrationInv, AppliedOnceAndRecorded, InFilenameOrder
<1>2. ServesOnItsSchema'
  BY DEF MigrationInv, ServesOnItsSchema
<1>3. ASSUME NEW i \in Instances, InLoop(i)'
      PROVE  /\ at'[i] = at[i] /\ todo'[i] = todo[i] /\ own'[i] = own[i]
             /\ Current(i)' = Current(i)
  BY <1>3, CurrentUnchanged DEF InLoop
<1>4. PendingInv'
  BY <1>3 DEF MigrationInv, PendingInv, InLoop
<1>5. OneCommitPerFile'
  BY <1>3 DEF MigrationInv, OneCommitPerFile, InLoop
<1> QED
  BY <1>1, <1>2, <1>4, <1>5 DEF MigrationInv

\* So does one statement of the loop that commits nothing, unless it brings the
\* instance to its commit.
LEMMA LoopStep ==
    ASSUME MigrationInv, TypeOK', NEW i \in Instances,
           recorded' = recorded, effects' = effects, own' = own,
           at' = [at EXCEPT ![i] = at'[i]],
           todo' = [todo EXCEPT ![i] = todo'[i]],
           at'[i] \in {"sql", "record", "commit", "serving"},
           InLoop(i)' => /\ todo'[i] \subseteq 1 .. own[i].top
                         /\ (1 .. own[i].top) \ todo'[i] \subseteq recorded,
           at'[i] = "serving" => 1 .. own[i].top \subseteq recorded,
           at'[i] = "commit" => Current(i)' \notin recorded,
           at'[i] = "commit" =>
               \A j \in Instances \ {i} : at[j] = "commit" => Current(j) # Current(i)'
    PROVE  MigrationInv'
<1> USE DEF MigrationInv
<1>1. AppliedOnceAndRecorded' /\ InFilenameOrder'
  BY DEF AppliedOnceAndRecorded, InFilenameOrder
<1>2. ASSUME NEW j \in Instances \ {i}
      PROVE  at'[j] = at[j] /\ todo'[j] = todo[j] /\ Current(j)' = Current(j)
  <2>1. at'[j] = at[j] /\ todo'[j] = todo[j]
    BY DEF TypeOK
  <2> QED
    BY <2>1, CurrentUnchanged
<1>3. ServesOnItsSchema'
  BY <1>2 DEF ServesOnItsSchema
<1>4. PendingInv'
  BY <1>2 DEF PendingInv, InLoop
<1>5. OneCommitPerFile'
  BY <1>2 DEF OneCommitPerFile
<1> QED
  BY <1>1, <1>3, <1>4, <1>5

\* The commit of a file: the ones before it are committed, and no other instance
\* is about to commit the same.
LEMMA CommitStep ==
    ASSUME MigrationInv, TypeOK', NEW i \in Instances, Commit(i)
    PROVE  MigrationInv'
<1> DEFINE f == Current(i)
<1> USE DEF MigrationInv
<1>1. /\ todo[i] \subseteq 1 .. own[i].top /\ own[i].top \in Nat
      /\ (1 .. own[i].top) \ todo[i] \subseteq recorded
      /\ f \notin recorded
  BY FilesAreNumbers DEF Commit, PendingInv, InLoop, TypeOK
<1>2. f \in todo[i] /\ (\A g \in todo[i] : f <= g) /\ f \in Files
  BY CurrentIsFirst, FilesAreNumbers DEF Commit, TypeOK
<1> HIDE DEF f
<1>3. /\ recorded' = recorded \cup {f} /\ own' = own
      /\ effects' = [effects EXCEPT ![f] = @ + 1]
      /\ \/ at'[i] = "down"
         \/ /\ todo'[i] = todo[i] \ {f}
            /\ at'[i] = IF todo[i] \ {f} = {} THEN "serving" ELSE "sql"
      /\ \A j \in Instances \ {i} : at'[j] = at[j] /\ todo'[j] = todo[j]
  BY DEF Commit, Continue, Goto, TypeOK, f
<1>4. AppliedOnceAndRecorded'
  BY <1>1, <1>2, <1>3 DEF AppliedOnceAndRecorded, TypeOK
<1>5. InFilenameOrder'
  <2>1. 1 .. f \subseteq recorded \cup {f}
    BY <1>1, <1>2
  <2> QED
    BY <1>3, <2>1 DEF InFilenameOrder
<1>6. ASSUME NEW j \in Instances \ {i}
      PROVE  Current(j)' = Current(j) /\ (at[j] = "commit" => Current(j) # f)
  BY <1>3, CurrentUnchanged DEF OneCommitPerFile, Commit, f
<1>7. ServesOnItsSchema'
  <2>1. at'[i] = "serving" => 1 .. own[i].top \subseteq recorded'
    BY <1>1, <1>3
  <2> QED
    BY <1>3, <2>1 DEF ServesOnItsSchema
<1>8. PendingInv'
  <2>1. ASSUME NEW j \in Instances \ {i}
        PROVE  /\ InLoop(j)' => /\ todo'[j] \subseteq 1 .. own'[j].top
                                /\ (1 .. own'[j].top) \ todo'[j] \subseteq recorded'
               /\ at'[j] = "commit" => Current(j)' \notin recorded'
    BY <1>3, <1>6 DEF PendingInv, InLoop
  <2>2. /\ InLoop(i)' => /\ todo'[i] \subseteq 1 .. own'[i].top
                         /\ (1 .. own'[i].top) \ todo'[i] \subseteq recorded'
        /\ at'[i] # "commit"
    BY <1>1, <1>3 DEF InLoop
  <2> QED
    BY <2>1, <2>2 DEF PendingInv
<1>9. OneCommitPerFile'
  BY <1>3, <1>6 DEF OneCommitPerFile
<1> QED
  BY <1>4, <1>5, <1>7, <1>8, <1>9

LEMMA MigrationStep == MigrationInv /\ [Next]_vars => MigrationInv'
<1> SUFFICES ASSUME MigrationInv, [Next]_vars PROVE MigrationInv'
  OBVIOUS
<1>1. TypeOK /\ TypeOK'
  BY TypeStep DEF MigrationInv
<1>2. ASSUME NEW i \in Instances, Launch(i) PROVE MigrationInv'
  BY <1>1, <1>2, QuietStep DEF Launch, Goto, database, TypeOK
<1>3. ASSUME NEW i \in Instances, CreateTable(i) PROVE MigrationInv'
  BY <1>1, <1>3, QuietStep DEF CreateTable, TypeOK
<1>4. ASSUME NEW i \in Instances, ListPending(i) PROVE MigrationInv'
  <2>1. /\ recorded' = recorded /\ effects' = effects /\ own' = own
        /\ todo'[i] = (1 .. own[i].top) \ recorded
        /\ at'[i] = IF todo'[i] = {} THEN "serving" ELSE "sql"
        /\ at' = [at EXCEPT ![i] = at'[i]] /\ todo' = [todo EXCEPT ![i] = todo'[i]]
    BY <1>1, <1>4 DEF ListPending, Continue, Goto, database, TypeOK
  <2> QED
    BY <1>1, <2>1, LoopStep
<1>5. ASSUME NEW i \in Instances, RunSql(i) PROVE MigrationInv'
  <2>1. CASE Exit(i)
    BY <1>1, <2>1, QuietStep DEF Exit, Goto, database, TypeOK
  <2>2. CASE Goto(i, "record") /\ UNCHANGED <<database, own, todo>>
    <3>1. /\ at' = [at EXCEPT ![i] = at'[i]] /\ todo' = [todo EXCEPT ![i] = todo'[i]]
          /\ at'[i] = "record" /\ todo'[i] = todo[i]
      BY <1>1, <2>2 DEF Goto, TypeOK
    <3> QED
      BY <1>1, <1>5, <2>2, <3>1, LoopStep
         DEF RunSql, database, MigrationInv, PendingInv, InLoop
  <2> QED
    BY <1>5, <2>1, <2>2 DEF RunSql, database
<1>6. ASSUME NEW i \in Instances, Record(i) PROVE MigrationInv'
  <2>1. CASE Exit(i)
    BY <1>1, <2>1, QuietStep DEF Exit, Goto, database, TypeOK
  <2>2. CASE /\ Current(i) \notin recorded
             /\ Goto(i, "commit") /\ UNCHANGED <<database, own, todo>>
    <3>1. /\ at' = [at EXCEPT ![i] = at'[i]] /\ todo' = [todo EXCEPT ![i] = todo'[i]]
          /\ at'[i] = "commit" /\ todo'[i] = todo[i]
      BY <1>1, <2>2 DEF Goto, TypeOK
    <3>2. Current(i)' = Current(i)
      BY <3>1, CurrentUnchanged
    <3>3. \A j \in Instances \ {i} : at[j] = "commit" => Current(j) # Current(i)
      BY <1>6 DEF Record, RivalRecord
    <3>4. /\ todo[i] \subseteq 1 .. own[i].top
          /\ (1 .. own[i].top) \ todo[i] \subseteq recorded
      BY <1>6 DEF Record, MigrationInv, PendingInv, InLoop
    <3> QED
      BY <1>1, <2>2, <3>1, <3>2, <3>3, <3>4, LoopStep DEF database
  <2> QED
    BY <1>6, <2>1, <2>2 DEF Record, database
<1>7. ASSUME NEW i \in Instances, Commit(i) PROVE MigrationInv'
  BY <1>1, <1>7, CommitStep
<1>8. ASSUME NEW i \in Instances, Die(i) PROVE MigrationInv'
  BY <1>1, <1>8, QuietStep DEF Die, Goto, database, TypeOK
<1>9. ASSUME NEW top \in Tops, NEW bad \in SUBSET Flawed, Deploy(top, bad)
      PROVE  MigrationInv'
  BY <1>1, <1>9, QuietStep DEF Deploy, database
<1>10. CASE UNCHANGED vars
  BY <1>1, <1>10, QuietStep DEF vars, database
<1> QED
  BY <1>2, <1>3, <1>4, <1>5, <1>6, <1>7, <1>8, <1>9, <1>10 DEF Next, Start, Serve

LEMMA MigrationCorrect == Spec => []MigrationInv
BY MigrationInit, MigrationStep, PTL DEF Spec

\* No file takes effect twice, or without a record, whatever starts together or
\* dies (db/migrate.js:44-58).
THEOREM AppliedOnce == Spec => []AppliedOnceAndRecorded
<1>1. MigrationInv => AppliedOnceAndRecorded
  BY DEF MigrationInv
<1> QED
  BY <1>1, MigrationCorrect, PTL

\* No file is applied before those that precede it (db/migrate.js:35, 56).
THEOREM AppliedInOrder == Spec => []InFilenameOrder
<1>1. MigrationInv => InFilenameOrder
  BY DEF MigrationInv
<1> QED
  BY <1>1, MigrationCorrect, PTL

\* What serves has its schema (server.js:65).
THEOREM ServingMigrated == Spec => []ServesOnItsSchema
<1>1. MigrationInv => ServesOnItsSchema
  BY DEF MigrationInv
<1> QED
  BY <1>1, MigrationCorrect, PTL
=============================================================================
