------------------------------ MODULE Startup ------------------------------
(***************************************************************************)
(* The start of the control plane (server.js) and its forward-only         *)
(* migrations (db/migrate.js): instances of one deployed image after       *)
(* another, which may start together, die anywhere and be started again,   *)
(* over the _migrations table of one database.                             *)
(*                                                                         *)
(* A migration file is its number; an image has the files 1 .. top, some   *)
(* of which may have SQL that fails.  What a file does is the one fact     *)
(* that it took effect.  API_KEYS is set: without, start() exits at once.  *)
(***************************************************************************)
EXTENDS Integers

CONSTANTS
    Instances,     \* processes of the service, with the image then deployed
    Tops,          \* how many files an image may have
    Flawed,        \* files whose SQL fails in some images
    MaxDeploys,    \* bound on the images deployed after the first
    MaxFailures    \* bound on the deaths, lost connections and lost answers

ASSUME TopsAssumption == Tops \subseteq Nat /\ Tops # {}
ASSUME BoundsAssumption == MaxDeploys \in Nat /\ MaxFailures \in Nat

Files == UNION {1 .. t : t \in Tops}

VARIABLES
    image,         \* the deployed image, [top, bad]
    table,         \* CREATE TABLE _migrations is committed
    recorded,      \* the filenames committed in _migrations
    effects,       \* effects[f]: how often the SQL of f was committed
    at,            \* at[i]: the statement i is about to run, "down" or "serving"
    own,           \* own[i]: the image i was started from
    todo,          \* todo[i]: its pending files
    deploys, failures

database == <<table, recorded, effects>>
vars == <<image, database, at, own, todo, deploys, failures>>

-----------------------------------------------------------------------------
(* An instance *)

Goto(i, stage) == at' = [at EXCEPT ![i] = stage]

\* The loop over `pending', in filename order.
Current(i) == CHOOSE f \in todo[i] : \A g \in todo[i] : f <= g

\* Faulty variant: start() does not wait for the loop.
ContinueAlone(i, left) ==
    /\ todo' = [todo EXCEPT ![i] = left]
    /\ Goto(i, "serving")

\* Faulty variant: a loop that tests for the end after a file, not before.
ContinuePastEnd(i, left) ==
    /\ todo' = [todo EXCEPT ![i] = left]
    /\ Goto(i, IF at[i] = "commit" /\ left = {} THEN "serving" ELSE "sql")

\* One more file is done; after the last the timers start and it listens.
Continue(i, left) ==
    /\ todo' = [todo EXCEPT ![i] = left]
    /\ Goto(i, IF left = {} THEN "serving" ELSE "sql")

\* ROLLBACK; the error reaches start(), which exits the process.
Exit(i) ==
    /\ Goto(i, "down")
    /\ todo' = [todo EXCEPT ![i] = {}]
    /\ UNCHANGED <<image, database, own, deploys, failures>>

\* The platform starts a process that is down from what is deployed.
Launch(i) ==
    /\ at[i] = "down"
    /\ Goto(i, "create")
    /\ own' = [own EXCEPT ![i] = image]
    /\ UNCHANGED <<image, database, todo, deploys, failures>>

\* Faulty variant: CREATE TABLE without IF NOT EXISTS.
CreateTableOnce(i) ==
    /\ at[i] = "create"
    /\ IF table THEN Exit(i)
       ELSE /\ table' = TRUE
            /\ Goto(i, "list")
            /\ UNCHANGED <<image, recorded, effects, own, todo, deploys, failures>>

\* IF NOT EXISTS is no lock: those about to create the table with i may fail.
CreateTable(i) ==
    /\ at[i] = "create"
    /\ table' = TRUE
    /\ \E losers \in SUBSET {j \in Instances \ {i} : ~ table /\ at[j] = "create"} :
          at' = [j \in Instances |-> IF j = i THEN "list"
                                     ELSE IF j \in losers THEN "down" ELSE at[j]]
    /\ UNCHANGED <<image, recorded, effects, own, todo, deploys, failures>>

\* SELECT filename; what the image has and the table has not is pending.
ListPending(i) ==
    /\ at[i] = "list"
    /\ Continue(i, (1 .. own[i].top) \ recorded)
    /\ UNCHANGED <<image, database, own, deploys, failures>>

\* Faulty variant: no BEGIN, so that the file takes effect by itself.
RunSqlAutocommit(i) ==
    /\ at[i] = "sql"
    /\ IF Current(i) \in own[i].bad THEN Exit(i)
       ELSE /\ Goto(i, "record")
            /\ effects' = [effects EXCEPT ![Current(i)] = 1]
            /\ UNCHANGED <<image, table, recorded, own, todo, deploys, failures>>

\* Faulty variant: the loop has no throw.
RunSqlOrSkip(i) ==
    /\ at[i] = "sql"
    /\ IF Current(i) \in own[i].bad THEN Continue(i, todo[i] \ {Current(i)})
       ELSE Goto(i, "record") /\ UNCHANGED todo
    /\ UNCHANGED <<image, database, own, deploys, failures>>

\* BEGIN and the file.  Run twice at once, some files wait for the other's
\* transaction and some fail: either comes to the same as failing to record.
RunSql(i) ==
    /\ at[i] = "sql"
    /\ IF Current(i) \in own[i].bad THEN Exit(i)
       ELSE /\ Goto(i, "record")
            /\ UNCHANGED <<image, database, own, todo, deploys, failures>>

\* An uncommitted record of the same file: the primary key makes others wait.
RivalRecord(i) ==
    \E j \in Instances \ {i} : at[j] = "commit" /\ Current(j) = Current(i)

\* INSERT INTO _migrations: the loser of a race fails on the primary key.
Record(i) ==
    /\ at[i] = "record" /\ ~ RivalRecord(i)
    /\ IF Current(i) \in recorded THEN Exit(i)
       ELSE /\ Goto(i, "commit")
            /\ UNCHANGED <<image, database, own, todo, deploys, failures>>

\* The file and its record are committed together.  If the answer is lost the
\* process exits all the same.
Commit(i) ==
    LET f == Current(i)
    IN  /\ at[i] = "commit"
        /\ recorded' = recorded \cup {f}
        /\ effects' = [effects EXCEPT ![f] = @ + 1]
        /\ \/ Continue(i, todo[i] \ {f}) /\ UNCHANGED failures
           \/ /\ failures < MaxFailures /\ failures' = failures + 1
              /\ Goto(i, "down") /\ todo' = [todo EXCEPT ![i] = {}]
        /\ UNCHANGED <<image, table, own, deploys>>

\* The process is killed or its connection breaks: Postgres rolls back.
Die(i) ==
    /\ at[i] # "down"
    /\ failures < MaxFailures /\ failures' = failures + 1
    /\ Goto(i, "down")
    /\ todo' = [todo EXCEPT ![i] = {}]
    /\ UNCHANGED <<image, database, own, deploys>>

\* An instance that runs: what it does is the subject of the other modules.
Serve(i) == at[i] = "serving" /\ UNCHANGED vars

\* A push to main, also of an older state or of a file that is now correct;
\* running instances keep theirs.
Deploy(top, bad) ==
    /\ deploys < MaxDeploys /\ deploys' = deploys + 1
    /\ image' = [top |-> top, bad |-> bad]
    /\ UNCHANGED <<database, at, own, todo, failures>>

-----------------------------------------------------------------------------
Init ==
    /\ image \in [top : Tops, bad : SUBSET Flawed]
    /\ table = FALSE
    /\ recorded = {}
    /\ effects = [f \in Files |-> 0]
    /\ at = [i \in Instances |-> "down"]
    /\ own = [i \in Instances |-> image]
    /\ todo = [i \in Instances |-> {}]
    /\ deploys = 0
    /\ failures = 0

Start(i) ==
    \/ Launch(i) \/ CreateTable(i) \/ ListPending(i)
    \/ RunSql(i) \/ Record(i) \/ Commit(i)

Next ==
    \/ \E i \in Instances : Start(i) \/ Serve(i) \/ Die(i)
    \/ \E top \in Tops, bad \in SUBSET Flawed : Deploy(top, bad)

Spec == Init /\ [][Next]_vars

\* Postgres answers, and the platform starts again what has exited.
FairSpec == Spec /\ \A i \in Instances : WF_vars(Start(i))

-----------------------------------------------------------------------------
TypeOK ==
    /\ image \in [top : Tops, bad : SUBSET Flawed]
    /\ table \in BOOLEAN
    /\ recorded \subseteq Files
    /\ effects \in [Files -> Nat]
    /\ at \in [Instances ->
                 {"down", "create", "list", "sql", "record", "commit", "serving"}]
    /\ own \in [Instances -> [top : Tops, bad : SUBSET Flawed]]
    /\ todo \in [Instances -> SUBSET Files]
    /\ \A i \in Instances : at[i] \in {"sql", "record", "commit"} => todo[i] # {}
    /\ deploys \in 0 .. MaxDeploys /\ failures \in 0 .. MaxFailures

\* "Each file ... is applied once ... Applied filenames are recorded"
\* (db/migrate.js:12-13): instances that start together or die between two
\* statements apply no file twice, and record what took effect and nothing else.
AppliedOnceAndRecorded ==
    \A f \in Files : effects[f] = IF f \in recorded THEN 1 ELSE 0

\* "in filename order", "a failure ... stops the run (leaving earlier files
\* applied)" (db/migrate.js:12-15): no file is applied before one that precedes
\* it, whichever images and instances applied them.
InFilenameOrder == \A f \in recorded : 1 .. f \subseteq recorded

\* "Boots and migrates on deploy" (docs/BACKEND.md:23): requests, the reaper and
\* the poller only run in an instance whose files are all applied.
ServesOnItsSchema ==
    \A i \in Instances : at[i] = "serving" => 1 .. own[i].top \subseteq recorded

\* A start that lost a race or was killed is not the end: unless a file that
\* fails is deployed and was not applied before, every instance gets to serve.
ComesUp ==
    \A i \in Instances :
        []<>(at[i] = "serving" \/ ((1 .. image.top) \cap image.bad) \ recorded # {})
=============================================================================
