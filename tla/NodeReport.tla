----------------------------- MODULE NodeReport -----------------------------
(***************************************************************************)
(* The booking of readings statement by statement: reports that nodes push *)
(* (routes/internal.js) and passes of the poller (services/usagePoller.js) *)
(* over the connection pool (db/pool.js) and the row locks of Postgres.    *)
(*                                                                         *)
(* A report keeps one connection to its end and, peer after peer, commits  *)
(* a booking and asks the pool for another connection to look the device's *)
(* quota up.  The poller takes a connection for each peer.  What a booking *)
(* does is UsageLedger's; a counter does not restart here.                 *)
(***************************************************************************)
EXTENDS Integers, FiniteSets, Functions

CONSTANTS
    Keys, Devices, Owner, Servers, Server,    \* as in UsageLedger
    Pollers, Reporters, FailingKeys,
    MaxPassed, MaxRows, None,
    Returning,   \* keys that get a row again when theirs is deleted
    PoolSizes,   \* what PG_POOL_MAX may be
    Limit        \* monthly cap of the plan, in bytes

ASSUME KeysAssumption == IsFiniteSet(Keys)
ASSUME OwnerAssumption == Owner \in [Keys -> Devices] /\ Server \in [Keys -> Servers]
ASSUME WorkersAssumption == Pollers \cap Reporters = {} /\ FailingKeys \subseteq Keys
ASSUME ReturningAssumption == Returning \subseteq Keys
ASSUME BoundsAssumption == MaxPassed \in Nat /\ MaxRows \in Nat
ASSUME PoolAssumption == PoolSizes \subseteq Nat \ {0} /\ Limit \in Nat

Workers == Pollers \cup Reporters

\* Readings of peers, and what a worker that has some still to book is at.
Readings == UNION {[peers -> 0 .. MaxPassed] : peers \in SUBSET Keys}

Jobs == [at : {"connect", "select", "book", "commit", "device", "quota"},
         todo : Readings, key : Keys \cup {None}, prev : 0 .. MaxPassed \cup {None},
         crossed : SUBSET Keys, remove : SUBSET Keys]

ASSUME NoneAssumption == None \notin Int \cup Keys \cup Workers \cup Readings \cup Jobs

VARIABLES
    poolMax,    \* the connections the pool may have, never changed
    raw,        \* raw[k]: the node's transfer counter of k, None if it is no peer
    sample,     \* sample[k]: last_sample of the peers row of k, None without a row
    used,       \* used[d]: used_bytes of d, committed
    created,    \* created[k]: peers rows created for k so far
    rowLock,    \* rowLock[k]: the worker that has the peers row of k locked
    sumLock,    \* sumLock[d]: the one with an uncommitted change of d's counter
    work,       \* work[w]: the pass or report w executes, or None
    charged     \* history, charged[k]: bytes booked on account of k

table == <<sample, used, created>>
locks == <<rowLock, sumLock>>
vars == <<poolMax, raw, table, locks, work, charged>>

-----------------------------------------------------------------------------
(* The pool and the locks *)

At(w, stage) == work[w] # None /\ work[w].at = stage

Holders == {w \in Workers : work[w] # None /\ work[w].at # "connect"}

Free == poolMax - Cardinality(Holders)

Set(w, rec) == work' = [work EXCEPT ![w] = rec]

\* Faulty variant: a report is one transaction.
UnlockAtEnd(w) ==
    IF w \in Reporters /\ DOMAIN work[w].todo # {work[w].key} THEN UNCHANGED locks
    ELSE /\ rowLock' = [k \in Keys |-> IF rowLock[k] = w THEN None ELSE rowLock[k]]
         /\ sumLock' = [d \in Devices |-> IF sumLock[d] = w THEN None ELSE sumLock[d]]

\* COMMIT or ROLLBACK.
Unlock(w) ==
    /\ rowLock' = [k \in Keys |-> IF rowLock[k] = w THEN None ELSE rowLock[k]]
    /\ sumLock' = [d \in Devices |-> IF sumLock[d] = w THEN None ELSE sumLock[d]]

\* The current peer is done with: the poller gives its connection back, a report
\* keeps it; the last peer ends either.
Proceed(w, rec) ==
    Set(w, IF DOMAIN rec.todo = {rec.key} THEN None
           ELSE [rec EXCEPT !.todo = Restrict(@, DOMAIN @ \ {rec.key}), !.key = None,
                            !.prev = None,
                            !.at = IF w \in Pollers THEN "connect" ELSE "select"])

-----------------------------------------------------------------------------
(* A report or a pass *)

\* GET /metrics, or the body of a report: one reading of every peer's counter.
Fetch(w, s) ==
    LET peers == {k \in Keys : Server[k] = s /\ raw[k] # None}
    IN  /\ work[w] = None
        /\ peers # {}
        /\ Set(w, [at |-> "connect", todo |-> Restrict(raw, peers), key |-> None,
                   prev |-> None, crossed |-> {}, remove |-> {}])
        /\ UNCHANGED <<poolMax, raw, table, locks, charged>>

\* The node has no peers, or a report has none: there is nothing to book.
FetchNothing(w, s) ==
    /\ work[w] = None
    /\ \A k \in Keys : Server[k] = s => raw[k] = None
    /\ UNCHANGED vars

\* Faulty variant: more connections than the pool has.
ConnectAtOnce(w) ==
    /\ At(w, "connect")
    /\ Set(w, [work[w] EXCEPT !.at = "select"])
    /\ UNCHANGED <<poolMax, raw, table, locks, charged>>

\* pool.connect(), when a connection is to be had.
Connect(w) ==
    /\ At(w, "connect") /\ Free > 0
    /\ Set(w, [work[w] EXCEPT !.at = "select"])
    /\ UNCHANGED <<poolMax, raw, table, locks, charged>>

\* Faulty variant: no FOR UPDATE.
SelectUnlocked(w) ==
    /\ At(w, "select")
    /\ \E k \in DOMAIN work[w].todo :
          /\ Set(w, [work[w] EXCEPT !.at = "book", !.key = k, !.prev = sample[k]])
          /\ UNCHANGED locks
    /\ UNCHANGED <<poolMax, raw, table, charged>>

\* BEGIN, SELECT ... FOR UPDATE: waits for whoever has the row.
Select(w) ==
    /\ At(w, "select")
    /\ \E k \in DOMAIN work[w].todo :
          /\ rowLock[k] \in {None, w}
          /\ Set(w, [work[w] EXCEPT !.at = "book", !.key = k, !.prev = sample[k]])
          /\ rowLock' = IF sample[k] = None THEN rowLock ELSE [rowLock EXCEPT ![k] = w]
    /\ UNCHANGED <<poolMax, raw, table, sumLock, charged>>

\* No row: ROLLBACK, next peer.
SkipUnknown(w) ==
    /\ At(w, "book") /\ work[w].prev = None
    /\ Proceed(w, work[w])
    /\ Unlock(w)
    /\ UNCHANGED <<poolMax, raw, table, charged>>

Delta(w) ==
    LET now == work[w].todo[work[w].key]
    IN  IF now >= work[w].prev THEN now - work[w].prev ELSE now

\* addUsage and the UPDATE of the row: nothing to add, nothing to wait for.
WriteUsage(w) ==
    LET d == Owner[work[w].key]
    IN  /\ At(w, "book") /\ work[w].prev # None
        /\ Delta(w) = 0 \/ sumLock[d] \in {None, w}
        /\ Set(w, [work[w] EXCEPT !.at = "commit"])
        /\ sumLock' = IF Delta(w) = 0 THEN sumLock ELSE [sumLock EXCEPT ![d] = w]
        /\ UNCHANGED <<poolMax, raw, table, rowLock, charged>>

\* COMMIT.  The upsert adds to what the counter is, not to what it was.
Commit(w) ==
    LET k == work[w].key
        d == Owner[k]
    IN  /\ At(w, "commit")
        /\ sample' = [sample EXCEPT ![k] = work[w].todo[k]]
        /\ used' = [used EXCEPT ![d] = @ + Delta(w)]
        /\ charged' = [charged EXCEPT ![k] = @ + Delta(w)]
        /\ Unlock(w)
        /\ IF w \in Pollers THEN Proceed(w, work[w])
           ELSE Set(w, [work[w] EXCEPT !.at = "device", !.prev = None,
                           !.crossed = IF used'[d] >= Limit THEN @ \cup {k} ELSE @])
        /\ UNCHANGED <<poolMax, raw, created>>

\* getDevice: pool.query takes another connection and gives it back.
GetDevice(w) ==
    /\ At(w, "device") /\ Free > 0
    /\ Set(w, [work[w] EXCEPT !.at = "quota"])
    /\ UNCHANGED <<poolMax, raw, table, locks, charged>>

\* Faulty variant: a device with exactly nothing left is not exhausted.
QuotaForOverrun(w) ==
    /\ At(w, "quota") /\ Free > 0
    /\ Proceed(w, [work[w] EXCEPT !.remove =
                      IF used[Owner[work[w].key]] > Limit THEN @ \cup {work[w].key} ELSE @])
    /\ UNCHANGED <<poolMax, raw, table, locks, charged>>

\* quotaFor, isExhausted, remove.push; after the last peer the answer.
QuotaFor(w) ==
    /\ At(w, "quota") /\ Free > 0
    /\ Proceed(w, [work[w] EXCEPT !.remove =
                      IF used[Owner[work[w].key]] >= Limit THEN @ \cup {work[w].key} ELSE @])
    /\ UNCHANGED <<poolMax, raw, table, locks, charged>>

\* Faulty variant: no connectionTimeoutMillis.
WaitForEver(w) == FALSE /\ UNCHANGED vars

\* connectionTimeoutMillis.  A report answers 500, a pass leaves the server.
TimeOut(w) ==
    /\ work[w] # None /\ work[w].at \in {"connect", "device", "quota"} /\ Free <= 0
    /\ Set(w, None)
    /\ UNCHANGED <<poolMax, raw, table, locks, charged>>

\* A statement fails, ROLLBACK: the poller takes the next peer, a report throws.
StatementFails(w) ==
    /\ work[w] # None /\ work[w].at \in {"book", "commit"}
    /\ work[w].key \in FailingKeys
    /\ IF w \in Pollers THEN Proceed(w, work[w]) ELSE Set(w, None)
    /\ Unlock(w)
    /\ UNCHANGED <<poolMax, raw, table, charged>>

-----------------------------------------------------------------------------
(* What goes on meanwhile *)

CreateRow(k) ==
    /\ sample[k] = None /\ created[k] < MaxRows
    /\ created[k] = 0 \/ k \in Returning
    /\ sample' = [sample EXCEPT ![k] = 0]
    /\ created' = [created EXCEPT ![k] = @ + 1]
    /\ UNCHANGED <<poolMax, raw, used, locks, work, charged>>

\* DELETE waits for the row's lock.
DeleteRow(k) ==
    /\ sample[k] # None /\ rowLock[k] = None
    /\ sample' = [sample EXCEPT ![k] = None]
    /\ UNCHANGED <<poolMax, raw, used, created, locks, work, charged>>

AddPeer(k) ==
    /\ sample[k] # None /\ raw[k] = None
    /\ raw' = [raw EXCEPT ![k] = 0]
    /\ UNCHANGED <<poolMax, table, locks, work, charged>>

Transfer(k) ==
    /\ raw[k] # None /\ raw[k] < MaxPassed
    /\ raw' = [raw EXCEPT ![k] = @ + 1]
    /\ UNCHANGED <<poolMax, table, locks, work, charged>>

-----------------------------------------------------------------------------
Init ==
    /\ poolMax \in PoolSizes
    /\ raw = [k \in Keys |-> None]
    /\ sample = [k \in Keys |-> None]
    /\ used = [d \in Devices |-> 0]
    /\ created = [k \in Keys |-> 0]
    /\ rowLock = [k \in Keys |-> None]
    /\ sumLock = [d \in Devices |-> None]
    /\ work = [w \in Workers |-> None]
    /\ charged = [k \in Keys |-> 0]

Execute(w) ==
    \/ Connect(w) \/ Select(w) \/ SkipUnknown(w) \/ WriteUsage(w) \/ Commit(w)
    \/ GetDevice(w) \/ QuotaFor(w) \/ StatementFails(w)

Next ==
    \/ \E w \in Workers, s \in Servers : Fetch(w, s) \/ FetchNothing(w, s)
    \/ \E w \in Workers : Execute(w) \/ TimeOut(w)
    \/ \E k \in Keys : CreateRow(k) \/ DeleteRow(k) \/ AddPeer(k) \/ Transfer(k)

Spec == Init /\ [][Next]_vars

\* Postgres answers, serves those that wait for a row in turn (SF), and the pool's
\* timer fires for those that still wait.
FairSpec == Spec /\ \A w \in Workers : SF_vars(Execute(w)) /\ WF_vars(TimeOut(w))

-----------------------------------------------------------------------------
TypeOK ==
    /\ poolMax \in PoolSizes
    /\ raw \in [Keys -> (0 .. MaxPassed) \cup {None}]
    /\ sample \in [Keys -> (0 .. MaxPassed) \cup {None}]
    /\ used \in [Devices -> Nat]
    /\ created \in [Keys -> 0 .. MaxRows]
    /\ rowLock \in [Keys -> Workers \cup {None}]
    /\ sumLock \in [Devices -> Workers \cup {None}]
    /\ work \in [Workers -> Jobs \cup {None}]
    /\ \A w \in Workers : work[w] # None =>
          work[w].at \in {"connect", "select"} \/ work[w].key \in DOMAIN work[w].todo
    /\ Free >= 0
    /\ charged \in [Keys -> Nat]

\* What is to be done with the current peer of w has been done: it is booked, or it
\* had no row when one was looked for (it may have one by now).
Settled(w) ==
    work[w].at \in {"device", "quota"} \/ (work[w].at = "book" /\ work[w].prev = None)

\* The readings w has still to book, as UsageLedger counts them.
ToBook(w) ==
    IF work[w] = None THEN None
    ELSE IF ~ Settled(w) THEN work[w].todo
    ELSE IF DOMAIN work[w].todo = {work[w].key} THEN None
    ELSE Restrict(work[w].todo, DOMAIN work[w].todo \ {work[w].key})

\* The variables of UsageLedger: a single month, and a counter that does not restart
\* has counted what its peer transferred.
pass == [w \in Workers |-> ToBook(w)]
passed == [k \in Keys |-> IF raw[k] = None THEN 0 ELSE raw[k]]
usedByMonth == [d \in Devices |-> [m \in 1 .. 1 |-> used[d]]]

Ledger == INSTANCE UsageLedger WITH
    MaxMonths <- 1, month <- 1, PoolRefuses <- TRUE, used <- usedByMonth

\* "We accumulate DELTAS into each device's monthly counter" (routes/internal.js:26):
\* reports and passes that book the same peers at once, statement by statement, do
\* what UsageLedger does in one step, its Ingest.
ImplementsUsageLedger == Ledger!Spec

\* "its 1 GB is the sum across every node it used" (docs/BACKEND.md:380): between any two
\* statements, what is committed of a device's counter is what the transactions of all
\* reports and passes have booked for its peers.
CountersBalance ==
    \A d \in Devices : used[d] = Ledger!Total(charged, {k \in Keys : Owner[k] = d})

\* w waits: for a connection, for a row, for another's change of a counter.
WaitsForPool(w) == work[w].at \in {"connect", "device", "quota"} /\ Free <= 0

WaitsForRow(w) ==
    \/ /\ work[w].at = "select"
       /\ \A k \in DOMAIN work[w].todo : rowLock[k] \notin {None, w}
    \/ /\ work[w].at = "book" /\ work[w].prev # None /\ Delta(w) > 0
       /\ sumLock[Owner[work[w].key]] \notin {None, w}

\* Bookings of the same peers (FOR UPDATE, routes/internal.js:50, and
\* services/usagePoller.js:47) never wait for each other in a circle.  When all
\* wait, it is for the pool, all of which is in the hands of reports between two
\* peers: neither the poller nor the row locks have a part in it.
OnlyReportsStarve ==
    (\E w \in Workers : work[w] # None)
      /\ (\A w \in Workers : work[w] # None => WaitsForPool(w) \/ WaitsForRow(w))
    => /\ \A w \in Workers : work[w] # None => WaitsForPool(w)
       /\ \A w \in Holders : w \in Reporters

\* "then tell the agent which peers to cut for having hit their allowance"
\* (routes/internal.js:27-28): once it has gone on from a peer, a report names it
\* if its own booking used the allowance up, and names none whose device has any
\* left.
RemoveNamesTheExhausted ==
    \A w \in Workers : work[w] # None =>
        /\ work[w].at = "select" => work[w].crossed \subseteq work[w].remove
        /\ \A k \in work[w].remove : used[Owner[k]] >= Limit

\* With all connections in the hands of reports that ask for one more, each is
\* answered all the same.
EveryReportAnswered == \A w \in Workers : work[w] # None ~> work[w] = None
=============================================================================
