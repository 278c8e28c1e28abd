---------------------------- MODULE UsageLedger ----------------------------
(***************************************************************************)
(* The monthly usage ledger: how the cumulative counters of the nodes      *)
(* become usage_counters.  Passes of the poller (services/usagePoller.js)  *)
(* and reports pushed by a node (routes/internal.js) read a node's         *)
(* counters once and then book them peer by peer, a transaction for each,  *)
(* while clients connect and leave, peers are cut off and nodes reboot.    *)
(*                                                                         *)
(* A key stands for one peer of one server.  A counter has one direction:    *)
(* the code treats rx and tx alike and adds the two deltas.  The booking   *)
(* transaction is one step: it locks the peers row first, and whatever it  *)
(* reads and writes is of that row, or added in place by the upsert.       *)
(***************************************************************************)
EXTENDS Integers, FiniteSetsExt, Functions

CONSTANTS
    Keys,         \* peers of the nodes
    Devices,
    Owner,        \* [Keys -> Devices]: device_id of a key's peers row
    Servers,
    Server,       \* [Keys -> Servers]: the server a key is a peer of
    Pollers,      \* poll passes that may be in progress at once
    Reporters,    \* pushed reports; a pass in both sets may be either
    FailingKeys,  \* keys whose booking transaction may fail
    PoolRefuses,  \* the pool may have no connection in connectionTimeoutMillis
    MaxPassed,    \* bound on the bytes a peer transfers
    MaxRows,      \* bound on the peers rows created for a key
    MaxMonths,    \* bound on the months
    None

ASSUME KeysAssumption == IsFiniteSet(Keys)
ASSUME OwnerAssumption == Owner \in [Keys -> Devices] /\ Server \in [Keys -> Servers]
ASSUME FailingAssumption == FailingKeys \subseteq Keys /\ PoolRefuses \in BOOLEAN
ASSUME LedgerBounds ==
    MaxPassed \in Nat /\ MaxRows \in Nat /\ MaxMonths \in Nat \ {0}
ASSUME NoneAssumption == None \notin Int

Passes == Pollers \cup Reporters
Months == 1 .. MaxMonths

VARIABLES
    raw,          \* raw[k]: the node's transfer counter of k, None if it is no peer
    sample,       \* sample[k]: last_sample of the peers row of k, None without a row
    used,         \* used[d][m]: usage_counters.used_bytes of (d, m)
    month,        \* the current month
    pass,         \* pass[p]: the readings p has still to book, or None
    created,      \* created[k]: peers rows created for k so far
    passed,       \* history, passed[k]: bytes k transferred
    charged       \* history, charged[k]: bytes booked on account of k

vars == <<raw, sample, used, month, pass, created, passed, charged>>

-----------------------------------------------------------------------------
(* Booking a reading *)

\* "If the raw counter went backwards, the new reading IS the delta."
Delta(prev, now) == IF now >= prev THEN now - prev ELSE now

\* Faulty variant: the upsert overwrites what other peers of the device used.
OverwriteUsage(d, delta) ==
    used' = IF delta > 0 THEN [used EXCEPT ![d][month] = delta] ELSE used

\* INSERT ... ON CONFLICT DO UPDATE SET used_bytes = used_bytes + delta.
AddUsage(d, delta) == used' = [used EXCEPT ![d][month] = @ + delta]

\* The pass goes on without k, and is over when no reading is left.
DoneWith(p, k) ==
    pass' = [pass EXCEPT ![p] =
                IF DOMAIN @ = {k} THEN None ELSE Restrict(@, DOMAIN @ \ {k})]

\* GET /metrics, or the body of a report: one reading of every peer's counter.
Fetch(p, s) ==
    LET peers == {k \in Keys : Server[k] = s /\ raw[k] # None}
    IN  /\ pass[p] = None
        /\ peers # {}
        /\ pass' = [pass EXCEPT ![p] = Restrict(raw, peers)]
        /\ UNCHANGED <<raw, sample, used, month, created, passed, charged>>

\* Faulty variant: last_sample is not written.
IngestForgetsSample(p, k) ==
    LET delta == Delta(sample[k], pass[p][k])
    IN  /\ pass[p] # None /\ k \in DOMAIN pass[p] /\ sample[k] # None
        /\ AddUsage(Owner[k], delta)
        /\ charged' = [charged EXCEPT ![k] = @ + delta]
        /\ DoneWith(p, k)
        /\ UNCHANGED <<raw, sample, month, created, passed>>

\* Faulty variant: a counter that went backwards is booked as nothing.
IngestOfGrowth(p, k) ==
    LET delta == IF pass[p][k] >= sample[k] THEN pass[p][k] - sample[k] ELSE 0
    IN  /\ pass[p] # None /\ k \in DOMAIN pass[p] /\ sample[k] # None
        /\ AddUsage(Owner[k], delta)
        /\ sample' = [sample EXCEPT ![k] = pass[p][k]]
        /\ charged' = [charged EXCEPT ![k] = @ + delta]
        /\ DoneWith(p, k)
        /\ UNCHANGED <<raw, month, created, passed>>

\* The transaction for one peer: the delta is added, the sample replaced.
Ingest(p, k) ==
    LET delta == Delta(sample[k], pass[p][k])
    IN  /\ pass[p] # None /\ k \in DOMAIN pass[p] /\ sample[k] # None
        /\ AddUsage(Owner[k], delta)
        /\ sample' = [sample EXCEPT ![k] = pass[p][k]]
        /\ charged' = [charged EXCEPT ![k] = @ + delta]
        /\ DoneWith(p, k)
        /\ UNCHANGED <<raw, month, created, passed>>

\* "a peer we didn't allocate ... ignore": ROLLBACK.
IngestUnknown(p, k) ==
    /\ pass[p] # None /\ k \in DOMAIN pass[p] /\ sample[k] = None
    /\ DoneWith(p, k)
    /\ UNCHANGED <<raw, sample, used, month, created, passed, charged>>

\* Faulty variant: an error ends a poll pass as it ends a report.
IngestFailsAll(p, k) ==
    /\ pass[p] # None /\ k \in DOMAIN pass[p] \cap FailingKeys
    /\ pass' = [pass EXCEPT ![p] = None]
    /\ UNCHANGED <<raw, sample, used, month, created, passed, charged>>

\* The transaction fails and is rolled back: the poller goes on with the next
\* peer, a report throws and is abandoned.
IngestFails(p, k) ==
    /\ pass[p] # None /\ k \in DOMAIN pass[p] \cap FailingKeys
    /\ \/ p \in Pollers /\ DoneWith(p, k)
       \/ p \in Reporters /\ pass' = [pass EXCEPT ![p] = None]
    /\ UNCHANGED <<raw, sample, used, month, created, passed, charged>>

\* pool.connect() throws, which the loop over the peers does not catch.  For a
\* report so do the queries it makes of the pool between two peers.
Abandon(p) ==
    /\ pass[p] # None /\ PoolRefuses
    /\ pass' = [pass EXCEPT ![p] = None]
    /\ UNCHANGED <<raw, sample, used, month, created, passed, charged>>

-----------------------------------------------------------------------------
(* What the ledger follows *)

\* Faulty variant: the samples of a new row have no default.
CreateRowWithoutSample(k) ==
    /\ sample[k] = None /\ created[k] < MaxRows
    /\ sample' = [sample EXCEPT ![k] = -1]
    /\ created' = [created EXCEPT ![k] = @ + 1]
    /\ UNCHANGED <<raw, used, month, pass, passed, charged>>

\* allocatePeer: last_sample_rx and last_sample_tx default to 0.
CreateRow(k) ==
    /\ sample[k] = None /\ created[k] < MaxRows
    /\ sample' = [sample EXCEPT ![k] = 0]
    /\ created' = [created EXCEPT ![k] = @ + 1]
    /\ UNCHANGED <<raw, used, month, pass, passed, charged>>

\* /close, a roll-back or the reaper deletes the row; the node may still have
\* the peer, as when its removal has failed.
DeleteRow(k) ==
    /\ sample[k] # None
    /\ sample' = [sample EXCEPT ![k] = None]
    /\ UNCHANGED <<raw, used, month, pass, created, passed, charged>>

\* /sessions or /authorize adds the peer; if the node has it, nothing is reset.
AddPeer(k) ==
    /\ sample[k] # None /\ raw[k] = None
    /\ raw' = [raw EXCEPT ![k] = 0]
    /\ UNCHANGED <<sample, used, month, pass, created, passed, charged>>

\* /close, the reaper or the agent's sweep removes the peer, and its counter.
RemovePeer(k) ==
    /\ raw[k] # None
    /\ raw' = [raw EXCEPT ![k] = None]
    /\ UNCHANGED <<sample, used, month, pass, created, passed, charged>>

\* The node reboots: wg-quick restores its peers with counters at 0.
Reboot(s) ==
    /\ raw' = [k \in Keys |-> IF Server[k] # s \/ raw[k] = None THEN raw[k] ELSE 0]
    /\ UNCHANGED <<sample, used, month, pass, created, passed, charged>>

Transfer(k) ==
    /\ raw[k] # None /\ passed[k] < MaxPassed
    /\ raw' = [raw EXCEPT ![k] = @ + 1]
    /\ passed' = [passed EXCEPT ![k] = @ + 1]
    /\ UNCHANGED <<sample, used, month, pass, created, charged>>

\* Bookings go to the counter of the new month from now on.
MonthEnds ==
    /\ month < MaxMonths
    /\ month' = month + 1
    /\ UNCHANGED <<raw, sample, used, pass, created, passed, charged>>

-----------------------------------------------------------------------------
Init ==
    /\ raw = [k \in Keys |-> None]
    /\ sample = [k \in Keys |-> None]
    /\ used = [d \in Devices |-> [m \in Months |-> 0]]
    /\ month = 1
    /\ pass = [p \in Passes |-> None]
    /\ created = [k \in Keys |-> 0]
    /\ passed = [k \in Keys |-> 0]
    /\ charged = [k \in Keys |-> 0]

Book(p) == \E k \in Keys : Ingest(p, k) \/ IngestUnknown(p, k) \/ IngestFails(p, k)

Next ==
    \/ \E p \in Passes, s \in Servers : Fetch(p, s)
    \/ \E p \in Passes : Book(p) \/ Abandon(p)
    \/ \E k \in Keys :
          \/ CreateRow(k) \/ DeleteRow(k) \/ AddPeer(k) \/ RemovePeer(k) \/ Transfer(k)
    \/ (\E s \in Servers : Reboot(s)) \/ MonthEnds

Spec == Init /\ [][Next]_vars

\* The timer of the poller fires, every node answers now and then, passes go on.
FairSpec ==
    /\ Spec
    /\ \A p \in Pollers :
          WF_vars(Book(p)) /\ \A s \in Servers : SF_vars(Fetch(p, s))

-----------------------------------------------------------------------------
TypeOK ==
    /\ raw \in [Keys -> (0 .. MaxPassed) \cup {None}]
    /\ sample \in [Keys -> (0 .. MaxPassed) \cup {None}]
    /\ used \in [Devices -> [Months -> Nat]]
    /\ month \in Months
    /\ \A p \in Passes : pass[p] # None =>
          pass[p] \in [DOMAIN pass[p] -> 0 .. MaxPassed] /\ DOMAIN pass[p] \subseteq Keys
    /\ created \in [Keys -> 0 .. MaxRows]
    /\ passed \in [Keys -> 0 .. MaxPassed]
    /\ charged \in [Keys -> Nat]

\* Bytes the next reading of k will add to the ledger.
Pending(k) ==
    IF raw[k] = None \/ sample[k] = None THEN 0 ELSE Delta(sample[k], raw[k])

\* Bytes of k that are neither booked nor going to be.
Unaccounted(k) == passed[k] - charged[k] - Pending(k)

\* "computes per-peer RX+TX deltas" (services/usagePoller.js:11): no byte is
\* booked twice, so a client never runs out of allowance it has not used, with
\* counters that restart and readings that are booked late.
NeverOvercharged == \A k \in Keys : charged[k] <= passed[k]

\* The sum of f over S.
Total(f, S) == MapThenSumSet(LAMBDA x : f[x], S)

\* "its 1 GB is the sum across every node it used" (docs/BACKEND.md:380): the
\* months of a device add up to what was booked for its peers on all nodes.
LedgerSumsPeers ==
    \A d \in Devices :
        Total(used[d], Months) = Total(charged, {k \in Keys : Owner[k] = d})

\* "Delta accounting is tolerant of counter resets" (services/usagePoller.js:15):
\* what a reset costs the ledger it costs when it happens; booking a reading
\* never loses a byte, not even one read before a reset and booked after it.
BookingLosesNothing ==
    [][\A p \in Passes, k \in Keys :
         Ingest(p, k) => Unaccounted(k)' <= Unaccounted(k)]_vars

\* Peers whose bookings fail do not keep the poller from the others: what it can
\* read of a peer is booked sooner or later.
EveryPeerBooked ==
    \A k \in Keys \ FailingKeys, n \in 1 .. MaxPassed :
        (sample[k] # None /\ raw[k] # None /\ raw[k] >= n)
          ~> (sample[k] = None \/ raw[k] = None \/ raw[k] < n \/ sample[k] >= n)

\* "when the node cuts a peer off (or on disconnect), the agent reports the final
\* delta so Postgres's total matches reality" (docs/BACKEND.md:424-425).
FinalDeltaReported ==
    [][\A k \in Keys : RemovePeer(k) => Pending(k) = 0]_vars
=============================================================================
