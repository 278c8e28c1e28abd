# Verification of the VPN control plane and node agent

TLA+ modules for the backend in this repository: the control plane (an Express
server over Postgres) and the agent that runs on every VPN node. TLC checks them
on small instances; TLAPS proves the results listed under "Proofs" for every
value of the constants.

    tlc -config MCPeerAllocation.cfg MCPeerAllocation   # one model-checking run
    tlapm PeerAllocationProofs.tla                      # one proof module

`PROJECT.json` lists the runs, the source lines behind every definition, a faulty
variant of the code for every checked property, the hazards and the theorems.

## 1. The system

| Part | State it keeps | Operations | Talks to |
|---|---|---|---|
| Tunnel address allocation (`routes/sessions.js` `allocatePeer`, `utils/ip.js`) | `peers.assigned_ip`, unique per server | pick the lowest free address, insert the row | Postgres |
| Session lifecycle (`routes/sessions.js`) | `peers.armed`, `grant_token`, `grant_consumed`, `grant_expires_at` | `POST /v1/sessions`, `/authorize`, `/close` | Postgres, node agent (through the provisioner), devices, quota |
| Reaper (`services/reaper.js`) | none between passes | delete stale rows with their peers, delete lapsed reservations | Postgres, node agent |
| Provisioner (`services/provisioner/*`) | none | `addPeer`, `removePeer`, with a timeout | node agent over HTTP |
| Node agent (`node-agent/index.js`) | registry `peers` and state file; the kernel's wg peers, nft quotas and rules; the wg-quick file | `POST`/`DELETE /peers`, quota sweep, start-up reconciliation, `GET /metrics` | `wg`, `wg-quick`, `nft` |
| Usage poller (`services/usagePoller.js`) | `peers.last_sample_*`, `last_handshake_at` | poll a node, book each peer's delta | node agents, ledger |
| Node report (`routes/internal.js`) | the same | book pushed readings, answer which peers to remove | ledger, quota |
| Quota ledger (`services/quota.js`, `services/config.js`) | `usage_counters` | `addUsage`, `quotaFor`, `isExhausted` | Postgres |
| Device identity (`services/devices.js`, `middleware/deviceAuth.js`, `routes/devices.js`) | `devices` | find or create the device a request is charged to | Postgres |
| Connection pool (`db/pool.js`) | a bounded set of connections | `query`, `pool.connect` | Postgres |
| Migration runner (`db/migrate.js`) | `_migrations` | apply the files not yet applied | Postgres |
| Start-up (`server.js`) | none | migrate, then start the timers and listen, or exit | migration runner |
| Read-only routes, API key check | none | queries, a comparison | Postgres |
| Provisioning scripts (`scripts/*.sh`) | files of a new node | run once by an operator | ssh |

Three actors touch the same peers row with no lock held over a call to a node:
request handlers, passes of the reaper, passes of the poller. The node is a
fourth actor, with its own memory, kernel and disk, that may be unreachable,
restart or reboot at any time. What is hard, and what must hold:

* **Allocation.** Concurrent inserts under READ COMMITTED, row locks that do not
  cover rows yet to be inserted, transactions that wait for each other. Two
  clients never share an address; "pool full" is only said of a full pool;
  transactions never wait in a circle.
* **Sessions.** Every `await` lets other handlers and the reaper in; a call to the
  node may be refused, take effect and fail, or take effect after its timeout. A
  gated key is on the node only through a grant of its own; a redeemed grant is
  never good again; a grant just issued is good; the reaper does not delete what
  a client has just created; whatever is left behind is freed in the end.
* **Node agent.** Packets flow between any two commands; the process may die or the
  machine reboot between any two. A peer never passes more than its allowance; a
  peer the agent remembers is enforced; a spent peer leaves the interface.
* **Device identity.** A request reads its device, its plan, its usage and its row in
  four queries. A client is checked against and charged to one device, on any
  server and with any key; one that has used up its month stays out.
* **Ledger.** Cumulative counters that restart are turned into deltas; readings are
  booked late, rows come and go, bookings fail. No byte is charged twice; booking
  a reading loses none; the months of a device add up to its peers' bytes.
* **Reports and the pool.** Reports and passes book the same peers at once, and a
  report keeps a connection while it asks for another. What they do together is a
  sequence of bookings; nobody waits for ever; the answer names the peers to cut.
* **The monthly cap.** A node is told what remained when a request read it, the
  ledger learns later what has passed, quotas are kept by address and registered
  by key, addresses change hands. What a device passes in a month has a bound.
* **Start-up.** Instances start together, die between two statements, lose the
  answer to a COMMIT, are redeployed. Every file is applied once and in order, and
  nothing runs on a schema that is not there.

## 2. Modules

| Module | Models | Composition |
|---|---|---|
| `AddressPool` | what allocation promises: free usable addresses are granted, "full" is an answer to a full pool | abstract |
| `IpPool` | the addresses of a subnet as octets and as numbers, and the lowest free one (`utils/ip.js`) | used by `PeerAllocation` |
| `PeerAllocation` | the lookup and `allocatePeer` statement by statement, with the row locks and unique indexes of Postgres | refines `AddressPool` (`ImplementsAddressPool`) |
| `PeerAllocationProofs` | proofs about `IpPool` and `PeerAllocation` | |
| `Sessions` | the three session routes, the reaper, calls to the node, time | |
| `SessionsProofs` | proofs about `Sessions` | |
| `NodeAgent` | the agent, its kernel and disk, command by command | |
| `NodeAgentProofs` | proofs about `NodeAgent` | |
| `UsageLedger` | counters of nodes, readings, booking transactions, months | |
| `UsageLedgerProofs` | proofs about `UsageLedger` | |
| `DeviceIdentity` | registration, entitlements, `resolveForSession`, the gates of `/sessions`, `quotaFor` | |
| `DeviceIdentityProofs` | proofs about `DeviceIdentity` | |
| `NodeReport` | reports and poll passes statement by statement, row locks, the connection pool, the list of peers to remove | refines `UsageLedger` (`ImplementsUsageLedger`) |
| `NodeReportProofs` | proofs about `NodeReport`, the refinement among them | |
| `Metering` | what remains, leases, the agent's quotas and registry, and the ledger, in one: the cap of a device | composes what `Sessions`, `NodeAgent` and `UsageLedger` detail |
| `MeteringProofs` | proofs about `Metering` | |
| `Startup` | `start()` and the migration runner, by instances of deployed images | |
| `StartupProofs` | proofs about `Startup` | |
| `MCPeerAllocation`, `MCSessions`, `MCNodeAgent`, `MCUsageLedger`, `MCDeviceIdentity`, `MCNodeReport`, `MCMetering` | symmetries and the values the configurations assign | extend the above |

### PeerAllocation

`rows` is the committed table as a function from keys to addresses; an address is the
four octets `IpPool` gives it. The code's shifts are divisions by `Octet`, its `>>> 0`
a remainder of 2 ** 32 (`AddressCount`), and `parseCidr`'s mask clears what an address
is past the start of its block, which need not be the address the CIDR names.
`AllocateAddress` is the loop: offsets from 2, converted one by one, each compared
with the addresses read. The promise (`AddressPool`, with `ClientAddresses`) is stated
the other way round: addresses whose number lies in the block. `stage[r]` is the
statement handler r is about to run, `held[r]` the rows its `SELECT ... FOR UPDATE`
returned, `pick[r]` the address it chose. `SnapshotUsed` and `LockUsed` are the two
halves of the SELECT: the snapshot, and the moment all row locks are there, when rows
deleted meanwhile have been dropped and rows inserted meanwhile are still unseen.
`Insert` waits for an uncommitted rival (`PendingConflict`) and fails on a committed
one. `Commit` may lose its acknowledgement; `StatementFails` is a broken connection at
any statement. `Delete` is a row deletion by `/close`, a roll-back or the reaper.

### Sessions

One server. `row[k]` is the peers row of key k with its id, `armed`, its grant,
`consumed`, and the two facts time makes true: `lapsed` (`grant_expires_at`) and
`stale` (`PEER_TTL_MINUTES`). `node[k]` says the node has the peer. A handler's
`at` field is the await it is about to run. Statements by id miss a row deleted
and created again, which `UpdateById` and `DeleteById` say once. A grant is a
fresh number. `NodeCall` has the four outcomes of a call; `late` holds calls
that the caller has given up on and the node may still run, whatever happened
to the row since. `GoesStale` waits for the request that has just created the
row, because a request takes seconds and the TTL is minutes.
`issued`, `accepted`, `spent` and `programmed` are history.

### NodeAgent

The agent is one thread and its commands are synchronous, so `job` is the handler,
sweep or start-up that runs, and `job.at` its next command. The kernel is `wg`
(allowed-ips; WireGuard moves an address to the peer set last), `quota`, and
`rules` (one drop rule per direction). `Packet` may happen between any two
commands. `Crash` and `Reboot` clear the memory; the file being written may be
left empty (`Torn`); a reboot restores `wg` from what wg-quick saved and loses
nft. `promise` and `spent` are history: what the last answered POST promised the
peer may pass, and what has passed since. `Mentions` says which quota names
contain which: rules are found by substring. Listing commands do not fail in the
model, and a failing nft deletion is not modelled.

### UsageLedger

A key is a peer of one server. `raw` is the kernel's counter, `sample`
`last_sample` of the row, `pass[p]` the readings pass p has still to book: read
once, booked peer by peer. Rx and tx are treated alike by the code, so a counter
has one direction. The booking transaction locks the row first and only adds to
the ledger, so it is one step. `CreateRow`, `DeleteRow`, `AddPeer` and
`RemovePeer` are what the session routes, the reaper and the agent do to the row
and the peer, in any order they can come in. `passed` and `charged` are history.
A member of both `Pollers` and `Reporters` is a pass of either kind. `Abandon` is
what ends a pass between two peers: the pool has no connection for it.

### NodeReport

The abstraction of `UsageLedger`, undone: `work[w]` is a report or a pass and the
statement it is about to run (`connect`, `select`, `book`, `commit`, and for a report
`device` and `quota`, the two queries it makes of the pool after each commit).
`rowLock` and `sumLock` are the row locks a transaction has until its end. `Free`
counts the connections the pool has left: a worker past `connect` has one, a
query of `device` or `quota` needs one more for a moment. `TimeOut` is
`connectionTimeoutMillis`. `crossed` is history: the peers whose booking by this
very report brought their device to its cap. A counter restarts only in
`UsageLedger`, which has every interleaving of bookings with resets already; here
the question is whether the statements amount to its steps. A reading that is
committed maps to `Ingest`, a statement that fails to `IngestFails`, a `TimeOut`
to `Abandon` (or to nothing, when nothing was left to book). A reading of an unknown
peer maps to `IngestUnknown` at its SELECT, and not at the ROLLBACK that follows: a
row may be created between the two, and there is nothing in `UsageLedger` that passes
over a peer with a row. `Settled` and `ToBook` say so. `Returning` are the keys
whose row may be deleted and created again.

### Metering

One device, one server; two addresses stand for two nodes as well, since nothing
relates the quotas of two addresses. `row` is what the control plane leases,
`wg` and `registry` what the agent has by key, `quota` what the kernel has by
address. A request is the `Call` it sends, with the remainder it read; the call
may succeed, be refused, or time out and then be executed late or never, as in
`Sessions`. A handler of the agent is one step: what happens between its
commands is `NodeAgent`'s. `Transfer` is a byte under a live quota. `Book` adds to
the ledger any part of what has passed and is not booked; what removals and
resets hide may stay unbooked for ever. `excess` is history and counts budgets
that were not timely: computed while bytes were not booked (or had become so when
the node armed it), armed while another address still had a live budget, or
re-armed by a reboot with more than was left.

### Startup

An instance (`at[i]` is its next statement) has the image it was started from
(`own[i]`): how many files there are, and which of them fail. `recorded` is the
committed `_migrations`, `effects[f]` how often file f took effect. A transaction
is the step `Commit`, before which its writes are seen by others only through
the primary key (`RivalRecord`). `CREATE TABLE IF NOT EXISTS` is no lock: of the
instances that run it together all but one may fail. `Deploy` replaces the image
by any other, older ones and corrected ones included, while instances run.

### DeviceIdentity

`device[d]` is a devices row with its deviceId (the client, or none for an
anonymous device), `is_premium` and the override; `owner[s][k]` is the
`device_id` of a peers row, to which its traffic is charged (`AddUsage`). A handler
resolves its device (`ResolveByToken`, `ResolveByKey`, `MintDevice`), passes the
premium gate on the row it has read, the quota gate on that row and the usage
read next, and only then looks its peers row up. `/authorize` resolves again and
has no gate. `misled` is history: the rows whose node was last given the allowance
of another device than their owner. `barred` in a request is history too: its client was exhausted when it
was sent, and neither the month nor its plan has changed since. The grant of
`/authorize` is left to `Sessions`; a roll-back is a `DeletePeer`. Tokens do not
expire: a client whose token lapsed is one that registers again first. A request
forgets its token and its plan once the code no longer reads them, which only
spares TLC states. The premium gate refuses nobody in the run, whose servers are
outside the premium tier: no property is about it (see the plan).

## 3. Runs

| Run | Bounds | What it shows |
|---|---|---|
| `allocation` | 3 keys, 2 requests, octets of 3 values, a block of 9 addresses capped to 2 | `UniqueLeases`, `LockedRowsStay`, `ImplementsAddressPool`, `EveryRequestAnswered`, with every statement failing |
| `node_restart` | 2 peers, budgets 2 and unlimited, 1 crash; wg (requests), nft and disk failures | `BudgetRespected` between any two commands |
| `node_reboot` | 2 peers, 1 reboot; wg (requests) and disk failures | `RegisteredPeersEnforced`, `SpentPeerDropped` |
| `sessions_overlap` | 1 gated key, 2 handlers, 1 reaper pass, every fault, 2 rows, 2 grants | `GateHolds`, the grant invariants, `ReaperSparesNewRows` |
| `sessions_live` | 1 key of both kinds, 2 handlers one after the other, refused and half-done calls | requests answered, `ReservationFreed`, `StaleRowFreed` |
| `ledger_roam` | 1 device with a peer on each of 2 servers, 3 bytes each, 2 months, bookings that fail | `NeverOvercharged`, `LedgerSumsPeers`, `BookingLosesNothing` |
| `ledger_live` | 2 peers on a server, one of which cannot be booked | `EveryPeerBooked` |
| `device_identity` | a client that sends its token (and may overlap its requests) and one that never does, a key each, 2 servers outside the premium tier (so that the client without a token may use both), 2 handlers, 2 devices, free limit 1 | `TokenClosesGap`, `OneOwnerPerKey`, `SteadyChargedIsChecked`, `ExhaustedStayOut` |
| `node_report` | a report and a pass on 2 peers of a device (one of which cannot always be booked), 1 byte each, pools of 1 and of 2 connections, cap 1; the row of one is deleted and comes back | `ImplementsUsageLedger`, `OnlyReportsStarve`, `RemoveNamesTheExhausted`, `EveryReportAnswered` |
| `metering` | 2 keys of a device, 2 addresses, cap 1, 2 calls in progress, 1 reboot or month's end, 1 untimely budget | `CapWithinBudgets` |
| `startup` | 2 instances, images of 1 and 3 files, the second file faulty at times, 2 deploys, 2 deaths or lost answers | `AppliedOnceAndRecorded`, `InFilenameOrder`, `ServesOnItsSchema`, `ComesUp` |
| `sessions_leak` | see section 5 | a deviation |

Why these bounds are enough for the cases that matter. Two addresses for three
keys make the pool full, released and full again, and leave a loser in every
race; two requests are enough for two transactions to wait for each other. TLC counts in 32
bits with a sign, so octets have three values in the run: the two client addresses lie
on both sides of a carry. The theorems hold for 256. A
budget of 2 lets a peer be served, then spent, and a packet pass in between; two
peers let one job run while the other peer sends. Two rows per key let a row be
deleted and created again under a handler or a pass that still has the old one;
two grants let a row be registered again while the first is being redeemed. That
no client gets in with another's grant takes two keys, and is proved for any number.
A client with a token is resolved without its key, so one key on two servers
stands for a key that is rotated. In
the ledger, 3 bytes allow a counter to be read, reset and grown past the old
sample. Bounds: `MaxRows`, `MaxGrants`, `MaxSpent`, `MaxCrashes`, `MaxReboots`,
`MaxPassed`, `MaxDevices`, `MaxUsed`, `MaxMonths`, `MaxTurns`, `MaxExcess`, `MaxCalls`,
`MaxDeploys`, `MaxFailures`, each a conjunct of a guard. All passing runs check for
deadlock. `Symmetry` is used in runs without liveness only.

In `node_report` one key may have its row deleted and registered again
(`MaxRows = 2`), so that this can fall between a transaction's SELECT and its ROLLBACK.

A pool of one connection is the smallest in which a report waits for itself, one
of two the smallest in which a report and a pass do. In `metering` a cap of 1 is
spent by one byte, so that every budget after it is one too many unless it is
timely; two calls let one be late while another is in progress; with one untimely
budget allowed, the property is checked at 1 and at 2 times the cap (it also
holds, in a run too long to repeat, with cap 2 and two untimely budgets, one call
at a time). In `startup` two instances race for every file, three files leave one
before and one after the faulty one, and two deploys bring an older image, and a
corrected one, while an instance of the first is in the middle of its files.

### Fairness

* `PeerAllocation`: weak fairness of each request's steps; strong fairness of the
  SELECT and the INSERT, since Postgres serves those that wait for a lock in turn.
* `Sessions`: node.js runs what is pending, the reaper's timer fires for ever, and
  a node that the reaper keeps calling executes some call in the end (strong
  fairness of the successful removal; without it `StaleRowFreed` would be a claim
  about a node that stays off). No fairness is assumed of clients. `sessions_live` runs the requests of a key one after the
  other and without failing queries: a client that for ever re-registers may
  otherwise keep any row from being deleted.
* `NodeAgent`: the job in progress runs on, systemd restarts the process
  (`Restart=always`), and the sweep's timer gets its turn between requests.
* `UsageLedger`: bookings run on, and each server answers a poll now and then.
  `ledger_live` assumes that the pool always has a connection in time
  (`PoolRefuses = FALSE`); a pass that is abandoned does not get to every peer.
* `NodeReport`: Postgres serves those that wait for a row in turn (strong fairness
  of each worker's statements), and the timer of the pool fires for those that
  still wait (weak fairness of `TimeOut`). Nothing is assumed of nodes.
* `Startup`: Postgres answers and the platform restarts what has exited (weak
  fairness of each instance's steps). Deaths and deploys are bounded, not fair.

## 4. Proofs

All theorems hold for any sets of keys, requests, handlers, passes and instances,
any subnet size and cap, and any bounds, from the named assumptions in the modules
(`None` is no integer, no key, no address and no record; sizes and bounds are natural
numbers; there are finitely many peers; a block of addresses divides the number of all
addresses, as every power of two up to 2 ** 32 does).
Three, `SinglePassNeverOvercharges`, `BudgetsKept` and `PeersEnforced`, assume more,
which they state: without it the property is false (section 5).

* `PeerAllocationProofs`: `TextOfInt`, `IntOfText`, `UsableAddresses`,
  `AllocateAddressCorrect`, `TypeCorrect`, `LeasesUnique`, `LockedRowsRemain`,
  `AllocationImplementsPool`. The first two make octets and numbers two forms of the
  same, one octet at a time (`ShiftOctet`). A block lies among the 32-bit numbers
  (`BlockFits`), so that an offset in it is an address of its own, and the offsets the
  loop visits are the addresses that the promise speaks of. `AllocateAddressCorrect`
  needs that a set of numbers has a least member. `UniqueLeases` alone is nearly
  inductive: it speaks of rows about to be committed too, which is what lets `Commit`
  keep it. `LockedRowsStay` needs that a granted lock blocks `Delete`, and that an
  address the full pool lacks is one of a locked row. The refinement maps rows to
  leases and stages to answers; its step theorem has one case per action and uses the
  three invariants.
* `SessionsProofs`: `TypeCorrect`, `GateCorrect`, `GrantsSingleUse`,
  `ConsumedOnNode`, `CurrentGrantGood`. Three invariants build on each other.
  `TypeInv` adds to `TypeOK` what a handler past its first await knows (its row's
  id) and what a late call carries. `GateInv` strengthens `GateHolds`: the grant
  in a row was issued to its key; only a legacy key's open can be about to call
  the node; an add in progress, or late, is of a key with an accepted grant.
  `GrantInv` adds that rows do not share grants, that an unanswered redemption
  is of the row it read, that a handler about to mark has programmed the node,
  and that a consumed row is armed; the last makes `CurrentGrantGood` a
  consequence in each state. `NewRowsSpared` (`ReaperSparesNewRows`) needs that ids
  grow: whatever a pass has selected is no newer than its `since`, and only the DELETE
  by id changes a pass that has removed a peer.

* `UsageLedgerProofs`: `TypeCorrect`, `BookingSafe`, `SinglePassNeverOvercharges`,
  `LedgerBalances`. The first three rest on `DeltaTriangle`: booking two readings in
  turn charges no less than booking the later one, a reading equal to the sample
  charges nothing, and one byte more charges at most one more. `BookingSafe`
  (`BookingLosesNothing`) needs no more, with any number of passes. `NeverOvercharged`
  is not inductive: a booking adds to what is charged. `Covered` counts for each key
  what it was charged, what the reading that waits to be booked will charge, and what
  the next one will charge after that, and compares the sum with what passed. Two
  readings that wait at once would break it, hence one pass at a time; a row created
  again over a counter that has run on would too, hence one row for a key. Without
  either the property is false (section 5). `LedgerBalances` (`LedgerSumsPeers`)
  equates a sum over months with a sum over peers. What a booking does to either is
  `TotalAdd`: where one member of a finite set counts more, the total grows by as
  much. That `Total`, a fold of the community modules, has a value that can be
  reasoned about at all is `TotalChoice`: the fold is a recursive choice, the
  functions that obey its equation exist and agree (`SumsExist`, `SumsUnique`). Both,
  and the type and the change of a total, go by induction over the parts of a finite
  set. The induction theorems of the library take an operator, which the provers
  cannot instantiate; `PartInduction` says the same with the set of those parts for
  which the claim holds, from the well-foundedness of `<` on cardinalities.
* `StartupProofs`: `TypeCorrect`, `AppliedOnce`, `AppliedInOrder`, `ServingMigrated`. The
  invariant `MigrationInv` adds what an instance in the loop knows: whatever of its
  image is not pending is recorded, and the file it is about to commit is not
  (`PendingInv`); and two instances about to commit are so with different files,
  which is the primary key (`OneCommitPerFile`). That the
  file it works on is the first pending one needs that a set of numbers has
  a least member (`FirstFile`, from the well-foundedness of `<`).

* `NodeReportProofs`: `TypeCorrect`, `AnswersRight`, `NoCircle`,
  `ReportsImplementLedger`, `ReportsBalance`, `ReportsLoseNothing`. The invariant
  `ReportInv` adds to the types that locks are those of transactions in progress, and
  that a transaction that found its row has it locked and what it read is what the row
  says (`LocksOK`), that no more workers hold a connection than the pool has
  (`PoolOK`, on cardinalities), and that the keys to be named belong to spent devices
  (`NamedAreSpent`). `NoCircle` follows in each state: who has the lock that another
  waits for is about to book or to commit, and a counter is waited for only by one
  whose holder commits next. The refinement has one case per statement. What was read
  under the row lock is still the sample at the COMMIT, so the delta is
  `UsageLedger`'s; a SELECT without a row is the step `IngestUnknown`, and its
  ROLLBACK a stutter. An earlier mapping, with `IngestUnknown` at the ROLLBACK, could
  not be proved, and is refuted by the run now that a row may come back. The last two
  carry `LedgerBalances` and `BookingSafe` over to the statements of reports and
  passes: an instance of `UsageLedgerProofs` under the same mapping is shown to have
  the same steps (`SameInit`, `SameNext`), so its theorems hold here, and a sum over
  the one month of the mapping is that month (`TotalOfMonth`). `NeverOvercharged`
  cannot be carried over: its theorem is about one pass at a time.
* `MeteringProofs`: `TypeCorrect`, `CapKept`. The cap is about all that has passed in a
  month under any number of quotas, a sum over addresses. Each address counts by its own
  rule, which an invariant about sums would have to carry along, so the invariant
  (`Within`) says instead that there
  is a monotone function on the addresses, numbered from 1, whose value at the last,
  with what has passed, does not exceed the allowances of `excess`, and which grows at
  every address at least by what its quota still lets pass. Raising or lowering one
  address shifts the rest of it. A timely budget fits because
  what remained when it was computed is what remains when it is armed (`TimelyFits`).
* `DeviceIdentityProofs`: `TypeCorrect`, `GapClosed`, `OneOwner`, `SteadyClientsChecked`,
  `ExhaustedRejected`. Three invariants. `IdentityInv` says of every request which device
  each of its steps can have: a client's token is its own device, there is one row per
  deviceId, and a row of a client with a token belongs to that client. `OwnersInv` adds,
  for clients without token, that whoever is about to create a device is alone with its
  key, which needs that such a client waits for its answers. `StayOutInv` carries the
  premises of the 403 (the plan the request has read and the usage it will read) along
  the steps of a `barred` request, while other requests change both tables.
* `NodeAgentProofs`: `TypeCorrect`, `BudgetsKept`, `PeersEnforced`. `AgentInv` says what a
  job is at each command: whose address it has, that the addresses of the registry, of
  the interface and of both files were leased to their keys, and that the peers still
  to be treated are metered. `BudgetInv` says why the promise holds: a peer with a
  promise that is on the interface is `Armed` with the promised number of bytes, and its
  quota has counted at least what passed; and the address of a job past its wg command
  is on the interface of no peer with a promise (`JobSparesPromises`): a POST has no
  promise yet, DELETE and the sweep have taken their peer off, and the start-up works
  on peers without a quota. A restart of the agent changes none of this, which is why
  it keeps the budget; a reboot, or a failing wg command of the sweep, does not.
  `EnforcedInv` follows a job the other way: all peers but those it still
  has to treat (`Exposed`) are enforced, and a machine on which no agent runs has no
  quota left, so the start-up treats every metered peer. A crash of the agent alone
  breaks the latter, hence `MaxCrashes = 0`.

`AgentInv`, `BudgetInv` and `EnforcedInv`, the longest of these invariants, were checked
by TLC with the constants of the two node agent runs before they were proved.

Every safety invariant and every refinement that a run checks is stated by a
theorem. Only model-checked is liveness, for which the prover has no fairness rule:
`EveryRequestAnswered`, `EveryReportAnswered`, `EveryPeerBooked`, `ReservationFreed`,
`StaleRowFreed`, `SpentPeerDropped`, `ComesUp`.

## 5. Known deviations

The run `sessions_leak` looks for, and finds, a disagreement between the code and its
documents: a re-connect between the reaper's `removePeer` and its DELETE leaves a
peer with no row, while "the backend must not leak peers/IPs"
(`docs/BACKEND.md:349`).

Others are stated as properties in the modules, or follow from a passing run's property under a weaker bound; TLC
refutes each with the constants given here:

* `TeardownTouchesOwnRules` (`NodeAgent`) with `Mentions <- NestedNames`, no fault:
  `ruleHandlesFor` (`node-agent/index.js:179`) finds rules by substring, and tearing
  down 10.8.0.2 deletes the rules of 10.8.0.23. "All rule handles in our forward
  chain whose expression references `qname`" (`node-agent/index.js:169`).
* `NeverOvercharged` (`UsageLedger`) with `Pollers = {p1, p2}`: overlapping passes
  (`services/usagePoller.js:100`) book an older reading last, as if the counter had
  been reset, though the poller "computes per-peer RX+TX deltas"
  (`services/usagePoller.js:11`).
* `ChargedIsChecked` (`DeviceIdentity`) for a client in neither `TokenClients` nor
  `LegacyClients`: an existing row is reused whatever device it belongs to
  (`routes/sessions.js:72`), so a client that has come to send its token is checked
  against that device and charged to the anonymous one of its row, while "quota
  follows the device across WireGuard keypairs" (`docs/BACKEND.md:56-57`).
* `LeasedPeersMetered` (`Metering`, constants of `metering`): a /close whose call to
  the node fails frees the address; when its DELETE, or that of a retry, comes
  after another key got the address, it tears down the quota of the new tenant
  (`node-agent/index.js:355-357`), whose traffic is then not limited.
* `LockSerializesAllocation` (`PeerAllocation`; 2 keys, 2 requests): FOR UPDATE
  does not serialise allocations; the unique index makes the loser fail with 500.
* `UnarmedNotOnNode`, `ReapedReservationOffNode` (`Sessions`; 1 gated key, 1 handler,
  `Overlap = TRUE`, no faults): registering again un-arms a row whose peer is on the
  node, and the reaper takes it for one that never was.
* `CloseRemovesPeer` (`Faults = {"refused"}`), `RollbackLeavesNoPeer` (a legacy key,
  `Faults = {"halfway"}`): the row goes while the peer stays.
* `SingleUse` (2 handlers, no faults): two `/authorize` in progress both program the
  node with one grant; the grant is spent afterwards.
* `OneOwnerPerKey` (`DeviceIdentity`), when a client without token does not wait for
  its answers: first requests on two servers create two devices.
* `BudgetRespected` with `"sweepwg" \in Faults`: when `wg ... remove` fails in the sweep,
  the quota and its rules go all the same and the peer stays, unmetered.
* `ArmedBeforeFirstPacket` (`NodeAgent`): `wg set` comes before the quota.
* `RegisteredPeersEnforced` with `MaxCrashes = 1`: a crash between the quota and
  its rules leaves a quota that the restart takes for a live one.
* `SpentPeerDropped` with `Budgets = {0}`: the sweep skips a quota of 0 bytes.
* `NeverOvercharged` (`UsageLedger`) with `MaxRows = 2`: a row created again starts
  from sample 0 while the node may still have the old counter.
* `FinalDeltaReported` (`UsageLedger`): what a peer transferred since the last poll is
  not booked once it is removed.

## 6. Not modelled

What `utils/ip.js` makes of a subnet that is no CIDR. What passes before its quota is armed or with
no quota at all is a matter of `NodeAgent` (and of section 5), not of `Metering`.
Allocations hold one connection and ask for no other, so the pool is modelled for
the bookings alone. Read-only routes, the API key check, TLS, JSON and logging
change no state the properties speak of. The shell scripts run once for a new
node, by hand.

## 7. Plan

Done, in this order: `AddressPool` and `PeerAllocation` with their proofs,
`NodeAgent`, `Sessions` with its proofs, `UsageLedger`, `DeviceIdentity`, `Startup`,
`NodeReport`, `Metering`, `StartupProofs`, `UsageLedgerProofs`, `MeteringProofs`,
`DeviceIdentityProofs`, `NodeReportProofs`, `NodeAgentProofs`, `IpPool`.

Left: a property of the premium gate when an entitlement lapses while a request runs.
`BudgetsKept` has no counterpart with reboots: after one, wg-quick restores the peers
before the agent has armed their quotas, and what passes in between is bounded by
nothing, hence `MaxReboots = 0` in its statement.
