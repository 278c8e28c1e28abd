------------------------------ MODULE Metering ------------------------------
(***************************************************************************)
(* The monthly cap of a device, end to end: the sessions that send a node  *)
(* what remains (routes/sessions.js, services/quota.js), the addresses the *)
(* control plane leases and takes back (services/reaper.js), the quotas    *)
(* the agent keeps by address and its registry keeps by key                *)
(* (node-agent/index.js), and the ledger that learns later what has passed *)
(* (services/usagePoller.js).                                              *)
(*                                                                         *)
(* One server, one metered device with a key for each of its clients.  The *)
(* steps are coarser than in Sessions and NodeAgent: a request is what it  *)
(* does before its call to the node, and the call; a handler of the agent  *)
(* is one step.  An allowance of n lets n bytes through.                   *)
(***************************************************************************)
EXTENDS Integers, FiniteSetsExt

CONSTANTS
    Keys,
    Size,          \* client addresses of the server
    Limit,         \* bytes the device may pass in a month
    MaxTurns,      \* bound on the month ends and reboots of the node together
    MaxExcess,     \* bound on the untimely budgets
    MaxCalls,      \* bound on the calls in progress, timed out ones included
    None

ASSUME SizesAssumption == {Size, Limit, MaxTurns, MaxExcess, MaxCalls} \subseteq Nat
ASSUME NoneAssumption == None \notin Int

Addrs == 1 .. Size

NoAddr == 0

VARIABLES
    row,           \* row[k]: assigned_ip of the peers row of k, or None
    calls,         \* calls to the node that it has not executed, and who waits for it
    wg,            \* wg[k]: allowed-ip of the peer k, NoAddr, or None
    registry,      \* registry[k]: the agent's record [ip, bytes], or None
    quota,         \* quota[a]: bytes and what is left of them, or None
    used,          \* usage_counters.used_bytes of the month
    pending,       \* bytes that have passed and a reading may still book
    turns,         \* month ends and reboots so far
    passed,        \* history: bytes that passed under a quota this month
    excess         \* history: budgets armed that were not timely

control == <<row, calls>>
node == <<wg, registry, quota>>
ledger == <<used, pending>>
history == <<passed, excess>>
vars == <<control, node, ledger, turns, history>>

-----------------------------------------------------------------------------
(* Numbers and addresses *)

\* Faulty variant: the plan's cap is sent, whatever is used of it.
WholeCap == Limit

\* quotaFor and remainingFromQuota.
Remaining == Max({0, Limit - used})

\* Faulty variant: an address is taken when the node has it.
FreeOnNode == Addrs \ {wg[k] : k \in Keys}

\* What allocatePeer chooses from.
Free == Addrs \ {row[k] : k \in Keys}

\* Everything that passed is booked.
LedgerUpToDate == used >= passed

Live(a) == quota[a] # None /\ quota[a].left > 0

-----------------------------------------------------------------------------
(* Requests *)

Waiting(k) == \E c \in calls : c.key = k /\ c.waited

\* The call to the node that a request of k is about to make.  A client waits for
\* its answers.
Call(op, k, ip, bytes, fresh) ==
    /\ ~ Waiting(k) /\ Cardinality(calls) < MaxCalls
    /\ calls' = calls \cup {[op |-> op, key |-> k, ip |-> ip, bytes |-> bytes,
                             fresh |-> fresh, waited |-> TRUE,
                             timely |-> op = "add" /\ LedgerUpToDate]}

\* allocatePeer, unless k has a row.
HaveRow(k) ==
    /\ row[k] = None => Free # {}
    /\ row' = IF row[k] = None THEN [row EXCEPT ![k] = Min(Free)] ELSE row

\* POST /sessions without `gated': the quota is read, the row is found or made.
Open(k) ==
    /\ Remaining > 0
    /\ HaveRow(k)
    /\ Call("add", k, row'[k], Remaining, row[k] = None)
    /\ UNCHANGED <<node, ledger, turns, history>>

\* POST /sessions with `gated': no call to the node.
Reserve(k) ==
    /\ Remaining > 0 /\ ~ Waiting(k)
    /\ row[k] = None
    /\ HaveRow(k)
    /\ UNCHANGED <<calls, node, ledger, turns, history>>

\* POST /authorize with a good grant: there is no quota gate.  Whether a row is
\* armed is left open: a gated client may register again while it has one.
Authorize(k) ==
    /\ row[k] # None
    /\ Call("add", k, row[k], Remaining, FALSE)
    /\ UNCHANGED <<row, node, ledger, turns, history>>

\* POST /close.
Close(k) ==
    /\ Call("remove", k, None, None, FALSE)
    /\ UNCHANGED <<row, node, ledger, turns, history>>

-----------------------------------------------------------------------------
(* The agent *)

\* removeQuota and armQuota key quotas by address, wg set takes the address from
\* whoever has it.
PostPeer(k, call) ==
    LET a == call.ip
    IN  /\ wg' = [j \in Keys |-> IF j = k THEN a ELSE IF wg[j] = a THEN NoAddr ELSE wg[j]]
        /\ quota' = [quota EXCEPT ![a] = [bytes |-> call.bytes, left |-> call.bytes]]
        /\ registry' = [registry EXCEPT ![k] = [ip |-> a, bytes |-> call.bytes]]
        /\ IF call.timely /\ ~ \E b \in Addrs \ {a} : Live(b) THEN UNCHANGED excess
           ELSE excess < MaxExcess /\ excess' = excess + 1

\* The peer goes, with the quota of the address the registry has for it.
DropPeer(k) ==
    /\ wg' = [wg EXCEPT ![k] = None]
    /\ registry' = [registry EXCEPT ![k] = None]
    /\ quota' = IF registry[k] = None THEN quota
                ELSE [quota EXCEPT ![registry[k].ip] = None]
    /\ UNCHANGED excess

Apply(c) == IF c.op = "remove" THEN DropPeer(c.key) ELSE PostPeer(c.key, c)

Exhausted(k) ==
    /\ registry[k] # None
    /\ quota[registry[k].ip] # None
    /\ quota[registry[k].ip].bytes > 0 /\ quota[registry[k].ip].left = 0

\* sweepOnce for a peer.
Sweep(k) ==
    /\ Exhausted(k)
    /\ DropPeer(k)
    /\ UNCHANGED <<control, ledger, turns, passed>>

\* The node reboots: wg-quick restores the peers, the agent re-arms an address from
\* the records that name it, the last of them if there are two.
Reboot ==
    LET records(a) == {registry[k] : k \in {j \in Keys : registry[j] # None /\ registry[j].ip = a}}
        left(a) == IF quota[a] = None THEN 0 ELSE quota[a].left
    IN  /\ turns < MaxTurns /\ turns' = turns + 1
        /\ \E bytes \in [Addrs -> 0 .. Limit] :
              /\ \A a \in Addrs :
                    bytes[a] \in IF records(a) = {} THEN {0} ELSE {v.bytes : v \in records(a)}
              /\ quota' = [a \in Addrs |-> IF records(a) = {} THEN None
                                          ELSE [bytes |-> bytes[a], left |-> bytes[a]]]
              /\ excess' = excess + Cardinality({a \in Addrs : bytes[a] > left(a)})
              /\ excess' <= MaxExcess
        /\ UNCHANGED <<control, wg, registry, ledger, passed>>

-----------------------------------------------------------------------------
(* The calls *)

\* What a request does with its row once it has its answer: /close deletes it,
\* whatever the node said, and so does the roll-back of a fresh one.
Conclude(c, ok) ==
    row' = IF c.op = "remove" \/ (~ ok /\ c.fresh) THEN [row EXCEPT ![c.key] = None]
           ELSE row

CallSucceeds(c) ==
    /\ c.waited /\ calls' = calls \ {c}
    /\ Apply(c)
    /\ Conclude(c, TRUE)
    /\ UNCHANGED <<ledger, turns, passed>>

CallRefused(c) ==
    /\ c.waited /\ calls' = calls \ {c}
    /\ Conclude(c, FALSE)
    /\ UNCHANGED <<node, ledger, turns, history>>

\* timeoutMs: the node may execute the call all the same.
CallTimesOut(c) ==
    /\ c.waited /\ calls' = (calls \ {c}) \cup {[c EXCEPT !.waited = FALSE, !.fresh = FALSE]}
    /\ Conclude(c, FALSE)
    /\ UNCHANGED <<node, ledger, turns, history>>

\* It does, or it never gets it.
LateCall(c) ==
    /\ ~ c.waited /\ calls' = calls \ {c}
    /\ Apply(c)
    /\ UNCHANGED <<row, ledger, turns, passed>>

LostCall(c) ==
    /\ ~ c.waited /\ calls' = calls \ {c}
    /\ UNCHANGED <<row, node, ledger, turns, history>>

\* A row that may be stale: no request has just created it.
Reapable(k) == row[k] # None /\ ~ \E c \in calls : c.key = k /\ c.waited /\ c.fresh

\* The reaper removes the peer, and then the row.
Reap(k) ==
    /\ Reapable(k)
    /\ DropPeer(k)
    /\ row' = [row EXCEPT ![k] = None]
    /\ UNCHANGED <<calls, ledger, turns, passed>>

\* removePeer times out: the row stays for the next pass, the call is late.
ReapTimesOut(k) ==
    /\ Reapable(k) /\ Cardinality(calls) < MaxCalls
    /\ calls' = calls \cup {[op |-> "remove", key |-> k, ip |-> None, bytes |-> None,
                             fresh |-> FALSE, waited |-> FALSE, timely |-> FALSE]}
    /\ UNCHANGED <<row, node, ledger, turns, history>>

\* reapUnauthorizedPeers: the grant has expired.
ReapUnauthorized(k) ==
    /\ row[k] # None /\ ~ Waiting(k)
    /\ row' = [row EXCEPT ![k] = None]
    /\ UNCHANGED <<calls, node, ledger, turns, history>>

-----------------------------------------------------------------------------
(* Traffic and the ledger *)

\* A byte of k.  A budget computed before it passed is no longer timely.
Transfer(k) ==
    LET a == wg[k]
    IN  /\ a \in Addrs /\ Live(a)
        /\ quota' = [quota EXCEPT ![a].left = @ - 1]
        /\ passed' = passed + 1 /\ pending' = pending + 1
        /\ calls' = {[c EXCEPT !.timely = FALSE] : c \in calls}
        /\ UNCHANGED <<row, wg, registry, used, turns, excess>>

\* Readings of the node's counters are booked.  What is never booked is what a
\* removal or a reset has hidden.
Book(n) ==
    /\ pending >= n
    /\ used' = used + n /\ pending' = pending - n
    /\ UNCHANGED <<control, node, turns, history>>

\* The next month has a counter of its own; quotas of nodes stay what they are.
MonthEnds ==
    /\ turns < MaxTurns /\ turns' = turns + 1
    /\ used' = 0 /\ passed' = 0
    /\ UNCHANGED <<control, node, pending, excess>>

-----------------------------------------------------------------------------
Init ==
    /\ row = [k \in Keys |-> None]
    /\ calls = {}
    /\ wg = [k \in Keys |-> None]
    /\ registry = [k \in Keys |-> None]
    /\ quota = [a \in Addrs |-> None]
    /\ used = 0 /\ pending = 0
    /\ turns = 0
    /\ passed = 0 /\ excess = 0

Next ==
    \/ \E k \in Keys :
          \/ Open(k) \/ Reserve(k) \/ Authorize(k) \/ Close(k)
          \/ Reap(k) \/ ReapTimesOut(k) \/ ReapUnauthorized(k)
          \/ Sweep(k) \/ Transfer(k)
    \/ \E c \in calls : CallSucceeds(c) \/ CallRefused(c) \/ CallTimesOut(c) \/ LateCall(c)
                     \/ LostCall(c)
    \/ Reboot \/ (\E n \in 1 .. pending : Book(n)) \/ MonthEnds

Spec == Init /\ [][Next]_vars

-----------------------------------------------------------------------------
Calls == [op : {"add", "remove"}, key : Keys, ip : Addrs \cup {None},
          bytes : (0 .. Limit) \cup {None},
          timely : BOOLEAN, fresh : BOOLEAN, waited : BOOLEAN]

TypeOK ==
    /\ row \in [Keys -> Addrs \cup {None}]
    /\ \A j, k \in Keys : row[j] # None /\ row[j] = row[k] => j = k
    /\ calls \subseteq Calls
    /\ wg \in [Keys -> Addrs \cup {NoAddr, None}]
    /\ \A k \in Keys : registry[k] # None => registry[k] \in [ip : Addrs, bytes : 0 .. Limit]
    /\ \A a \in Addrs : quota[a] # None =>
          quota[a].bytes \in 0 .. Limit /\ quota[a].left \in 0 .. quota[a].bytes
    /\ {used, pending, passed} \subseteq Nat
    /\ turns \in 0 .. MaxTurns /\ excess \in 0 .. MaxExcess

\* "its 1 GB is the sum across every node it used" (docs/BACKEND.md:380): under its
\* quotas a device passes its allowance and, for each budget sent or re-armed while
\* bytes of it were not booked or while another budget of it was live, at most one
\* more.  A stale ledger, calls executed late, addresses that change hands, a
\* month's end between the reading and the arming of a quota do not add up to
\* anything else.  (What passes with no quota at all is LeasedPeersMetered's.)
CapWithinBudgets == passed <= Limit * (1 + excess)

\* DELETE "removes the peer's nft rules + quota object" (node-agent/README.md:67): a
\* peer on its leased address has its quota, whatever requests for other keys do.
LeasedPeersMetered ==
    \A k \in Keys :
        wg[k] # None /\ wg[k] = row[k] /\ registry[k] # None => quota[wg[k]] # None
=============================================================================
