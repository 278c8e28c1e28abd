----------------------------- MODULE NodeAgent -----------------------------
(***************************************************************************)
(* The agent of a VPN node (node-agent/index.js) with the kernel it        *)
(* drives: WireGuard peers, and for each metered peer a named nftables     *)
(* quota with one drop rule per direction.                                 *)
(*                                                                         *)
(* The agent is one thread: a handler, a sweep or the start-up             *)
(* reconciliation runs to its end before the next one, so `job' is the one *)
(* that runs, and each external command (wg, wg-quick, nft, a file write)  *)
(* is a step of it.  Packets flow between any two steps, and between any   *)
(* two steps the process may die or the machine reboot.                    *)
(***************************************************************************)
EXTENDS Integers

CONSTANTS
    Keys,         \* WireGuard public keys
    Addrs,        \* tunnel addresses
    Leases,       \* [Keys -> SUBSET Addrs]: what the control plane assigns
    Mentions,     \* <<b, a>>: the text of a rule on b's quota contains a's quota name
    Budgets,      \* values of remainingBytes
    MaxSpent,     \* bound on the packets counted for a peer
    MaxCrashes,   \* bound on the deaths of the agent process
    MaxReboots,   \* bound on the reboots of the node
    Faults,       \* SUBSET {"wg", "sweepwg", "nft", "disk"}: commands that may fail
    Unlimited,    \* remainingBytes = null
    None

ASSUME LeasesAssumption == Leases \in [Keys -> SUBSET Addrs]
ASSUME MentionsAssumption == \A a \in Addrs : <<a, a>> \in Mentions
ASSUME BudgetsAssumption == Budgets \subseteq Nat \cup {Unlimited} /\ Unlimited \notin Int
ASSUME FaultsAssumption == Faults \subseteq {"wg", "sweepwg", "nft", "disk"}
ASSUME BoundsAssumption == MaxSpent \in Nat /\ MaxCrashes \in Nat /\ MaxReboots \in Nat

\* A peer as the registry records it, a quota object, and a job with the
\* commands it can be at.
Entries == [addr : Addrs, bytes : Budgets]
Quotas == [bytes : Budgets \ {Unlimited}, used : Nat]
Jobs ==
    [op : {"post", "delete", "sweep", "boot"}, key : Keys \cup {None},
     addr : Addrs \cup {None}, bytes : Budgets \cup {None},
     at : {"wg", "persist", "unrule", "quota", "saddr", "daddr", "save"},
     todo : SUBSET Keys]

ASSUME NoneAssumption ==
    /\ None \notin Int \cup Keys \cup Addrs \cup Entries \cup Quotas \cup Jobs
    /\ None # Unlimited /\ None # "noaddr" /\ "noaddr" \notin Addrs

VARIABLES
    wg,           \* kernel: wg[k] is the allowed-ip of peer k, None if it is no peer
    quota,        \* kernel: quota[a] is the quota object of a, or None
    rules,        \* kernel: the drop rules, <<address, direction>>
    wgConf,       \* disk: wg as wg-quick saved it last
    stateFile,    \* disk: the peers registry as saveState wrote it last
    peers,        \* agent: registry, [addr, bytes] of each peer it added
    job,          \* agent: what it executes, or None
    up,           \* agent: the process runs
    faultsLeft,   \* [crash, reboot]: how many may still happen
    promise,      \* history: remainingBytes of the last answered POST, or None
    spent         \* history: packets of k that passed since that answer

kernel == <<wg, quota, rules>>
disk == <<wgConf, stateFile>>
history == <<promise, spent>>
vars == <<kernel, disk, peers, job, up, faultsLeft, history>>

Directions == {"saddr", "daddr"}

NoKeys == [k \in Keys |-> None]

-----------------------------------------------------------------------------
(* What the agent knows and does *)

Metered(reg, k) == reg[k] # None /\ reg[k].bytes # Unlimited

\* The rules whose JSON contains the name of a's quota.
RuleHandlesFor(a) == {r \in rules : <<r[1], a>> \in Mentions}

\* Faulty variant: a quota found exhausted only once it is overrun.
Overrun(k) ==
    /\ Metered(peers, k)
    /\ quota[peers[k].addr] # None
    /\ quota[peers[k].addr].used > quota[peers[k].addr].bytes

\* What the sweep selects; a quota of 0 bytes is skipped (u.bytes <= 0).
Exhausted(k) ==
    /\ Metered(peers, k)
    /\ quota[peers[k].addr] # None
    /\ quota[peers[k].addr].bytes > 0
    /\ quota[peers[k].addr].used >= quota[peers[k].addr].bytes

Job(op, k, a, b, at, todo) ==
    [op |-> op, key |-> k, addr |-> a, bytes |-> b, at |-> at, todo |-> todo]

\* The loops of sweepOnce and reconcileOnStartup go on with another peer.
NextSweep(reg, todo) ==
    IF todo = {} THEN {None}
    ELSE {Job("sweep", k, reg[k].addr, reg[k].bytes, "wg", todo \ {k}) : k \in todo}

NextRearm(reg, todo) ==
    IF todo = {} THEN {Job("boot", None, None, None, "save", {})}
    ELSE {Job("boot", k, reg[k].addr, reg[k].bytes, "unrule", todo \ {k}) : k \in todo}

At(op, at) == job # None /\ job.op \in op /\ job.at = at

Goto(at) == job' = [job EXCEPT !.at = at]

Finish == job' = None

\* armQuota threw: POST answers 500, the reconciliation takes the next peer.
ArmFailed ==
    IF job.op = "post" THEN Finish ELSE job' \in NextRearm(peers, job.todo)

-----------------------------------------------------------------------------
(* Requests and timers: what makes the agent start a job *)

\* POST /peers.  Until it is answered nothing is promised about k.
PostPeer(k, a, b) ==
    /\ up /\ job = None
    /\ a \in Leases[k]
    /\ job' = Job("post", k, a, b, "wg", {})
    /\ promise' = [promise EXCEPT ![k] = None]
    /\ spent' = [spent EXCEPT ![k] = 0]
    /\ UNCHANGED <<kernel, disk, peers, up, faultsLeft>>

\* DELETE /peers.
DeletePeer(k) ==
    /\ up /\ job = None
    /\ job' = Job("delete", k, None, None, "wg", {})
    /\ UNCHANGED <<kernel, disk, peers, up, faultsLeft, history>>

\* sweepOnce: its list is made of one listing of the table.
Sweep ==
    /\ up /\ job = None
    /\ \E k \in Keys : Exhausted(k)
    /\ job' \in NextSweep(peers, {k \in Keys : Exhausted(k)})
    /\ UNCHANGED <<kernel, disk, peers, up, faultsLeft, history>>

\* Faulty variant: start-up loads the registry and re-arms nobody.
BootWithoutRearm ==
    /\ ~ up
    /\ up' = TRUE
    /\ peers' = stateFile
    /\ job' \in NextRearm(stateFile, {})
    /\ UNCHANGED <<kernel, disk, faultsLeft, history>>

\* reconcileOnStartup: the registry comes from disk, the peers whose quota the
\* kernel lost are to be re-armed.
Boot ==
    /\ ~ up
    /\ up' = TRUE
    /\ peers' = stateFile
    /\ job' \in NextRearm(stateFile,
                  {k \in Keys : Metered(stateFile, k) /\ quota[stateFile[k].addr] = None})
    /\ UNCHANGED <<kernel, disk, faultsLeft, history>>

-----------------------------------------------------------------------------
(* Commands, in the order the jobs run them *)

\* wg set ... allowed-ips: WireGuard takes the address from whoever has it.
WgSet ==
    /\ At({"post"}, "wg")
    /\ \/ /\ wg' = [j \in Keys |-> IF j = job.key THEN job.addr
                                   ELSE IF wg[j] = job.addr THEN "noaddr" ELSE wg[j]]
          /\ Goto("persist")
       \/ "wg" \in Faults /\ Finish /\ UNCHANGED wg
    /\ UNCHANGED <<quota, rules, disk, peers, up, faultsLeft, history>>

\* wg set ... remove: DELETE gives up if it fails, the sweep goes on without.
WgRemove ==
    /\ At({"delete", "sweep"}, "wg")
    /\ \/ /\ wg' = [wg EXCEPT ![job.key] = None]
          /\ Goto("persist")
       \/ /\ (IF job.op = "delete" THEN "wg" ELSE "sweepwg") \in Faults
          /\ IF job.op = "delete" THEN Finish ELSE Goto("unrule")
          /\ UNCHANGED wg
    /\ UNCHANGED <<quota, rules, disk, peers, up, faultsLeft, history>>

\* wg-quick save, best effort.  DELETE of a peer it does not know ends here.
Persist ==
    /\ At({"post", "delete", "sweep"}, "persist")
    /\ \/ wgConf' = wg
       \/ "disk" \in Faults /\ UNCHANGED wgConf
    /\ IF job.op # "delete" THEN Goto("unrule")
       ELSE IF peers[job.key] = None THEN Finish
       ELSE job' = [job EXCEPT !.at = "unrule", !.addr = peers[job.key].addr]
    /\ UNCHANGED <<kernel, stateFile, peers, up, faultsLeft, history>>

\* removeQuota, its loop over the rule handles.
DeleteRule ==
    /\ At({"post", "delete", "sweep", "boot"}, "unrule")
    /\ \E r \in RuleHandlesFor(job.addr) : rules' = rules \ {r}
    /\ UNCHANGED <<wg, quota, disk, peers, job, up, faultsLeft, history>>

\* removeQuota, its last command; then armQuota goes on for a metered peer.
DeleteQuota ==
    /\ At({"post", "delete", "sweep", "boot"}, "unrule")
    /\ RuleHandlesFor(job.addr) = {}
    /\ quota' = [quota EXCEPT ![job.addr] = None]
    /\ IF job.op \in {"post", "boot"} /\ job.bytes # Unlimited
         THEN Goto("quota") ELSE Goto("save")
    /\ UNCHANGED <<wg, rules, disk, peers, up, faultsLeft, history>>

AddQuota ==
    /\ At({"post", "boot"}, "quota")
    /\ \/ /\ quota' = [quota EXCEPT ![job.addr] = [bytes |-> job.bytes, used |-> 0]]
          /\ Goto("saddr")
       \/ "nft" \in Faults /\ ArmFailed /\ UNCHANGED quota
    /\ UNCHANGED <<wg, rules, disk, peers, up, faultsLeft, history>>

\* Faulty variant: one rule, for the upload, is taken to be enough.
ArmOneDirection(d) ==
    /\ At({"post", "boot"}, d)
    /\ rules' = rules \cup {<<job.addr, "saddr">>}
    /\ IF d = "saddr" THEN Goto("daddr")
       ELSE IF job.op = "post" THEN Goto("save") ELSE job' \in NextRearm(peers, job.todo)
    /\ UNCHANGED <<wg, quota, disk, peers, up, faultsLeft, history>>

AddRule(d) ==
    /\ At({"post", "boot"}, d)
    /\ \/ /\ rules' = rules \cup {<<job.addr, d>>}
          /\ IF d = "saddr" THEN Goto("daddr")
             ELSE IF job.op = "post" THEN Goto("save")
             ELSE job' \in NextRearm(peers, job.todo)
       \/ "nft" \in Faults /\ ArmFailed /\ UNCHANGED rules
    /\ UNCHANGED <<wg, quota, disk, peers, up, faultsLeft, history>>

\* Faulty variant: a removed peer leaves a record without an address.
RegistryWithTombstone ==
    IF job.op = "boot" THEN peers
    ELSE [peers EXCEPT ![job.key] = [addr |-> job.addr, bytes |-> job.bytes]]

\* The registry as the job leaves it.
UpdatedRegistry ==
    IF job.op = "post"
      THEN [peers EXCEPT ![job.key] = [addr |-> job.addr, bytes |-> job.bytes]]
    ELSE IF job.op = "boot" THEN peers
    ELSE [peers EXCEPT ![job.key] = None]

\* peers.set or peers.delete with saveState, best effort, and the answer.
Save ==
    /\ At({"post", "delete", "sweep", "boot"}, "save")
    /\ peers' = UpdatedRegistry
    /\ \/ stateFile' = peers'
       \/ "disk" \in Faults /\ UNCHANGED stateFile
    /\ IF job.op = "sweep" THEN job' \in NextSweep(peers, job.todo) ELSE Finish
    /\ promise' = IF job.op = "post"
                     THEN [promise EXCEPT ![job.key] = job.bytes] ELSE promise
    /\ UNCHANGED <<kernel, wgConf, up, faultsLeft, spent>>

-----------------------------------------------------------------------------
(* The kernel, and the end of the process or of the machine *)

\* A packet of peer k.  A rule counts it and drops it once the quota is
\* reached (nft "over"); without a rule on its direction it just passes.
Packet(k, d) ==
    LET a == wg[k]
        counted == quota[a] # None /\ <<a, d>> \in rules
        dropped == counted /\ quota[a].used + 1 >= quota[a].bytes
    IN  /\ a \in Addrs
        /\ quota' = IF counted /\ quota[a].used < quota[a].bytes
                      THEN [quota EXCEPT ![a].used = @ + 1] ELSE quota
        /\ IF dropped \/ promise[k] \notin Nat THEN UNCHANGED spent
           ELSE spent[k] < MaxSpent /\ spent' = [spent EXCEPT ![k] = @ + 1]
        /\ UNCHANGED <<wg, rules, disk, peers, job, up, faultsLeft, promise>>

\* What writeFileSync may leave of the state file when it is cut short: an
\* empty or truncated file, which loadState takes for no state at all.
Torn ==
    IF At({"post", "delete", "sweep", "boot"}, "save")
      THEN {stateFile, NoKeys} ELSE {stateFile}

\* The process dies; systemd restarts it (Boot).
Crash ==
    /\ up /\ faultsLeft.crash > 0
    /\ up' = FALSE
    /\ faultsLeft' = [faultsLeft EXCEPT !.crash = @ - 1]
    /\ job' = None
    /\ peers' = NoKeys
    /\ stateFile' \in Torn
    /\ UNCHANGED <<kernel, wgConf, history>>

\* The machine reboots: wg-quick restores the peers, nothing restores nft.
Reboot ==
    /\ faultsLeft.reboot > 0
    /\ up' = FALSE
    /\ faultsLeft' = [faultsLeft EXCEPT !.reboot = @ - 1]
    /\ job' = None
    /\ peers' = NoKeys
    /\ stateFile' \in Torn
    /\ wg' = wgConf
    /\ quota' = [a \in Addrs |-> None]
    /\ rules' = {}
    /\ UNCHANGED <<wgConf, history>>

-----------------------------------------------------------------------------
Init ==
    /\ wg = NoKeys
    /\ quota = [a \in Addrs |-> None]
    /\ rules = {}
    /\ wgConf = NoKeys
    /\ stateFile = NoKeys
    /\ peers = NoKeys
    /\ job = None
    /\ up = FALSE
    /\ faultsLeft = [crash |-> MaxCrashes, reboot |-> MaxReboots]
    /\ promise = NoKeys
    /\ spent = [k \in Keys |-> 0]

RunJob ==
    \/ WgSet \/ WgRemove \/ Persist \/ DeleteRule \/ DeleteQuota \/ AddQuota
    \/ (\E d \in Directions : AddRule(d)) \/ Save

Next ==
    \/ \E k \in Keys, a \in Addrs, b \in Budgets : PostPeer(k, a, b)
    \/ \E k \in Keys : DeletePeer(k)
    \/ Sweep \/ Boot \/ RunJob
    \/ \E k \in Keys, d \in Directions : Packet(k, d)
    \/ Crash \/ Reboot

Spec == Init /\ [][Next]_vars

\* The thread executes what it has started, systemd restarts it, and its timer
\* gets its turn between requests (SF: the event loop runs a due timer before
\* it polls for more requests).
FairSpec == Spec /\ WF_vars(RunJob) /\ WF_vars(Boot) /\ SF_vars(Sweep)

-----------------------------------------------------------------------------
Registries == [Keys -> Entries \cup {None}]

TypeOK ==
    /\ wg \in [Keys -> Addrs \cup {"noaddr", None}]
    /\ wgConf \in [Keys -> Addrs \cup {"noaddr", None}]
    /\ quota \in [Addrs -> Quotas \cup {None}]
    /\ \A a \in Addrs : quota[a] # None => quota[a].used <= quota[a].bytes
    /\ rules \subseteq Addrs \X Directions
    /\ peers \in Registries /\ stateFile \in Registries
    /\ up \in BOOLEAN
    /\ job # None => up /\ job \in Jobs
    /\ promise \in [Keys -> Budgets \cup {None}]
    /\ spent \in [Keys -> 0 .. MaxSpent]

\* "the node drops the peer's traffic the instant it hits its allowance"
\* (node-agent/README.md:33): once POST /peers is answered, no more than
\* remainingBytes of the peer pass until the next POST, whatever jobs for
\* other peers, sweeps, agent restarts and failed file writes come between.
BudgetRespected ==
    \A k \in Keys : promise[k] \in Nat => spent[k] <= promise[k]

\* Between jobs, every metered peer of the registry has its quota, of the
\* recorded size, and both rules: also after a reboot took all three away.
RegisteredPeersEnforced ==
    up /\ job = None =>
        \A k \in Keys : Metered(peers, k) =>
            LET a == peers[k].addr
            IN  /\ quota[a] # None /\ quota[a].bytes = peers[k].bytes
                /\ {a} \X Directions \subseteq rules

\* "Drop the peer once quota is hit" (docs/BACKEND.md:419): a peer whose quota is
\* spent does not stay on the interface of a node that stays up.
SpentPeerDropped ==
    \A k \in Keys :
        (up /\ Metered(peers, k) /\ wg[k] = peers[k].addr
            /\ quota[wg[k]] # None /\ quota[wg[k]].used >= quota[wg[k]].bytes)
          ~> (wg[k] = None \/ promise[k] = None \/ ~ up)

\* "DELETE /peers removes the peer's nft rules + quota object": those of the
\* address it tears down, never a rule of another peer (node-agent/README.md:67).
\* It takes quota names of which none is part of another (Mentions).
TeardownTouchesOwnRules ==
    [][up' /\ job # None => \A r \in rules \ rules' : r[1] = job.addr]_vars

\* "enforcement is armed before the first packet flows" (docs/BACKEND.md:399):
\* while POST /peers adds a metered peer, none of its packets can pass uncounted.
ArmedBeforeFirstPacket ==
    \A k \in Keys :
        (job # None /\ job.op = "post" /\ job.key = k /\ job.bytes # Unlimited
            /\ wg[k] \in Addrs)
          => {wg[k]} \X Directions \subseteq rules
=============================================================================
