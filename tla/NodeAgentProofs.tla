--------------------------- MODULE NodeAgentProofs ---------------------------
(***************************************************************************)
(* Proofs about NodeAgent, for any keys, addresses, leases, budgets and    *)
(* bounds.                                                                 *)
(***************************************************************************)
EXTENDS NodeAgent, TLAPS

-----------------------------------------------------------------------------
(* Types, and which key an address was leased to *)

\* Peers of the interface have addresses leased to them.
InterfaceOK(w) ==
    /\ w \in [Keys -> Addrs \cup {"noaddr", None}]
    /\ \A k \in Keys : w[k] \in Addrs => w[k] \in Leases[k]

RegistryOK(reg) ==
    /\ reg \in Registries
    /\ \A k \in Keys : reg[k] # None => reg[k].addr \in Leases[k]

\* The job works for a key and an address of that key, and the peers it still
\* has to treat are metered.
JobOK(j) ==
    /\ j \in Jobs
    /\ j.op # "boot" => j.key \in Keys
    /\ j.op = "post" => j.addr \in Leases[j.key] /\ j.bytes \in Budgets
    /\ j.op = "delete" /\ j.at \notin {"wg", "persist"} => j.addr \in Leases[j.key]
    /\ j.op = "sweep" => j.addr \in Leases[j.key] /\ j.key \notin j.todo
    /\ j.op \in {"delete", "sweep"} => j.at \notin {"quota", "saddr", "daddr"}
    /\ j.op = "boot" => j.at \notin {"wg", "persist"}
    /\ j.op = "boot" /\ j.at = "save" => j.todo = {}
    /\ j.op = "boot" /\ j.at # "save" =>
          /\ j.key \in Keys /\ Metered(peers, j.key)
          /\ j.addr = peers[j.key].addr /\ j.bytes = peers[j.key].bytes
    /\ j.at \in {"quota", "saddr", "daddr"} => j.bytes \in Budgets \ {Unlimited}
    /\ \A k \in j.todo : Metered(peers, k)

KernelOK ==
    /\ InterfaceOK(wg)
    /\ quota \in [Addrs -> Quotas \cup {None}]
    /\ \A a \in Addrs : quota[a] # None => quota[a].used <= quota[a].bytes
    /\ rules \subseteq Addrs \X Directions

DiskOK == InterfaceOK(wgConf) /\ RegistryOK(stateFile)

ThreadOK ==
    /\ RegistryOK(peers)
    /\ up \in BOOLEAN
    /\ job # None => up /\ JobOK(job)

HistoryOK ==
    /\ promise \in [Keys -> Budgets \cup {None}]
    /\ spent \in [Keys -> 0 .. MaxSpent]

FaultsOK == faultsLeft \in [crash : 0 .. MaxCrashes, reboot : 0 .. MaxReboots]

AgentInv == KernelOK /\ DiskOK /\ ThreadOK /\ HistoryOK /\ FaultsOK

LEMMA AgentTypes == AgentInv => TypeOK
BY DEF AgentInv, KernelOK, DiskOK, ThreadOK, HistoryOK, InterfaceOK, RegistryOK,
       JobOK, TypeOK

Ats == {"wg", "persist", "unrule", "quota", "saddr", "daddr", "save"}

\* The next command of a job.
LEMMA JobMoves ==
    ASSUME NEW j \in Jobs, NEW at \in Ats, NEW m, m = [j EXCEPT !.at = at]
    PROVE  /\ m \in Jobs
           /\ m.op = j.op /\ m.key = j.key /\ m.addr = j.addr /\ m.bytes = j.bytes
           /\ m.at = at /\ m.todo = j.todo
BY DEF Jobs, Ats

LEMMA JobRuns ==
    ASSUME AgentInv, job # None
    PROVE  up /\ JobOK(job)
BY DEF AgentInv, ThreadOK

\* A job among peers that stay as they are.
LEMMA JobStays ==
    ASSUME NEW j, JobOK(j), peers' = peers
    PROVE  JobOK(j)'
BY DEF JobOK, Metered

LEMMA SweepGoesOn ==
    ASSUME RegistryOK(peers), NEW todo \in SUBSET Keys, NEW reg,
           \A k \in todo : Metered(peers, k) /\ reg[k] = peers[k],
           NEW m, m \in NextSweep(peers, todo), peers' = reg
    PROVE  m # None => JobOK(m)'
<1> SUFFICES ASSUME todo # {}, m # None PROVE JobOK(m)'
  BY DEF NextSweep
<1>1. PICK k \in todo :
        m = Job("sweep", k, peers[k].addr, peers[k].bytes, "wg", todo \ {k})
  BY DEF NextSweep
<1>2. /\ peers[k] \in Entries /\ peers[k].addr \in Leases[k]
      /\ \A i \in todo : Metered(peers, i)'
  BY <1>1 DEF RegistryOK, Registries, Metered
<1>3. peers[k].addr \in Addrs /\ peers[k].bytes \in Budgets
  BY <1>2 DEF Entries
<1>4. /\ m \in Jobs /\ m.op = "sweep" /\ m.at = "wg" /\ m.key = k
      /\ m.addr = peers[k].addr /\ m.todo = todo \ {k}
  BY <1>1, <1>3 DEF Job, Jobs
<1> QED
  BY <1>1, <1>2, <1>4 DEF JobOK

LEMMA RearmGoesOn ==
    ASSUME NEW reg, RegistryOK(reg), NEW todo \in SUBSET Keys,
           \A k \in todo : Metered(reg, k),
           NEW m, m \in NextRearm(reg, todo), peers' = reg
    PROVE  m # None /\ m.op = "boot" /\ JobOK(m)'
<1>1. CASE todo = {}
  <2>1. m = Job("boot", None, None, None, "save", {})
    BY <1>1 DEF NextRearm
  <2>2. m \in Jobs /\ m.op = "boot" /\ m.at = "save" /\ m.todo = {}
    BY <2>1 DEF Job, Jobs
  <2> QED
    BY <2>2, NoneAssumption DEF JobOK
<1>2. CASE todo # {}
  <2>1. PICK k \in todo :
          m = Job("boot", k, reg[k].addr, reg[k].bytes, "unrule", todo \ {k})
    BY <1>2 DEF NextRearm
  <2>2. /\ reg[k] \in Entries /\ reg[k].bytes # Unlimited
        /\ \A i \in todo : Metered(peers, i)'
    BY <2>1 DEF RegistryOK, Registries, Metered
  <2>3. reg[k].addr \in Addrs /\ reg[k].bytes \in Budgets
    BY <2>2 DEF Entries
  <2>4. /\ m \in Jobs /\ m.op = "boot" /\ m.at = "unrule" /\ m.key = k
        /\ m.addr = reg[k].addr /\ m.bytes = reg[k].bytes /\ m.todo = todo \ {k}
    BY <2>1, <2>3 DEF Job, Jobs
  <2> QED
    BY <2>1, <2>2, <2>4, NoneAssumption DEF JobOK
<1> QED
  BY <1>1, <1>2

LEMMA RequestTypes ==
    ASSUME AgentInv,
           \/ \E k \in Keys, a \in Addrs, b \in Budgets : PostPeer(k, a, b)
           \/ \E k \in Keys : DeletePeer(k)
    PROVE  AgentInv'
<1> USE BoundsAssumption
<1>1. ASSUME NEW k \in Keys, NEW a \in Addrs, NEW b \in Budgets, PostPeer(k, a, b)
      PROVE  AgentInv'
  <2>1. PICK m : m = job'
    OBVIOUS
  <2>2. /\ m \in Jobs /\ m.op = "post" /\ m.at = "wg" /\ m.key = k
        /\ m.addr = a /\ m.bytes = b /\ m.todo = {}
    BY <1>1, <2>1 DEF PostPeer, Job, Jobs
  <2>3. JobOK(m)'
    BY <1>1, <2>2 DEF JobOK, PostPeer
  <2> QED
    BY <1>1, <2>1, <2>3 DEF AgentInv, KernelOK, DiskOK, ThreadOK, HistoryOK, FaultsOK,
       PostPeer, kernel, disk
<1>2. ASSUME NEW k \in Keys, DeletePeer(k)
      PROVE  AgentInv'
  <2>1. PICK m : m = job'
    OBVIOUS
  <2>2. /\ m \in Jobs /\ m.op = "delete" /\ m.at = "wg" /\ m.key = k /\ m.todo = {}
    BY <1>2, <2>1 DEF DeletePeer, Job, Jobs
  <2>3. JobOK(m)'
    BY <1>2, <2>2 DEF JobOK
  <2> QED
    BY <1>2, <2>1, <2>3 DEF AgentInv, KernelOK, DiskOK, ThreadOK, HistoryOK, FaultsOK,
       DeletePeer, kernel, disk, history
<1> QED
  BY <1>1, <1>2

LEMMA SweepTypes ==
    ASSUME AgentInv, Sweep
    PROVE  AgentInv'
<1>1. RegistryOK(peers) /\ peers' = peers
  BY DEF AgentInv, ThreadOK, Sweep
<1>2. PICK m : m = job'
  OBVIOUS
<1>3. m \in NextSweep(peers, {k \in Keys : Exhausted(k)})
  BY <1>2 DEF Sweep
<1>4. m # None => JobOK(m)'
  BY <1>1, <1>3, SweepGoesOn DEF Exhausted
<1> QED
  BY <1>2, <1>4 DEF AgentInv, KernelOK, DiskOK, ThreadOK, HistoryOK, FaultsOK,
     Sweep, kernel, disk, history

LEMMA BootTypes ==
    ASSUME AgentInv, Boot
    PROVE  AgentInv'
<1> DEFINE lost == {k \in Keys : Metered(stateFile, k) /\ quota[stateFile[k].addr] = None}
<1>1. RegistryOK(stateFile) /\ peers' = stateFile
  BY DEF AgentInv, DiskOK, Boot
<1>2. PICK m : m = job'
  OBVIOUS
<1>3. m \in NextRearm(stateFile, lost)
  BY <1>2 DEF Boot
<1>4. JobOK(m)'
  BY <1>1, <1>3, RearmGoesOn
<1> QED
  BY <1>1, <1>2, <1>4 DEF AgentInv, KernelOK, DiskOK, ThreadOK, HistoryOK, FaultsOK,
     Boot, kernel, disk, history, RegistryOK

LEMMA WgSetTypes ==
    ASSUME AgentInv, WgSet
    PROVE  AgentInv'
<1>1. PICK j, m : j = job /\ m = job'
  OBVIOUS
<1>2. JobOK(j) /\ up /\ j.at = "wg" /\ j.op = "post" /\ peers' = peers
  BY <1>1 DEF AgentInv, ThreadOK, WgSet, At
<1>3. j.key \in Keys /\ j.addr \in Leases[j.key] /\ j.addr \in Addrs
  BY <1>2, LeasesAssumption DEF JobOK
<1>4. InterfaceOK(wg)'
  <2>1. CASE UNCHANGED wg
    BY <2>1 DEF AgentInv, KernelOK, InterfaceOK
  <2>2. CASE wg' = [i \in Keys |-> IF i = j.key THEN j.addr
                                   ELSE IF wg[i] = j.addr THEN "noaddr" ELSE wg[i]]
    BY <2>2, <1>3, NoneAssumption DEF AgentInv, KernelOK, InterfaceOK
  <2> QED
    BY <2>1, <2>2, <1>1 DEF WgSet
<1>5. m # None => JobOK(m)'
  <2>1. CASE m = [j EXCEPT !.at = "persist"]
    <3>1. /\ m \in Jobs /\ m.op = j.op /\ m.key = j.key /\ m.addr = j.addr
          /\ m.bytes = j.bytes /\ m.at = "persist" /\ m.todo = j.todo
      BY <2>1, <1>2, JobMoves DEF JobOK, Ats
    <3> QED
      BY <3>1, <1>2 DEF JobOK, Metered
  <2>2. CASE m = None
    BY <2>2
  <2> QED
    BY <2>1, <2>2, <1>1 DEF WgSet, Goto, Finish
<1> QED
  BY <1>1, <1>2, <1>4, <1>5 DEF AgentInv, KernelOK, DiskOK, ThreadOK, HistoryOK, FaultsOK,
     WgSet, disk, history

LEMMA WgRemoveTypes ==
    ASSUME AgentInv, WgRemove
    PROVE  AgentInv'
<1>1. PICK j, m : j = job /\ m = job'
  OBVIOUS
<1>2. JobOK(j) /\ up /\ j.at = "wg" /\ j.op \in {"delete", "sweep"} /\ peers' = peers
  BY <1>1 DEF AgentInv, ThreadOK, WgRemove, At
<1>3. InterfaceOK(wg)'
  <2>1. CASE UNCHANGED wg
    BY <2>1 DEF AgentInv, KernelOK, InterfaceOK
  <2>2. CASE wg' = [wg EXCEPT ![j.key] = None]
    BY <2>2, NoneAssumption DEF AgentInv, KernelOK, InterfaceOK
  <2> QED
    BY <2>1, <2>2, <1>1 DEF WgRemove
<1>4. ASSUME NEW at \in {"persist", "unrule"}, m = [j EXCEPT !.at = at],
             j.op = "delete" => at = "persist"
      PROVE  JobOK(m)'
  <2>1. /\ m \in Jobs /\ m.op = j.op /\ m.key = j.key /\ m.addr = j.addr
        /\ m.bytes = j.bytes /\ m.at = at /\ m.todo = j.todo
    BY <1>2, <1>4, JobMoves DEF JobOK, Ats
  <2> QED
    BY <1>2, <1>4, <2>1 DEF JobOK, Metered
<1>5. m # None => JobOK(m)'
  BY <1>1, <1>2, <1>4 DEF WgRemove, Goto, Finish
<1> QED
  BY <1>1, <1>2, <1>3, <1>5 DEF AgentInv, KernelOK, DiskOK, ThreadOK, HistoryOK, FaultsOK,
     WgRemove, disk, history

LEMMA PersistTypes ==
    ASSUME AgentInv, Persist
    PROVE  AgentInv'
<1>1. PICK j, m : j = job /\ m = job'
  OBVIOUS
<1>2. /\ JobOK(j) /\ up /\ j.at = "persist" /\ peers' = peers
      /\ j.op \in {"post", "delete", "sweep"}
  BY <1>1 DEF AgentInv, ThreadOK, Persist, At
<1>3. CASE j.op = "delete" /\ peers[j.key] # None
  <2>1. j.key \in Keys /\ peers[j.key] \in Entries /\ peers[j.key].addr \in Leases[j.key]
    BY <1>2, <1>3 DEF AgentInv, ThreadOK, RegistryOK, Registries, JobOK
  <2>2. peers[j.key].addr \in Addrs
    BY <2>1 DEF Entries
  <2>3. m = [j EXCEPT !.at = "unrule", !.addr = peers[j.key].addr]
    BY <1>1, <1>3 DEF Persist
  <2>4. /\ m \in Jobs /\ m.op = j.op /\ m.key = j.key /\ m.addr = peers[j.key].addr
        /\ m.bytes = j.bytes /\ m.at = "unrule" /\ m.todo = j.todo
    BY <1>2, <2>2, <2>3 DEF JobOK, Jobs
  <2>5. JobOK(m)'
    BY <1>2, <1>3, <2>1, <2>4 DEF JobOK, Metered
  <2> QED
    BY <1>1, <1>2, <2>5 DEF AgentInv, KernelOK, DiskOK, ThreadOK, HistoryOK, FaultsOK,
       Persist, kernel, history, InterfaceOK
<1>4. CASE j.op # "delete"
  <2>1. m = [j EXCEPT !.at = "unrule"]
    BY <1>1, <1>4 DEF Persist, Goto
  <2>2. /\ m \in Jobs /\ m.op = j.op /\ m.key = j.key /\ m.addr = j.addr
        /\ m.bytes = j.bytes /\ m.at = "unrule" /\ m.todo = j.todo
    BY <1>2, <2>1, JobMoves DEF JobOK, Ats
  <2>3. JobOK(m)'
    BY <1>2, <1>4, <2>2 DEF JobOK, Metered
  <2> QED
    BY <1>1, <1>2, <2>3 DEF AgentInv, KernelOK, DiskOK, ThreadOK, HistoryOK, FaultsOK,
       Persist, kernel, history, InterfaceOK
<1>5. CASE j.op = "delete" /\ peers[j.key] = None
  <2>1. job' = None
    BY <1>1, <1>5 DEF Persist, Finish
  <2> QED
    BY <2>1 DEF AgentInv, KernelOK, DiskOK, ThreadOK, HistoryOK, FaultsOK,
       Persist, kernel, history, InterfaceOK
<1> QED
  BY <1>3, <1>4, <1>5

LEMMA DeleteRuleTypes ==
    ASSUME AgentInv, DeleteRule
    PROVE  AgentInv'
<1>1. job # None => JobOK(job)'
  BY JobStays DEF AgentInv, ThreadOK, DeleteRule
<1>2. rules' \subseteq rules
  BY DEF DeleteRule, RuleHandlesFor
<1> QED
  BY <1>1, <1>2 DEF AgentInv, KernelOK, DiskOK, ThreadOK, HistoryOK, FaultsOK,
     DeleteRule, disk, history

\* A job that runs commands of removeQuota or armQuota has an address.
LEMMA JobHasAddress ==
    ASSUME NEW j, JobOK(j), RegistryOK(peers),
           \/ j.at \in {"quota", "saddr", "daddr"}
           \/ j.at = "unrule"
           \/ j.at = "save" /\ j.op # "boot"
    PROVE  j.key \in Keys /\ j.addr \in Addrs /\ j.addr \in Leases[j.key]
<1>1. j.key \in Keys /\ j.addr \in Leases[j.key]
  BY DEF JobOK, Jobs, RegistryOK, Metered
<1> QED
  BY <1>1, LeasesAssumption

LEMMA DeleteQuotaTypes ==
    ASSUME AgentInv, DeleteQuota
    PROVE  AgentInv'
<1>1. PICK j, m : j = job /\ m = job'
  OBVIOUS
<1>2. JobOK(j) /\ up /\ j.at = "unrule" /\ peers' = peers
  BY <1>1 DEF AgentInv, ThreadOK, DeleteQuota, At
<1>3. JobOK(m)'
  <2>1. PICK at \in {"quota", "save"} :
          /\ m = [j EXCEPT !.at = at]
          /\ at = IF j.op \in {"post", "boot"} /\ j.bytes # Unlimited
                    THEN "quota" ELSE "save"
    BY <1>1 DEF DeleteQuota, Goto
  <2>2. /\ m \in Jobs /\ m.op = j.op /\ m.key = j.key /\ m.addr = j.addr
        /\ m.bytes = j.bytes /\ m.at = at /\ m.todo = j.todo
    BY <1>2, <2>1, JobMoves DEF JobOK, Ats
  <2>3. j.op = "boot" => j.bytes \in Budgets \ {Unlimited}
    BY <1>2 DEF AgentInv, ThreadOK, RegistryOK, Registries, Entries, JobOK, Metered
  <2> QED
    BY <1>2, <2>1, <2>2, <2>3 DEF JobOK, Metered, Jobs
<1>4. /\ quota' \in [Addrs -> Quotas \cup {None}]
      /\ \A a \in Addrs : quota'[a] # None => quota'[a] = quota[a]
  BY <1>1 DEF AgentInv, KernelOK, DeleteQuota
<1> QED
  BY <1>1, <1>2, <1>3, <1>4 DEF AgentInv, KernelOK, DiskOK, ThreadOK, HistoryOK, FaultsOK,
     DeleteQuota, disk, history

\* A job after armQuota threw, or after it armed the last of what it had to.
LEMMA JobGoesOn ==
    ASSUME AgentInv, NEW j, j = job, job # None, j.op \in {"post", "boot"}, peers' = peers,
           NEW m, m = job',
           \/ ArmFailed
           \/ j.op = "boot" /\ m \in NextRearm(peers, j.todo)
    PROVE  m # None => JobOK(m)'
<1>1. JobOK(j) /\ RegistryOK(peers)
  BY DEF AgentInv, ThreadOK
<1>2. CASE m = None
  BY <1>2
<1>3. CASE m \in NextRearm(peers, j.todo)
  <2>1. j.todo \in SUBSET Keys /\ \A k \in j.todo : Metered(peers, k)
    BY <1>1 DEF JobOK, Jobs
  <2> QED
    BY <1>1, <1>3, <2>1, RearmGoesOn
<1> QED
  BY <1>2, <1>3 DEF ArmFailed, Finish

LEMMA AddQuotaTypes ==
    ASSUME AgentInv, AddQuota
    PROVE  AgentInv'
<1>1. PICK j, m : j = job /\ m = job'
  OBVIOUS
<1>2. /\ JobOK(j) /\ up /\ j.at = "quota" /\ j.op \in {"post", "boot"}
      /\ peers' = peers /\ job # None
  BY <1>1 DEF AgentInv, ThreadOK, AddQuota, At
<1>3. m # None => JobOK(m)'
  <2>1. CASE m = [j EXCEPT !.at = "saddr"]
    <3>1. /\ m \in Jobs /\ m.op = j.op /\ m.key = j.key /\ m.addr = j.addr
          /\ m.bytes = j.bytes /\ m.at = "saddr" /\ m.todo = j.todo
      BY <1>2, <2>1, JobMoves DEF JobOK, Ats
    <3> QED
      BY <1>2, <3>1 DEF JobOK, Metered
  <2>2. CASE ArmFailed
    BY <1>1, <1>2, <2>2, JobGoesOn
  <2> QED
    BY <1>1, <2>1, <2>2 DEF AddQuota, Goto
<1>4. /\ quota' \in [Addrs -> Quotas \cup {None}]
      /\ \A a \in Addrs : quota'[a] # None => quota'[a].used <= quota'[a].bytes
  <2>1. PICK q : q = [bytes |-> j.bytes, used |-> 0]
    OBVIOUS
  <2>2. q \in Quotas /\ q.used <= q.bytes
    <3>1. j.bytes \in Budgets \ {Unlimited} /\ j.bytes \in Nat
      BY <1>2, BudgetsAssumption DEF JobOK
    <3> QED
      BY <2>1, <3>1 DEF Quotas
  <2>3. quota' = [quota EXCEPT ![j.addr] = q] \/ UNCHANGED quota
    BY <1>1, <2>1 DEF AddQuota
  <2> QED
    BY <2>2, <2>3 DEF AgentInv, KernelOK
<1> QED
  BY <1>1, <1>2, <1>3, <1>4 DEF AgentInv, KernelOK, DiskOK, ThreadOK, HistoryOK, FaultsOK,
     AddQuota, disk, history

LEMMA AddRuleTypes ==
    ASSUME AgentInv, NEW d \in Directions, AddRule(d)
    PROVE  AgentInv'
<1>1. PICK j, m : j = job /\ m = job'
  OBVIOUS
<1>2. /\ JobOK(j) /\ up /\ j.at = d /\ j.op \in {"post", "boot"}
      /\ peers' = peers /\ job # None
  BY <1>1 DEF AgentInv, ThreadOK, AddRule, At
<1>3. m # None => JobOK(m)'
  <2>1. ASSUME NEW at \in {"daddr", "save"}, m = [j EXCEPT !.at = at],
               at = "save" => j.op = "post"
        PROVE  JobOK(m)'
    <3>1. /\ m \in Jobs /\ m.op = j.op /\ m.key = j.key /\ m.addr = j.addr
          /\ m.bytes = j.bytes /\ m.at = at /\ m.todo = j.todo
      BY <1>2, <2>1, JobMoves DEF JobOK, Ats
    <3> QED
      BY <1>2, <2>1, <3>1 DEF JobOK, Metered, Directions
  <2>2. CASE ArmFailed
    BY <1>1, <1>2, <2>2, JobGoesOn
  <2>3. CASE j.op = "boot" /\ m \in NextRearm(peers, j.todo)
    BY <1>1, <1>2, <2>3, JobGoesOn
  <2>4. \/ m = [j EXCEPT !.at = "daddr"]
        \/ j.op = "post" /\ m = [j EXCEPT !.at = "save"]
        \/ ArmFailed
        \/ j.op = "boot" /\ m \in NextRearm(peers, j.todo)
    BY <1>1, <1>2 DEF AddRule, Goto
  <2> QED
    BY <2>1, <2>2, <2>3, <2>4
<1>4. rules' \subseteq Addrs \X Directions
  <2>1. j.addr \in Addrs
    BY <1>2, JobHasAddress DEF AgentInv, ThreadOK, Directions
  <2> QED
    BY <1>1, <2>1 DEF AgentInv, KernelOK, AddRule
<1> QED
  BY <1>1, <1>2, <1>3, <1>4 DEF AgentInv, KernelOK, DiskOK, ThreadOK, HistoryOK, FaultsOK,
     AddRule, disk, history

LEMMA SaveTypes ==
    ASSUME AgentInv, Save
    PROVE  AgentInv'
<1>1. PICK j, m : j = job /\ m = job'
  OBVIOUS
<1>2. /\ JobOK(j) /\ up /\ j.at = "save" /\ j.op \in {"post", "delete", "sweep", "boot"}
      /\ RegistryOK(peers)
  BY <1>1 DEF AgentInv, ThreadOK, Save, At
<1>3. j.op # "boot" => j.key \in Keys /\ j.addr \in Addrs /\ j.addr \in Leases[j.key]
  BY <1>2, JobHasAddress
<1>4. RegistryOK(peers)'
  <2>1. CASE j.op = "post"
    <3>1. PICK e : e = [addr |-> j.addr, bytes |-> j.bytes]
      OBVIOUS
    <3>2. e \in Entries /\ e.addr = j.addr
      BY <1>2, <1>3, <2>1, <3>1 DEF Entries, JobOK
    <3>3. peers' = [peers EXCEPT ![j.key] = e]
      BY <1>1, <2>1, <3>1 DEF Save, UpdatedRegistry
    <3> QED
      BY <1>2, <1>3, <2>1, <3>2, <3>3 DEF RegistryOK, Registries
  <2>2. CASE j.op \in {"delete", "sweep"}
    BY <1>1, <1>2, <2>2 DEF RegistryOK, Registries, Save, UpdatedRegistry
  <2>3. CASE j.op = "boot"
    BY <1>1, <1>2, <2>3 DEF RegistryOK, Registries, Save, UpdatedRegistry
  <2> QED
    BY <1>2, <2>1, <2>2, <2>3
<1>5. m # None => JobOK(m)'
  <2>1. CASE j.op = "sweep"
    <3>1. PICK reg : reg = [peers EXCEPT ![j.key] = None]
      OBVIOUS
    <3>2. peers' = reg /\ m \in NextSweep(peers, j.todo)
      BY <1>1, <2>1, <3>1 DEF Save, UpdatedRegistry
    <3>3. /\ j.todo \in SUBSET Keys
          /\ \A k \in j.todo : Metered(peers, k) /\ reg[k] = peers[k]
      BY <1>2, <2>1, <3>1 DEF JobOK, Jobs, RegistryOK, Registries
    <3> QED
      BY <1>2, <3>2, <3>3, SweepGoesOn
  <2>2. CASE j.op # "sweep"
    BY <1>1, <2>2 DEF Save, Finish
  <2> QED
    BY <2>1, <2>2
<1>6. promise' \in [Keys -> Budgets \cup {None}]
  BY <1>1, <1>2 DEF AgentInv, HistoryOK, JobOK, Save
<1>7. RegistryOK(stateFile)'
  BY <1>4 DEF AgentInv, DiskOK, RegistryOK, Save
<1> QED
  BY <1>1, <1>2, <1>4, <1>5, <1>6, <1>7 DEF AgentInv, KernelOK, DiskOK, ThreadOK, HistoryOK,
     FaultsOK, Save, kernel

LEMMA EnvironmentTypes ==
    ASSUME AgentInv, \/ \E k \in Keys, d \in Directions : Packet(k, d)
                     \/ Crash \/ Reboot
    PROVE  AgentInv'
<1> USE BoundsAssumption
<1>1. ASSUME NEW k \in Keys, NEW d \in Directions, Packet(k, d)
      PROVE  AgentInv'
  <2>1. PICK a : a = wg[k]
    OBVIOUS
  <2>2. a \in Addrs
    BY <1>1, <2>1 DEF Packet
  <2>3. /\ quota' \in [Addrs -> Quotas \cup {None}]
        /\ \A b \in Addrs : quota'[b] # None => quota'[b].used <= quota'[b].bytes
    <3>1. CASE UNCHANGED quota
      BY <3>1 DEF AgentInv, KernelOK
    <3>2. CASE /\ quota[a] # None /\ quota[a].used < quota[a].bytes
               /\ quota' = [quota EXCEPT ![a].used = @ + 1]
      <4>1. PICK q, r : q = quota[a] /\ r = [q EXCEPT !.used = q.used + 1]
        OBVIOUS
      <4>2. q \in Quotas
        BY <2>2, <3>2, <4>1 DEF AgentInv, KernelOK
      <4>3. r \in Quotas /\ r.used <= r.bytes
        BY <3>2, <4>1, <4>2, BudgetsAssumption DEF Quotas
      <4>4. quota' = [quota EXCEPT ![a] = r]
        BY <3>2, <4>1
      <4> QED
        BY <2>2, <4>3, <4>4 DEF AgentInv, KernelOK
    <3> QED
      BY <1>1, <2>1, <3>1, <3>2 DEF Packet
  <2>4. spent' \in [Keys -> 0 .. MaxSpent]
    BY <1>1 DEF AgentInv, HistoryOK, Packet
  <2>5. job # None => JobOK(job)'
    BY <1>1, JobStays DEF AgentInv, ThreadOK, Packet
  <2> QED
    BY <1>1, <2>3, <2>4, <2>5 DEF AgentInv, KernelOK, DiskOK, ThreadOK, HistoryOK, FaultsOK,
       Packet, disk
<1>2. RegistryOK(NoKeys)
  BY NoneAssumption DEF RegistryOK, Registries, NoKeys
<1>3. ASSUME Crash \/ Reboot
      PROVE  RegistryOK(peers)' /\ RegistryOK(stateFile)'
  <2>1. peers' = NoKeys /\ stateFile' \in {stateFile, NoKeys}
    BY <1>3 DEF Crash, Reboot, Torn
  <2> QED
    BY <1>2, <2>1 DEF AgentInv, DiskOK, RegistryOK
<1>4. ASSUME Crash \/ Reboot
      PROVE  FaultsOK'
  BY <1>4, BoundsAssumption DEF AgentInv, FaultsOK, Crash, Reboot
<1>5. CASE Crash
  BY <1>3, <1>4, <1>5 DEF AgentInv, KernelOK, DiskOK, ThreadOK, HistoryOK,
     Crash, kernel, history, InterfaceOK
<1>6. CASE Reboot
  BY <1>3, <1>4, <1>6 DEF AgentInv, KernelOK, DiskOK, ThreadOK, HistoryOK,
     Reboot, history, InterfaceOK
<1> QED
  BY <1>1, <1>5, <1>6

LEMMA InitTypes == Init => AgentInv
<1> SUFFICES ASSUME Init PROVE AgentInv
  OBVIOUS
<1> USE NoneAssumption, BoundsAssumption DEF Init, NoKeys
<1>1. KernelOK
  BY DEF KernelOK, InterfaceOK
<1>2. DiskOK
  BY DEF DiskOK, InterfaceOK, RegistryOK, Registries
<1>3. ThreadOK
  BY DEF ThreadOK, RegistryOK, Registries
<1>4. HistoryOK
  BY DEF HistoryOK
<1>5. FaultsOK
  BY DEF FaultsOK
<1> QED
  BY <1>1, <1>2, <1>3, <1>4, <1>5 DEF AgentInv

LEMMA StepTypes == AgentInv /\ [Next]_vars => AgentInv'
<1> SUFFICES ASSUME AgentInv, [Next]_vars PROVE AgentInv'
  OBVIOUS
<1>1. CASE \/ \E k \in Keys, a \in Addrs, b \in Budgets : PostPeer(k, a, b)
           \/ \E k \in Keys : DeletePeer(k)
  BY <1>1, RequestTypes
<1>2. CASE RunJob
  BY <1>2, WgSetTypes, WgRemoveTypes, PersistTypes, DeleteRuleTypes, DeleteQuotaTypes,
     AddQuotaTypes, AddRuleTypes, SaveTypes DEF RunJob
<1>3. CASE \/ \E k \in Keys, d \in Directions : Packet(k, d)
           \/ Crash \/ Reboot
  BY <1>3, EnvironmentTypes
<1>4. CASE UNCHANGED vars
  BY <1>4 DEF vars, kernel, disk, history, AgentInv, KernelOK, DiskOK, ThreadOK, HistoryOK,
     FaultsOK, JobOK, Metered, InterfaceOK, RegistryOK
<1> QED
  BY <1>1, <1>2, <1>3, <1>4, SweepTypes, BootTypes DEF Next

THEOREM AgentInvariant == Spec => []AgentInv
BY InitTypes, StepTypes, PTL DEF Spec

\* The variables keep their types, and a job is one the thread can run.
THEOREM TypeCorrect == Spec => []TypeOK
BY AgentInvariant, AgentTypes, PTL

-----------------------------------------------------------------------------
(* Why no peer gets more than its budget: the drop rules of a peer with a  *)
(* promise count every packet, and no job touches them while it is on the  *)
(* interface.                                                              *)

\* Quota names of which none is part of another.
DistinctMentions == \A a, b \in Addrs : <<b, a>> \in Mentions => a = b

\* The control plane never leases an address to two keys.
DisjointLeases == \A i, k \in Keys : i # k => Leases[i] \cap Leases[k] = {}

\* The address a has a quota of b bytes, and both rules.
Armed(a, b) ==
    /\ quota[a] # None /\ quota[a].bytes = b
    /\ {a} \X Directions \subseteq rules

Promised(k) == promise[k] \in Nat

PromisesKept ==
    \A k \in Keys : Promised(k) =>
        /\ spent[k] <= promise[k]
        /\ wg[k] \in Addrs => Armed(wg[k], promise[k]) /\ spent[k] <= quota[wg[k]].used

\* The quota and the rules a POST or a re-arming has made so far.
RulesMade(j) == j.op = "post" /\ j.at = "save"

ArmedSoFar(j) ==
    j.bytes \in Nat =>
        /\ j.at \in {"saddr", "daddr"} \/ RulesMade(j) =>
              quota[j.addr] # None /\ quota[j.addr].bytes = j.bytes
        /\ j.at = "daddr" \/ RulesMade(j) => <<j.addr, "saddr">> \in rules
        /\ RulesMade(j) => <<j.addr, "daddr">> \in rules

\* A POST works for a peer without a promise, DELETE and the sweep for one that is
\* off the interface, the reconciliation for peers whose quota was lost.
JobSpares(j) ==
    /\ j.op = "post" =>
          /\ promise[j.key] = None /\ spent[j.key] = 0
          /\ j.at # "wg" => wg[j.key] = j.addr
    /\ j.op \in {"delete", "sweep"} /\ j.at # "wg" => wg[j.key] = None
    /\ j.op = "boot" =>
          \A k \in Keys : k \in j.todo \cup {j.key} /\ Promised(k) => wg[k] # peers[k].addr

JobInv == job # None => JobSpares(job) /\ ArmedSoFar(job)

BudgetInv ==
    /\ AgentInv
    /\ PromisesKept
    /\ JobInv
    /\ faultsLeft.reboot = 0

LEMMA NoneIsNoBudget == None \notin Nat /\ Unlimited \notin Nat
BY NoneAssumption, BudgetsAssumption

LEMMA BudgetsHold == PromisesKept => BudgetRespected
BY DEF PromisesKept, Promised, BudgetRespected

\* The next peer of a reconciliation is one of those it had still to treat.
LEMMA RearmTakes ==
    ASSUME NEW reg, NEW todo, NEW m, m \in NextRearm(reg, todo)
    PROVE  /\ m.op = "boot" /\ m.at \in {"unrule", "save"}
           /\ m.todo \cup {m.key} \subseteq todo \cup {None}
BY DEF NextRearm, Job

LEMMA SweepTakes ==
    ASSUME NEW reg, NEW todo, NEW m, m \in NextSweep(reg, todo), m # None
    PROVE  m.op = "sweep" /\ m.at = "wg"
BY DEF NextSweep, Job

\* The address a job arms or disarms is on the interface of no peer with a promise.
LEMMA JobSparesPromises ==
    ASSUME DisjointLeases, BudgetInv, NEW j, j = job, job # None,
           j.at \in {"unrule", "quota", "saddr", "daddr"},
           NEW k \in Keys, Promised(k)
    PROVE  wg[k] # j.addr
<1> SUFFICES ASSUME wg[k] = j.addr PROVE FALSE
  OBVIOUS
<1>1. JobOK(j) /\ RegistryOK(peers) /\ JobSpares(j) /\ InterfaceOK(wg)
  BY DEF BudgetInv, AgentInv, ThreadOK, KernelOK, JobInv
<1>2. j.key \in Keys /\ j.addr \in Addrs /\ j.addr \in Leases[j.key]
  BY <1>1, JobHasAddress
<1>3. k = j.key
  BY <1>1, <1>2 DEF DisjointLeases, InterfaceOK
<1>4. j.op \in {"post", "delete", "sweep", "boot"}
  BY <1>1 DEF JobOK, Jobs
<1>5. CASE j.op = "post"
  BY <1>1, <1>3, <1>5, NoneIsNoBudget DEF JobSpares, Promised
<1>6. CASE j.op \in {"delete", "sweep"}
  BY <1>1, <1>2, <1>3, <1>6, NoneAssumption DEF JobSpares
<1>7. CASE j.op = "boot"
  <2>1. j.addr = peers[j.key].addr
    BY <1>1, <1>7 DEF JobOK
  <2> QED
    BY <1>1, <1>3, <1>7, <2>1 DEF JobSpares
<1> QED
  BY <1>4, <1>5, <1>6, <1>7

\* What is not taken from the peers with a promise: their quota and their rules,
\* unless they leave the interface.
LEMMA PromisesStay ==
    ASSUME PromisesKept, UNCHANGED history,
           \A k \in Keys : Promised(k) /\ wg'[k] \in Addrs =>
              /\ wg'[k] = wg[k] /\ quota'[wg[k]] = quota[wg[k]]
              /\ \A d \in Directions : <<wg[k], d>> \in rules => <<wg[k], d>> \in rules'
    PROVE  PromisesKept'
BY DEF PromisesKept, history, Promised, Armed

LEMMA RequestKeepsPromises ==
    ASSUME BudgetInv,
           \/ \E k \in Keys, a \in Addrs, b \in Budgets : PostPeer(k, a, b)
           \/ \E k \in Keys : DeletePeer(k)
           \/ Sweep
    PROVE  PromisesKept' /\ JobInv'
<1>1. ASSUME NEW k \in Keys, NEW a \in Addrs, NEW b \in Budgets, PostPeer(k, a, b)
      PROVE  PromisesKept' /\ JobInv'
  <2>1. PICK m : m = job'
    OBVIOUS
  <2>2. m.op = "post" /\ m.at = "wg" /\ m.key = k
    BY <1>1, <2>1 DEF PostPeer, Job
  <2>3. promise'[k] = None /\ spent'[k] = 0
    BY <1>1 DEF PostPeer, BudgetInv, AgentInv, HistoryOK
  <2>4. \A i \in Keys \ {k} : promise'[i] = promise[i] /\ spent'[i] = spent[i]
    BY <1>1 DEF PostPeer, BudgetInv, AgentInv, HistoryOK
  <2>5. PromisesKept'
    BY <1>1, <2>3, <2>4, NoneIsNoBudget
    DEF PostPeer, kernel, BudgetInv, PromisesKept, Promised, Armed
  <2> QED
    BY <2>1, <2>2, <2>3, <2>5 DEF JobInv, JobSpares, ArmedSoFar, RulesMade
<1>2. ASSUME NEW k \in Keys, DeletePeer(k)
      PROVE  PromisesKept' /\ JobInv'
  <2>1. PICK m : m = job'
    OBVIOUS
  <2>2. m.op = "delete" /\ m.at = "wg"
    BY <1>2, <2>1 DEF DeletePeer, Job
  <2>3. PromisesKept'
    BY <1>2, PromisesStay DEF DeletePeer, kernel, BudgetInv
  <2> QED
    BY <2>1, <2>2, <2>3 DEF JobInv, JobSpares, ArmedSoFar, RulesMade
<1>3. CASE Sweep
  <2>1. PICK m : m = job'
    OBVIOUS
  <2>2. m # None => m.op = "sweep" /\ m.at = "wg"
    BY <1>3, <2>1, SweepTakes DEF Sweep
  <2>3. PromisesKept'
    BY <1>3, PromisesStay DEF Sweep, kernel, BudgetInv
  <2> QED
    BY <2>1, <2>2, <2>3 DEF JobInv, JobSpares, ArmedSoFar, RulesMade
<1> QED
  BY <1>1, <1>2, <1>3

LEMMA BootKeepsPromises ==
    ASSUME BudgetInv, Boot
    PROVE  PromisesKept' /\ JobInv'
<1> DEFINE lost == {k \in Keys : Metered(stateFile, k) /\ quota[stateFile[k].addr] = None}
<1>1. PICK m : m = job'
  OBVIOUS
<1>2. /\ m.op = "boot" /\ m.at \in {"unrule", "save"}
      /\ m.todo \cup {m.key} \subseteq lost \cup {None}
  BY <1>1, RearmTakes DEF Boot
<1>3. ASSUME NEW k \in Keys, k \in lost, Promised(k)
      PROVE  wg[k] # stateFile[k].addr
  <2>1. stateFile[k].addr \in Addrs
    BY <1>3 DEF BudgetInv, AgentInv, DiskOK, RegistryOK, Registries, Entries, Metered
  <2> QED
    BY <1>3, <2>1 DEF BudgetInv, PromisesKept, Armed
<1>4. None \notin Keys
  BY NoneAssumption
<1>5. JobInv'
  BY <1>1, <1>2, <1>3, <1>4 DEF Boot, kernel, history, JobInv, JobSpares, ArmedSoFar,
     RulesMade, Promised
<1>6. PromisesKept'
  BY PromisesStay DEF Boot, kernel, BudgetInv
<1> QED
  BY <1>5, <1>6

LEMMA WgSetKeepsPromises ==
    ASSUME BudgetInv, WgSet
    PROVE  PromisesKept' /\ JobInv'
<1>1. PICK j, m : j = job /\ m = job'
  OBVIOUS
<1>2. /\ JobOK(j) /\ JobSpares(j) /\ j.at = "wg" /\ j.op = "post"
      /\ wg \in [Keys -> Addrs \cup {"noaddr", None}]
  BY <1>1 DEF BudgetInv, AgentInv, ThreadOK, KernelOK, InterfaceOK, JobInv, WgSet, At
<1>3. j.key \in Keys /\ promise[j.key] = None /\ spent[j.key] = 0
  BY <1>2 DEF JobOK, JobSpares
<1>4. CASE UNCHANGED wg /\ m = None
  BY <1>1, <1>4, PromisesStay DEF WgSet, BudgetInv, JobInv
<1>5. CASE /\ wg' = [i \in Keys |-> IF i = j.key THEN j.addr
                                    ELSE IF wg[i] = j.addr THEN "noaddr" ELSE wg[i]]
           /\ m = [j EXCEPT !.at = "persist"]
  <2>1. ASSUME NEW k \in Keys, Promised(k), wg'[k] \in Addrs
        PROVE  wg'[k] = wg[k]
    BY <1>3, <1>5, <2>1, NoneAssumption, NoneIsNoBudget DEF Promised
  <2>2. PromisesKept'
    BY <2>1, PromisesStay DEF WgSet, BudgetInv
  <2>3. m.op = "post" /\ m.at = "persist" /\ m.key = j.key /\ m.addr = j.addr
    BY <1>2, <1>5, JobMoves DEF JobOK, Ats
  <2>4. wg'[j.key] = j.addr
    BY <1>3, <1>5
  <2> QED
    BY <1>1, <1>3, <2>2, <2>3, <2>4 DEF WgSet, history, JobInv, JobSpares, ArmedSoFar,
       RulesMade
<1> QED
  BY <1>1, <1>4, <1>5 DEF WgSet, Goto, Finish

LEMMA WgRemoveKeepsPromises ==
    ASSUME "sweepwg" \notin Faults, BudgetInv, WgRemove
    PROVE  PromisesKept' /\ JobInv'
<1>1. PICK j, m : j = job /\ m = job'
  OBVIOUS
<1>2. /\ JobOK(j) /\ j.at = "wg" /\ j.op \in {"delete", "sweep"}
      /\ wg \in [Keys -> Addrs \cup {"noaddr", None}]
  BY <1>1 DEF BudgetInv, AgentInv, ThreadOK, KernelOK, InterfaceOK, WgRemove, At
<1>3. j.key \in Keys
  BY <1>2 DEF JobOK
<1>4. CASE UNCHANGED wg /\ m = None
  BY <1>1, <1>4, PromisesStay DEF WgRemove, BudgetInv, JobInv
<1>5. CASE wg' = [wg EXCEPT ![j.key] = None] /\ m = [j EXCEPT !.at = "persist"]
  <2>1. ASSUME NEW k \in Keys, Promised(k), wg'[k] \in Addrs
        PROVE  wg'[k] = wg[k]
    BY <1>2, <1>5, <2>1, NoneAssumption
  <2>2. PromisesKept'
    BY <2>1, PromisesStay DEF WgRemove, BudgetInv
  <2>3. m.op = j.op /\ m.at = "persist" /\ m.key = j.key
    BY <1>2, <1>5, JobMoves DEF JobOK, Ats
  <2>4. wg'[j.key] = None
    BY <1>2, <1>3, <1>5
  <2> QED
    BY <1>1, <1>2, <2>2, <2>3, <2>4 DEF JobInv, JobSpares, ArmedSoFar, RulesMade
<1> QED
  BY <1>1, <1>2, <1>4, <1>5 DEF WgRemove, Goto, Finish

LEMMA PersistKeepsPromises ==
    ASSUME BudgetInv, Persist
    PROVE  PromisesKept' /\ JobInv'
<1>1. PICK j, m : j = job /\ m = job'
  OBVIOUS
<1>2. /\ JobOK(j) /\ JobSpares(j) /\ j.at = "persist"
      /\ j.op \in {"post", "delete", "sweep"}
  BY <1>1 DEF BudgetInv, AgentInv, ThreadOK, JobInv, Persist, At
<1>3. PromisesKept'
  BY PromisesStay DEF Persist, kernel, BudgetInv
<1>4. CASE m = None
  BY <1>1, <1>3, <1>4 DEF JobInv
<1>5. CASE m = [j EXCEPT !.at = "unrule"] /\ j.op # "delete"
  <2>1. m.op = j.op /\ m.at = "unrule" /\ m.key = j.key /\ m.addr = j.addr
    BY <1>2, <1>5, JobMoves DEF JobOK, Ats
  <2> QED
    BY <1>1, <1>2, <1>3, <2>1 DEF Persist, kernel, history, JobInv, JobSpares, ArmedSoFar,
       RulesMade
<1>6. CASE j.op = "delete" /\ m = [j EXCEPT !.at = "unrule", !.addr = peers[j.key].addr]
  <2>1. m.op = j.op /\ m.at = "unrule" /\ m.key = j.key
    BY <1>2, <1>6 DEF JobOK, Jobs
  <2> QED
    BY <1>1, <1>2, <1>3, <1>6, <2>1 DEF Persist, kernel, history, JobInv, JobSpares,
       ArmedSoFar, RulesMade
<1> QED
  BY <1>1, <1>4, <1>5, <1>6 DEF Persist, Goto, Finish

LEMMA DeleteRuleKeepsPromises ==
    ASSUME DistinctMentions, DisjointLeases, BudgetInv, DeleteRule
    PROVE  PromisesKept' /\ JobInv'
<1>1. PICK j : j = job
  OBVIOUS
<1>2. /\ JobOK(j) /\ JobSpares(j) /\ j.at = "unrule" /\ job # None /\ RegistryOK(peers)
      /\ rules \subseteq Addrs \X Directions
  BY <1>1 DEF BudgetInv, AgentInv, ThreadOK, KernelOK, JobInv, DeleteRule, At
<1>3. j.addr \in Addrs
  BY <1>2, JobHasAddress
<1>4. PICK r \in RuleHandlesFor(j.addr) : rules' = rules \ {r}
  BY <1>1 DEF DeleteRule
<1>5. r[1] = j.addr
  BY <1>2, <1>3, <1>4 DEF DistinctMentions, RuleHandlesFor
<1>6. ASSUME NEW k \in Keys, Promised(k)
      PROVE  wg[k] # j.addr
  BY <1>1, <1>2, <1>6, JobSparesPromises
<1>7. PromisesKept'
  BY <1>4, <1>5, <1>6, PromisesStay DEF DeleteRule, BudgetInv
<1> QED
  BY <1>1, <1>2, <1>7 DEF DeleteRule, history, JobInv, JobSpares, ArmedSoFar, RulesMade,
     Promised

\* The steps that go on with a job on the same peer.
LEMMA SpareStays ==
    ASSUME NEW j, JobSpares(j), NEW m, m.op = j.op, m.key = j.key, m.addr = j.addr,
           m.todo = j.todo, j.at # "wg", UNCHANGED <<wg, peers, history>>
    PROVE  JobSpares(m)'
BY DEF JobSpares, Promised, history

LEMMA DeleteQuotaKeepsPromises ==
    ASSUME DisjointLeases, BudgetInv, DeleteQuota
    PROVE  PromisesKept' /\ JobInv'
<1>1. PICK j, m : j = job /\ m = job'
  OBVIOUS
<1>2. /\ JobOK(j) /\ JobSpares(j) /\ j.at = "unrule" /\ job # None /\ RegistryOK(peers)
      /\ quota \in [Addrs -> Quotas \cup {None}] /\ InterfaceOK(wg)
  BY <1>1 DEF BudgetInv, AgentInv, ThreadOK, KernelOK, JobInv, DeleteQuota, At
<1>3. ASSUME NEW k \in Keys, Promised(k)
      PROVE  wg[k] # j.addr
  BY <1>1, <1>2, <1>3, JobSparesPromises
<1>4. PromisesKept'
  <2>1. \A a \in Addrs : a # j.addr => quota'[a] = quota[a]
    BY <1>1, <1>2 DEF DeleteQuota
  <2> QED
    BY <1>3, <2>1, PromisesStay DEF DeleteQuota, BudgetInv
<1>5. PICK at \in {"quota", "save"} :
        /\ m = [j EXCEPT !.at = at]
        /\ j.op = "post" /\ j.bytes # Unlimited => at = "quota"
  BY <1>1 DEF DeleteQuota, Goto
<1>6. /\ m.op = j.op /\ m.key = j.key /\ m.addr = j.addr
      /\ m.bytes = j.bytes /\ m.at = at /\ m.todo = j.todo
  BY <1>2, <1>5, JobMoves DEF JobOK, Ats
<1>7. JobSpares(m)'
  BY <1>2, <1>6, SpareStays DEF DeleteQuota
<1>8. ArmedSoFar(m)'
  BY <1>5, <1>6, NoneIsNoBudget DEF ArmedSoFar, RulesMade
<1> QED
  BY <1>1, <1>4, <1>7, <1>8 DEF JobInv

\* The reconciliation goes on, or the POST ends without a promise.
LEMMA GoingOnSpares ==
    ASSUME BudgetInv, NEW j, j = job, job # None, j.op \in {"post", "boot"},
           UNCHANGED <<wg, peers, history>>,
           NEW m, m = job',
           \/ ArmFailed
           \/ j.op = "boot" /\ m \in NextRearm(peers, j.todo)
    PROVE  m # None => JobSpares(m)' /\ ArmedSoFar(m)'
<1> SUFFICES ASSUME m # None PROVE JobSpares(m)' /\ ArmedSoFar(m)'
  OBVIOUS
<1>1. JobSpares(j)
  BY DEF BudgetInv, JobInv
<1>2. m \in NextRearm(peers, j.todo) /\ j.op = "boot"
  BY DEF ArmFailed, Finish
<1>3. /\ m.op = "boot" /\ m.at \in {"unrule", "save"}
      /\ m.todo \cup {m.key} \subseteq j.todo \cup {None}
  BY <1>2, RearmTakes
<1>4. None \notin Keys
  BY NoneAssumption
<1> QED
  BY <1>1, <1>2, <1>3, <1>4 DEF JobSpares, ArmedSoFar, RulesMade, Promised, history

LEMMA AddQuotaKeepsPromises ==
    ASSUME DisjointLeases, BudgetInv, AddQuota
    PROVE  PromisesKept' /\ JobInv'
<1>1. PICK j, m : j = job /\ m = job'
  OBVIOUS
<1>2. /\ JobOK(j) /\ JobSpares(j) /\ j.at = "quota" /\ j.op \in {"post", "boot"}
      /\ job # None /\ RegistryOK(peers)
      /\ quota \in [Addrs -> Quotas \cup {None}] /\ InterfaceOK(wg)
  BY <1>1 DEF BudgetInv, AgentInv, ThreadOK, KernelOK, JobInv, AddQuota, At
<1>3. ASSUME NEW k \in Keys, Promised(k)
      PROVE  wg[k] # j.addr
  BY <1>1, <1>2, <1>3, JobSparesPromises
<1>4. PromisesKept'
  <2>1. \A a \in Addrs : a # j.addr => quota'[a] = quota[a]
    BY <1>1, <1>2 DEF AddQuota
  <2> QED
    BY <1>3, <2>1, PromisesStay DEF AddQuota, BudgetInv
<1>5. m # None => JobSpares(m)' /\ ArmedSoFar(m)'
  <2>1. CASE m = [j EXCEPT !.at = "saddr"]
                /\ quota' = [quota EXCEPT ![j.addr] = [bytes |-> j.bytes, used |-> 0]]
    <3>1. /\ m.op = j.op /\ m.key = j.key /\ m.addr = j.addr
          /\ m.bytes = j.bytes /\ m.at = "saddr" /\ m.todo = j.todo
      BY <1>2, <2>1, JobMoves DEF JobOK, Ats
    <3>2. JobSpares(m)'
      BY <1>2, <3>1, SpareStays DEF AddQuota
    <3>3. j.addr \in Addrs /\ j.bytes \in Budgets \ {Unlimited}
      BY <1>2, JobHasAddress DEF JobOK
    <3>4. PICK q : q = [bytes |-> j.bytes, used |-> 0]
      OBVIOUS
    <3>5. q \in Quotas /\ q.bytes = j.bytes
      BY <3>3, <3>4 DEF Quotas
    <3>6. q # None
      BY <3>5, NoneAssumption
    <3>7. quota'[j.addr] = q
      BY <1>2, <2>1, <3>3, <3>4
    <3> QED
      BY <3>1, <3>2, <3>5, <3>6, <3>7 DEF ArmedSoFar, RulesMade
  <2>2. CASE ArmFailed
    BY <1>1, <1>2, <2>2, GoingOnSpares DEF AddQuota
  <2> QED
    BY <1>1, <2>1, <2>2 DEF AddQuota, Goto
<1> QED
  BY <1>1, <1>4, <1>5 DEF JobInv

LEMMA AddRuleKeepsPromises ==
    ASSUME BudgetInv, NEW d \in Directions, AddRule(d)
    PROVE  PromisesKept' /\ JobInv'
<1>1. PICK j, m : j = job /\ m = job'
  OBVIOUS
<1>2. /\ JobOK(j) /\ JobSpares(j) /\ ArmedSoFar(j) /\ j.at = d /\ j.op \in {"post", "boot"}
      /\ job # None
  BY <1>1 DEF BudgetInv, AgentInv, ThreadOK, JobInv, AddRule, At
<1>3. rules \subseteq rules'
  BY DEF AddRule
<1>4. PromisesKept'
  BY <1>3, PromisesStay DEF AddRule, BudgetInv
<1>5. m # None => JobSpares(m)' /\ ArmedSoFar(m)'
  <2>1. ASSUME NEW at \in {"daddr", "save"}, m = [j EXCEPT !.at = at],
               rules' = rules \cup {<<j.addr, d>>},
               d = IF at = "daddr" THEN "saddr" ELSE "daddr"
        PROVE  JobSpares(m)' /\ ArmedSoFar(m)'
    <3>1. /\ m.op = j.op /\ m.key = j.key /\ m.addr = j.addr
          /\ m.bytes = j.bytes /\ m.at = at /\ m.todo = j.todo
      BY <1>2, <2>1, JobMoves DEF JobOK, Ats
    <3>2. JobSpares(m)'
      BY <1>2, <3>1, SpareStays DEF AddRule, Directions
    <3>3. quota' = quota
      BY DEF AddRule
    <3> QED
      BY <1>2, <2>1, <3>1, <3>2, <3>3 DEF ArmedSoFar, RulesMade
  <2>2. CASE ArmFailed
    BY <1>1, <1>2, <2>2, GoingOnSpares DEF AddRule
  <2>3. CASE j.op = "boot" /\ m \in NextRearm(peers, j.todo)
    BY <1>1, <1>2, <2>3, GoingOnSpares DEF AddRule
  <2>4. \/ /\ rules' = rules \cup {<<j.addr, d>>}
           /\ \/ d = "saddr" /\ m = [j EXCEPT !.at = "daddr"]
              \/ d = "daddr" /\ m = [j EXCEPT !.at = "save"]
        \/ ArmFailed
        \/ j.op = "boot" /\ m \in NextRearm(peers, j.todo)
    BY <1>1, <1>2 DEF AddRule, Goto, Directions
  <2> QED
    BY <2>1, <2>2, <2>3, <2>4
<1> QED
  BY <1>1, <1>4, <1>5 DEF JobInv

LEMMA SaveKeepsPromises ==
    ASSUME BudgetInv, Save
    PROVE  PromisesKept' /\ JobInv'
<1>1. PICK j, m : j = job /\ m = job'
  OBVIOUS
<1>2. /\ JobOK(j) /\ JobSpares(j) /\ ArmedSoFar(j) /\ j.at = "save" /\ job # None
      /\ promise \in [Keys -> Budgets \cup {None}] /\ UNCHANGED <<kernel, spent>>
  BY <1>1 DEF BudgetInv, AgentInv, ThreadOK, HistoryOK, JobInv, Save, At
<1>3. PromisesKept'
  <2>1. CASE j.op # "post"
    BY <1>1, <1>2, <2>1, PromisesStay DEF Save, kernel, history, BudgetInv
  <2>2. CASE j.op = "post"
    <3>1. /\ j.key \in Keys /\ spent[j.key] = 0 /\ wg[j.key] = j.addr
          /\ j.addr \in Addrs /\ j.addr \in Leases[j.key]
      BY <1>2, <2>2, LeasesAssumption DEF JobOK, JobSpares
    <3>2. promise' = [promise EXCEPT ![j.key] = j.bytes]
      BY <1>1, <2>2 DEF Save
    <3>3. j.bytes \in Nat =>
            /\ quota[j.addr] # None /\ quota[j.addr].bytes = j.bytes
            /\ <<j.addr, "saddr">> \in rules /\ <<j.addr, "daddr">> \in rules
      BY <1>2, <2>2 DEF ArmedSoFar, RulesMade
    <3>4. quota[j.addr] # None => quota[j.addr].used \in Nat
      BY <3>1 DEF BudgetInv, AgentInv, KernelOK, Quotas
    <3>5. ASSUME NEW k \in Keys, k # j.key
          PROVE  promise'[k] = promise[k]
      BY <1>2, <3>2, <3>5
    <3>6. promise'[j.key] = j.bytes
      BY <1>2, <3>1, <3>2
    <3> QED
      BY <1>2, <3>1, <3>3, <3>4, <3>5, <3>6
      DEF kernel, BudgetInv, PromisesKept, Promised, Armed, Directions
  <2> QED
    BY <2>1, <2>2
<1>4. m # None => m.op = "sweep" /\ m.at = "wg"
  BY <1>1, SweepTakes DEF Save, Finish
<1> QED
  BY <1>1, <1>3, <1>4 DEF JobInv, JobSpares, ArmedSoFar, RulesMade

\* A packet counts against a quota and changes none of its other fields.
LEMMA PacketCounts ==
    ASSUME AgentInv, NEW k \in Keys, NEW d \in Directions, Packet(k, d)
    PROVE  \A a \in Addrs :
              /\ quota'[a] # None <=> quota[a] # None
              /\ quota[a] # None =>
                    quota'[a].bytes = quota[a].bytes /\ quota'[a].used >= quota[a].used
<1> SUFFICES ASSUME NEW a \in Addrs
    PROVE  /\ quota'[a] # None <=> quota[a] # None
           /\ quota[a] # None =>
                 quota'[a].bytes = quota[a].bytes /\ quota'[a].used >= quota[a].used
  OBVIOUS
<1>1. CASE quota'[a] = quota[a]
  BY <1>1 DEF AgentInv, KernelOK, Quotas
<1>2. CASE quota[a] # None /\ quota'[a] = [quota[a] EXCEPT !.used = quota[a].used + 1]
  <2>1. PICK q, r : q = quota[a] /\ r = [q EXCEPT !.used = q.used + 1]
    OBVIOUS
  <2>2. q \in Quotas
    BY <1>2, <2>1 DEF AgentInv, KernelOK
  <2>3. r \in Quotas /\ r.bytes = q.bytes /\ r.used >= q.used
    BY <2>1, <2>2 DEF Quotas
  <2>4. r # None
    BY <2>3, NoneAssumption
  <2> QED
    BY <1>2, <2>1, <2>3, <2>4
<1> QED
  BY <1>1, <1>2 DEF Packet, AgentInv, KernelOK

LEMMA PacketLeavesJob ==
    ASSUME AgentInv, NEW k \in Keys, NEW d \in Directions, Packet(k, d),
           NEW j, j = job, job # None, ArmedSoFar(j)
    PROVE  ArmedSoFar(j)'
<1>1. j.at \in {"saddr", "daddr"} \/ RulesMade(j) => j.addr \in Addrs
  BY JobHasAddress DEF RulesMade, AgentInv, ThreadOK
<1>2. \A a \in Addrs :
        /\ quota'[a] # None <=> quota[a] # None
        /\ quota[a] # None => quota'[a].bytes = quota[a].bytes
  BY PacketCounts
<1>3. rules' = rules
  BY DEF Packet
<1> QED
  BY <1>1, <1>2, <1>3 DEF ArmedSoFar, RulesMade

LEMMA PacketKeepsPromises ==
    ASSUME DisjointLeases, BudgetInv, NEW k \in Keys, NEW d \in Directions, Packet(k, d)
    PROVE  PromisesKept' /\ JobInv'
<1>1. /\ UNCHANGED <<wg, rules, peers, job, promise>>
      /\ spent \in [Keys -> 0 .. MaxSpent] /\ quota \in [Addrs -> Quotas \cup {None}]
      /\ MaxSpent \in Nat
  BY BoundsAssumption DEF Packet, BudgetInv, AgentInv, HistoryOK, KernelOK
<1>2. \A a \in Addrs :
        /\ quota'[a] # None <=> quota[a] # None
        /\ quota[a] # None =>
              quota'[a].bytes = quota[a].bytes /\ quota'[a].used >= quota[a].used
  BY PacketCounts DEF BudgetInv
<1>3. ASSUME NEW i \in Keys, Promised(i), i # k \/ spent' = spent
      PROVE  /\ spent'[i] <= promise[i]
             /\ wg[i] \in Addrs =>
                   /\ quota'[wg[i]] # None /\ quota'[wg[i]].bytes = promise[i]
                   /\ spent'[i] <= quota'[wg[i]].used
  <2>1. spent'[i] = spent[i] /\ spent[i] \in Nat
    BY <1>1, <1>3 DEF Packet
  <2>2. \A a \in Addrs : /\ quota[a] # None => quota[a].used \in Nat
                         /\ quota'[a] # None => quota'[a].used \in Nat
    <3>1. AgentInv'
      BY StepTypes DEF Next, BudgetInv
    <3> QED
      BY <3>1 DEF BudgetInv, AgentInv, KernelOK, Quotas
  <2> QED
    BY <1>2, <1>3, <2>1, <2>2 DEF BudgetInv, PromisesKept, Armed
<1>4. ASSUME Promised(k), spent' # spent
      PROVE  /\ spent'[k] <= promise[k]
             /\ quota'[wg[k]] # None /\ quota'[wg[k]].bytes = promise[k]
             /\ spent'[k] <= quota'[wg[k]].used
  <2>1. PICK a : a = wg[k]
    OBVIOUS
  <2>2. a \in Addrs
    BY <2>1 DEF Packet
  <2>3. /\ quota[a] # None /\ quota[a].bytes = promise[k] /\ <<a, d>> \in rules
        /\ spent[k] <= quota[a].used
    BY <1>4, <2>1, <2>2 DEF BudgetInv, PromisesKept, Armed
  <2>4. quota[a].used \in Nat /\ quota[a].bytes \in Nat /\ spent[k] \in Nat
    <3>1. quota[a] \in Quotas
      BY <1>1, <2>2, <2>3
    <3>2. quota[a].used \in Nat
      BY <3>1 DEF Quotas
    <3>3. spent[k] \in Nat
      BY <1>1
    <3> QED
      BY <1>4, <2>3, <3>2, <3>3 DEF Promised
  <2>5. spent'[k] = spent[k] + 1 /\ ~ (quota[a].used + 1 >= quota[a].bytes)
    BY <1>1, <1>4, <2>1, <2>3 DEF Packet, Promised
  <2>6. quota' = [quota EXCEPT ![a].used = @ + 1]
    BY <2>1, <2>3, <2>4, <2>5 DEF Packet
  <2>7. PICK q, r : q = quota[a] /\ r = [q EXCEPT !.used = q.used + 1]
    OBVIOUS
  <2>8. quota'[a] = r /\ q \in Quotas
    BY <1>1, <2>2, <2>3, <2>6, <2>7
  <2>9. r.used = q.used + 1 /\ r.bytes = q.bytes /\ r # None
    <3>1. r \in Quotas /\ r.used = q.used + 1 /\ r.bytes = q.bytes
      BY <2>7, <2>8 DEF Quotas
    <3> QED
      BY <3>1, NoneAssumption
  <2> QED
    BY <2>1, <2>3, <2>4, <2>5, <2>7, <2>8, <2>9
<1>5. PromisesKept'
  <2>1. \A i \in Keys : Promised(i) /\ wg[i] \in Addrs => {wg[i]} \X Directions \subseteq rules
    BY DEF BudgetInv, PromisesKept, Armed
  <2> QED
    BY <1>1, <1>3, <1>4, <2>1 DEF PromisesKept, Promised, Armed
<1>6. JobInv'
  <2> SUFFICES ASSUME job # None PROVE JobSpares(job)' /\ ArmedSoFar(job)'
    BY <1>1 DEF JobInv
  <2>1. PICK j : j = job
    OBVIOUS
  <2>2. JobOK(j) /\ JobSpares(j) /\ ArmedSoFar(j) /\ RegistryOK(peers)
    BY <2>1 DEF BudgetInv, JobInv, AgentInv, ThreadOK
  <2>3. JobSpares(j)'
    <3>1. j.op = "post" => j.key \in Keys /\ promise[j.key] \notin Nat
      BY <2>2, NoneIsNoBudget DEF JobOK, JobSpares
    <3>2. \/ UNCHANGED spent
          \/ promise[k] \in Nat /\ spent' = [spent EXCEPT ![k] = @ + 1]
      BY DEF Packet
    <3>3. j.op = "post" => spent'[j.key] = spent[j.key]
      BY <1>1, <3>1, <3>2
    <3> QED
      BY <1>1, <2>2, <3>3 DEF JobSpares, Promised
  <2>4. ArmedSoFar(j)'
    BY <2>1, <2>2, PacketLeavesJob DEF BudgetInv
  <2> QED
    BY <1>1, <2>1, <2>3, <2>4
<1> QED
  BY <1>5, <1>6

LEMMA CrashKeepsPromises ==
    ASSUME BudgetInv, Crash
    PROVE  PromisesKept' /\ JobInv' /\ faultsLeft'.reboot = 0
<1>1. PromisesKept'
  BY PromisesStay DEF Crash, kernel, BudgetInv
<1> QED
  BY <1>1 DEF Crash, JobInv, BudgetInv, AgentInv, FaultsOK

LEMMA InitKeepsPromises == MaxReboots = 0 /\ Init => BudgetInv
BY InitTypes, NoneIsNoBudget
DEF Init, BudgetInv, PromisesKept, Promised, JobInv, NoKeys

LEMMA StepKeepsPromises ==
    ASSUME DistinctMentions, DisjointLeases, "sweepwg" \notin Faults, BudgetInv, [Next]_vars
    PROVE  BudgetInv'
<1>1. AgentInv'
  BY StepTypes DEF BudgetInv
<1>2. ~ Reboot
  BY DEF BudgetInv, Reboot
<1>3. PromisesKept' /\ JobInv'
  <2>1. CASE RunJob
    BY <2>1, WgSetKeepsPromises, WgRemoveKeepsPromises, PersistKeepsPromises,
       DeleteRuleKeepsPromises, DeleteQuotaKeepsPromises, AddQuotaKeepsPromises,
       AddRuleKeepsPromises, SaveKeepsPromises DEF RunJob
  <2>2. CASE UNCHANGED vars
    BY <2>2 DEF vars, kernel, disk, history, BudgetInv, PromisesKept, Promised, Armed,
       JobInv, JobSpares, ArmedSoFar, RulesMade
  <2> QED
    BY <1>2, <2>1, <2>2, RequestKeepsPromises, BootKeepsPromises, PacketKeepsPromises,
       CrashKeepsPromises DEF Next
<1>4. faultsLeft'.reboot = 0
  <2>1. UNCHANGED faultsLeft \/ Crash
    BY <1>2 DEF Next, vars, PostPeer, DeletePeer, Sweep, Boot, RunJob, WgSet, WgRemove,
       Persist, DeleteRule, DeleteQuota, AddQuota, AddRule, Save, Packet
  <2> QED
    BY <2>1, CrashKeepsPromises DEF BudgetInv
<1> QED
  BY <1>1, <1>3, <1>4 DEF BudgetInv

\* Once POST /peers is answered no more than remainingBytes of the peer pass until
\* the next one, whatever jobs, failed commands and restarts of the agent come
\* between, when quota names are not part of each other, addresses are leased to
\* one key, the sweep's wg command works and the machine stays up.
THEOREM BudgetsKept ==
    ASSUME DistinctMentions, DisjointLeases, "sweepwg" \notin Faults, MaxReboots = 0
    PROVE  Spec => []BudgetRespected
<1>1. Init => BudgetInv
  BY InitKeepsPromises
<1>2. BudgetInv /\ [Next]_vars => BudgetInv'
  BY StepKeepsPromises
<1>3. BudgetInv => BudgetRespected
  BY BudgetsHold DEF BudgetInv
<1> QED
  BY <1>1, <1>2, <1>3, PTL DEF Spec

-----------------------------------------------------------------------------
(* Why a registered peer is enforced between jobs: a job disarms none but  *)
(* the peer it works for, and ends with that one armed or unregistered;    *)
(* the reconciliation takes all metered peers, for when it starts no quota *)
(* is left.                                                                *)

Enforced(k) == Metered(peers, k) => Armed(peers[k].addr, peers[k].bytes)

\* The peers a job leaves without enforcement for a while.
Exposed(j) ==
    IF j.at \in {"wg", "persist"} \/ (j.op = "boot" /\ j.at = "save") THEN {}
    ELSE IF j.op = "boot" THEN j.todo \cup {j.key} ELSE {j.key}

OthersEnforced ==
    /\ up /\ job = None => \A k \in Keys : Enforced(k)
    /\ job # None => ArmedSoFar(job) /\ \A k \in Keys \ Exposed(job) : Enforced(k)

NodeIsBlank == quota = [a \in Addrs |-> None]

EnforcedInv ==
    /\ AgentInv
    /\ OthersEnforced
    /\ ~ up => NodeIsBlank
    /\ faultsLeft.crash = 0

LEMMA EnforcedBetweenJobs == EnforcedInv => RegisteredPeersEnforced
BY DEF EnforcedInv, OthersEnforced, Enforced, Armed, RegisteredPeersEnforced

LEMMA EnforcedStays ==
    ASSUME NEW k \in Keys, Enforced(k), peers' = peers,
           NEW a, a = peers[k].addr,
           Metered(peers, k) =>
              /\ quota[a] # None => quota'[a] # None /\ quota'[a].bytes = quota[a].bytes
              /\ \A d \in Directions : <<a, d>> \in rules => <<a, d>> \in rules'
    PROVE  Enforced(k)'
BY DEF Enforced, Metered, Armed

LEMMA EnforcedUnchanged ==
    ASSUME UNCHANGED <<quota, rules, peers>>, NEW k \in Keys, Enforced(k)
    PROVE  Enforced(k)'
BY DEF Enforced, Metered, Armed

\* The next peer of a reconciliation and the rest are all it has to treat.
LEMMA RearmCovers ==
    ASSUME NEW reg, NEW todo, NEW m, m \in NextRearm(reg, todo)
    PROVE  todo \subseteq Exposed(m) /\ ArmedSoFar(m)'
BY DEF NextRearm, Job, Exposed, ArmedSoFar, RulesMade

\* A job arms and disarms the peer it works for and no other.
LEMMA JobLeavesOthers ==
    ASSUME DisjointLeases, AgentInv, NEW j, j = job, job # None,
           j.at \in {"unrule", "quota", "saddr", "daddr"},
           NEW k \in Keys \ Exposed(j), Metered(peers, k)
    PROVE  peers[k].addr # j.addr
<1>1. JobOK(j) /\ RegistryOK(peers)
  BY DEF AgentInv, ThreadOK
<1>2. j.key \in Keys /\ j.addr \in Leases[j.key] /\ peers[k].addr \in Leases[k]
  BY <1>1, JobHasAddress DEF RegistryOK, Metered
<1>3. k # j.key
  BY DEF Exposed
<1> QED
  BY <1>2, <1>3 DEF DisjointLeases

LEMMA RequestEnforces ==
    ASSUME EnforcedInv,
           \/ \E k \in Keys, a \in Addrs, b \in Budgets : PostPeer(k, a, b)
           \/ \E k \in Keys : DeletePeer(k)
           \/ Sweep
    PROVE  OthersEnforced'
<1>1. PICK m : m = job'
  OBVIOUS
<1>2. up /\ job = None /\ UNCHANGED <<quota, rules, peers>>
  BY DEF PostPeer, DeletePeer, Sweep, kernel
<1>3. \A k \in Keys : Enforced(k)'
  BY <1>2, EnforcedUnchanged DEF EnforcedInv, OthersEnforced
<1>4. m # None => m.at = "wg"
  BY <1>1, SweepTakes DEF PostPeer, DeletePeer, Sweep, Job
<1> QED
  BY <1>1, <1>3, <1>4 DEF OthersEnforced, ArmedSoFar, RulesMade

LEMMA BootEnforces ==
    ASSUME EnforcedInv, Boot
    PROVE  OthersEnforced'
<1> DEFINE lost == {k \in Keys : Metered(stateFile, k) /\ quota[stateFile[k].addr] = None}
<1>1. PICK m : m = job'
  OBVIOUS
<1>2. m \in NextRearm(stateFile, lost) /\ NodeIsBlank /\ peers' = stateFile
  BY <1>1 DEF Boot, EnforcedInv
<1>3. lost \subseteq Exposed(m) /\ ArmedSoFar(m)'
  BY <1>2, RearmCovers
<1>4. ASSUME NEW k \in Keys, Metered(stateFile, k)
      PROVE  k \in lost
  <2>1. stateFile[k] \in Entries
    BY <1>4 DEF EnforcedInv, AgentInv, DiskOK, RegistryOK, Registries, Metered
  <2>2. stateFile[k].addr \in Addrs
    BY <2>1 DEF Entries
  <2> QED
    BY <1>2, <1>4, <2>2 DEF NodeIsBlank
<1>5. m # None
  <2>1. RegistryOK(stateFile) /\ \A k \in lost : Metered(stateFile, k)
    BY DEF EnforcedInv, AgentInv, DiskOK
  <2> QED
    BY <1>2, <2>1, RearmGoesOn
<1> HIDE DEF lost
<1>6. ASSUME NEW k \in Keys \ Exposed(m)
      PROVE  Enforced(k)'
  BY <1>2, <1>3, <1>4, <1>6 DEF Enforced, Metered
<1> QED
  BY <1>1, <1>3, <1>5, <1>6 DEF OthersEnforced, Exposed

\* The commands before the first of nft, and the ways to give up there.
LEMMA WgEnforces ==
    ASSUME EnforcedInv, WgSet \/ WgRemove \/ Persist
    PROVE  OthersEnforced'
<1>1. PICK j, m : j = job /\ m = job'
  OBVIOUS
<1>2. /\ JobOK(j) /\ j.at \in {"wg", "persist"} /\ UNCHANGED <<quota, rules, peers>>
      /\ job # None
  BY <1>1 DEF EnforcedInv, AgentInv, ThreadOK, WgSet, WgRemove, Persist, At, kernel
<1>3. \A k \in Keys : Enforced(k)'
  BY <1>1, <1>2, EnforcedUnchanged DEF EnforcedInv, OthersEnforced, Exposed
<1>4. m # None => m.at \in {"persist", "unrule"}
  <2>1. \/ m = None
        \/ m = [j EXCEPT !.at = "persist"]
        \/ m = [j EXCEPT !.at = "unrule"]
        \/ m = [j EXCEPT !.at = "unrule", !.addr = peers[j.key].addr]
    BY <1>1 DEF WgSet, WgRemove, Persist, Goto, Finish
  <2> QED
    BY <1>2, <2>1 DEF JobOK, Jobs
<1> QED
  BY <1>1, <1>3, <1>4 DEF OthersEnforced, ArmedSoFar, RulesMade

LEMMA RemovalEnforces ==
    ASSUME DistinctMentions, DisjointLeases, EnforcedInv, DeleteRule \/ DeleteQuota
    PROVE  OthersEnforced'
<1>1. PICK j, m : j = job /\ m = job'
  OBVIOUS
<1>2. /\ JobOK(j) /\ j.at = "unrule" /\ peers' = peers /\ job # None /\ RegistryOK(peers)
      /\ rules \subseteq Addrs \X Directions /\ quota \in [Addrs -> Quotas \cup {None}]
  BY <1>1 DEF EnforcedInv, AgentInv, ThreadOK, KernelOK, DeleteRule, DeleteQuota, At
<1>3. j.addr \in Addrs
  BY <1>2, JobHasAddress
<1>4. ASSUME NEW a \in Addrs, a # j.addr
      PROVE  /\ quota'[a] = quota[a]
             /\ \A d \in Directions : <<a, d>> \in rules => <<a, d>> \in rules'
  <2>1. CASE DeleteRule
    <3>1. PICK r \in RuleHandlesFor(j.addr) : rules' = rules \ {r}
      BY <1>1, <2>1 DEF DeleteRule
    <3>2. r[1] = j.addr
      BY <1>2, <1>3, <3>1 DEF DistinctMentions, RuleHandlesFor
    <3> QED
      BY <1>4, <2>1, <3>1, <3>2 DEF DeleteRule
  <2>2. CASE DeleteQuota
    BY <1>1, <1>2, <1>4, <2>2 DEF DeleteQuota
  <2> QED
    BY <2>1, <2>2
<1>5. ASSUME NEW k \in Keys \ Exposed(j)
      PROVE  Enforced(k)'
  <2>1. Enforced(k)
    BY <1>1, <1>2, <1>5 DEF EnforcedInv, OthersEnforced
  <2>2. PICK a : a = peers[k].addr
    OBVIOUS
  <2>3. Metered(peers, k) => a \in Addrs /\ a # j.addr
    BY <1>1, <1>2, <2>2, JobLeavesOthers
    DEF EnforcedInv, RegistryOK, Registries, Entries, Metered
  <2> QED
    BY <1>2, <1>4, <2>1, <2>2, <2>3, EnforcedStays
<1>6. m # None /\ ArmedSoFar(m)' /\ Exposed(m) = Exposed(j)
  <2>1. CASE DeleteRule
    BY <1>1, <1>2, <2>1 DEF DeleteRule, ArmedSoFar, RulesMade
  <2>2. CASE DeleteQuota
    <3>1. PICK at \in {"quota", "save"} :
            /\ m = [j EXCEPT !.at = at]
            /\ j.op \in {"post", "boot"} /\ j.bytes # Unlimited => at = "quota"
      BY <1>1, <2>2 DEF DeleteQuota, Goto
    <3>2. /\ m \in Jobs /\ m.op = j.op /\ m.key = j.key /\ m.addr = j.addr
          /\ m.bytes = j.bytes /\ m.at = at /\ m.todo = j.todo
      BY <1>2, <3>1, JobMoves DEF JobOK, Ats
    <3>3. j.op = "boot" => at = "quota"
      BY <1>2, <3>1 DEF JobOK, Metered
    <3>4. ArmedSoFar(m)'
      BY <3>1, <3>2, NoneIsNoBudget DEF ArmedSoFar, RulesMade
    <3>5. Exposed(m) = Exposed(j)
      BY <1>2, <3>2, <3>3 DEF Exposed
    <3> QED
      BY <3>2, <3>4, <3>5, NoneAssumption
  <2> QED
    BY <2>1, <2>2
<1> QED
  BY <1>1, <1>5, <1>6 DEF OthersEnforced, Exposed

LEMMA AddQuotaEnforces ==
    ASSUME "nft" \notin Faults, DisjointLeases, EnforcedInv, AddQuota
    PROVE  OthersEnforced'
<1>1. PICK j, m : j = job /\ m = job'
  OBVIOUS
<1>2. /\ JobOK(j) /\ j.at = "quota" /\ j.op \in {"post", "boot"} /\ UNCHANGED <<peers, rules>>
      /\ job # None /\ RegistryOK(peers) /\ quota \in [Addrs -> Quotas \cup {None}]
  BY <1>1 DEF EnforcedInv, AgentInv, ThreadOK, KernelOK, AddQuota, At
<1>3. PICK q : q = [bytes |-> j.bytes, used |-> 0]
  OBVIOUS
<1>4. quota' = [quota EXCEPT ![j.addr] = q] /\ m = [j EXCEPT !.at = "saddr"]
  BY <1>1, <1>3 DEF AddQuota, Goto
<1>5. /\ m \in Jobs /\ m.op = j.op /\ m.key = j.key /\ m.addr = j.addr
      /\ m.bytes = j.bytes /\ m.at = "saddr" /\ m.todo = j.todo
  BY <1>2, <1>4, JobMoves DEF JobOK, Ats
<1>6. q # None /\ q.bytes = j.bytes
  <2>1. j.bytes \in Budgets \ {Unlimited}
    BY <1>2 DEF JobOK
  <2>2. q \in Quotas /\ q.bytes = j.bytes
    BY <1>3, <2>1 DEF Quotas
  <2> QED
    BY <2>2, NoneAssumption
<1>7. ArmedSoFar(m)'
  <2>1. j.addr \in Addrs
    BY <1>2, JobHasAddress
  <2> QED
    BY <1>2, <1>4, <1>5, <1>6, <2>1 DEF ArmedSoFar, RulesMade
<1>8. ASSUME NEW k \in Keys \ Exposed(j)
      PROVE  Enforced(k)'
  <2>1. Enforced(k)
    BY <1>1, <1>2, <1>8 DEF EnforcedInv, OthersEnforced
  <2>2. PICK a : a = peers[k].addr
    OBVIOUS
  <2>3. Metered(peers, k) => a \in Addrs /\ a # j.addr
    BY <1>1, <1>2, <2>2, JobLeavesOthers
    DEF EnforcedInv, RegistryOK, Registries, Entries, Metered
  <2>4. Metered(peers, k) => quota'[a] = quota[a]
    BY <1>2, <1>4, <2>3
  <2> QED
    BY <1>2, <2>1, <2>2, <2>4, EnforcedStays
<1>9. m # None /\ Exposed(m) = Exposed(j)
  BY <1>2, <1>5, NoneAssumption DEF Exposed
<1> QED
  BY <1>1, <1>7, <1>8, <1>9 DEF OthersEnforced, Exposed

LEMMA AddRuleEnforces ==
    ASSUME "nft" \notin Faults, EnforcedInv, NEW d \in Directions, AddRule(d)
    PROVE  OthersEnforced'
<1>1. PICK j, m : j = job /\ m = job'
  OBVIOUS
<1>2. /\ JobOK(j) /\ ArmedSoFar(j) /\ j.at = d /\ j.op \in {"post", "boot"}
      /\ UNCHANGED <<peers, quota>> /\ job # None /\ RegistryOK(peers)
      /\ rules' = rules \cup {<<j.addr, d>>}
  BY <1>1 DEF EnforcedInv, OthersEnforced, AgentInv, ThreadOK, AddRule, At
<1>3. ASSUME NEW k \in Keys \ Exposed(j)
      PROVE  Enforced(k)'
  <2>1. Enforced(k)
    BY <1>1, <1>2, <1>3 DEF EnforcedInv, OthersEnforced
  <2> QED
    BY <1>2, <2>1, EnforcedStays
<1>4. ASSUME NEW at \in {"daddr", "save"}, m = [j EXCEPT !.at = at],
             \/ at = "daddr" /\ d = "saddr"
             \/ at = "save" /\ d = "daddr" /\ j.op = "post"
      PROVE  OthersEnforced'
  <2>1. /\ m \in Jobs /\ m.op = j.op /\ m.key = j.key /\ m.addr = j.addr
        /\ m.bytes = j.bytes /\ m.at = at /\ m.todo = j.todo
    BY <1>2, <1>4, JobMoves DEF JobOK, Ats
  <2>2. ArmedSoFar(m)'
    BY <1>2, <1>4, <2>1 DEF ArmedSoFar, RulesMade
  <2>3. m # None /\ Exposed(m) = Exposed(j)
    BY <1>2, <1>4, <2>1, NoneAssumption DEF Exposed, Directions
  <2> QED
    BY <1>1, <1>3, <2>2, <2>3 DEF OthersEnforced, Exposed
<1>5. CASE d = "daddr" /\ j.op = "boot" /\ m \in NextRearm(peers, j.todo)
  <2>1. j.todo \subseteq Exposed(m) /\ ArmedSoFar(m)'
    BY <1>5, RearmCovers
  <2>2. m # None
    <3>1. j.todo \in SUBSET Keys /\ \A k \in j.todo : Metered(peers, k)
      BY <1>2 DEF JobOK, Jobs
    <3> QED
      BY <1>2, <1>5, <3>1, RearmGoesOn
  <2>3. Enforced(j.key)'
    <3>1. j.addr = peers[j.key].addr /\ j.bytes = peers[j.key].bytes /\ j.bytes \in Nat
      BY <1>2, <1>5, BudgetsAssumption DEF JobOK
    <3> QED
      BY <1>2, <1>5, <3>1 DEF ArmedSoFar, Enforced, Armed, Metered, Directions
  <2>4. ASSUME NEW k \in Keys \ Exposed(m), k # j.key
        PROVE  Enforced(k)'
    BY <1>2, <1>3, <1>5, <2>1, <2>4 DEF Exposed
  <2> QED
    BY <1>1, <2>1, <2>2, <2>3, <2>4 DEF OthersEnforced, Exposed
<1>6. \/ d = "saddr" /\ m = [j EXCEPT !.at = "daddr"]
      \/ d = "daddr" /\ j.op = "post" /\ m = [j EXCEPT !.at = "save"]
      \/ d = "daddr" /\ j.op = "boot" /\ m \in NextRearm(peers, j.todo)
  BY <1>1, <1>2 DEF AddRule, Goto, Directions
<1> QED
  BY <1>4, <1>5, <1>6

LEMMA SaveEnforces ==
    ASSUME EnforcedInv, Save
    PROVE  OthersEnforced'
<1>1. PICK j, m : j = job /\ m = job'
  OBVIOUS
<1>2. /\ JobOK(j) /\ ArmedSoFar(j) /\ j.at = "save" /\ UNCHANGED <<quota, rules>>
      /\ job # None /\ RegistryOK(peers)
  BY <1>1 DEF EnforcedInv, OthersEnforced, AgentInv, ThreadOK, Save, At, kernel
<1>3. ASSUME NEW k \in Keys, k = j.key, j.op # "boot"
      PROVE  Enforced(k)'
  <2>1. peers \in [Keys -> Entries \cup {None}]
    BY <1>2 DEF RegistryOK, Registries
  <2>2. CASE j.op = "post"
    <3>1. peers' = [peers EXCEPT ![j.key] = [addr |-> j.addr, bytes |-> j.bytes]]
      BY <1>1, <2>2 DEF Save, UpdatedRegistry
    <3>2. peers'[k].addr = j.addr /\ peers'[k].bytes = j.bytes
      BY <1>3, <2>1, <3>1
    <3>3. j.bytes # Unlimited => j.bytes \in Nat
      BY <1>2, <2>2, BudgetsAssumption DEF JobOK
    <3> QED
      BY <1>2, <2>2, <3>2, <3>3 DEF ArmedSoFar, RulesMade, Enforced, Metered, Armed, Directions
  <2>3. CASE j.op \in {"delete", "sweep"}
    BY <1>1, <1>3, <2>1, <2>3 DEF Save, UpdatedRegistry, Enforced, Metered
  <2> QED
    BY <1>2, <1>3, <2>2, <2>3 DEF JobOK, Jobs
<1>4. ASSUME NEW k \in Keys, k # j.key \/ j.op = "boot"
      PROVE  Enforced(k)'
  <2>1. Enforced(k)
    BY <1>1, <1>2, <1>4 DEF EnforcedInv, OthersEnforced, Exposed
  <2>2. peers'[k] = peers[k]
    BY <1>1, <1>2, <1>4 DEF Save, UpdatedRegistry, RegistryOK, Registries
  <2> QED
    BY <1>2, <2>1, <2>2 DEF Enforced, Metered, Armed
<1>5. m # None => m.at = "wg"
  BY <1>1, SweepTakes DEF Save, Finish
<1> QED
  BY <1>1, <1>3, <1>4, <1>5 DEF OthersEnforced, ArmedSoFar, RulesMade

LEMMA PacketEnforces ==
    ASSUME EnforcedInv, NEW k \in Keys, NEW d \in Directions, Packet(k, d)
    PROVE  OthersEnforced' /\ (~ up' => NodeIsBlank')
<1>1. UNCHANGED <<rules, peers, job, up>>
  BY DEF Packet
<1>2. \A a \in Addrs :
        /\ quota'[a] # None <=> quota[a] # None
        /\ quota[a] # None => quota'[a].bytes = quota[a].bytes
  BY PacketCounts DEF EnforcedInv
<1>3. ASSUME NEW i \in Keys, Enforced(i)
      PROVE  Enforced(i)'
  <2>1. PICK a : a = peers[i].addr
    OBVIOUS
  <2>2. Metered(peers, i) => a \in Addrs
    BY <2>1 DEF EnforcedInv, AgentInv, ThreadOK, RegistryOK, Registries, Entries, Metered
  <2> QED
    BY <1>1, <1>2, <1>3, <2>1, <2>2, EnforcedStays
<1>4. ASSUME NEW j, j = job, job # None
      PROVE  ArmedSoFar(j)' /\ \A i \in Keys \ Exposed(j) : Enforced(i)'
  BY <1>3, <1>4, PacketLeavesJob DEF EnforcedInv, OthersEnforced
<1>5. OthersEnforced'
  <2>1. PICK j : j = job
    OBVIOUS
  <2> QED
    BY <1>1, <1>3, <1>4, <2>1 DEF EnforcedInv, OthersEnforced
<1>6. ~ up => quota' = quota
  BY DEF EnforcedInv, NodeIsBlank, Packet
<1> QED
  BY <1>1, <1>5, <1>6 DEF EnforcedInv, NodeIsBlank

LEMMA StepEnforces ==
    ASSUME DistinctMentions, DisjointLeases, "nft" \notin Faults, EnforcedInv, [Next]_vars
    PROVE  EnforcedInv'
<1>1. AgentInv'
  BY StepTypes DEF EnforcedInv
<1>2. ~ Crash
  BY DEF EnforcedInv, Crash
<1>3. CASE Reboot
  <2>1. faultsLeft'.crash = 0
    BY <1>3 DEF EnforcedInv, AgentInv, FaultsOK, Reboot
  <2> QED
    BY <1>1, <1>3, <2>1 DEF Reboot, EnforcedInv, OthersEnforced, NodeIsBlank
<1>4. CASE UNCHANGED vars
  BY <1>1, <1>4 DEF vars, kernel, disk, history, EnforcedInv, OthersEnforced, NodeIsBlank,
     Enforced, Metered, Armed, ArmedSoFar, RulesMade
<1>5. CASE Next /\ ~ Reboot
  <2>1. UNCHANGED faultsLeft
    BY <1>2, <1>5 DEF Next, PostPeer, DeletePeer, Sweep, Boot, RunJob, WgSet, WgRemove,
       Persist, DeleteRule, DeleteQuota, AddQuota, AddRule, Save, Packet
  <2>2. CASE \E k \in Keys, d \in Directions : Packet(k, d)
    BY <1>1, <2>1, <2>2, PacketEnforces DEF EnforcedInv
  <2>3. CASE ~ \E k \in Keys, d \in Directions : Packet(k, d)
    <3>1. up'
      BY <1>2, <1>5, <2>3 DEF Next, PostPeer, DeletePeer, Sweep, Boot, RunJob, WgSet,
         WgRemove, Persist, DeleteRule, DeleteQuota, AddQuota, AddRule, Save, At,
         EnforcedInv, AgentInv, ThreadOK
    <3>2. OthersEnforced'
      BY <1>2, <1>5, <2>3, RequestEnforces, BootEnforces, WgEnforces, RemovalEnforces,
         AddQuotaEnforces, AddRuleEnforces, SaveEnforces DEF Next, RunJob
    <3> QED
      BY <1>1, <2>1, <3>1, <3>2 DEF EnforcedInv
  <2> QED
    BY <2>2, <2>3
<1> QED
  BY <1>3, <1>4, <1>5

LEMMA InitEnforces == MaxCrashes = 0 /\ Init => EnforcedInv
BY InitTypes DEF Init, EnforcedInv, OthersEnforced, NodeIsBlank

\* Between jobs every metered peer of the registry has its quota, of the recorded
\* size, and both rules, also after reboots of the machine, when quota names are
\* not part of each other, addresses are leased to one key, nft works and the
\* agent dies only with the machine.
THEOREM PeersEnforced ==
    ASSUME DistinctMentions, DisjointLeases, "nft" \notin Faults, MaxCrashes = 0
    PROVE  Spec => []RegisteredPeersEnforced
<1>1. Init => EnforcedInv
  BY InitEnforces
<1>2. EnforcedInv /\ [Next]_vars => EnforcedInv'
  BY StepEnforces
<1> QED
  BY <1>1, <1>2, EnforcedBetweenJobs, PTL DEF Spec
=============================================================================
