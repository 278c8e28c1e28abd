--------------------------- MODULE PeerAllocation ---------------------------
(***************************************************************************)
(* How POST /v1/sessions finds or creates the peers row of a key on one    *)
(* server: the idempotency lookup and allocatePeer (routes/sessions.js),   *)
(* with allocateAddress (utils/ip.js), statement by statement, over        *)
(* Postgres at READ COMMITTED:                                             *)
(*                                                                         *)
(*  - SELECT ... FOR UPDATE reads the rows committed when the statement    *)
(*    starts, waits for the transactions that have locked one of them,     *)
(*    drops those deleted meanwhile and never sees a later insert;         *)
(*  - INSERT waits for an uncommitted row with the same (server, key) or   *)
(*    (server, address) and fails if such a row is committed               *)
(*    (UNIQUE constraints of 001_initial_schema.sql);                      *)
(*  - DELETE waits for the transaction that has locked the row.            *)
(***************************************************************************)
EXTENDS IpPool

CONSTANTS
    Keys,        \* WireGuard public keys
    Requests     \* POST /v1/sessions handlers that may run at once

ASSUME NoneAssumption == None \notin Keys

VARIABLES
    rows,        \* rows[k]: assigned_ip of the committed peers row of k, or None
    stage,       \* stage[r]: the statement handler r runs next
    key,         \* key[r]: publicKey of the body of r
    held,        \* held[r]: keys of the rows r's SELECT returned, then locked
    pick         \* pick[r]: the address r chose, or None

vars == <<rows, stage, key, held, pick>>

Stages == {"idle", "lookup", "begin", "locking", "picked", "inserted",
           "full", "failing", "granted", "reused", "refused", "error"}

-----------------------------------------------------------------------------
(* Postgres *)

Committed == {k \in Keys : rows[k] # None}

\* Faulty variant: a plain SELECT, which locks nothing.
HoldsNoLocks(r) == FALSE

\* Row locks live from the SELECT to the end of the transaction.
HoldsLocks(r) == stage[r] # "locking"

Locked(k, others) == \E r \in others : HoldsLocks(r) /\ k \in held[r]

\* Faulty variant: peers lacks UNIQUE (server_id, assigned_ip).
KeyConflict(k, a) == rows[k] # None

\* The rows that collide with (k, a) in a unique index of peers.
CommittedConflict(k, a) == rows[k] # None \/ \E j \in Keys : rows[j] = a

PendingConflict(r) ==
    \E s \in Requests \ {r} :
        stage[s] = "inserted" /\ (key[s] = key[r] \/ pick[s] = pick[r])

-----------------------------------------------------------------------------
Init ==
    /\ rows = [k \in Keys |-> None]
    /\ stage = [r \in Requests |-> "idle"]
    /\ key = [r \in Requests |-> None]
    /\ held = [r \in Requests |-> {}]
    /\ pick = [r \in Requests |-> None]

Goto(r, from, to) ==
    /\ stage[r] = from
    /\ stage' = [stage EXCEPT ![r] = to]

\* The handler passed its gates and is about to look for an existing row.
Start(r, k) ==
    /\ Goto(r, "idle", "lookup")
    /\ key' = [key EXCEPT ![r] = k]
    /\ UNCHANGED <<rows, held, pick>>

\* "Idempotency: reuse an existing active peer for this (server, pubkey)".
Lookup(r) ==
    /\ Goto(r, "lookup", IF rows[key[r]] # None THEN "reused" ELSE "begin")
    /\ UNCHANGED <<rows, key, held, pick>>

\* BEGIN, and the snapshot of SELECT assigned_ip ... FOR UPDATE.
SnapshotUsed(r) ==
    /\ Goto(r, "begin", "locking")
    /\ held' = [held EXCEPT ![r] = Committed]
    /\ UNCHANGED <<rows, key, pick>>

\* The SELECT has all its locks and returns: the handler picks an address.
LockUsed(r) ==
    LET ip == AllocateAddress({rows[k] : k \in held[r]})
    IN  /\ \A k \in held[r] : ~ Locked(k, Requests \ {r})
        /\ Goto(r, "locking", IF ip = None THEN "full" ELSE "picked")
        /\ pick' = [pick EXCEPT ![r] = ip]
        /\ UNCHANGED <<rows, key, held>>

\* INSERT INTO peers, once no transaction is about to commit a rival row.
Insert(r) ==
    /\ ~ PendingConflict(r)
    /\ Goto(r, "picked",
            IF CommittedConflict(key[r], pick[r]) THEN "failing" ELSE "inserted")
    /\ UNCHANGED <<rows, key, held, pick>>

\* End of the transaction: locks released, the answer of the handler decided.
EndTransaction(r, from, outcome) ==
    /\ Goto(r, from, outcome)
    /\ held' = [held EXCEPT ![r] = {}]
    /\ pick' = [pick EXCEPT ![r] = None]
    /\ UNCHANGED key

\* COMMIT; its acknowledgement may be lost, and then the handler throws.
Commit(r) ==
    /\ \E outcome \in {"granted", "error"} : EndTransaction(r, "inserted", outcome)
    /\ rows' = [rows EXCEPT ![key[r]] = pick[r]]

\* Faulty variant: null is returned with the transaction left open.
ReturnWithoutRollback(r) ==
    /\ Goto(r, "full", "refused")
    /\ UNCHANGED <<rows, key, held, pick>>

\* ROLLBACK of a full pool, then 503.
RollbackFull(r) == EndTransaction(r, "full", "refused") /\ UNCHANGED rows

\* ROLLBACK in the catch, then the error goes to the error handler.
RollbackError(r) == EndTransaction(r, "failing", "error") /\ UNCHANGED rows

\* A statement fails: its connection broke, or the pool had none to give.
StatementFails(r) ==
    /\ stage[r] \in {"begin", "locking", "picked", "inserted"}
    /\ stage' = [stage EXCEPT ![r] = "failing"]
    /\ UNCHANGED <<rows, key, held, pick>>

Respond(r) ==
    /\ stage[r] \in {"granted", "reused", "refused", "error"}
    /\ stage' = [stage EXCEPT ![r] = "idle"]
    /\ key' = [key EXCEPT ![r] = None]
    /\ UNCHANGED <<rows, held, pick>>

\* DELETE FROM peers by /close, a roll-back or a reaper.  A SELECT that is
\* still waiting for its locks drops the row.
Delete(k) ==
    /\ rows[k] # None
    /\ ~ Locked(k, Requests)
    /\ rows' = [rows EXCEPT ![k] = None]
    /\ held' = [r \in Requests |-> held[r] \ {k}]
    /\ UNCHANGED <<stage, key, pick>>

Step(r) ==
    \/ Lookup(r) \/ SnapshotUsed(r) \/ LockUsed(r) \/ Insert(r) \/ Commit(r)
    \/ RollbackFull(r) \/ RollbackError(r) \/ Respond(r)

Next ==
    \/ \E r \in Requests, k \in Keys : Start(r, k)
    \/ \E r \in Requests : Step(r) \/ StatementFails(r)
    \/ \E k \in Keys : Delete(k)

Spec == Init /\ [][Next]_vars

\* Node and Postgres keep executing what has been issued, and Postgres hands
\* a row or an index entry to those waiting for it in turn.
Fairness ==
    \A r \in Requests :
        WF_vars(Step(r)) /\ SF_vars(LockUsed(r)) /\ SF_vars(Insert(r))

FairSpec == Spec /\ Fairness

-----------------------------------------------------------------------------
TypeOK ==
    /\ rows \in [Keys -> Usable \cup {None}]
    /\ stage \in [Requests -> Stages]
    /\ key \in [Requests -> Keys \cup {None}]
    /\ held \in [Requests -> SUBSET Keys]
    /\ pick \in [Requests -> Usable \cup {None}]

\* Two clients never share a tunnel address, counting the rows inserted by
\* transactions that have yet to commit: what one of them is about to commit
\* cannot be taken from under it.  Neither can the (server, key) slot.
UniqueLeases ==
    /\ \A j, k \in Keys : rows[j] = rows[k] /\ rows[j] # None => j = k
    /\ \A r \in Requests : stage[r] = "inserted" =>
          /\ ~ CommittedConflict(key[r], pick[r])
          /\ ~ PendingConflict(r)

\* The rows a transaction has locked stay until it ends, so the pool that
\* LockUsed found full (503) is full when the handler answers.
LockedRowsStay ==
    \A r \in Requests :
        /\ HoldsLocks(r) => held[r] \subseteq Committed
        /\ stage[r] = "full" => Usable \subseteq {rows[k] : k \in Keys}

\* Every POST /sessions is answered: transactions that wait for each other's
\* row locks and index entries never wait in a circle.
EveryRequestAnswered ==
    \A r \in Requests : stage[r] # "idle" ~> stage[r] = "idle"

\* "a transaction that locks the server's peers so two concurrent /sessions
\* can't grab the same IP" (routes/sessions.js:244): an address one allocation
\* grabs is neither leased nor grabbed by another.
LockSerializesAllocation ==
    \A r \in Requests : stage[r] = "picked" =>
        /\ \A k \in Keys : rows[k] # pick[r]
        /\ \A s \in Requests \ {r} :
              stage[s] \in {"picked", "inserted"} => pick[s] # pick[r]

-----------------------------------------------------------------------------
(* The promise that this implements *)

Answer(s) ==
    IF s \in {"idle", "granted", "reused", "error"} THEN s
    ELSE IF s \in {"full", "refused"} THEN "full"
    ELSE "open"

\* Every address of the subnet but the network's, the node's and the broadcast
\* address, and no more of them than max_peers.
ClientAddresses ==
    {ip \in Ips :
        LET offset == IpToInt(ip) - NetworkInt
        IN  /\ offset \in (0 .. Size - 1) \ {0, 1, Size - 1}
            /\ MaxPeers = 0 \/ offset - 2 < MaxPeers}

Pool == INSTANCE AddressPool WITH
            Usable <- ClientAddresses,
            lease <- rows,
            wants <- key,
            answer <- [r \in Requests |-> Answer(stage[r])]

\* The allocation keeps the promise of AddressPool: only free usable addresses
\* are granted, and 503 is answered only when every usable address is held.
ImplementsAddressPool == Pool!Spec
=============================================================================
