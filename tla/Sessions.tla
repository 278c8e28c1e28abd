------------------------------ MODULE Sessions ------------------------------
(***************************************************************************)
(* The life of a peer on one server: POST /v1/sessions, /authorize and     *)
(* /close (routes/sessions.js) and the reaper (services/reaper.js), over   *)
(* the peers table and the node.                                           *)
(*                                                                         *)
(* Every `await' of a handler is a step: the event loop runs the other     *)
(* handlers, the reaper and the poller between a SELECT, the call to the   *)
(* node and the UPDATE or DELETE that follows, and each works on the row   *)
(* it has read.  A call to the node may be refused, may take effect and    *)
(* still fail, or may take effect after the caller has given up on it.     *)
(*                                                                         *)
(* A row keeps its id; the statements that name it by id miss a row that   *)
(* was deleted and created again.  Its address is PeerAllocation's matter, *)
(* what the node does with a peer NodeAgent's.                             *)
(***************************************************************************)
EXTENDS Integers, FiniteSets

CONSTANTS
    Keys,         \* WireGuard public keys of the clients
    LegacyKeys,   \* those whose app does not send gated: true
    GatedKeys,    \* those whose app does; an updated app is in both
    Handlers,     \* requests that may be in progress at once
    Reapers,      \* passes of the reaper that may be in progress at once
    Overlap,      \* a client may send a request before the last is answered
    Faults,       \* SUBSET {"refused", "halfway", "late", "db"}
    MaxRows,      \* bound on the peers rows ever created
    MaxGrants,    \* bound on the grants ever issued
    None

ASSUME KeysAssumption == LegacyKeys \subseteq Keys /\ GatedKeys \subseteq Keys
ASSUME OverlapAssumption == Overlap \in BOOLEAN
ASSUME FaultsAssumption == Faults \subseteq {"refused", "halfway", "late", "db"}
ASSUME BoundsAssumption == MaxRows \in Nat /\ MaxGrants \in Nat
ASSUME NoneAssumption == None \notin Int /\ None \notin Keys

VARIABLES
    row,          \* row[k]: the peers row of (server, k), or None
    node,         \* node[k]: the node has k as a peer
    late,         \* calls given up on that the node may still execute
    handler,      \* handler[h]: the request h works on, or None
    reaper,       \* reaper[p]: what pass p has selected, or None
    rows,         \* number of rows created so far: their ids are 1 .. rows
    grants,       \* number of grants issued so far: they are 1 .. grants
    issued,       \* history, issued[k]: grants written into a row of k
    accepted,     \* history, accepted[k]: grants /authorize found valid for k
    spent,        \* history: grants whose /authorize was answered ok
    programmed    \* history: ids of the rows the node has executed an add for

history == <<issued, accepted, spent, programmed>>
vars == <<row, node, late, handler, reaper, rows, grants, history>>

Ids == 1 .. MaxRows
Grants == 1 .. MaxGrants

-----------------------------------------------------------------------------
(* Rows *)

\* Faulty variant: the migration gives armed no default.
NewRowWithoutDefault(id) ==
    [id |-> id, armed |-> None, grant |-> None, consumed |-> FALSE,
     lapsed |-> FALSE, stale |-> FALSE]

\* A row as INSERT leaves it: armed and without a grant (the defaults of
\* 010_connect_grants.sql).  lapsed: grant_expires_at is past.  stale: no
\* handshake, or else no creation, within PEER_TTL_MINUTES.
NewRow(id) ==
    [id |-> id, armed |-> TRUE, grant |-> None, consumed |-> FALSE,
     lapsed |-> FALSE, stale |-> FALSE]

\* Faulty variants of the UPDATE below: a re-registration gets the token it had
\* again; the new token inherits grant_consumed.
ReservedSameToken(r, g) ==
    [r EXCEPT !.armed = FALSE, !.grant = IF @ = None THEN g ELSE @,
              !.consumed = FALSE, !.lapsed = FALSE]

ReservedStillConsumed(r, g) ==
    [r EXCEPT !.armed = FALSE, !.grant = g, !.lapsed = FALSE]

\* A row registered by a gated client: un-armed until grant g is redeemed.
Reserved(r, g) ==
    [r EXCEPT !.armed = FALSE, !.grant = g, !.consumed = FALSE, !.lapsed = FALSE]

HasRow(k, id) == row[k] # None /\ row[k].id = id

\* UPDATE ... WHERE id: no row, no change.
UpdateById(k, id, new) ==
    row' = IF HasRow(k, id) THEN [row EXCEPT ![k] = new] ELSE row

\* Faulty variant: DELETE by (server, key) instead of by id.
DeleteByKey(k, id) == row' = [row EXCEPT ![k] = None]

\* DELETE ... WHERE id.
DeleteById(k, id) ==
    row' = IF HasRow(k, id) THEN [row EXCEPT ![k] = None] ELSE row

\* A gated reservation whose grant expired: what reapUnauthorizedPeers deletes.
Unauthorized(k) ==
    row[k] # None /\ ~ row[k].armed /\ row[k].grant # None /\ row[k].lapsed

-----------------------------------------------------------------------------
(* Calls to the node agent *)

\* The node adds (on) or removes the peer k; id is the row the call is about.
Execute(k, id, on) ==
    /\ node' = [node EXCEPT ![k] = on]
    /\ programmed' = IF on THEN programmed \cup {id} ELSE programmed

\* A call as its caller sees it.  When it fails (not ok) the node has refused
\* or was not reached, or has executed it (a 500 after wg set, a lost reply),
\* or will execute it after the caller's timeout.
NodeCall(k, id, on, ok) ==
    \/ ok /\ Execute(k, id, on) /\ UNCHANGED late
    \/ ~ ok /\ "refused" \in Faults /\ UNCHANGED <<node, late, programmed>>
    \/ ~ ok /\ "halfway" \in Faults /\ Execute(k, id, on) /\ UNCHANGED late
    \/ /\ ~ ok /\ "late" \in Faults
       /\ late' = late \cup {[key |-> k, id |-> id, on |-> on]}
       /\ UNCHANGED <<node, programmed>>

\* A late call reaches the node, or is lost.
LateCall(m) ==
    /\ m \in late
    /\ late' = late \ {m}
    /\ \/ Execute(m.key, m.id, m.on)
       \/ UNCHANGED <<node, programmed>>
    /\ UNCHANGED <<row, handler, reaper, rows, grants, issued, accepted, spent>>

-----------------------------------------------------------------------------
(* Requests *)

Request(op, k, gated, grant) ==
    [op |-> op, key |-> k, gated |-> gated, grant |-> grant,
     at |-> "begin", id |-> None, fresh |-> FALSE]

At(h, op, at) == handler[h] # None /\ handler[h].op = op /\ handler[h].at = at

Respond(h) == handler' = [handler EXCEPT ![h] = None]

Goto(h, at) == handler' = [handler EXCEPT ![h].at = at]

Free(h, k) ==
    /\ handler[h] = None
    /\ ~ Overlap => \A g \in Handlers : handler[g] # None => handler[g].key # k

\* A request enters: it is about to query the peers table (open, authorize) or
\* to call the node (close).  A client may present any grant ever issued.
Arrive(h, request) ==
    /\ Free(h, request.key)
    /\ handler' = [handler EXCEPT ![h] = request]
    /\ UNCHANGED <<row, node, late, reaper, rows, grants, history>>

\* MaxGrants leaves a grant to every gated request that is let in.
Open(h, k, gated) ==
    /\ IF gated
         THEN /\ k \in GatedKeys
              /\ grants + Cardinality({g \in Handlers :
                    handler[g] # None /\ handler[g].op = "open" /\ handler[g].gated})
                   < MaxGrants
         ELSE k \in LegacyKeys
    /\ Arrive(h, Request("open", k, gated, None))

Authorize(h, k, g) == Arrive(h, Request("authorize", k, TRUE, g))

Close(h, k) == Arrive(h, Request("close", k, FALSE, None))

\* A query fails: the handler throws and the request is answered 500.
QueryFails(h) ==
    /\ "db" \in Faults
    /\ \/ \E op \in {"open", "authorize"} : At(h, op, "begin")
       \/ At(h, "open", "grant")
       \/ At(h, "authorize", "mark")
       \/ At(h, "close", "erase")
    /\ Respond(h)
    /\ UNCHANGED <<row, node, late, reaper, rows, grants, history>>

-----------------------------------------------------------------------------
(* POST /v1/sessions *)

\* Faulty variant: the node is programmed for a gated client too.
HavingRowUngated(h, id, fresh) ==
    handler' = [handler EXCEPT ![h].id = id, ![h].fresh = fresh, ![h].at = "add"]

\* Where the handler goes once it has a row: to the grant or to the node.
HavingRow(h, id, fresh) ==
    handler' = [handler EXCEPT ![h].id = id, ![h].fresh = fresh,
                  ![h].at = IF handler[h].gated THEN "grant" ELSE "add"]

Lookup(h) ==
    /\ At(h, "open", "begin")
    /\ LET k == handler[h].key
       IN  IF row[k] # None THEN HavingRow(h, row[k].id, FALSE)
                            ELSE Goto(h, "allocate")
    /\ UNCHANGED <<row, node, late, reaper, rows, grants, history>>

\* allocatePeer creates the row.
Allocate(h) ==
    /\ At(h, "open", "allocate")
    /\ row[handler[h].key] = None
    /\ rows < MaxRows
    /\ rows' = rows + 1
    /\ row' = [row EXCEPT ![handler[h].key] = NewRow(rows + 1)]
    /\ HavingRow(h, rows + 1, TRUE)
    /\ UNCHANGED <<node, late, reaper, grants, history>>

\* Faulty variant: a full pool is noticed and not answered.
AllocateFailsSilently(h) ==
    /\ At(h, "open", "allocate")
    /\ UNCHANGED vars

\* The pool is full (503), or another request has created the row since the
\* lookup and the INSERT violates UNIQUE (500).
AllocateFails(h) ==
    /\ At(h, "open", "allocate")
    /\ Respond(h)
    /\ UNCHANGED <<row, node, late, reaper, rows, grants, history>>

\* The gated path: a new grant for the row, to be redeemed; the answer.
IssueGrant(h) ==
    /\ At(h, "open", "grant")
    /\ grants < MaxGrants
    /\ LET k == handler[h].key
       IN  /\ UpdateById(k, handler[h].id, Reserved(row[k], grants + 1))
           /\ grants' = grants + 1
           /\ issued' = [issued EXCEPT ![k] = @ \cup {grants + 1}]
    /\ Respond(h)
    /\ UNCHANGED <<node, late, reaper, rows, accepted, spent, programmed>>

\* The legacy path: program the node now; a failure undoes a fresh allocation.
AddPeer(h) ==
    /\ At(h, "open", "add")
    /\ \E ok \in BOOLEAN :
          /\ NodeCall(handler[h].key, handler[h].id, TRUE, ok)
          /\ IF ok \/ ~ handler[h].fresh THEN Respond(h) ELSE Goto(h, "undo")
    /\ UNCHANGED <<row, reaper, rows, grants, issued, accepted, spent>>

\* DELETE of the fresh row, its own failure swallowed; then 502.
Rollback(h) ==
    /\ At(h, "open", "undo")
    /\ \/ DeleteById(handler[h].key, handler[h].id)
       \/ "db" \in Faults /\ UNCHANGED row
    /\ Respond(h)
    /\ UNCHANGED <<node, late, reaper, rows, grants, history>>

-----------------------------------------------------------------------------
(* POST /v1/sessions/authorize *)

Valid(k, g) == row[k].grant = g /\ ~ row[k].consumed /\ ~ row[k].lapsed

AlreadyArmed(k) == row[k].armed /\ row[k].consumed

\* The row is read and checked: 404, ok at once, 401, or on to the node.
CheckGrant(h) ==
    /\ At(h, "authorize", "begin")
    /\ LET k == handler[h].key
           g == handler[h].grant
       IN  IF row[k] # None /\ ~ AlreadyArmed(k) /\ Valid(k, g)
             THEN /\ handler' = [handler EXCEPT ![h].at = "add", ![h].id = row[k].id]
                  /\ accepted' = [accepted EXCEPT ![k] = @ \cup {g}]
             ELSE Respond(h) /\ UNCHANGED accepted
    /\ UNCHANGED <<row, node, late, reaper, rows, grants,
                   issued, spent, programmed>>

\* Faulty variant: consumed is written before the node has answered.
MarkFirst(h) ==
    /\ At(h, "authorize", "add")
    /\ UpdateById(handler[h].key, handler[h].id,
          [row[handler[h].key] EXCEPT !.armed = TRUE, !.consumed = TRUE])
    /\ Goto(h, "mark")
    /\ UNCHANGED <<node, late, reaper, rows, grants, history>>

\* The node is programmed; a failure is answered 502 and consumes nothing.
ArmPeer(h) ==
    /\ At(h, "authorize", "add")
    /\ \E ok \in BOOLEAN :
          /\ NodeCall(handler[h].key, handler[h].id, TRUE, ok)
          /\ IF ok THEN Goto(h, "mark") ELSE Respond(h)
    /\ UNCHANGED <<row, reaper, rows, grants, issued, accepted, spent>>

\* armed = true, grant_consumed = true, by id; ok.
MarkConsumed(h) ==
    /\ At(h, "authorize", "mark")
    /\ UpdateById(handler[h].key, handler[h].id,
          [row[handler[h].key] EXCEPT !.armed = TRUE, !.consumed = TRUE])
    /\ spent' = spent \cup {handler[h].grant}
    /\ Respond(h)
    /\ UNCHANGED <<node, late, reaper, rows, grants, issued, accepted, programmed>>

-----------------------------------------------------------------------------
(* POST /v1/sessions/close *)

\* The node is told; a failure is only logged.
RemovePeer(h) ==
    /\ At(h, "close", "begin")
    /\ \E ok \in BOOLEAN : NodeCall(handler[h].key, None, FALSE, ok)
    /\ Goto(h, "erase")
    /\ UNCHANGED <<row, reaper, rows, grants, issued, accepted, spent>>

Erase(h) ==
    /\ At(h, "close", "erase")
    /\ row' = [row EXCEPT ![handler[h].key] = None]
    /\ Respond(h)
    /\ UNCHANGED <<node, late, reaper, rows, grants, history>>

-----------------------------------------------------------------------------
(* services/reaper.js *)

\* The SELECT of reapStalePeers.  todo: rows still to visit.  gone: the row
\* whose peer the node has just removed.  since (history): the newest row then.
ReapSelect(p) ==
    /\ reaper[p] = None
    /\ reaper' = [reaper EXCEPT ![p] =
          [todo |-> {<<k, row[k].id>> : k \in {j \in Keys : row[j] # None /\ row[j].stale}},
           gone |-> None, since |-> rows]]
    /\ UNCHANGED <<row, node, late, handler, rows, grants, history>>

\* removePeer of the next selected row; if it fails the row is left for later.
ReapRemove(p) ==
    /\ reaper[p] # None /\ reaper[p].gone = None
    /\ \E victim \in reaper[p].todo, ok \in BOOLEAN :
          /\ NodeCall(victim[1], None, FALSE, ok)
          /\ reaper' = [reaper EXCEPT ![p] =
                [reaper[p] EXCEPT !.todo = @ \ {victim},
                                  !.gone = IF ok THEN victim ELSE None]]
    /\ UNCHANGED <<row, handler, rows, grants, issued, accepted, spent>>

\* Faulty variant: the peer is removed, the row is forgotten.
ReapForgets(p) ==
    /\ reaper[p] # None /\ reaper[p].gone # None
    /\ reaper' = [reaper EXCEPT ![p].gone = None]
    /\ UNCHANGED <<row, node, late, handler, rows, grants, history>>

\* Its DELETE by id; when the query fails, the pass is abandoned.
ReapErase(p) ==
    /\ reaper[p] # None /\ reaper[p].gone # None
    /\ \/ /\ DeleteById(reaper[p].gone[1], reaper[p].gone[2])
          /\ reaper' = [reaper EXCEPT ![p].gone = None]
       \/ /\ "db" \in Faults
          /\ reaper' = [reaper EXCEPT ![p] = None]
          /\ UNCHANGED row
    /\ UNCHANGED <<node, late, handler, rows, grants, history>>

\* Faulty variant: the pass ends without reapUnauthorizedPeers.
ReapStaleOnly(p) ==
    /\ reaper[p] # None /\ reaper[p].gone = None /\ reaper[p].todo = {}
    /\ reaper' = [reaper EXCEPT ![p] = None]
    /\ UNCHANGED <<row, node, late, handler, rows, grants, history>>

\* reapUnauthorizedPeers ends the pass: one DELETE, nothing said to the node.
ReapUnauthorized(p) ==
    /\ reaper[p] # None /\ reaper[p].gone = None /\ reaper[p].todo = {}
    /\ reaper' = [reaper EXCEPT ![p] = None]
    /\ row' = [k \in Keys |-> IF Unauthorized(k) THEN None ELSE row[k]]
    /\ UNCHANGED <<node, late, handler, rows, grants, history>>

-----------------------------------------------------------------------------
(* Time, and the poller *)

\* CONNECT_GRANT_TTL_SECONDS pass.
GrantLapses(k) ==
    /\ row[k] # None /\ row[k].grant # None /\ ~ row[k].lapsed
    /\ row' = [row EXCEPT ![k].lapsed = TRUE]
    /\ UNCHANGED <<node, late, handler, reaper, rows, grants, history>>

\* PEER_TTL_MINUTES pass without a handshake: not while the request that has
\* created the row is in progress, which takes seconds.
GoesStale(k) ==
    /\ row[k] # None /\ ~ row[k].stale
    /\ \A h \in Handlers :
          handler[h] # None /\ handler[h].fresh => ~ HasRow(k, handler[h].id)
    /\ row' = [row EXCEPT ![k].stale = TRUE]
    /\ UNCHANGED <<node, late, handler, reaper, rows, grants, history>>

\* The usage poller records a recent handshake of a peer the node has.
Handshake(k) ==
    /\ node[k] /\ row[k] # None /\ row[k].stale
    /\ row' = [row EXCEPT ![k].stale = FALSE]
    /\ UNCHANGED <<node, late, handler, reaper, rows, grants, history>>

-----------------------------------------------------------------------------
Init ==
    /\ row = [k \in Keys |-> None]
    /\ node = [k \in Keys |-> FALSE]
    /\ late = {}
    /\ handler = [h \in Handlers |-> None]
    /\ reaper = [p \in Reapers |-> None]
    /\ rows = 0
    /\ grants = 0
    /\ issued = [k \in Keys |-> {}]
    /\ accepted = [k \in Keys |-> {}]
    /\ spent = {}
    /\ programmed = {}

Arrival(h) ==
    \/ \E k \in Keys, gated \in BOOLEAN : Open(h, k, gated)
    \/ \E k \in Keys, g \in 1 .. grants : Authorize(h, k, g)
    \/ \E k \in Keys : Close(h, k)

HandlerStep(h) ==
    \/ Lookup(h) \/ Allocate(h) \/ AllocateFails(h) \/ IssueGrant(h)
    \/ AddPeer(h) \/ Rollback(h)
    \/ CheckGrant(h) \/ ArmPeer(h) \/ MarkConsumed(h)
    \/ RemovePeer(h) \/ Erase(h) \/ QueryFails(h)

ReaperStep(p) == ReapRemove(p) \/ ReapErase(p) \/ ReapUnauthorized(p)

Environment ==
    \/ \E m \in late : LateCall(m)
    \/ \E k \in Keys : GrantLapses(k) \/ GoesStale(k) \/ Handshake(k)

Next ==
    \/ \E h \in Handlers : Arrival(h) \/ HandlerStep(h)
    \/ \E p \in Reapers : ReapSelect(p) \/ ReaperStep(p)
    \/ Environment

Spec == Init /\ [][Next]_vars

\* Node runs what is pending, the reaper's timer keeps firing, and a node that
\* the reaper calls again and again executes one of the calls.
Fairness ==
    /\ \A h \in Handlers : WF_vars(HandlerStep(h))
    /\ \A p \in Reapers :
          /\ WF_vars(ReapSelect(p)) /\ WF_vars(ReaperStep(p))
          /\ SF_vars(ReapRemove(p) /\ reaper'[p].gone # None)

FairSpec == Spec /\ Fairness

-----------------------------------------------------------------------------
Rows == [id : Ids, armed : BOOLEAN, grant : Grants \cup {None},
         consumed : BOOLEAN, lapsed : BOOLEAN, stale : BOOLEAN]

Requests == [op : {"open", "authorize", "close"}, key : Keys, gated : BOOLEAN,
             grant : Grants \cup {None},
             at : {"begin", "allocate", "grant", "add", "undo", "mark", "erase"},
             id : Ids \cup {None}, fresh : BOOLEAN]

Passes == [todo : SUBSET (Keys \X Ids), gone : (Keys \X Ids) \cup {None},
           since : 0 .. MaxRows]

TypeOK ==
    /\ row \in [Keys -> Rows \cup {None}]
    /\ node \in [Keys -> BOOLEAN]
    /\ late \subseteq [key : Keys, id : Ids \cup {None}, on : BOOLEAN]
    /\ handler \in [Handlers -> Requests \cup {None}]
    /\ reaper \in [Reapers -> Passes \cup {None}]
    /\ rows \in 0 .. MaxRows
    /\ grants \in 0 .. MaxGrants
    /\ issued \in [Keys -> SUBSET Grants]
    /\ accepted \in [Keys -> SUBSET Grants]
    /\ spent \subseteq Grants
    /\ programmed \subseteq Ids

\* "Connecting from iOS Settings ... can never arm the peer": a key that only
\* connects through the gate is on the node only if one of its own grants was
\* redeemed, whatever is retried, late or reaped in between.
GateHolds ==
    \A k \in Keys \ LegacyKeys :
        /\ accepted[k] \subseteq issued[k]
        /\ node[k] => accepted[k] # {}

\* "single-use": no later request can redeem a grant that was answered ok.
SpentGrantsStaySpent ==
    \A k \in Keys : row[k] # None /\ row[k].grant \in spent => row[k].consumed

\* A consumed grant stands for a row the node was programmed with: what the
\* idempotent answer of /authorize (sessions.js:165) relies on.
ConsumedWasProgrammed ==
    \A k \in Keys : row[k] # None /\ row[k].consumed => row[k].id \in programmed

\* Until it lapses, the grant a row holds is good for an ok: re-registration and
\* redemption, which may overlap, never leave a row whose grant gets 401.
CurrentGrantAccepted ==
    \A k \in Keys :
        row[k] # None /\ row[k].grant # None /\ ~ row[k].lapsed =>
            AlreadyArmed(k) \/ Valid(k, row[k].grant)

\* The reaper deletes the row it selected, never one that a client created
\* after the selection under the same key.
ReaperSparesNewRows ==
    [][\A p \in Reapers, k \in Keys :
         (reaper[p] # None /\ reaper[p].gone # None /\ reaper'[p] # reaper[p]
            /\ row[k] # None /\ row'[k] = None)
           => row[k].id <= reaper[p].since]_vars

\* Every request is answered.
EveryRequestAnswered ==
    \A h \in Handlers : handler[h] # None ~> handler[h] = None

\* "we just free the reserved tunnel IP" (reaper.js:48): a reservation whose
\* grant expired does not hold its address for ever, even if the passes that
\* should free it keep failing to reach the node for other rows.
ReservationFreed ==
    \A k \in Keys : Unauthorized(k) ~> ~ Unauthorized(k)

\* "the backend must not leak peers/IPs" (docs/BACKEND.md:349): the row of a client
\* that vanished goes, or its handshakes resume.
StaleRowFreed ==
    \A k \in Keys :
        (row[k] # None /\ row[k].stale) ~> (row[k] = None \/ ~ row[k].stale)

-----------------------------------------------------------------------------
(* What documents and comments say, and the code does not keep *)

\* "a peer that is NOT programmed onto the node until it authorizes"
\* (010_connect_grants.sql:3).
UnarmedNotOnNode ==
    \A k \in Keys :
        row[k] # None /\ ~ row[k].armed /\ row[k].grant \notin accepted[k]
          => ~ node[k]

\* "It was never programmed onto the node, so there's nothing to remove there"
\* (reaper.js:47), said of the reservations reapUnauthorizedPeers deletes.
ReapedReservationOffNode ==
    [][\A p \in Reapers, k \in Keys : ReapUnauthorized(p) /\ Unauthorized(k)
          => row[k].id \notin programmed]_vars

\* "Removes the peer and frees the tunnel IP" (sessions.js:209).
CloseRemovesPeer ==
    [][\A h \in Handlers : Erase(h) => ~ node[handler[h].key]]_vars

\* "don't leave a half-registered peer / leaked tunnel IP behind"
\* (sessions.js:112), of a legacy connect that is rolled back.
RollbackLeavesNoPeer ==
    [][\A h \in Handlers : Rollback(h) => ~ node[handler[h].key]]_vars

\* "A single-use connect-grant token" (sessions.js:19): nobody is about to
\* program the node with a grant that was already redeemed.
SingleUse ==
    \A h \in Handlers : At(h, "authorize", "add") => handler[h].grant \notin spent

\* "the backend must not leak peers/IPs" (docs/BACKEND.md:349): with nothing in
\* progress, a peer on the node has a row, by which the reaper will find it.
PeersHaveRows ==
    (late = {} /\ (\A h \in Handlers : handler[h] = None)
       /\ (\A p \in Reapers : reaper[p] = None))
      => \A k \in Keys : node[k] => row[k] # None
=============================================================================
