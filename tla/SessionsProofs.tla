--------------------------- MODULE SessionsProofs ---------------------------
(***************************************************************************)
(* Theorems of Sessions, for every set of clients, concurrent requests and *)
(* reaper passes, with every fault of the node and of the database.        *)
(***************************************************************************)
EXTENDS Sessions, TLAPS

\* An UPDATE by id keeps the type of the table.
LEMMA UpdateType ==
    ASSUME TypeOK, NEW k \in Keys, NEW id, NEW new,
           HasRow(k, id) => new \in Rows,
           UpdateById(k, id, new)
    PROVE  row' \in [Keys -> Rows \cup {None}]
  BY DEF TypeOK, UpdateById

\* The UPDATEs of a row keep its type.
LEMMA RowTypes ==
    ASSUME NEW r \in Rows
    PROVE  /\ \A g \in Grants : Reserved(r, g) \in Rows
           /\ [r EXCEPT !.armed = TRUE, !.consumed = TRUE] \in Rows
           /\ [r EXCEPT !.lapsed = TRUE] \in Rows
           /\ [r EXCEPT !.stale = TRUE] \in Rows
           /\ [r EXCEPT !.stale = FALSE] \in Rows
<1>1. ASSUME NEW g \in Grants PROVE Reserved(r, g) \in Rows
  BY DEF Rows, Reserved
<1>2. [r EXCEPT !.armed = TRUE, !.consumed = TRUE] \in Rows
  BY DEF Rows
<1>3. [r EXCEPT !.lapsed = TRUE] \in Rows
  BY DEF Rows
<1>4. [r EXCEPT !.stale = TRUE] \in Rows /\ [r EXCEPT !.stale = FALSE] \in Rows
  BY DEF Rows
<1> QED
  BY <1>1, <1>2, <1>3, <1>4

\* What a request at each point knows.
HandlerKnows ==
    \A h \in Handlers : handler[h] # None =>
        /\ handler[h].op = "open" /\ handler[h].at \in {"grant", "add", "undo"}
             => handler[h].id \in Ids
        /\ handler[h].op = "authorize" => handler[h].grant \in 1 .. grants
        /\ handler[h].op = "authorize" /\ handler[h].at \in {"add", "mark"}
             => handler[h].id \in Ids

\* A call that adds a peer is about a row.
LateKnows == \A m \in late : m.on => m.id \in Ids

TypeInv == TypeOK /\ HandlerKnows /\ LateKnows

\* A call to the node, executed or not, keeps the types of what it touches.
LEMMA CallType ==
    ASSUME TypeOK, LateKnows, NEW k \in Keys, NEW id \in Ids \cup {None},
           NEW on \in BOOLEAN, NEW ok \in BOOLEAN,
           on => id \in Ids, NodeCall(k, id, on, ok)
    PROVE  /\ node' \in [Keys -> BOOLEAN]
           /\ late' \subseteq [key : Keys, id : Ids \cup {None}, on : BOOLEAN]
           /\ programmed' \subseteq Ids
           /\ LateKnows'
  BY DEF TypeOK, LateKnows, NodeCall, Execute

\* Initially there is nothing.
LEMMA InitTypeInv == Init => TypeInv
  BY BoundsAssumption DEF Init, TypeInv, TypeOK, HandlerKnows, LateKnows

\* Types are kept by every step.
LEMMA TypeStep == TypeInv /\ [Next]_vars => TypeInv'
<1> SUFFICES ASSUME TypeInv, [Next]_vars PROVE TypeInv'
  OBVIOUS
<1> USE DEF TypeInv, TypeOK, HandlerKnows, LateKnows
<1> USE BoundsAssumption
<1>1. ASSUME NEW h \in Handlers, NEW k \in Keys, NEW gated \in BOOLEAN, Open(h, k, gated)
      PROVE  TypeInv'
  BY <1>1 DEF Open, Arrive, Request, Requests, history
<1>2. ASSUME NEW h \in Handlers, NEW k \in Keys, NEW g \in 1 .. grants, Authorize(h, k, g)
      PROVE  TypeInv'
  BY <1>2 DEF Authorize, Arrive, Request, Requests, history, Grants
<1>3. ASSUME NEW h \in Handlers, NEW k \in Keys, Close(h, k) PROVE TypeInv'
  BY <1>3 DEF Close, Arrive, Request, Requests, history
<1>4. ASSUME NEW h \in Handlers, Lookup(h) PROVE TypeInv'
  BY <1>4 DEF Lookup, HavingRow, Goto, At, Requests, Rows, history
<1>5. ASSUME NEW h \in Handlers, Allocate(h) PROVE TypeInv'
  BY <1>5 DEF Allocate, HavingRow, At, Requests, Rows, NewRow, Ids, history
<1>6. ASSUME NEW h \in Handlers, AllocateFails(h) \/ QueryFails(h) PROVE TypeInv'
  BY <1>6 DEF AllocateFails, QueryFails, Respond, history
<1>7. ASSUME NEW h \in Handlers, IssueGrant(h) PROVE TypeInv'
  <2> DEFINE k == handler[h].key
  <2>1. k \in Keys /\ handler[h].id \in Ids /\ grants + 1 \in Grants
    BY <1>7 DEF IssueGrant, At, Requests, Grants
  <2>2. HasRow(k, handler[h].id) => Reserved(row[k], grants + 1) \in Rows
    BY <2>1, RowTypes DEF HasRow
  <2>3. row' \in [Keys -> Rows \cup {None}]
    BY <1>7, <2>1, <2>2, UpdateType DEF IssueGrant
  <2>4. handler' \in [Handlers -> Requests \cup {None}] /\ grants' = grants + 1
    BY <1>7 DEF IssueGrant, Respond
  <2>5. HandlerKnows'
    BY <1>7, <2>4 DEF IssueGrant, Respond
  <2>6. issued' \in [Keys -> SUBSET Grants]
    BY <1>7, <2>1 DEF IssueGrant
  <2>7. grants' \in 0 .. MaxGrants
    BY <2>1, <2>4 DEF Grants
  <2> QED
    BY <1>7, <2>3, <2>4, <2>5, <2>6, <2>7 DEF IssueGrant
<1>8. ASSUME NEW h \in Handlers, AddPeer(h) PROVE TypeInv'
  <2>1. handler[h] # None /\ handler[h].key \in Keys /\ handler[h].id \in Ids
    BY <1>8 DEF AddPeer, At, Requests
  <2>2. PICK ok \in BOOLEAN : NodeCall(handler[h].key, handler[h].id, TRUE, ok)
    BY <1>8 DEF AddPeer
  <2>3. /\ node' \in [Keys -> BOOLEAN]
        /\ late' \subseteq [key : Keys, id : Ids \cup {None}, on : BOOLEAN]
        /\ programmed' \subseteq Ids
        /\ LateKnows'
    BY <2>1, <2>2, CallType
  <2>4. handler' \in [Handlers -> Requests \cup {None}] /\ HandlerKnows'
    BY <1>8, <2>1 DEF AddPeer, Respond, Goto, At, Requests
  <2> QED
    BY <1>8, <2>1, <2>3, <2>4 DEF AddPeer
<1>9. ASSUME NEW h \in Handlers, Rollback(h) PROVE TypeInv'
  BY <1>9 DEF Rollback, DeleteById, Respond, At, Requests, history
<1>10. ASSUME NEW h \in Handlers, CheckGrant(h) PROVE TypeInv'
  BY <1>10 DEF CheckGrant, Respond, At, Requests, Rows, Grants
<1>11. ASSUME NEW h \in Handlers, ArmPeer(h) PROVE TypeInv'
  <2>1. handler[h] # None /\ handler[h].key \in Keys /\ handler[h].id \in Ids
    BY <1>11 DEF ArmPeer, At, Requests
  <2>2. PICK ok \in BOOLEAN : NodeCall(handler[h].key, handler[h].id, TRUE, ok)
    BY <1>11 DEF ArmPeer
  <2>3. /\ node' \in [Keys -> BOOLEAN]
        /\ late' \subseteq [key : Keys, id : Ids \cup {None}, on : BOOLEAN]
        /\ programmed' \subseteq Ids
        /\ LateKnows'
    BY <2>1, <2>2, CallType
  <2>4. handler' \in [Handlers -> Requests \cup {None}] /\ HandlerKnows'
    BY <1>11, <2>1 DEF ArmPeer, Respond, Goto, At, Requests
  <2> QED
    BY <1>11, <2>3, <2>4 DEF ArmPeer
<1>12. ASSUME NEW h \in Handlers, MarkConsumed(h) PROVE TypeInv'
  <2> DEFINE k == handler[h].key
  <2> DEFINE new == [row[k] EXCEPT !.armed = TRUE, !.consumed = TRUE]
  <2>1. k \in Keys /\ handler[h].id \in Ids /\ handler[h].grant \in Grants
    BY <1>12 DEF MarkConsumed, At, Requests, Grants
  <2>2. HasRow(k, handler[h].id) => new \in Rows
    BY <2>1, RowTypes DEF HasRow
  <2>3. row' \in [Keys -> Rows \cup {None}]
    BY <1>12, <2>1, <2>2, UpdateType DEF MarkConsumed
  <2> QED
    BY <1>12, <2>1, <2>3 DEF MarkConsumed, Respond
<1>13. ASSUME NEW h \in Handlers, RemovePeer(h) PROVE TypeInv'
  <2>1. handler[h] # None /\ handler[h].key \in Keys
    BY <1>13 DEF RemovePeer, At, Requests
  <2>2. PICK ok \in BOOLEAN : NodeCall(handler[h].key, None, FALSE, ok)
    BY <1>13 DEF RemovePeer
  <2>3. /\ node' \in [Keys -> BOOLEAN]
        /\ late' \subseteq [key : Keys, id : Ids \cup {None}, on : BOOLEAN]
        /\ programmed' \subseteq Ids
        /\ LateKnows'
    BY <2>1, <2>2, CallType
  <2>4. handler' \in [Handlers -> Requests \cup {None}] /\ HandlerKnows'
    BY <1>13, <2>1 DEF RemovePeer, Goto, At, Requests
  <2> QED
    BY <1>13, <2>3, <2>4 DEF RemovePeer
<1>14. ASSUME NEW h \in Handlers, Erase(h) PROVE TypeInv'
  BY <1>14 DEF Erase, Respond, At, Requests, history
<1>15. ASSUME NEW p \in Reapers, ReapSelect(p) PROVE TypeInv'
  BY <1>15 DEF ReapSelect, Passes, Rows, history
<1>16. ASSUME NEW p \in Reapers, ReapRemove(p) PROVE TypeInv'
  <2>1. PICK victim \in reaper[p].todo, ok \in BOOLEAN :
          /\ NodeCall(victim[1], None, FALSE, ok)
          /\ reaper' = [reaper EXCEPT ![p] =
                [reaper[p] EXCEPT !.todo = @ \ {victim},
                                  !.gone = IF ok THEN victim ELSE None]]
    BY <1>16 DEF ReapRemove
  <2>2. reaper[p] \in Passes /\ victim \in Keys \X Ids /\ victim[1] \in Keys
    BY <1>16 DEF ReapRemove, Passes
  <2>3. /\ node' \in [Keys -> BOOLEAN]
        /\ late' \subseteq [key : Keys, id : Ids \cup {None}, on : BOOLEAN]
        /\ programmed' \subseteq Ids
        /\ LateKnows'
    BY <2>1, <2>2, CallType
  <2> DEFINE pass == [reaper[p] EXCEPT !.todo = @ \ {victim},
                                     !.gone = IF ok THEN victim ELSE None]
  <2>4. pass \in Passes
    BY <2>2 DEF Passes
  <2>5. reaper' \in [Reapers -> Passes \cup {None}]
    <3>1. reaper' = [reaper EXCEPT ![p] = pass]
      BY <2>1
    <3> HIDE DEF pass
    <3> QED
      BY <2>4, <3>1
  <2> QED
    BY <1>16, <2>3, <2>5 DEF ReapRemove
<1>17. ASSUME NEW p \in Reapers, ReapErase(p) PROVE TypeInv'
  BY <1>17 DEF ReapErase, DeleteById, Passes, history
<1>18. ASSUME NEW p \in Reapers, ReapUnauthorized(p) PROVE TypeInv'
  BY <1>18 DEF ReapUnauthorized, history
<1>19. ASSUME NEW m \in late, LateCall(m) PROVE TypeInv'
  BY <1>19 DEF LateCall, Execute
<1>20. ASSUME NEW k \in Keys, GrantLapses(k) \/ GoesStale(k) \/ Handshake(k)
       PROVE  TypeInv'
  <2>1. row' \in [Keys -> Rows \cup {None}]
    <3>1. row[k] \in Rows
      BY <1>20 DEF GrantLapses, GoesStale, Handshake
    <3>2. \/ row' = [row EXCEPT ![k] = [row[k] EXCEPT !.lapsed = TRUE]]
          \/ row' = [row EXCEPT ![k] = [row[k] EXCEPT !.stale = TRUE]]
          \/ row' = [row EXCEPT ![k] = [row[k] EXCEPT !.stale = FALSE]]
      BY <1>20 DEF GrantLapses, GoesStale, Handshake
    <3> QED
      BY <3>1, <3>2, RowTypes
  <2> QED
    BY <1>20, <2>1 DEF GrantLapses, GoesStale, Handshake, history
<1>21. CASE UNCHANGED vars
  BY <1>21 DEF vars, history
<1> QED
  BY <1>1, <1>2, <1>3, <1>4, <1>5, <1>6, <1>7, <1>8, <1>9, <1>10, <1>11, <1>12,
     <1>13, <1>14, <1>15, <1>16, <1>17, <1>18, <1>19, <1>20, <1>21
  DEF Next, Arrival, HandlerStep, ReaperStep, Environment

\* TypeOK, with what handlers and late calls know, is an invariant.
LEMMA Typed == Spec => []TypeInv
  BY InitTypeInv, TypeStep, PTL DEF Spec

\* Rows, requests, passes and calls always have their types.
THEOREM TypeCorrect == Spec => []TypeOK
<1>1. TypeInv => TypeOK
  BY DEF TypeInv
<1> QED
  BY <1>1, Typed, PTL

-----------------------------------------------------------------------------
(* The gate *)

\* A row's grant was issued for its key.
RowGrantsIssued ==
    \A k \in Keys : row[k] # None /\ row[k].grant # None => row[k].grant \in issued[k]

\* Only a legacy client's request to open goes to the node.
OnlyLegacyOpensAdd ==
    \A h \in Handlers : handler[h] # None /\ handler[h].op = "open" =>
        /\ ~ handler[h].gated => handler[h].key \in LegacyKeys
        /\ handler[h].at \in {"add", "undo"} => handler[h].key \in LegacyKeys

\* Whoever may add k to the node has had a grant of k accepted.
MayBeAdded(k) == k \in LegacyKeys \/ accepted[k] # {}

AddsAreGated ==
    /\ \A h \in Handlers :
          handler[h] # None /\ handler[h].op = "authorize" /\ handler[h].at \in {"add", "mark"}
            => accepted[handler[h].key] # {}
    /\ \A m \in late : m.on => MayBeAdded(m.key)

GateInv == RowGrantsIssued /\ OnlyLegacyOpensAdd /\ AddsAreGated /\ GateHolds

\* A call that adds k puts nobody else on the node, and records the row.
LEMMA AddCall ==
    ASSUME TypeOK, NEW k \in Keys, NEW id \in Ids \cup {None}, NEW ok \in BOOLEAN,
           NodeCall(k, id, TRUE, ok)
    PROVE  /\ \A j \in Keys : node'[j] => node[j] \/ j = k
           /\ \A m \in late' : m \in late \/ m.key = k
           /\ programmed \subseteq programmed'
           /\ ok => id \in programmed'
  BY DEF TypeOK, NodeCall, Execute

\* A call that removes k puts nobody on the node.
LEMMA RemoveCall ==
    ASSUME TypeOK, NEW k \in Keys, NEW ok \in BOOLEAN, NodeCall(k, None, FALSE, ok)
    PROVE  /\ \A j \in Keys : node'[j] => node[j]
           /\ \A m \in late' : m.on => m \in late
           /\ programmed' = programmed
  BY DEF TypeOK, NodeCall, Execute

\* Initially nobody is on the node and nothing was issued.
LEMMA InitGateInv == Init => GateInv
  BY DEF Init, GateInv, RowGrantsIssued, OnlyLegacyOpensAdd, AddsAreGated, GateHolds

\* No step lets a gated client onto the node without its grant.
LEMMA GateStep == TypeInv /\ GateInv /\ [Next]_vars => GateInv'
<1> SUFFICES ASSUME TypeInv, GateInv, [Next]_vars PROVE GateInv'
  OBVIOUS
<1>0. /\ TypeOK
      /\ row \in [Keys -> Rows \cup {None}]
      /\ node \in [Keys -> BOOLEAN]
      /\ handler \in [Handlers -> Requests \cup {None}]
      /\ issued \in [Keys -> SUBSET Grants]
      /\ accepted \in [Keys -> SUBSET Grants]
      /\ grants \in 0 .. MaxGrants
      /\ \A p \in Reapers : reaper[p] # None => reaper[p].todo \subseteq Keys \X Ids
  BY DEF TypeInv, TypeOK, Passes
<1> USE DEF GateInv, RowGrantsIssued, OnlyLegacyOpensAdd, AddsAreGated,
            MayBeAdded, GateHolds
<1>1. ASSUME NEW h \in Handlers, NEW k \in Keys, NEW gated \in BOOLEAN, Open(h, k, gated)
      PROVE  GateInv'
  BY <1>0, <1>1 DEF Open, Arrive, Request, history
<1>2. ASSUME NEW h \in Handlers, NEW k \in Keys, NEW g \in 1 .. grants, Authorize(h, k, g)
      PROVE  GateInv'
  BY <1>0, <1>2 DEF Authorize, Arrive, Request, history
<1>3. ASSUME NEW h \in Handlers, NEW k \in Keys, Close(h, k) PROVE GateInv'
  BY <1>0, <1>3 DEF Close, Arrive, Request, history
<1>4. ASSUME NEW h \in Handlers, Lookup(h) PROVE GateInv'
  BY <1>0, <1>4 DEF Lookup, HavingRow, Goto, At, Requests, history
<1>5. ASSUME NEW h \in Handlers, Allocate(h) PROVE GateInv'
  BY <1>0, <1>5 DEF Allocate, HavingRow, At, Requests, NewRow, history
<1>6. ASSUME NEW h \in Handlers, AllocateFails(h) \/ QueryFails(h) PROVE GateInv'
  BY <1>0, <1>6 DEF AllocateFails, QueryFails, Respond, history
<1>7. ASSUME NEW h \in Handlers, IssueGrant(h) PROVE GateInv'
  BY <1>0, <1>7 DEF IssueGrant, UpdateById, Reserved, HasRow, Respond, At, Requests, Rows
<1>8. ASSUME NEW h \in Handlers, AddPeer(h) PROVE GateInv'
  <2>1. /\ handler[h] # None /\ handler[h].op = "open" /\ handler[h].at = "add"
        /\ handler[h].id \in Ids \cup {None} /\ handler[h].key \in Keys \cap LegacyKeys
    BY <1>0, <1>8 DEF AddPeer, At, Requests
  <2>2. PICK ok \in BOOLEAN : NodeCall(handler[h].key, handler[h].id, TRUE, ok)
    BY <1>0, <1>8 DEF AddPeer
  <2>3. /\ \A j \in Keys : node'[j] => node[j] \/ j = handler[h].key
        /\ \A m \in late' : m \in late \/ m.key = handler[h].key
    BY <1>0, <2>1, <2>2, AddCall
  <2>4. OnlyLegacyOpensAdd'
    BY <1>0, <1>8, <2>1 DEF AddPeer, Respond, Goto, Requests
  <2>5. AddsAreGated'
    BY <1>0, <1>8, <2>1, <2>3 DEF AddPeer, Respond, Goto, Requests
  <2> QED
    BY <1>0, <1>8, <2>1, <2>3, <2>4, <2>5 DEF AddPeer
<1>9. ASSUME NEW h \in Handlers, Rollback(h) PROVE GateInv'
  BY <1>0, <1>9 DEF Rollback, DeleteById, Respond, history
<1>10. ASSUME NEW h \in Handlers, CheckGrant(h) PROVE GateInv'
  <2> DEFINE k == handler[h].key
             g == handler[h].grant
  <2>1. handler[h] \in Requests /\ k \in Keys /\ g \in 1 .. grants /\ g # None
    BY <1>0, <1>10, NoneAssumption DEF CheckGrant, At, Requests, TypeInv, HandlerKnows
  <2>2. CASE row[k] # None /\ ~ AlreadyArmed(k) /\ Valid(k, g)
    <3>1. /\ handler' = [handler EXCEPT ![h].at = "add", ![h].id = row[k].id]
          /\ accepted' = [accepted EXCEPT ![k] = @ \cup {g}]
          /\ g \in issued[k]
          /\ handler[h].op = "authorize"
          /\ UNCHANGED <<row, node, late, issued>>
      BY <1>10, <2>1, <2>2 DEF CheckGrant, Valid, At
    <3>2. /\ \A j \in Keys : accepted[j] # {} => accepted'[j] # {}
          /\ \A j \in Keys \ LegacyKeys : accepted'[j] \subseteq issued'[j]
      BY <1>0, <2>1, <3>1
    <3>3. accepted'[k] # {}
      BY <1>0, <2>1, <3>1
    <3>4. OnlyLegacyOpensAdd'
      BY <1>0, <2>1, <3>1 DEF Requests
    <3>5. \A f \in Handlers :
            handler'[f] # None /\ handler'[f].op = "authorize" /\ handler'[f].at \in {"add", "mark"}
              => accepted'[handler'[f].key] # {}
      BY <1>0, <2>1, <3>1, <3>2, <3>3 DEF Requests
    <3>6. \A m \in late : m.key \in Keys
      BY <1>0 DEF TypeOK
    <3>7. AddsAreGated'
      BY <3>1, <3>2, <3>5, <3>6
    <3> QED
      BY <3>1, <3>2, <3>4, <3>7
  <2>3. CASE ~ (row[k] # None /\ ~ AlreadyArmed(k) /\ Valid(k, g))
    BY <1>0, <1>10, <2>3 DEF CheckGrant, Respond
  <2> QED
    BY <2>2, <2>3
<1>11. ASSUME NEW h \in Handlers, ArmPeer(h) PROVE GateInv'
  <2>1. /\ handler[h] # None /\ handler[h].op = "authorize" /\ handler[h].at = "add"
        /\ handler[h].id \in Ids \cup {None} /\ handler[h].key \in Keys
        /\ accepted[handler[h].key] # {}
    BY <1>0, <1>11 DEF ArmPeer, At, Requests
  <2>2. PICK ok \in BOOLEAN : NodeCall(handler[h].key, handler[h].id, TRUE, ok)
    BY <1>0, <1>11 DEF ArmPeer
  <2>3. /\ \A j \in Keys : node'[j] => node[j] \/ j = handler[h].key
        /\ \A m \in late' : m \in late \/ m.key = handler[h].key
    BY <1>0, <2>1, <2>2, AddCall
  <2>4. OnlyLegacyOpensAdd'
    BY <1>0, <1>11, <2>1 DEF ArmPeer, Respond, Goto, Requests
  <2>5. AddsAreGated'
    BY <1>0, <1>11, <2>1, <2>3 DEF ArmPeer, Respond, Goto, Requests
  <2> QED
    BY <1>0, <1>11, <2>1, <2>3, <2>4, <2>5 DEF ArmPeer
<1>12. ASSUME NEW h \in Handlers, MarkConsumed(h) PROVE GateInv'
  BY <1>0, <1>12 DEF MarkConsumed, UpdateById, HasRow, Respond, At, Requests, Rows
<1>13. ASSUME NEW h \in Handlers, RemovePeer(h) PROVE GateInv'
  <2>1. /\ handler[h] # None /\ handler[h].op = "close" /\ handler[h].key \in Keys
    BY <1>0, <1>13 DEF RemovePeer, At, Requests
  <2>2. PICK ok \in BOOLEAN : NodeCall(handler[h].key, None, FALSE, ok)
    BY <1>0, <1>13 DEF RemovePeer
  <2>3. /\ \A j \in Keys : node'[j] => node[j]
        /\ \A m \in late' : m.on => m \in late
    BY <1>0, <2>1, <2>2, RemoveCall
  <2> QED
    BY <1>0, <1>13, <2>1, <2>3 DEF RemovePeer, Goto, Requests
<1>14. ASSUME NEW h \in Handlers, Erase(h) PROVE GateInv'
  BY <1>0, <1>14 DEF Erase, Respond, At, Requests, history
<1>15. ASSUME NEW p \in Reapers, ReapSelect(p) PROVE GateInv'
  BY <1>0, <1>15 DEF ReapSelect, history
<1>16. ASSUME NEW p \in Reapers, ReapRemove(p) PROVE GateInv'
  <2>1. PICK victim \in reaper[p].todo, ok \in BOOLEAN : NodeCall(victim[1], None, FALSE, ok)
    BY <1>0, <1>16 DEF ReapRemove
  <2>2. victim[1] \in Keys
    BY <1>0, <1>16 DEF ReapRemove
  <2>3. /\ \A j \in Keys : node'[j] => node[j]
        /\ \A m \in late' : m.on => m \in late
    BY <1>0, <2>1, <2>2, RemoveCall
  <2> QED
    BY <1>0, <1>16, <2>3 DEF ReapRemove
<1>17. ASSUME NEW p \in Reapers, ReapErase(p) \/ ReapUnauthorized(p) PROVE GateInv'
  BY <1>0, <1>17 DEF ReapErase, ReapUnauthorized, DeleteById, history
<1>18. ASSUME NEW m \in late, LateCall(m) PROVE GateInv'
  BY <1>0, <1>18 DEF LateCall, Execute
<1>19. ASSUME NEW k \in Keys, GrantLapses(k) \/ GoesStale(k) \/ Handshake(k)
       PROVE  GateInv'
  <2>1. /\ row[k] # None /\ row[k] \in Rows
        /\ \/ row' = [row EXCEPT ![k] = [row[k] EXCEPT !.lapsed = TRUE]]
           \/ row' = [row EXCEPT ![k] = [row[k] EXCEPT !.stale = TRUE]]
           \/ row' = [row EXCEPT ![k] = [row[k] EXCEPT !.stale = FALSE]]
    BY <1>0, <1>19 DEF GrantLapses, GoesStale, Handshake
  <2>2. \A j \in Keys : row'[j] # None => row[j] # None /\ row'[j].grant = row[j].grant
    BY <1>0, <2>1 DEF Rows
  <2> QED
    BY <1>0, <1>19, <2>2 DEF GrantLapses, GoesStale, Handshake, history
<1>20. CASE UNCHANGED vars
  BY <1>0, <1>20 DEF vars, history
<1> QED
  BY <1>1, <1>2, <1>3, <1>4, <1>5, <1>6, <1>7, <1>8, <1>9, <1>10, <1>11, <1>12,
     <1>13, <1>14, <1>15, <1>16, <1>17, <1>18, <1>19, <1>20
  DEF Next, Arrival, HandlerStep, ReaperStep, Environment

\* A key that only connects through the gate is on the node only after one of
\* its own grants was redeemed, with every overlap, fault and late call.
THEOREM GateCorrect == Spec => []GateHolds
<1>1. GateInv => GateHolds
  BY DEF GateInv
<1> QED
  BY <1>1, Typed, InitGateInv, GateStep, PTL DEF Spec

-----------------------------------------------------------------------------
(* Grants *)

\* No two rows hold the same grant, and none one that is yet to be issued.
GrantsAreDistinct ==
    /\ \A k \in Keys : row[k] # None /\ row[k].grant # None => row[k].grant \in 1 .. grants
    /\ \A j, k \in Keys : row[j] # None /\ row[k] # None /\ row[j].grant # None
                             /\ row[j].grant = row[k].grant => j = k
    /\ spent \subseteq 1 .. grants

\* A row that holds the grant of a redemption in progress is the row it found.
RedeemsItsRow ==
    \A h \in Handlers : At(h, "authorize", "add") \/ At(h, "authorize", "mark") =>
        \A k \in Keys : row[k] # None /\ row[k].grant = handler[h].grant =>
            k = handler[h].key /\ row[k].id = handler[h].id

\* Nobody is about to record a redemption the node has not executed.
MarksProgrammed ==
    \A h \in Handlers : At(h, "authorize", "mark") => handler[h].id \in programmed

ConsumedIsArmed == \A k \in Keys : row[k] # None /\ row[k].consumed => row[k].armed

GrantInv ==
    /\ GrantsAreDistinct /\ RedeemsItsRow /\ SpentGrantsStaySpent
    /\ MarksProgrammed /\ ConsumedWasProgrammed
    /\ ConsumedIsArmed

\* A consumed grant means an armed row, so a grant is redeemed or redeemable.
LEMMA CurrentFromArmed == TypeOK /\ ConsumedIsArmed => CurrentGrantAccepted
  BY DEF TypeOK, Rows, ConsumedIsArmed, CurrentGrantAccepted, AlreadyArmed, Valid

\* Steps that leave every row as it is, or delete it, or change no more than
\* lapsed and stale, record no redemption and let nobody begin one, keep GrantInv.
LEMMA QuietStep ==
    ASSUME TypeInv, GrantInv, grants' = grants, spent' = spent,
           programmed \subseteq programmed',
           \A k \in Keys : row'[k] # None =>
              /\ row[k] # None
              /\ row'[k].id = row[k].id /\ row'[k].grant = row[k].grant
              /\ row'[k].consumed = row[k].consumed /\ row'[k].armed = row[k].armed,
           \A h \in Handlers : handler'[h] # None /\ handler'[h].op = "authorize"
              /\ handler'[h].at \in {"add", "mark"} => handler'[h] = handler[h]
    PROVE  GrantInv'
<1> USE DEF GrantInv
<1>1. GrantsAreDistinct'
  BY DEF GrantsAreDistinct
<1>2. RedeemsItsRow'
  BY DEF RedeemsItsRow, At
<1>3. SpentGrantsStaySpent' /\ ConsumedWasProgrammed' /\ ConsumedIsArmed'
  BY DEF SpentGrantsStaySpent, ConsumedWasProgrammed, ConsumedIsArmed
<1>4. MarksProgrammed'
  BY DEF MarksProgrammed, At
<1> QED
  BY <1>1, <1>2, <1>3, <1>4

\* Initially no grant exists.
LEMMA InitGrantInv == Init => GrantInv
  BY DEF Init, GrantInv, GrantsAreDistinct, RedeemsItsRow, SpentGrantsStaySpent, At,
         MarksProgrammed, ConsumedWasProgrammed, ConsumedIsArmed

\* No step makes a grant good twice, records a redemption that did not reach the
\* node, or spoils the grant a row holds.
LEMMA GrantStep == TypeInv /\ GrantInv /\ [Next]_vars => GrantInv'
<1> SUFFICES ASSUME TypeInv, GrantInv, [Next]_vars PROVE GrantInv'
  OBVIOUS
<1>0. /\ TypeOK
      /\ row \in [Keys -> Rows \cup {None}]
      /\ handler \in [Handlers -> Requests \cup {None}]
      /\ grants \in Nat
      /\ \A p \in Reapers : reaper[p] # None => reaper[p].todo \subseteq Keys \X Ids
      /\ \A h \in Handlers : handler[h] # None /\ handler[h].op = "authorize"
            => handler[h].grant \in 1 .. grants
  BY BoundsAssumption DEF TypeInv, TypeOK, Passes, HandlerKnows
<1>1. ASSUME NEW h \in Handlers, Arrival(h) PROVE GrantInv'
  <2>1. /\ UNCHANGED <<row, grants, spent, programmed>>
        /\ \E r : handler' = [handler EXCEPT ![h] = r] /\ r.at = "begin"
    <3>1. ASSUME NEW op, NEW k, NEW gated, NEW g
          PROVE  Request(op, k, gated, g).at = "begin"
      BY DEF Request
    <3>2. \E r : Arrive(h, r) /\ r.at = "begin"
      BY <1>1, <3>1 DEF Arrival, Open, Authorize, Close
    <3> QED
      BY <3>2 DEF Arrive, history
  <2> QED
    BY <1>0, <2>1, QuietStep
<1>2. ASSUME NEW h \in Handlers, Lookup(h) PROVE GrantInv'
  <2>1. /\ UNCHANGED <<row, grants, spent, programmed>>
        /\ handler'[h].op = "open"
        /\ \A f \in Handlers : f # h => handler'[f] = handler[f]
    BY <1>0, <1>2 DEF Lookup, HavingRow, Goto, At, Requests, history
  <2> QED
    BY <1>0, <2>1, QuietStep
<1>3. ASSUME NEW h \in Handlers, Allocate(h) PROVE GrantInv'
  <2> DEFINE k == handler[h].key
  <2>1. /\ k \in Keys /\ handler[h] \in Requests /\ handler[h].op = "open"
        /\ row' = [row EXCEPT ![k] = NewRow(rows + 1)]
        /\ UNCHANGED <<grants, spent, programmed>>
        /\ \A f \in Handlers : f # h => handler'[f] = handler[f]
        /\ handler'[h].op = "open"
    BY <1>0, <1>3 DEF Allocate, HavingRow, At, Requests, history
  <2>2. /\ \A j \in Keys : j # k => row'[j] = row[j]
        /\ row'[k].grant = None /\ ~ row'[k].consumed
    BY <1>0, <2>1 DEF NewRow
  <2>3. GrantsAreDistinct'
    BY <2>1, <2>2 DEF GrantInv, GrantsAreDistinct
  <2>4. RedeemsItsRow' /\ MarksProgrammed'
    BY <1>0, <2>1, <2>2, NoneAssumption DEF GrantInv, RedeemsItsRow, MarksProgrammed, At
  <2>5. SpentGrantsStaySpent'
    <3>1. None \notin spent
      <4>1. spent \subseteq 1 .. grants
        BY DEF GrantInv, GrantsAreDistinct
      <4>2. None \notin 1 .. grants
        BY <1>0, NoneAssumption
      <4> QED
        BY <4>1, <4>2
    <3> QED
      BY <2>1, <2>2, <3>1 DEF GrantInv, SpentGrantsStaySpent
  <2>6. ConsumedWasProgrammed' /\ ConsumedIsArmed'
    BY <2>1, <2>2 DEF GrantInv, ConsumedWasProgrammed, ConsumedIsArmed
  <2> QED
    BY <2>3, <2>4, <2>5, <2>6 DEF GrantInv
<1>4. ASSUME NEW h \in Handlers, AllocateFails(h) \/ QueryFails(h) PROVE GrantInv'
  <2>1. /\ UNCHANGED <<row, grants, spent, programmed>>
        /\ handler' = [handler EXCEPT ![h] = None]
    BY <1>4 DEF AllocateFails, QueryFails, Respond, history
  <2> QED
    BY <1>0, <2>1, QuietStep
<1>5. ASSUME NEW h \in Handlers, IssueGrant(h) PROVE GrantInv'
  <2> DEFINE k == handler[h].key
             g == grants + 1
  <2>1. /\ k \in Keys /\ g \in Nat /\ g \notin 1 .. grants /\ g # None
        /\ UpdateById(k, handler[h].id, Reserved(row[k], g))
        /\ handler' = [handler EXCEPT ![h] = None]
        /\ grants' = g /\ UNCHANGED <<spent, programmed>>
    BY <1>0, <1>5, NoneAssumption DEF IssueGrant, At, Requests, Respond
  <2>2. /\ \A j \in Keys : j # k => row'[j] = row[j]
        /\ \/ row'[k] = row[k]
           \/ /\ row[k] # None
              /\ row'[k].grant = g /\ ~ row'[k].consumed
    BY <1>0, <2>1 DEF UpdateById, HasRow, Reserved, Rows
  <2>3. GrantsAreDistinct'
    BY <1>0, <2>1, <2>2 DEF GrantInv, GrantsAreDistinct
  <2>4. RedeemsItsRow' /\ MarksProgrammed'
    BY <1>0, <2>1, <2>2 DEF GrantInv, RedeemsItsRow, MarksProgrammed, At
  <2>5. SpentGrantsStaySpent'
    BY <2>1, <2>2 DEF GrantInv, SpentGrantsStaySpent, GrantsAreDistinct
  <2>6. ConsumedWasProgrammed' /\ ConsumedIsArmed'
    BY <2>1, <2>2 DEF GrantInv, ConsumedWasProgrammed, ConsumedIsArmed
  <2> QED
    BY <2>3, <2>4, <2>5, <2>6 DEF GrantInv
<1>6. ASSUME NEW h \in Handlers, AddPeer(h) PROVE GrantInv'
  <2>1. /\ handler[h] \in Requests /\ handler[h].op = "open" /\ handler[h].key \in Keys
        /\ handler[h].id \in Ids \cup {None}
        /\ UNCHANGED <<row, grants, spent>>
    BY <1>0, <1>6 DEF AddPeer, At, Requests
  <2>2. PICK ok \in BOOLEAN : NodeCall(handler[h].key, handler[h].id, TRUE, ok)
    BY <1>6 DEF AddPeer
  <2>3. programmed \subseteq programmed'
    BY <1>0, <2>1, <2>2, AddCall
  <2>4. /\ \A f \in Handlers : f # h => handler'[f] = handler[f]
        /\ handler'[h] # None => handler'[h].op = "open"
    BY <1>0, <1>6, <2>1 DEF AddPeer, Respond, Goto, Requests
  <2> QED
    BY <1>0, <2>1, <2>3, <2>4, QuietStep
<1>7. ASSUME NEW h \in Handlers, Rollback(h) PROVE GrantInv'
  <2>1. /\ UNCHANGED <<grants, spent, programmed>>
        /\ handler' = [handler EXCEPT ![h] = None]
        /\ \A k \in Keys : row'[k] # None => row'[k] = row[k]
    BY <1>0, <1>7 DEF Rollback, DeleteById, Respond, At, history
  <2> QED
    BY <1>0, <2>1, QuietStep
<1>8. ASSUME NEW h \in Handlers, CheckGrant(h) PROVE GrantInv'
  <2> DEFINE k == handler[h].key
             g == handler[h].grant
  <2>1. /\ handler[h] \in Requests /\ k \in Keys /\ g \in 1 .. grants /\ g # None
        /\ handler[h].op = "authorize"
        /\ UNCHANGED <<row, grants, spent, programmed>>
    BY <1>0, <1>8, NoneAssumption DEF CheckGrant, At, Requests
  <2>2. CASE row[k] # None /\ ~ AlreadyArmed(k) /\ Valid(k, g)
    <3>1. /\ \A f \in Handlers : f # h => handler'[f] = handler[f]
          /\ handler'[h] = [handler[h] EXCEPT !.at = "add", !.id = row[k].id]
          /\ row[k].grant = g
      BY <1>0, <1>8, <2>2 DEF CheckGrant, Valid
    <3>2. /\ handler'[h].key = k /\ handler'[h].grant = g
          /\ handler'[h].id = row[k].id /\ handler'[h].at = "add"
      BY <2>1, <3>1 DEF Requests
    <3>3. \A j \in Keys : row[j] # None /\ row[j].grant = g => j = k
      BY <2>1, <2>2, <3>1 DEF GrantInv, GrantsAreDistinct
    <3>5. RedeemsItsRow'
      <4> SUFFICES ASSUME NEW f \in Handlers,
                          At(f, "authorize", "add")' \/ At(f, "authorize", "mark")',
                          NEW j \in Keys, row[j] # None, row[j].grant = handler'[f].grant
                   PROVE  j = handler'[f].key /\ row[j].id = handler'[f].id
        BY <2>1 DEF RedeemsItsRow
      <4>1. CASE f = h
        BY <3>2, <3>3, <4>1
      <4>2. CASE f # h
        BY <3>1, <4>2 DEF GrantInv, RedeemsItsRow, At
      <4> QED
        BY <4>1, <4>2
    <3>4. MarksProgrammed'
      BY <2>1, <3>1, <3>2 DEF GrantInv, MarksProgrammed, At
    <3> QED
      BY <2>1, <3>4, <3>5 DEF GrantInv, GrantsAreDistinct, SpentGrantsStaySpent,
                              ConsumedWasProgrammed, ConsumedIsArmed
  <2>3. CASE ~ (row[k] # None /\ ~ AlreadyArmed(k) /\ Valid(k, g))
    <3>1. handler' = [handler EXCEPT ![h] = None]
      BY <1>8, <2>3 DEF CheckGrant, Respond
    <3> QED
      BY <1>0, <2>1, <3>1, QuietStep
  <2> QED
    BY <2>2, <2>3
<1>9. ASSUME NEW h \in Handlers, ArmPeer(h) PROVE GrantInv'
  <2>1. /\ handler[h] \in Requests /\ handler[h].op = "authorize" /\ handler[h].at = "add"
        /\ handler[h].key \in Keys /\ handler[h].id \in Ids \cup {None}
        /\ UNCHANGED <<row, grants, spent>>
    BY <1>0, <1>9 DEF ArmPeer, At, Requests
  <2>2. PICK ok \in BOOLEAN :
          /\ NodeCall(handler[h].key, handler[h].id, TRUE, ok)
          /\ IF ok THEN Goto(h, "mark") ELSE Respond(h)
    BY <1>9 DEF ArmPeer
  <2>3. programmed \subseteq programmed' /\ (ok => handler[h].id \in programmed')
    BY <1>0, <2>1, <2>2, AddCall
  <2>4. CASE ok
    <3>1. /\ \A f \in Handlers : f # h => handler'[f] = handler[f]
          /\ handler'[h] = [handler[h] EXCEPT !.at = "mark"]
      BY <1>0, <2>2, <2>4 DEF Goto
    <3>2. /\ handler'[h].key = handler[h].key /\ handler'[h].grant = handler[h].grant
          /\ handler'[h].id = handler[h].id
      BY <2>1, <3>1 DEF Requests
    <3>3. RedeemsItsRow'
      <4>1. At(h, "authorize", "add")
        BY <1>9 DEF ArmPeer
      <4>2. \A f \in Handlers :
              At(f, "authorize", "add")' \/ At(f, "authorize", "mark")' =>
                 /\ At(f, "authorize", "add") \/ At(f, "authorize", "mark")
                 /\ handler'[f].grant = handler[f].grant
                 /\ handler'[f].key = handler[f].key /\ handler'[f].id = handler[f].id
        BY <3>1, <3>2, <4>1 DEF At
      <4> QED
        BY <2>1, <4>2 DEF GrantInv, RedeemsItsRow
    <3>4. MarksProgrammed'
      BY <2>3, <2>4, <3>1, <3>2 DEF GrantInv, MarksProgrammed, At
    <3> QED
      BY <2>1, <2>3, <3>3, <3>4 DEF GrantInv, GrantsAreDistinct, SpentGrantsStaySpent,
                              ConsumedWasProgrammed, ConsumedIsArmed
  <2>5. CASE ~ ok
    <3>1. handler' = [handler EXCEPT ![h] = None]
      BY <2>2, <2>5 DEF Respond
    <3> QED
      BY <1>0, <2>1, <2>3, <3>1, QuietStep
  <2> QED
    BY <2>4, <2>5
<1>10. ASSUME NEW h \in Handlers, MarkConsumed(h) PROVE GrantInv'
  <2> DEFINE k == handler[h].key
             g == handler[h].grant
  <2>1. /\ At(h, "authorize", "mark") /\ k \in Keys /\ g \in 1 .. grants
        /\ UpdateById(k, handler[h].id,
              [row[k] EXCEPT !.armed = TRUE, !.consumed = TRUE])
        /\ spent' = spent \cup {g} /\ handler' = [handler EXCEPT ![h] = None]
        /\ UNCHANGED <<grants, programmed>>
    BY <1>0, <1>10 DEF MarkConsumed, At, Requests, Respond
  <2>2. /\ \A j \in Keys : row'[j] # None =>
              /\ row[j] # None
              /\ row'[j].id = row[j].id /\ row'[j].grant = row[j].grant
              /\ \/ row'[j] = row[j]
                 \/ j = k /\ HasRow(k, handler[h].id) /\ row'[j].armed /\ row'[j].consumed
        /\ HasRow(k, handler[h].id) => row'[k].consumed
    BY <1>0, <2>1 DEF UpdateById, HasRow, Rows
  <2>3. GrantsAreDistinct'
    BY <2>1, <2>2 DEF GrantInv, GrantsAreDistinct
  <2>4. RedeemsItsRow' /\ MarksProgrammed'
    BY <1>0, <2>1, <2>2 DEF GrantInv, RedeemsItsRow, MarksProgrammed, At
  <2>5. SpentGrantsStaySpent'
    BY <2>1, <2>2 DEF GrantInv, SpentGrantsStaySpent, RedeemsItsRow, HasRow
  <2>6. ConsumedWasProgrammed' /\ ConsumedIsArmed'
    BY <2>1, <2>2 DEF GrantInv, ConsumedWasProgrammed, ConsumedIsArmed, MarksProgrammed, HasRow
  <2> QED
    BY <2>3, <2>4, <2>5, <2>6 DEF GrantInv
<1>11. ASSUME NEW h \in Handlers, RemovePeer(h) PROVE GrantInv'
  <2>1. /\ handler[h] \in Requests /\ handler[h].op = "close" /\ handler[h].key \in Keys
        /\ UNCHANGED <<row, grants, spent>>
    BY <1>0, <1>11 DEF RemovePeer, At, Requests
  <2>2. PICK ok \in BOOLEAN : NodeCall(handler[h].key, None, FALSE, ok)
    BY <1>11 DEF RemovePeer
  <2>3. programmed' = programmed
    BY <1>0, <2>1, <2>2, RemoveCall
  <2>4. /\ \A f \in Handlers : f # h => handler'[f] = handler[f]
        /\ handler'[h].op = "close"
    BY <1>0, <1>11, <2>1 DEF RemovePeer, Goto, Requests
  <2> QED
    BY <1>0, <2>1, <2>3, <2>4, QuietStep
<1>12. ASSUME NEW h \in Handlers, Erase(h) PROVE GrantInv'
  <2>1. /\ UNCHANGED <<grants, spent, programmed>>
        /\ handler' = [handler EXCEPT ![h] = None]
        /\ \A k \in Keys : row'[k] # None => row'[k] = row[k]
    BY <1>0, <1>12 DEF Erase, Respond, history
  <2> QED
    BY <1>0, <2>1, QuietStep
<1>13. ASSUME NEW p \in Reapers, ReapSelect(p) \/ ReapErase(p) \/ ReapUnauthorized(p)
       PROVE GrantInv'
  <2>1. /\ UNCHANGED <<handler, grants, spent, programmed>>
        /\ \A k \in Keys : row'[k] # None => row'[k] = row[k]
    BY <1>0, <1>13 DEF ReapSelect, ReapErase, ReapUnauthorized, DeleteById, history
  <2> QED
    BY <1>0, <2>1, QuietStep
<1>14. ASSUME NEW p \in Reapers, ReapRemove(p) PROVE GrantInv'
  <2>1. PICK victim \in reaper[p].todo, ok \in BOOLEAN : NodeCall(victim[1], None, FALSE, ok)
    BY <1>14 DEF ReapRemove
  <2>2. victim[1] \in Keys
    BY <1>0, <1>14 DEF ReapRemove
  <2>3. UNCHANGED <<row, handler, grants, spent, programmed>>
    BY <1>0, <1>14, <2>1, <2>2, RemoveCall DEF ReapRemove
  <2> QED
    BY <1>0, <2>3, QuietStep
<1>15. ASSUME NEW m \in late, LateCall(m) PROVE GrantInv'
  <2>1. UNCHANGED <<row, handler, grants, spent>> /\ programmed \subseteq programmed'
    BY <1>15 DEF LateCall, Execute
  <2> QED
    BY <1>0, <2>1, QuietStep
<1>16. ASSUME NEW k \in Keys, GrantLapses(k) \/ GoesStale(k) \/ Handshake(k)
       PROVE  GrantInv'
  <2>1. /\ row[k] # None /\ row[k] \in Rows
        /\ \/ row' = [row EXCEPT ![k] = [row[k] EXCEPT !.lapsed = TRUE]]
           \/ row' = [row EXCEPT ![k] = [row[k] EXCEPT !.stale = TRUE]]
           \/ row' = [row EXCEPT ![k] = [row[k] EXCEPT !.stale = FALSE]]
        /\ UNCHANGED <<handler, grants, spent, programmed>>
    BY <1>0, <1>16 DEF GrantLapses, GoesStale, Handshake, history
  <2>2. \A j \in Keys : row'[j] # None =>
           /\ row[j] # None
           /\ row'[j].id = row[j].id /\ row'[j].grant = row[j].grant
           /\ row'[j].consumed = row[j].consumed /\ row'[j].armed = row[j].armed
    BY <1>0, <2>1 DEF Rows
  <2> QED
    BY <2>1, <2>2, QuietStep
<1>17. CASE UNCHANGED vars
  <2>1. UNCHANGED <<row, handler, grants, spent, programmed>>
    BY <1>17 DEF vars, history
  <2> QED
    BY <2>1, QuietStep
<1> QED
  BY <1>1, <1>2, <1>3, <1>4, <1>5, <1>6, <1>7, <1>8, <1>9, <1>10, <1>11, <1>12,
     <1>13, <1>14, <1>15, <1>16, <1>17
  DEF Next, HandlerStep, ReaperStep, Environment

\* GrantInv is an invariant.
LEMMA GrantsKept == Spec => []GrantInv
  BY Typed, InitGrantInv, GrantStep, PTL DEF Spec

\* A grant that was answered ok can not be redeemed again by a later request,
\* whatever re-registrations and redemptions of its key overlap.
THEOREM GrantsSingleUse == Spec => []SpentGrantsStaySpent
<1>1. GrantInv => SpentGrantsStaySpent
  BY DEF GrantInv
<1> QED
  BY <1>1, GrantsKept, PTL

\* A row says consumed only if the node executed an add for this very row.
THEOREM ConsumedOnNode == Spec => []ConsumedWasProgrammed
<1>1. GrantInv => ConsumedWasProgrammed
  BY DEF GrantInv
<1> QED
  BY <1>1, GrantsKept, PTL

\* The unexpired grant of a row is redeemed or can be redeemed.
THEOREM CurrentGrantGood == Spec => []CurrentGrantAccepted
<1>1. TypeInv /\ GrantInv => CurrentGrantAccepted
  BY CurrentFromArmed DEF TypeInv, GrantInv
<1> QED
  BY <1>1, Typed, GrantsKept, PTL

-----------------------------------------------------------------------------
(* What a pass of the reaper selected was there when it did *)

\* Rows are numbered as they are created.
IdsAreUsed == \A k \in Keys : row[k] # None => row[k].id <= rows

SelectedIsOld ==
    \A p \in Reapers : reaper[p] # None =>
        /\ \A victim \in reaper[p].todo : victim[2] <= reaper[p].since
        /\ reaper[p].gone # None => reaper[p].gone[2] <= reaper[p].since

\* What statements leave in the table: a row that was there, or a new one.
RowsKeepIds ==
    \A k \in Keys : row'[k] # None =>
        \/ row[k] # None /\ row'[k].id = row[k].id
        \/ row'[k].id = rows'

LEMMA HandlersKeepIds ==
    ASSUME TypeInv, NEW h \in Handlers, Arrival(h) \/ HandlerStep(h)
    PROVE  RowsKeepIds /\ rows' \in {rows, rows + 1} /\ UNCHANGED reaper
<1> USE DEF TypeInv, TypeOK
<1>1. CASE UNCHANGED <<row, rows, reaper>>
  BY <1>1 DEF RowsKeepIds
<1>2. CASE Allocate(h)
  BY <1>2 DEF Allocate, NewRow, RowsKeepIds
<1>3. CASE IssueGrant(h) \/ MarkConsumed(h)
  <2>1. PICK k, new :
          /\ k = handler[h].key
          /\ row[k] # None => new.id = row[k].id
          /\ UpdateById(k, handler[h].id, new)
    <3>1. handler[h].key \in Keys
      BY <1>3 DEF IssueGrant, MarkConsumed, At, Requests
    <3>2. CASE IssueGrant(h)
      BY <3>1, <3>2 DEF IssueGrant, Reserved, Rows
    <3>3. CASE MarkConsumed(h)
      BY <3>1, <3>3 DEF MarkConsumed, Rows
    <3> QED
      BY <1>3, <3>2, <3>3
  <2> QED
    BY <1>3, <2>1 DEF IssueGrant, MarkConsumed, UpdateById, HasRow, RowsKeepIds
<1>4. CASE Rollback(h) \/ Erase(h)
  BY <1>4 DEF Rollback, Erase, DeleteById, RowsKeepIds
<1> QED
  BY <1>1, <1>2, <1>3, <1>4 DEF Arrival, Open, Authorize, Close, Arrive, HandlerStep,
     Lookup, AllocateFails, AddPeer, CheckGrant, ArmPeer, RemovePeer, QueryFails

LEMMA OthersKeepIds ==
    ASSUME TypeInv,
           \/ \E p \in Reapers : ReapSelect(p) \/ ReaperStep(p)
           \/ Environment
           \/ UNCHANGED vars
    PROVE  RowsKeepIds /\ rows' = rows
<1> USE DEF TypeInv, TypeOK
<1>1. CASE UNCHANGED <<row, rows>>
  BY <1>1 DEF RowsKeepIds
<1>2. ASSUME NEW p \in Reapers, ReapErase(p) \/ ReapUnauthorized(p)
      PROVE  RowsKeepIds /\ rows' = rows
  BY <1>2 DEF ReapErase, ReapUnauthorized, DeleteById, RowsKeepIds
<1>3. ASSUME NEW k \in Keys, GrantLapses(k) \/ GoesStale(k) \/ Handshake(k)
      PROVE  RowsKeepIds /\ rows' = rows
  <2>1. PICK r : r = row[k]
    OBVIOUS
  <2>2. r \in Rows
    BY <1>3, <2>1 DEF GrantLapses, GoesStale, Handshake
  <2>3. \/ row' = [row EXCEPT ![k] = [r EXCEPT !.lapsed = TRUE]]
        \/ row' = [row EXCEPT ![k] = [r EXCEPT !.stale = TRUE]]
        \/ row' = [row EXCEPT ![k] = [r EXCEPT !.stale = FALSE]]
    BY <1>3, <2>1 DEF GrantLapses, GoesStale, Handshake
  <2>4. \A i \in Keys : row'[i] # None => row[i] # None /\ row'[i].id = row[i].id
    BY <1>3, <2>1, <2>2, <2>3 DEF Rows, GrantLapses, GoesStale, Handshake
  <2> QED
    BY <1>3, <2>4 DEF RowsKeepIds, GrantLapses, GoesStale, Handshake
<1> QED
  BY <1>1, <1>2, <1>3 DEF ReapSelect, ReaperStep, ReapRemove, Environment, LateCall, vars

LEMMA IdsStayUsed == TypeInv /\ IdsAreUsed /\ [Next]_vars => TypeInv' /\ IdsAreUsed'
<1> SUFFICES ASSUME TypeInv, IdsAreUsed, [Next]_vars PROVE TypeInv' /\ IdsAreUsed'
  OBVIOUS
<1>1. RowsKeepIds /\ rows' \in {rows, rows + 1}
  BY HandlersKeepIds, OthersKeepIds DEF Next
<1>2. TypeInv'
  BY TypeStep
<1>3. \A k \in Keys : row[k] # None => row[k].id \in Nat
  BY DEF TypeInv, TypeOK, Rows, Ids
<1>4. rows \in Nat
  BY BoundsAssumption DEF TypeInv, TypeOK
<1> QED
  BY <1>1, <1>2, <1>3, <1>4 DEF IdsAreUsed, RowsKeepIds

LEMMA SelectedStaysOld ==
    TypeInv /\ IdsAreUsed /\ SelectedIsOld /\ [Next]_vars => SelectedIsOld'
<1> SUFFICES ASSUME TypeInv, IdsAreUsed, SelectedIsOld, [Next]_vars PROVE SelectedIsOld'
  OBVIOUS
<1>1. CASE UNCHANGED reaper
  BY <1>1 DEF SelectedIsOld
<1>2. ASSUME NEW p \in Reapers, NEW new, reaper' = [reaper EXCEPT ![p] = new],
             new # None =>
                /\ \A victim \in new.todo : victim[2] <= new.since
                /\ new.gone # None => new.gone[2] <= new.since
      PROVE  SelectedIsOld'
  BY <1>2 DEF SelectedIsOld, TypeInv, TypeOK
<1>3. ASSUME NEW p \in Reapers, ReapSelect(p)
      PROVE  SelectedIsOld'
  <2>1. PICK new : new =
          [todo |-> {<<k, row[k].id>> : k \in {j \in Keys : row[j] # None /\ row[j].stale}},
           gone |-> None, since |-> rows]
    OBVIOUS
  <2>2. /\ new.gone = None /\ new.since = rows
        /\ new.todo = {<<k, row[k].id>> : k \in {j \in Keys : row[j] # None /\ row[j].stale}}
    BY <2>1
  <2>3. \A victim \in new.todo : victim[2] <= new.since
    BY <2>2 DEF IdsAreUsed
  <2>4. reaper' = [reaper EXCEPT ![p] = new]
    BY <1>3, <2>1 DEF ReapSelect
  <2> QED
    BY <1>2, <2>2, <2>3, <2>4
<1>4. ASSUME NEW p \in Reapers, ReapRemove(p)
      PROVE  SelectedIsOld'
  <2>1. PICK r : r = reaper[p]
    OBVIOUS
  <2>2. r \in Passes /\ \A victim \in r.todo : victim[2] <= r.since
    BY <1>4, <2>1 DEF ReapRemove, SelectedIsOld, TypeInv, TypeOK
  <2>3. PICK victim \in r.todo, ok \in BOOLEAN :
          reaper' = [reaper EXCEPT ![p] =
              [r EXCEPT !.todo = @ \ {victim}, !.gone = IF ok THEN victim ELSE None]]
    BY <1>4, <2>1 DEF ReapRemove
  <2>4. PICK new :
          new = [r EXCEPT !.todo = @ \ {victim}, !.gone = IF ok THEN victim ELSE None]
    OBVIOUS
  <2>5. /\ new.todo = r.todo \ {victim} /\ new.since = r.since
        /\ new.gone \in {victim, None}
    BY <2>2, <2>4 DEF Passes
  <2> QED
    BY <1>2, <2>2, <2>3, <2>4, <2>5
<1>5. ASSUME NEW p \in Reapers, ReapErase(p) \/ ReapUnauthorized(p)
      PROVE  SelectedIsOld'
  <2>1. CASE reaper' = [reaper EXCEPT ![p] = None]
    BY <1>2, <2>1
  <2>2. CASE ReapErase(p) /\ reaper' = [reaper EXCEPT ![p].gone = None]
    <3>1. PICK r, new : r = reaper[p] /\ new = [r EXCEPT !.gone = None]
      OBVIOUS
    <3>2. r \in Passes /\ \A victim \in r.todo : victim[2] <= r.since
      BY <2>2, <3>1 DEF ReapErase, SelectedIsOld, TypeInv, TypeOK
    <3>3. new.todo = r.todo /\ new.gone = None /\ new.since = r.since
      BY <3>1, <3>2 DEF Passes
    <3>4. reaper' = [reaper EXCEPT ![p] = new]
      BY <2>2, <3>1
    <3> QED
      BY <1>2, <3>2, <3>3, <3>4
  <2> QED
    BY <1>5, <2>1, <2>2 DEF ReapErase, ReapUnauthorized
<1> QED
  BY <1>1, <1>3, <1>4, <1>5, HandlersKeepIds
  DEF Next, ReaperStep, Environment, LateCall, GrantLapses, GoesStale, Handshake, vars

\* The step of a pass that has removed a peer is its DELETE, by the id it selected.
LEMMA EraseSparesNewRows ==
    ASSUME TypeInv, SelectedIsOld, [Next]_vars,
           NEW p \in Reapers, NEW k \in Keys,
           reaper[p] # None, reaper[p].gone # None, reaper'[p] # reaper[p],
           row[k] # None, row'[k] = None
    PROVE  row[k].id <= reaper[p].since
<1>1. reaper \in [Reapers -> Passes \cup {None}]
  BY DEF TypeInv, TypeOK
<1>2. PICK q \in Reapers : ReapSelect(q) \/ ReaperStep(q)
  BY HandlersKeepIds
  DEF Next, Environment, LateCall, GrantLapses, GoesStale, Handshake, vars
<1>3. q = p
  BY <1>1, <1>2 DEF ReapSelect, ReaperStep, ReapRemove, ReapErase, ReapUnauthorized
<1>4. ReapErase(p) /\ UNCHANGED rows
  BY <1>2, <1>3 DEF ReapSelect, ReaperStep, ReapRemove, ReapErase, ReapUnauthorized
<1>5. HasRow(k, reaper[p].gone[2])
  BY <1>4 DEF ReapErase, DeleteById, TypeInv, TypeOK
<1> QED
  BY <1>5 DEF HasRow, SelectedIsOld

\* A pass deletes the row it selected, never one that a client created under the
\* same key while the node was called.
THEOREM NewRowsSpared == Spec => ReaperSparesNewRows
<1>1. Init => IdsAreUsed /\ SelectedIsOld
  BY DEF Init, IdsAreUsed, SelectedIsOld
<1>2. TypeInv /\ SelectedIsOld /\ [Next]_vars =>
        [\A p \in Reapers, k \in Keys :
           (reaper[p] # None /\ reaper[p].gone # None /\ reaper'[p] # reaper[p]
              /\ row[k] # None /\ row'[k] = None)
             => row[k].id <= reaper[p].since]_vars
  BY EraseSparesNewRows
<1> QED
  BY <1>1, <1>2, InitTypeInv, IdsStayUsed, SelectedStaysOld, PTL
  DEF Spec, ReaperSparesNewRows
=============================================================================
