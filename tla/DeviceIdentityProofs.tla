------------------------ MODULE DeviceIdentityProofs ------------------------
(***************************************************************************)
(* Proofs about DeviceIdentity, for any clients, keys, servers, handlers,  *)
(* plans and bounds.                                                       *)
(***************************************************************************)
EXTENDS DeviceIdentity, TLAPS

\* d is the devices row of the client c.
Owned(d, c) == d \in Created /\ device[d].client = c

\* Rows of devices are never deleted, and keep their deviceId.
ClientsKept == \A d \in Created : d \in Created' /\ device'[d].client = device[d].client

-----------------------------------------------------------------------------
(* Types, and which device is whose *)

Requests ==
    [op : {"open", "authorize"}, server : Servers, key : Keys,
     auth : Devices \cup {None}, dev : Devices \cup {None},
     plan : Plans \cup {None}, barred : BOOLEAN,
     at : {"row", "resolve", "mint", "quota", "lookup", "allocate", "answer", "add"}]

\* A request with its devices: a client's token names its own device, a client that
\* sends it is resolved to that one and to no other.
RequestOK(r) ==
    /\ r \in Requests
    /\ r.auth # None => Owned(r.auth, Holder[r.key])
    /\ r.dev # None => r.dev \in Created
    /\ r.at \in {"quota", "lookup", "allocate", "answer", "add"} => r.dev # None
    /\ r.at = "quota" => r.plan # None
    /\ Holder[r.key] \in TokenClients =>
          /\ r.at \in {"row", "resolve"} => r.auth # None
          /\ r.at # "mint"
          /\ r.dev # None => Owned(r.dev, Holder[r.key])
    /\ Holder[r.key] \in LegacyClients => r.auth = None

HandlersOK ==
    /\ handler = [h \in Handlers |-> handler[h]]
    /\ \A h \in Handlers : handler[h] # None => RequestOK(handler[h])

OneDevicePerClient ==
    \A d, e \in Created :
        device[d].client = device[e].client /\ device[d].client # None => d = e

TokensOK ==
    \A c \in Clients :
        /\ token[c] # None => Owned(token[c], c)
        /\ c \in LegacyClients => token[c] = None

RowsOK ==
    \A s \in Servers, k \in Keys : owner[s][k] # None =>
        /\ owner[s][k] \in Created
        /\ Holder[k] \in TokenClients => Owned(owner[s][k], Holder[k])

TablesOK ==
    /\ device \in [Devices -> Plans \cup {None}]
    /\ token \in [Clients -> Devices \cup {None}]
    /\ owner \in [Servers -> [Keys -> Devices \cup {None}]]
    /\ used \in [Devices -> 0 .. MaxUsed]
    /\ months \in 0 .. MaxMonths
    /\ misled \subseteq Servers \X Keys

IdentityInv == TablesOK /\ HandlersOK /\ OneDevicePerClient /\ TokensOK /\ RowsOK

LEMMA IdentityTypes == IdentityInv => TypeOK
BY DEF IdentityInv, TablesOK, HandlersOK, RequestOK, Requests, TypeOK

LEMMA IdentityClosesGap == IdentityInv => TokenClosesGap
BY DEF IdentityInv, OneDevicePerClient, RowsOK, Owned, TokenClosesGap

\* What holds of a request outlasts what others do to the tables.
LEMMA RequestStays ==
    ASSUME ClientsKept, NEW r, RequestOK(r)
    PROVE  RequestOK(r)'
BY DEF ClientsKept, RequestOK, Owned

\* A handler goes on with the request r, or is done.
LEMMA HandlerGoesOn ==
    ASSUME HandlersOK, ClientsKept, NEW h \in Handlers, NEW r,
           r # None => RequestOK(r)',
           handler' = [handler EXCEPT ![h] = r]
    PROVE  HandlersOK'
<1>1. handler' = [g \in Handlers |-> handler'[g]]
  BY DEF HandlersOK
<1>2. ASSUME NEW g \in Handlers, handler'[g] # None PROVE RequestOK(handler[g])'
  <2>1. CASE g = h
    <3>1. handler'[g] = r
      BY <2>1 DEF HandlersOK
    <3> QED
      BY <1>2, <3>1 DEF RequestOK, Owned
  <2>2. CASE g # h
    <3>1. handler'[g] = handler[g]
      BY <2>2 DEF HandlersOK
    <3>2. PICK q : q = handler[g]
      OBVIOUS
    <3>3. RequestOK(q)'
      BY <1>2, <3>1, <3>2, RequestStays DEF HandlersOK
    <3> QED
      BY <3>1, <3>2, <3>3 DEF RequestOK, Owned
  <2> QED
    BY <2>1, <2>2
<1> QED
  BY <1>1, <1>2 DEF HandlersOK

\* Devices may come, the other tables stay: tokens and rows keep their owners.
LEMMA OwnersStay ==
    ASSUME ClientsKept, TokensOK, RowsOK, UNCHANGED <<token, owner>>
    PROVE  TokensOK' /\ RowsOK'
BY DEF ClientsKept, TokensOK, RowsOK, Owned

\* A step of a handler that changes no table.
LEMMA RequestStep ==
    ASSUME IdentityInv, NEW h \in Handlers, NEW r, r # None => RequestOK(r),
           handler' = [handler EXCEPT ![h] = r],
           UNCHANGED <<device, token, owner, used, months>>, misled' \subseteq Servers \X Keys
    PROVE  IdentityInv'
<1>1. ClientsKept
  BY DEF ClientsKept, Created
<1>2. r # None => RequestOK(r)'
  BY <1>1, RequestStays
<1>3. HandlersOK'
  BY <1>1, <1>2, HandlerGoesOn DEF IdentityInv
<1>4. TokensOK' /\ RowsOK'
  BY <1>1, OwnersStay DEF IdentityInv
<1> QED
  BY <1>3, <1>4 DEF IdentityInv, TablesOK, OneDevicePerClient, Created

\* The row INSERT leaves is a row.
LEMMA NewRow ==
    ASSUME NEW c \in Clients \cup {None}
    PROVE  /\ [client |-> c, premium |-> FALSE, override |-> None] \in Plans
           /\ [client |-> c, premium |-> FALSE, override |-> None] # None
<1>1. [client |-> c, premium |-> FALSE, override |-> None] \in Plans
  BY DEF Plans
<1> QED
  BY <1>1, NoneAssumption

\* A new row is the first of its client.
LEMMA NewDeviceEffect ==
    ASSUME TablesOK, OneDevicePerClient, NEW d \in Devices, NEW c \in Clients \cup {None},
           NewDevice(d, c), c # None => \A e \in Created : device[e].client # c
    PROVE  /\ device' \in [Devices -> Plans \cup {None}]
           /\ ClientsKept /\ OneDevicePerClient' /\ Owned(d, c)'
<1> DEFINE plan == [client |-> c, premium |-> FALSE, override |-> None]
<1>1. plan \in Plans /\ plan # None /\ plan.client = c
  BY NewRow
<1>2. d \in Devices \ Created /\ device' = [device EXCEPT ![d] = plan]
  BY DEF NewDevice
<1> HIDE DEF plan
<1>3. Created' = Created \cup {d} /\ device'[d] = plan
  BY <1>1, <1>2 DEF TablesOK, Created
<1>4. \A e \in Created : device'[e] = device[e]
  BY <1>2 DEF TablesOK, Created
<1> QED
  BY <1>1, <1>2, <1>3, <1>4 DEF TablesOK, ClientsKept, OneDevicePerClient, Owned

\* A plan changes, for whatever device.
LEMMA PlanChange ==
    ASSUME IdentityInv, NEW d \in Created, NEW plan \in Plans, plan.client = device[d].client,
           device' = [device EXCEPT ![d] = plan],
           NEW clients, Unbar(clients), UNCHANGED <<token, owner, used, months, misled>>
    PROVE  IdentityInv'
<1>1. /\ device' \in [Devices -> Plans \cup {None}]
      /\ Created' = Created /\ \A e \in Created : device'[e].client = device[e].client
  BY NoneAssumption DEF IdentityInv, TablesOK, Created
<1>2. ClientsKept /\ OneDevicePerClient'
  BY <1>1 DEF IdentityInv, ClientsKept, OneDevicePerClient
<1>3. TokensOK' /\ RowsOK'
  BY <1>2, OwnersStay DEF IdentityInv
<1>4. HandlersOK'
  <2>1. handler' = [h \in Handlers |-> handler'[h]]
    BY DEF Unbar
  <2>2. ASSUME NEW h \in Handlers, handler'[h] # None PROVE RequestOK(handler[h])'
    <3>1. PICK r : r = handler[h]
      OBVIOUS
    <3>2. handler'[h] = r \/ (r # None /\ handler'[h] = [r EXCEPT !.barred = FALSE])
      BY <3>1 DEF Unbar
    <3>3. RequestOK(r)
      BY <2>2, <3>1, <3>2 DEF IdentityInv, HandlersOK
    <3>4. RequestOK(r)'
      BY <1>2, <3>3, RequestStays
    <3> QED
      BY <3>2, <3>4 DEF RequestOK, Requests, Owned
  <2> QED
    BY <2>1, <2>2 DEF HandlersOK
<1> QED
  BY <1>1, <1>2, <1>3, <1>4 DEF IdentityInv, TablesOK

LEMMA IdentityInit == Init => IdentityInv
<1> SUFFICES ASSUME Init PROVE IdentityInv
  OBVIOUS
<1>1. Created = {}
  BY DEF Init, Created
<1>2. TablesOK
  BY LimitsAssumption DEF Init, TablesOK
<1> QED
  BY <1>1, <1>2
     DEF Init, IdentityInv, HandlersOK, OneDevicePerClient, TokensOK, RowsOK

\* Every step keeps the types, and what is whose.
LEMMA IdentityStep == IdentityInv /\ [Next]_vars => IdentityInv'
<1> SUFFICES ASSUME IdentityInv, [Next]_vars PROVE IdentityInv'
  OBVIOUS
<1> USE DEF At
<1>1. TablesOK /\ HandlersOK /\ OneDevicePerClient /\ TokensOK /\ RowsOK
  BY DEF IdentityInv
<1>2. ASSUME NEW h \in Handlers, handler[h] # None
      PROVE  RequestOK(handler[h]) /\ handler[h] \in Requests
  BY <1>1, <1>2 DEF HandlersOK, RequestOK
<1>3. ASSUME NEW h \in Handlers, Respond(h), UNCHANGED <<device, token, owner, used, months>>,
             misled' \subseteq Servers \X Keys
      PROVE  IdentityInv'
  BY <1>3, RequestStep DEF Respond
<1>4. ASSUME NEW c \in Clients, Register(c) PROVE IdentityInv'
  <2>1. PICK d \in Devices : RegisterDevice(d, c) /\ (token' = [token EXCEPT ![c] = d]
                                                      \/ UNCHANGED token)
    BY <1>4 DEF Register
  <2>2. /\ device' \in [Devices -> Plans \cup {None}]
        /\ ClientsKept /\ OneDevicePerClient' /\ Owned(d, c)'
    <3>1. CASE \E e \in Created : device[e].client = c
      BY <1>1, <2>1, <3>1
         DEF RegisterDevice, TablesOK, ClientsKept, OneDevicePerClient, Owned, Created
    <3>2. CASE ~ \E e \in Created : device[e].client = c
      BY <1>1, <2>1, <3>2, NewDeviceEffect DEF RegisterDevice
    <3> QED
      BY <3>1, <3>2
  <2>3. c \notin LegacyClients /\ UNCHANGED <<owner, used, months, handler, misled>>
    BY <1>4 DEF Register
  <2>4. token' \in [Clients -> Devices \cup {None}] /\ TokensOK'
    <3>1. ASSUME NEW b \in Clients, token'[b] # None PROVE Owned(token[b], b)'
      <4>1. CASE b = c /\ token'[b] = d
        BY <2>2, <4>1 DEF Owned
      <4>2. CASE token'[b] = token[b]
        BY <1>1, <2>2, <3>1, <4>2 DEF TokensOK, Owned, ClientsKept
      <4> QED
        BY <1>1, <2>1, <4>1, <4>2 DEF TablesOK
    <3> QED
      BY <1>1, <2>1, <2>3, <3>1 DEF TablesOK, TokensOK
  <2>5. RowsOK'
    BY <1>1, <2>2, <2>3 DEF RowsOK, Owned, ClientsKept
  <2>6. HandlersOK'
    <3>1. ASSUME NEW h \in Handlers, handler[h] # None PROVE RequestOK(handler[h])'
      <4>1. PICK r : r = handler[h]
        OBVIOUS
      <4>2. RequestOK(r)'
        BY <1>2, <2>2, <3>1, <4>1, RequestStays
      <4> QED
        BY <2>3, <4>1, <4>2 DEF RequestOK, Owned
    <3> QED
      BY <1>1, <2>3, <3>1 DEF HandlersOK
  <2> QED
    BY <1>1, <2>2, <2>3, <2>4, <2>5, <2>6 DEF IdentityInv, TablesOK
<1>5. ASSUME NEW c \in Clients, NEW active \in BOOLEAN, SetPremium(c, active)
      PROVE  IdentityInv'
  <2>1. PICK d : d = token[c]
    OBVIOUS
  <2>2. d \in Created /\ device[d] \in Plans
    BY <1>1, <1>5, <2>1 DEF SetPremium, TokensOK, TablesOK, Owned, Created
  <2>3. PICK plan : plan = [device[d] EXCEPT !.premium = active]
    OBVIOUS
  <2>4. plan \in Plans /\ plan.client = device[d].client /\ device' = [device EXCEPT ![d] = plan]
    BY <1>1, <1>5, <2>1, <2>2, <2>3 DEF SetPremium, Plans, TablesOK
  <2> QED
    BY <1>5, <2>2, <2>4, PlanChange DEF SetPremium
<1>6. ASSUME NEW c \in Clients, NEW bytes \in Overrides, SetQuotaOverride(c, bytes)
      PROVE  IdentityInv'
  <2>1. PICK d : d = token[c]
    OBVIOUS
  <2>2. d \in Created /\ device[d] \in Plans
    BY <1>1, <1>6, <2>1 DEF SetQuotaOverride, TokensOK, TablesOK, Owned, Created
  <2>3. PICK plan : plan = [device[d] EXCEPT !.override = bytes]
    OBVIOUS
  <2>4. plan \in Plans /\ plan.client = device[d].client /\ device' = [device EXCEPT ![d] = plan]
    BY <1>1, <1>6, <2>1, <2>2, <2>3 DEF SetQuotaOverride, Plans, TablesOK
  <2> QED
    BY <1>6, <2>2, <2>4, PlanChange DEF SetQuotaOverride
<1>7. ASSUME NEW h \in Handlers, NEW op \in {"open", "authorize"}, NEW s \in Servers,
             NEW k \in Keys, Arrive(h, op, s, k)
      PROVE  IdentityInv'
  <2>1. PICK r : r = [op |-> op, server |-> s, key |-> k, auth |-> token[Holder[k]],
                      dev |-> None, plan |-> None, barred |-> ClientExhausted(Holder[k]),
                      at |-> IF op = "open" THEN "resolve" ELSE "row"]
    OBVIOUS
  <2>2. Holder[k] \in Clients /\ ClientExhausted(Holder[k]) \in BOOLEAN
    BY ClientsAssumption DEF ClientExhausted
  <2>3. r \in Requests
    <3>1. token[Holder[k]] \in Devices \cup {None}
      BY <1>1, <2>2 DEF TablesOK
    <3> QED
      BY <2>1, <2>2, <3>1 DEF Requests
  <2>4. RequestOK(r)
    <3>1. /\ r.auth = token[Holder[k]] /\ r.key = k /\ r.dev = None
          /\ r.at \in {"row", "resolve"}
      BY <2>1
    <3>2. Holder[k] \in TokenClients => token[Holder[k]] # None
      BY <1>7 DEF Arrive, Free
    <3> QED
      BY <1>1, <2>2, <2>3, <3>1, <3>2 DEF RequestOK, TokensOK
  <2> QED
    BY <1>1, <1>7, <2>1, <2>4, RequestStep DEF Arrive, TablesOK
<1>8. ASSUME NEW h \in Handlers, NEW at \in {"lookup", "allocate", "answer", "add"},
             handler[h] # None, handler[h].dev # None, Goto(h, at) \/ GoOn(h, at),
             UNCHANGED <<device, token, owner, used, months, misled>>
      PROVE  IdentityInv'
  <2>1. PICK r : r = IF Goto(h, at) THEN [handler[h] EXCEPT !.at = at]
                     ELSE [handler[h] EXCEPT !.plan = None, !.at = at]
    OBVIOUS
  <2>2. handler' = [handler EXCEPT ![h] = r]
    BY <1>1, <1>8, <2>1 DEF Goto, GoOn, HandlersOK
  <2>3. RequestOK(r)
    BY <1>2, <1>8, <2>1 DEF RequestOK, Requests
  <2> QED
    BY <1>1, <1>8, <2>2, <2>3, RequestStep DEF TablesOK
<1>9. ASSUME NEW h \in Handlers, ReadRow(h) PROVE IdentityInv'
  <2>1. CASE Respond(h)
    BY <1>1, <1>3, <1>9, <2>1 DEF ReadRow, TablesOK
  <2>2. CASE Goto(h, "resolve")
    <3>1. PICK r : r = [handler[h] EXCEPT !.at = "resolve"]
      OBVIOUS
    <3>2. handler' = [handler EXCEPT ![h] = r]
      BY <1>1, <2>2, <3>1 DEF Goto, HandlersOK
    <3>3. RequestOK(r)
      BY <1>2, <1>9, <3>1 DEF ReadRow, RequestOK, Requests
    <3> QED
      BY <1>1, <1>9, <3>2, <3>3, RequestStep DEF ReadRow, TablesOK
  <2> QED
    BY <1>9, <2>1, <2>2 DEF ReadRow
<1>10. ASSUME NEW h \in Handlers, NEW d \in Created, Resolved(h, d, device[d]),
              handler[h] # None,
              Holder[handler[h].key] \in TokenClients => Owned(d, Holder[handler[h].key]),
              UNCHANGED <<device, token, owner, used, months, misled>>
       PROVE  IdentityInv'
  <2>1. CASE Respond(h)
    BY <1>1, <1>3, <1>10, <2>1 DEF TablesOK
  <2>2. CASE ~ Respond(h)
    <3>1. PICK r : r = [handler[h] EXCEPT !.auth = None, !.dev = d, !.plan = device[d],
                                          !.at = "quota"]
      OBVIOUS
    <3>2. handler' = [handler EXCEPT ![h] = r]
      BY <1>1, <1>10, <2>2, <3>1 DEF Resolved, HandlersOK
    <3>3. d \in Devices /\ device[d] \in Plans /\ d # None
      BY <1>1, NoneAssumption, LimitsAssumption DEF Created, TablesOK, Devices
    <3>4. r \in Requests /\ r.auth = None /\ r.dev = d /\ r.at = "quota" /\ r.plan = device[d]
          /\ r.key = handler[h].key
      BY <1>2, <1>10, <3>1, <3>3 DEF Requests
    <3>5. RequestOK(r)
      BY <1>10, <3>3, <3>4 DEF RequestOK, Created
    <3> QED
      BY <1>1, <1>10, <3>2, <3>5, RequestStep DEF TablesOK
  <2> QED
    BY <2>1, <2>2
<1>11. ASSUME NEW h \in Handlers, ResolveByToken(h) PROVE IdentityInv'
  <2>1. PICK d : d = handler[h].auth
    OBVIOUS
  <2>2. Owned(d, Holder[handler[h].key])
    BY <1>2, <1>11, <2>1 DEF ResolveByToken, RequestOK
  <2> QED
    BY <1>10, <1>11, <2>1, <2>2 DEF ResolveByToken, Owned
<1>12. ASSUME NEW h \in Handlers, ResolveByKey(h) PROVE IdentityInv'
  <2>1. Holder[handler[h].key] \notin TokenClients
    BY <1>2, <1>12 DEF ResolveByKey, RequestOK
  <2>2. CASE Goto(h, "mint")
    <3>1. PICK r : r = [handler[h] EXCEPT !.at = "mint"]
      OBVIOUS
    <3>2. handler' = [handler EXCEPT ![h] = r]
      BY <1>1, <2>2, <3>1 DEF Goto, HandlersOK
    <3>3. RequestOK(r)
      BY <1>2, <1>12, <2>1, <3>1 DEF ResolveByKey, RequestOK, Requests
    <3> QED
      BY <1>1, <1>12, <3>2, <3>3, RequestStep DEF ResolveByKey, TablesOK
  <2>3. ASSUME NEW d \in Owners(h), Resolved(h, d, device[d]) PROVE IdentityInv'
    BY <1>10, <1>12, <2>1, <2>3 DEF ResolveByKey, Owners
  <2> QED
    BY <1>12, <2>2, <2>3 DEF ResolveByKey
<1>13. ASSUME NEW h \in Handlers, MintDevice(h) PROVE IdentityInv'
  <2>1. PICK d \in Devices : /\ NewDevice(d, None)
                             /\ Resolved(h, d, [client |-> None, premium |-> FALSE,
                                                override |-> None])
    BY <1>13 DEF MintDevice
  <2>2. /\ device' \in [Devices -> Plans \cup {None}]
        /\ ClientsKept /\ OneDevicePerClient' /\ Owned(d, None)'
    BY <1>1, <2>1, NewDeviceEffect
  <2>3. PICK r : /\ handler' = [handler EXCEPT ![h] = r]
                 /\ r = None \/
                    r = [handler[h] EXCEPT !.auth = None, !.dev = d, !.at = "quota",
                            !.plan = [client |-> None, premium |-> FALSE, override |-> None]]
    <3>1. CASE Respond(h)
      BY <3>1 DEF Respond
    <3>2. CASE ~ Respond(h)
      <4>1. handler' = [handler EXCEPT ![h].auth = None, ![h].dev = d, ![h].at = "quota",
                ![h].plan = [client |-> None, premium |-> FALSE, override |-> None]]
        BY <1>1, <2>1, <3>2 DEF Resolved, HandlersOK
      <4>2. handler' = [handler EXCEPT ![h] = [handler[h] EXCEPT !.auth = None, !.dev = d,
                !.at = "quota",
                !.plan = [client |-> None, premium |-> FALSE, override |-> None]]]
        BY <1>1, <4>1 DEF HandlersOK
      <4> QED
        BY <4>2
    <3> QED
      BY <3>1, <3>2
  <2>4. r # None => RequestOK(r)'
    <3>1. CASE r = [handler[h] EXCEPT !.auth = None, !.dev = d, !.at = "quota",
                       !.plan = [client |-> None, premium |-> FALSE, override |-> None]]
      <4>1. [client |-> None, premium |-> FALSE, override |-> None] \in Plans
            /\ [client |-> None, premium |-> FALSE, override |-> None] # None
        BY NewRow
      <4>2. Holder[handler[h].key] \notin TokenClients /\ handler[h] \in Requests
        BY <1>2, <1>13 DEF MintDevice, RequestOK
      <4>3. /\ r \in Requests /\ r.auth = None /\ r.dev = d /\ r.at = "quota"
            /\ r.plan # None /\ r.key = handler[h].key
        BY <3>1, <4>1, <4>2 DEF Requests
      <4>4. d \in Created' /\ d # None
        BY <2>2, NoneAssumption, LimitsAssumption DEF Owned, Devices
      <4> QED
        BY <4>2, <4>3, <4>4 DEF RequestOK
    <3> QED
      BY <2>3, <3>1
  <2>5. HandlersOK'
    BY <1>1, <2>2, <2>3, <2>4, HandlerGoesOn
  <2>6. UNCHANGED <<token, owner, used, months, misled>>
    BY <1>13 DEF MintDevice
  <2>7. TokensOK' /\ RowsOK'
    BY <1>1, <2>2, <2>6, OwnersStay
  <2> QED
    BY <1>1, <2>2, <2>5, <2>6, <2>7 DEF IdentityInv, TablesOK
<1>14. ASSUME NEW h \in Handlers, QuotaGate(h) PROVE IdentityInv'
  <2>1. handler[h].dev # None
    BY <1>2, <1>14 DEF QuotaGate, RequestOK
  <2> QED
    BY <1>1, <1>3, <1>8, <1>14, <2>1 DEF QuotaGate, TablesOK
<1>15. ASSUME NEW h \in Handlers, LookupPeer(h) PROVE IdentityInv'
  <2>1. handler[h].dev # None
    BY <1>2, <1>15 DEF LookupPeer, RequestOK
  <2> QED
    BY <1>8, <1>15, <2>1 DEF LookupPeer
<1>16. ASSUME NEW h \in Handlers, AllocatePeer(h) PROVE IdentityInv'
  <2>1. CASE Respond(h) /\ UNCHANGED owner
    BY <1>1, <1>3, <1>16, <2>1 DEF AllocatePeer, TablesOK
  <2>2. CASE Goto(h, "answer") /\ owner[handler[h].server][handler[h].key] = None
             /\ owner' = [owner EXCEPT ![handler[h].server][handler[h].key] = handler[h].dev]
    <3>1. PICK q : q = handler[h]
      OBVIOUS
    <3>2. RequestOK(q) /\ q \in Requests /\ q.at = "allocate" /\ q # None
      BY <1>2, <1>16, <3>1 DEF AllocatePeer
    <3>3. /\ q.dev # None /\ q.dev \in Created
          /\ Holder[q.key] \in TokenClients => Owned(q.dev, Holder[q.key])
      BY <3>2 DEF RequestOK
    <3>4. UNCHANGED <<device, token, used, months, misled>>
      BY <1>16 DEF AllocatePeer
    <3>5. /\ owner' \in [Servers -> [Keys -> Devices \cup {None}]]
          /\ owner'[q.server][q.key] = q.dev
          /\ \A s \in Servers, k \in Keys :
                <<s, k>> # <<q.server, q.key>> => owner'[s][k] = owner[s][k]
      <4>1. q.server \in Servers /\ q.key \in Keys /\ q.dev \in Devices
        BY <3>2, <3>3 DEF Requests, Created
      <4>2. [owner[q.server] EXCEPT ![q.key] = q.dev] \in [Keys -> Devices \cup {None}]
        BY <1>1, <4>1 DEF TablesOK
      <4> QED
        BY <1>1, <2>2, <3>1, <4>1, <4>2 DEF TablesOK
    <3>6. RowsOK'
      BY <1>1, <3>3, <3>4, <3>5 DEF RowsOK, Owned, Created
    <3>7. PICK r : r = [q EXCEPT !.at = "answer"]
      OBVIOUS
    <3>8. handler' = [handler EXCEPT ![h] = r]
      BY <1>1, <2>2, <3>1, <3>7 DEF Goto, HandlersOK
    <3>9. RequestOK(r)
      BY <3>2, <3>3, <3>7 DEF RequestOK, Requests
    <3>10. ClientsKept /\ RequestOK(r)'
      BY <3>4, <3>9, RequestStays DEF ClientsKept, Created
    <3>11. HandlersOK'
      BY <1>1, <3>8, <3>10, HandlerGoesOn
    <3> QED
      BY <1>1, <3>4, <3>5, <3>6, <3>11
         DEF IdentityInv, TablesOK, OneDevicePerClient, TokensOK, Owned, Created
  <2> QED
    BY <1>16, <2>1, <2>2 DEF AllocatePeer
<1>17. ASSUME NEW h \in Handlers, AnswerOrAdd(h) PROVE IdentityInv'
  <2>1. handler[h].dev # None
    BY <1>2, <1>17 DEF AnswerOrAdd, RequestOK
  <2> QED
    BY <1>1, <1>3, <1>8, <1>17, <2>1 DEF AnswerOrAdd, TablesOK
<1>18. ASSUME NEW h \in Handlers, AddPeer(h) PROVE IdentityInv'
  <2>1. handler[h].server \in Servers /\ handler[h].key \in Keys
    BY <1>2, <1>18 DEF AddPeer, Requests
  <2>2. misled' \subseteq Servers \X Keys
    BY <1>1, <1>18, <2>1 DEF AddPeer, TablesOK
  <2> QED
    BY <1>3, <1>18, <2>2 DEF AddPeer
<1>19. ASSUME NEW h \in Handlers, QueryFails(h) PROVE IdentityInv'
  BY <1>1, <1>3, <1>19 DEF QueryFails, TablesOK
<1>20. ASSUME UNCHANGED <<device, token>>,
              \A h \in Handlers : handler'[h] = handler[h] \/
                 (handler[h] # None /\ handler'[h] = [handler[h] EXCEPT !.barred = FALSE]),
              handler' = [h \in Handlers |-> handler'[h]], TablesOK', RowsOK'
       PROVE  IdentityInv'
  <2>1. ASSUME NEW h \in Handlers, handler'[h] # None PROVE RequestOK(handler[h])'
    <3>1. PICK q : q = handler[h]
      OBVIOUS
    <3>2. handler'[h] = q \/ (q # None /\ handler'[h] = [q EXCEPT !.barred = FALSE])
      BY <1>20, <3>1
    <3>3. RequestOK(q)
      BY <1>2, <2>1, <3>1, <3>2
    <3>4. RequestOK(q)'
      BY <1>20, <3>3, RequestStays DEF ClientsKept, Created
    <3> QED
      BY <3>2, <3>4 DEF RequestOK, Requests, Owned
  <2> QED
    BY <1>1, <1>20, <2>1
       DEF IdentityInv, HandlersOK, OneDevicePerClient, TokensOK, Owned, Created
<1>21. ASSUME NEW s \in Servers, NEW k \in Keys, DeletePeer(s, k) PROVE IdentityInv'
  <2>1. TablesOK' /\ RowsOK'
    <3>1. [owner[s] EXCEPT ![k] = None] \in [Keys -> Devices \cup {None}]
      BY <1>1 DEF TablesOK
    <3>2. /\ owner' \in [Servers -> [Keys -> Devices \cup {None}]]
          /\ \A t \in Servers, j \in Keys : owner'[t][j] = owner[t][j] \/ owner'[t][j] = None
      BY <1>1, <1>21, <3>1 DEF DeletePeer, TablesOK
    <3> QED
      BY <1>1, <1>21, <3>2 DEF DeletePeer, TablesOK, RowsOK, Owned, Created
  <2> QED
    BY <1>1, <1>20, <1>21, <2>1 DEF DeletePeer, HandlersOK
<1>22. ASSUME NEW s \in Servers, NEW k \in Keys, AddUsage(s, k) PROVE IdentityInv'
  <2>1. PICK d : d = owner[s][k]
    OBVIOUS
  <2>2. d \in Devices /\ used[d] \in 0 .. MaxUsed /\ used[d] < MaxUsed
        /\ used' = [used EXCEPT ![d] = @ + 1]
    BY <1>1, <1>22, <2>1 DEF AddUsage, TablesOK
  <2>3. used' \in [Devices -> 0 .. MaxUsed]
    BY <1>1, <2>2, LimitsAssumption DEF TablesOK
  <2>4. TablesOK' /\ RowsOK'
    BY <1>1, <1>22, <2>3 DEF AddUsage, TablesOK, RowsOK, Owned, Created
  <2> QED
    BY <1>1, <1>20, <1>22, <2>4 DEF AddUsage, HandlersOK
<1>23. CASE MonthEnds
  <2>1. used' \in [Devices -> 0 .. MaxUsed] /\ months' \in 0 .. MaxMonths
    BY <1>1, <1>23, LimitsAssumption DEF MonthEnds, TablesOK
  <2>2. TablesOK' /\ RowsOK'
    BY <1>1, <1>23, <2>1 DEF MonthEnds, TablesOK, RowsOK, Owned, Created
  <2> QED
    BY <1>1, <1>20, <1>23, <2>2 DEF MonthEnds, Unbar, HandlersOK
<1>24. CASE UNCHANGED vars
  <2>1. TablesOK' /\ RowsOK'
    BY <1>1, <1>24 DEF vars, TablesOK, RowsOK, Owned, Created
  <2> QED
    BY <1>1, <1>20, <1>24, <2>1 DEF vars, HandlersOK
<1> QED
  BY <1>4, <1>5, <1>6, <1>7, <1>9, <1>11, <1>12, <1>13, <1>14, <1>15, <1>16, <1>17, <1>18,
     <1>19, <1>21, <1>22, <1>23, <1>24 DEF Next, Step

LEMMA IdentityCorrect == Spec => []IdentityInv
BY IdentityInit, IdentityStep, PTL DEF Spec

\* The type invariant, for any clients, keys, servers and bounds.
THEOREM TypeCorrect == Spec => []TypeOK
BY IdentityTypes, IdentityCorrect, PTL

\* A client that sends its token has one device, to which all its traffic is charged
\* (services/devices.js:60-93).
THEOREM GapClosed == Spec => []TokenClosesGap
BY IdentityClosesGap, IdentityCorrect, PTL

-----------------------------------------------------------------------------
(* A device for every key of a client without token *)

\* No client without token has two requests in progress.
Alone ==
    \A g, h \in Handlers :
        /\ handler[g] # None /\ handler[h] # None
        /\ Holder[handler[g].key] = Holder[handler[h].key]
        /\ Holder[handler[g].key] \in LegacyClients
        => g = h

\* The device found or made for a key owns all of its peers.
Faithful(r) ==
    Holder[r.key] \in LegacyClients =>
        \A s \in Servers :
            /\ r.dev # None => owner[s][r.key] \in {None, r.dev}
            /\ r.at = "mint" => owner[s][r.key] = None

OwnersInv ==
    /\ Alone
    /\ \A h \in Handlers : handler[h] # None => Faithful(handler[h])
    /\ OneOwnerPerKey
    /\ SteadyChargedIsChecked

\* Rows are deleted or stay.
RowsGo == \A s \in Servers, k \in Keys : owner'[s][k] \in {None, owner[s][k]}

LEMMA FaithfulStays ==
    ASSUME RowsGo, NEW r, r.key \in Keys, Faithful(r)
    PROVE  Faithful(r)'
BY DEF RowsGo, Faithful

\* A handler goes on with the key of its request, or is done.
LEMMA OwnersGoOn ==
    ASSUME IdentityInv, OwnersInv, RowsGo, NEW h \in Handlers, NEW r,
           handler' = [handler EXCEPT ![h] = r],
           r # None => handler[h] # None /\ r.key = handler[h].key /\ Faithful(r),
           SteadyChargedIsChecked'
    PROVE  OwnersInv'
<1>1. \A g \in Handlers : handler'[g] = IF g = h THEN r ELSE handler[g]
  BY DEF IdentityInv, HandlersOK
<1>2. Alone'
  BY <1>1 DEF OwnersInv, Alone
<1>3. ASSUME NEW g \in Handlers, handler'[g] # None PROVE Faithful(handler[g])'
  <2>1. PICK q : q = handler'[g]
    OBVIOUS
  <2>2. Faithful(q) /\ handler[g] # None /\ q.key = handler[g].key
    BY <1>1, <1>3, <2>1 DEF OwnersInv
  <2>3. q.key \in Keys
    BY <2>2 DEF IdentityInv, HandlersOK, RequestOK, Requests
  <2>4. Faithful(q)'
    BY <2>2, <2>3, FaithfulStays
  <2> QED
    BY <2>1, <2>4 DEF Faithful
<1>4. OneOwnerPerKey'
  BY DEF RowsGo, OwnersInv, OneOwnerPerKey
<1> QED
  BY <1>2, <1>3, <1>4 DEF OwnersInv

\* A handler goes on with the device of its request, no row comes.
LEMMA OwnersStayFaithful ==
    ASSUME IdentityInv, OwnersInv, RowsGo, SteadyChargedIsChecked',
           NEW h \in Handlers, handler[h] # None, NEW at, at # "mint",
           Respond(h) \/ Goto(h, at) \/ GoOn(h, at)
    PROVE  OwnersInv'
<1>1. PICK q : q = handler[h]
  OBVIOUS
<1>2. PICK r : /\ handler' = [handler EXCEPT ![h] = r]
               /\ r \in {None, [q EXCEPT !.at = at], [q EXCEPT !.plan = None, !.at = at]}
  <2>1. CASE Respond(h)
    BY <2>1 DEF Respond
  <2>2. CASE Goto(h, at)
    <3>1. handler' = [handler EXCEPT ![h] = [q EXCEPT !.at = at]]
      BY <1>1, <2>2 DEF Goto, IdentityInv, HandlersOK
    <3> QED
      BY <3>1
  <2>3. CASE GoOn(h, at)
    <3>1. handler' = [handler EXCEPT ![h] = [q EXCEPT !.plan = None, !.at = at]]
      BY <1>1, <2>3 DEF GoOn, IdentityInv, HandlersOK
    <3> QED
      BY <3>1
  <2> QED
    BY <2>1, <2>2, <2>3
<1>3. q \in Requests /\ Faithful(q)
  BY <1>1 DEF IdentityInv, HandlersOK, RequestOK, OwnersInv
<1>4. r # None => r.key = q.key /\ r.dev = q.dev /\ r.at = at
  BY <1>2, <1>3 DEF Requests
<1>5. r # None => Faithful(r)
  BY <1>3, <1>4 DEF Faithful
<1> QED
  BY <1>1, <1>2, <1>4, <1>5, OwnersGoOn

\* Others work: the requests stay as they are, but for what barred records.
LEMMA OwnersElse ==
    ASSUME IdentityInv, OwnersInv, RowsGo, misled' \subseteq misled,
           \A h \in Handlers : handler'[h] = handler[h] \/
              (handler[h] # None /\ handler'[h] = [handler[h] EXCEPT !.barred = FALSE])
    PROVE  OwnersInv'
<1>1. ASSUME NEW h \in Handlers, handler'[h] # None
      PROVE  /\ handler[h] # None /\ handler'[h].key = handler[h].key
             /\ handler'[h].key \in Keys
             /\ handler'[h].dev = handler[h].dev /\ handler'[h].at = handler[h].at
  <2>1. PICK q : q = handler[h]
    OBVIOUS
  <2>2. handler'[h] = q \/ (q # None /\ handler'[h] = [q EXCEPT !.barred = FALSE])
    BY <2>1
  <2>3. q # None /\ q \in Requests
    BY <1>1, <2>1, <2>2 DEF IdentityInv, HandlersOK, RequestOK
  <2> QED
    BY <2>1, <2>2, <2>3 DEF Requests
<1>2. Alone'
  BY <1>1 DEF OwnersInv, Alone
<1>3. ASSUME NEW h \in Handlers, handler'[h] # None PROVE Faithful(handler[h])'
  <2>1. PICK q : q = handler'[h]
    OBVIOUS
  <2>2. Faithful(q) /\ q.key \in Keys
    BY <1>1, <1>3, <2>1 DEF OwnersInv, Faithful
  <2>3. Faithful(q)'
    BY <2>2, FaithfulStays
  <2> QED
    BY <2>1, <2>3 DEF Faithful
<1>4. OneOwnerPerKey' /\ SteadyChargedIsChecked'
  BY DEF RowsGo, OwnersInv, OneOwnerPerKey, SteadyChargedIsChecked
<1> QED
  BY <1>2, <1>3, <1>4 DEF OwnersInv

LEMMA OwnersInit == Init => OwnersInv
BY DEF Init, OwnersInv, Alone, OneOwnerPerKey, SteadyChargedIsChecked

\* Only allocatePeer inserts a row, for a key all of whose peers are its device's.
LEMMA OwnersStep == IdentityInv /\ OwnersInv /\ [Next]_vars => OwnersInv'
<1> SUFFICES ASSUME IdentityInv, OwnersInv, [Next]_vars PROVE OwnersInv'
  OBVIOUS
<1> USE DEF At
<1>1. ASSUME NEW h \in Handlers, handler[h] # None
      PROVE  RequestOK(handler[h]) /\ handler[h] \in Requests /\ Faithful(handler[h])
  BY <1>1 DEF IdentityInv, HandlersOK, RequestOK, OwnersInv
<1>2. ASSUME UNCHANGED owner PROVE RowsGo
  BY <1>2 DEF RowsGo
<1>3. ASSUME misled' \subseteq misled PROVE SteadyChargedIsChecked'
  BY <1>3 DEF OwnersInv, SteadyChargedIsChecked
<1>4. ASSUME NEW h \in Handlers, handler[h] # None, UNCHANGED <<owner, misled>>,
             NEW at, at # "mint", Respond(h) \/ Goto(h, at) \/ GoOn(h, at)
      PROVE  OwnersInv'
  BY <1>2, <1>3, <1>4, OwnersStayFaithful
<1>5. ASSUME UNCHANGED handler, RowsGo, misled' \subseteq misled PROVE OwnersInv'
  BY <1>5, OwnersElse
<1>6. ASSUME NEW clients, Unbar(clients), UNCHANGED <<owner, misled>> PROVE OwnersInv'
  <2>1. \A h \in Handlers : handler'[h] = handler[h] \/
           (handler[h] # None /\ handler'[h] = [handler[h] EXCEPT !.barred = FALSE])
    BY <1>6 DEF Unbar
  <2> QED
    BY <1>2, <1>6, <2>1, OwnersElse
<1>7. ASSUME NEW h \in Handlers, NEW op \in {"open", "authorize"}, NEW s \in Servers,
             NEW k \in Keys, Arrive(h, op, s, k)
      PROVE  OwnersInv'
  <2>1. PICK r : r = [op |-> op, server |-> s, key |-> k, auth |-> token[Holder[k]],
                      dev |-> None, plan |-> None, barred |-> ClientExhausted(Holder[k]),
                      at |-> IF op = "open" THEN "resolve" ELSE "row"]
    OBVIOUS
  <2>2. /\ \A g \in Handlers : handler'[g] = IF g = h THEN r ELSE handler[g]
        /\ UNCHANGED <<owner, misled>>
    BY <1>7, <2>1 DEF Arrive, IdentityInv, HandlersOK
  <2>3. r.key = k /\ r.dev = None /\ r.at # "mint"
    BY <2>1
  <2>4. Holder[k] \in LegacyClients =>
          \A g \in Handlers : handler[g] # None => Holder[handler[g].key] # Holder[k]
    BY <1>7, ClientsAssumption DEF Arrive, Free
  <2>5. Alone'
    BY <2>2, <2>3, <2>4 DEF OwnersInv, Alone
  <2>6. ASSUME NEW g \in Handlers, handler'[g] # None PROVE Faithful(handler[g])'
    <3>1. PICK q : q = handler'[g]
      OBVIOUS
    <3>2. Faithful(q)
      BY <2>2, <2>3, <2>6, <3>1 DEF OwnersInv, Faithful
    <3> QED
      BY <2>2, <3>1, <3>2 DEF Faithful
  <2> QED
    BY <2>2, <2>5, <2>6 DEF OwnersInv, OneOwnerPerKey, SteadyChargedIsChecked
<1>8. ASSUME NEW h \in Handlers, handler[h] # None, NEW d, NEW plan, Resolved(h, d, plan),
             UNCHANGED <<owner, misled>>,
             Holder[handler[h].key] \in LegacyClients =>
                \A s \in Servers : owner[s][handler[h].key] \in {None, d}
      PROVE  OwnersInv'
  <2>1. CASE Respond(h)
    BY <1>4, <1>8, <2>1
  <2>2. CASE ~ Respond(h)
    <3>1. PICK q : q = handler[h]
      OBVIOUS
    <3>2. PICK r : r = [q EXCEPT !.auth = None, !.dev = d, !.plan = plan, !.at = "quota"]
      OBVIOUS
    <3>3. handler' = [handler EXCEPT ![h] = r]
      BY <1>8, <2>2, <3>1, <3>2 DEF Resolved, IdentityInv, HandlersOK
    <3>4. q \in Requests
      BY <1>1, <1>8, <3>1
    <3>5. r.key = q.key /\ r.dev = d /\ r.at = "quota"
      BY <3>2, <3>4 DEF Requests
    <3>6. Faithful(r)
      BY <1>8, <3>1, <3>5 DEF Faithful
    <3> QED
      BY <1>2, <1>3, <1>8, <3>1, <3>3, <3>5, <3>6, OwnersGoOn
  <2> QED
    BY <2>1, <2>2
<1>9. ASSUME NEW h \in Handlers, ReadRow(h) PROVE OwnersInv'
  BY <1>4, <1>9 DEF ReadRow
<1>10. ASSUME NEW h \in Handlers, ResolveByToken(h) PROVE OwnersInv'
  <2>1. Holder[handler[h].key] \notin LegacyClients
    BY <1>1, <1>10 DEF ResolveByToken, RequestOK
  <2> QED
    BY <1>8, <1>10, <2>1 DEF ResolveByToken
<1>11. ASSUME NEW h \in Handlers, ResolveByKey(h) PROVE OwnersInv'
  <2>1. PICK q : q = handler[h]
    OBVIOUS
  <2>2. q # None /\ q \in Requests /\ Faithful(q) /\ UNCHANGED <<owner, misled>>
    BY <1>1, <1>11, <2>1 DEF ResolveByKey
  <2>3. CASE Owners(h) = {} /\ Goto(h, "mint")
    <3>1. PICK r : r = [q EXCEPT !.at = "mint"]
      OBVIOUS
    <3>2. handler' = [handler EXCEPT ![h] = r]
      BY <2>1, <2>3, <3>1 DEF Goto, IdentityInv, HandlersOK
    <3>3. r.key = q.key /\ r.dev = q.dev /\ q.key \in Keys
      BY <2>2, <3>1 DEF Requests
    <3>4. \A s \in Servers : owner[s][q.key] = None
      BY <2>1, <2>3, <3>3 DEF Owners, IdentityInv, RowsOK
    <3>5. Faithful(r)
      BY <2>2, <3>3, <3>4 DEF Faithful
    <3> QED
      BY <1>2, <1>3, <2>1, <2>2, <3>2, <3>3, <3>5, OwnersGoOn
  <2>4. ASSUME NEW d \in Owners(h), Resolved(h, d, device[d]) PROVE OwnersInv'
    <3>1. q.key \in Keys /\ \E s \in Servers : owner[s][q.key] = d /\ d # None
      BY <2>1, <2>2, <2>4, NoneAssumption, LimitsAssumption DEF Owners, Created, Devices, Requests
    <3>2. Holder[q.key] \in LegacyClients =>
             \A s \in Servers : owner[s][q.key] \in {None, d}
      BY <3>1 DEF OwnersInv, OneOwnerPerKey
    <3> QED
      BY <1>8, <2>1, <2>2, <2>4, <3>2
  <2> QED
    BY <1>11, <2>3, <2>4 DEF ResolveByKey
<1>12. ASSUME NEW h \in Handlers, MintDevice(h) PROVE OwnersInv'
  <2>1. PICK d \in Devices : Resolved(h, d, [client |-> None, premium |-> FALSE,
                                             override |-> None])
    BY <1>12 DEF MintDevice
  <2>2. Holder[handler[h].key] \in LegacyClients =>
           \A s \in Servers : owner[s][handler[h].key] \in {None, d}
    BY <1>1, <1>12 DEF MintDevice, Faithful
  <2> QED
    BY <1>8, <1>12, <2>1, <2>2 DEF MintDevice
<1>13. ASSUME NEW h \in Handlers, QuotaGate(h) PROVE OwnersInv'
  BY <1>4, <1>13 DEF QuotaGate
<1>14. ASSUME NEW h \in Handlers, LookupPeer(h) PROVE OwnersInv'
  BY <1>4, <1>14 DEF LookupPeer
<1>15. ASSUME NEW h \in Handlers, AllocatePeer(h) PROVE OwnersInv'
  <2>1. CASE Respond(h) /\ UNCHANGED owner
    BY <1>4, <1>15, <2>1 DEF AllocatePeer
  <2>2. CASE Goto(h, "answer") /\ owner[handler[h].server][handler[h].key] = None
             /\ owner' = [owner EXCEPT ![handler[h].server][handler[h].key] = handler[h].dev]
    <3>1. PICK q : q = handler[h]
      OBVIOUS
    <3>2. /\ q # None /\ q \in Requests /\ q.dev # None /\ Faithful(q) /\ UNCHANGED misled
      BY <1>1, <1>15, <3>1 DEF AllocatePeer, RequestOK
    <3>3. q.server \in Servers /\ q.key \in Keys
      BY <3>2 DEF Requests
    <3>4. \A s \in Servers, k \in Keys : owner'[s][k] =
             IF s = q.server /\ k = q.key THEN q.dev ELSE owner[s][k]
      BY <2>2, <3>1, <3>3 DEF IdentityInv, TablesOK
    <3>5. PICK r : r = [q EXCEPT !.at = "answer"]
      OBVIOUS
    <3>6. \A g \in Handlers : handler'[g] = IF g = h THEN r ELSE handler[g]
      BY <2>2, <3>1, <3>5 DEF Goto, IdentityInv, HandlersOK
    <3>7. r.key = q.key /\ r.dev = q.dev /\ r.at = "answer"
      BY <3>2, <3>5 DEF Requests
    <3>8. Alone'
      BY <3>1, <3>2, <3>6, <3>7 DEF OwnersInv, Alone
    <3>9. Faithful(r)'
      BY <3>2, <3>3, <3>4, <3>7 DEF Faithful
    <3>10. ASSUME NEW g \in Handlers, g # h, handler'[g] # None PROVE Faithful(handler[g])'
      <4>1. PICK p : p = handler[g]
        OBVIOUS
      <4>2. p # None /\ Faithful(p) /\ p.key \in Keys /\ handler'[g] = p
        BY <1>1, <3>6, <3>10, <4>1 DEF Requests
      <4>3. Holder[p.key] \in LegacyClients => p.key # q.key
        BY <3>1, <3>2, <3>10, <4>1, <4>2 DEF OwnersInv, Alone
      <4>4. Faithful(p)'
        BY <3>4, <4>2, <4>3 DEF Faithful
      <4> QED
        BY <4>2, <4>4 DEF Faithful
    <3>11. OneOwnerPerKey'
      BY <3>2, <3>4 DEF OwnersInv, OneOwnerPerKey, Faithful
    <3>12. Faithful(handler[h])'
      BY <3>6, <3>9 DEF Faithful
    <3> QED
      BY <1>3, <3>2, <3>8, <3>10, <3>11, <3>12 DEF OwnersInv
  <2> QED
    BY <1>15, <2>1, <2>2 DEF AllocatePeer
<1>16. ASSUME NEW h \in Handlers, AnswerOrAdd(h) PROVE OwnersInv'
  BY <1>4, <1>16 DEF AnswerOrAdd
<1>17. ASSUME NEW h \in Handlers, AddPeer(h) PROVE OwnersInv'
  <2>1. PICK q : q = handler[h]
    OBVIOUS
  <2>2. /\ q # None /\ q \in Requests /\ q.dev # None /\ RequestOK(q) /\ Faithful(q)
        /\ q.server \in Servers /\ q.key \in Keys
    BY <1>1, <1>17, <2>1 DEF AddPeer, RequestOK, Requests
  <2>3. Holder[q.key] \in TokenClients \cup LegacyClients =>
           owner[q.server][q.key] \in {None, q.dev}
    <3>1. CASE Holder[q.key] \in TokenClients /\ owner[q.server][q.key] # None
      <4>1. Owned(q.dev, Holder[q.key]) /\ Owned(owner[q.server][q.key], Holder[q.key])
        BY <2>2, <3>1 DEF RequestOK, IdentityInv, RowsOK
      <4>2. Holder[q.key] # None
        BY <3>1, ClientsAssumption, NoneAssumption
      <4> QED
        BY <4>1, <4>2 DEF Owned, IdentityInv, OneDevicePerClient
    <3> QED
      BY <2>2, <3>1 DEF Faithful
  <2>4. \/ misled' = IF owner[q.server][q.key] \in {None, q.dev}
                       THEN misled \ {<<q.server, q.key>>}
                       ELSE misled \cup {<<q.server, q.key>>}
        \/ misled' = misled
    BY <1>17, <2>1 DEF AddPeer
  <2>5. SteadyChargedIsChecked'
    BY <2>2, <2>3, <2>4 DEF OwnersInv, SteadyChargedIsChecked
  <2> QED
    BY <1>2, <1>17, <2>5, OwnersStayFaithful DEF AddPeer
<1>18. ASSUME NEW h \in Handlers, QueryFails(h) PROVE OwnersInv'
  BY <1>4, <1>18 DEF QueryFails
<1>19. ASSUME NEW s \in Servers, NEW k \in Keys, DeletePeer(s, k) PROVE OwnersInv'
  <2>1. RowsGo
    BY <1>19 DEF DeletePeer, RowsGo, IdentityInv, TablesOK
  <2> QED
    BY <1>5, <1>19, <2>1 DEF DeletePeer
<1>20. ASSUME UNCHANGED <<owner, handler, misled>> PROVE OwnersInv'
  BY <1>2, <1>5, <1>20
<1> QED
  BY <1>6, <1>7, <1>9, <1>10, <1>11, <1>12, <1>13, <1>14, <1>15, <1>16, <1>17, <1>18, <1>19,
     <1>20 DEF Next, Step, Register, SetPremium, SetQuotaOverride, AddUsage, MonthEnds, vars

LEMMA OwnersCorrect == Spec => []OwnersInv
<1>1. IdentityInv /\ OwnersInv /\ [Next]_vars => OwnersInv'
  BY OwnersStep
<1> QED
  BY <1>1, OwnersInit, IdentityCorrect, PTL DEF Spec

\* The peers of a key of a client without token are charged to one device
\* (services/devices.js:95-103).
THEOREM OneOwner == Spec => []OneOwnerPerKey
<1>1. OwnersInv => OneOwnerPerKey
  BY DEF OwnersInv
<1> QED
  BY <1>1, OwnersCorrect, PTL

\* The allowance on a node is that of the device that is charged, for clients that
\* always or never send a token.
THEOREM SteadyClientsChecked == Spec => []SteadyChargedIsChecked
<1>1. OwnersInv => SteadyChargedIsChecked
  BY DEF OwnersInv
<1> QED
  BY <1>1, OwnersCorrect, PTL

-----------------------------------------------------------------------------
(* Exhausted clients stay out *)

\* A barred request has the premises of its 403 in hand.
StaysOut(r) ==
    r.barred /\ r.op = "open" /\ Holder[r.key] \in TokenClients =>
        /\ r.at \in {"resolve", "quota"}
        /\ ClientExhausted(Holder[r.key])
        /\ r.at = "quota" => Exhausted(r.plan, r.dev)

StayOutInv == \A h \in Handlers : handler[h] # None => StaysOut(handler[h])

\* Who is exhausted remains so, by any plan read earlier and by that of the row.
ExhaustionLasts ==
    /\ \A plan \in Plans, d \in Devices : Exhausted(plan, d) => Exhausted(plan, d)'
    /\ \A c \in Clients : ClientExhausted(c) => ClientExhausted(c)'

LEMMA UsageGrows ==
    ASSUME IdentityInv, NEW plan \in Plans, NEW d \in Devices, Exhausted(plan, d),
           used'[d] \in Int, used'[d] >= used[d]
    PROVE  Exhausted(plan, d)'
<1>1. used[d] \in Int
  BY LimitsAssumption DEF IdentityInv, TablesOK
<1>2. plan.override # None => plan.override \in Int
  <2>1. plan.override \in Overrides \cup {None}
    BY DEF Plans
  <2>2. Overrides \subseteq Nat \cup {None}
    BY LimitsAssumption
  <2>3. plan.override # None => plan.override \in Nat
    BY <2>1, <2>2, Zenon
  <2> QED
    BY <2>3
<1>3. Limit(plan) # Unlimited => Limit(plan) \in Int
  BY <1>2, LimitsAssumption DEF Limit
<1>4. Limit(plan)' = Limit(plan)
  BY DEF Limit
<1> QED
  BY <1>1, <1>3, <1>4 DEF Exhausted

LEMMA ExhaustionStays ==
    ASSUME IdentityInv, \A d \in Created : d \in Created' /\ device'[d] = device[d],
           \A d \in Devices : used'[d] \in Int /\ used'[d] >= used[d]
    PROVE  ExhaustionLasts
<1>1. ASSUME NEW plan \in Plans, NEW d \in Devices, Exhausted(plan, d)
      PROVE  Exhausted(plan, d)'
  BY <1>1, UsageGrows
<1>2. ASSUME NEW c \in Clients, ClientExhausted(c) PROVE ClientExhausted(c)'
  <2>1. PICK d \in Created : device[d].client = c /\ Exhausted(device[d], d)
    BY <1>2 DEF ClientExhausted
  <2>2. PICK plan : plan = device[d]
    OBVIOUS
  <2>3. plan \in Plans /\ d \in Devices
    BY <2>2 DEF IdentityInv, TablesOK, Created
  <2>4. Exhausted(plan, d)' /\ device'[d] = plan /\ d \in Created' /\ plan.client = c
    BY <1>1, <2>1, <2>2, <2>3
  <2>5. Exhausted(device[d], d)'
    BY <2>4 DEF Exhausted, Limit
  <2> QED
    BY <2>4, <2>5 DEF ClientExhausted
<1> QED
  BY <1>1, <1>2 DEF ExhaustionLasts

LEMMA UsageStays ==
    ASSUME IdentityInv, UNCHANGED used
    PROVE  \A d \in Devices : used'[d] \in Int /\ used'[d] >= used[d]
BY LimitsAssumption DEF IdentityInv, TablesOK

LEMMA StaysOutStays ==
    ASSUME ExhaustionLasts, NEW r, RequestOK(r), StaysOut(r)
    PROVE  StaysOut(r)'
<1>1. SUFFICES ASSUME r.barred, r.op = "open", Holder[r.key] \in TokenClients
               PROVE  /\ r.at \in {"resolve", "quota"} /\ ClientExhausted(Holder[r.key])'
                      /\ r.at = "quota" => Exhausted(r.plan, r.dev)'
  BY DEF StaysOut
<1>2. r.at \in {"resolve", "quota"} /\ ClientExhausted(Holder[r.key])
      /\ (r.at = "quota" => Exhausted(r.plan, r.dev))
  BY <1>1 DEF StaysOut
<1>3. Holder[r.key] \in Clients
  BY <1>1, ClientsAssumption
<1>4. r.at = "quota" => r.plan \in Plans /\ r.dev \in Devices
  BY DEF RequestOK, Requests
<1> QED
  BY <1>2, <1>3, <1>4 DEF ExhaustionLasts

\* The requests of others outlast a step of a handler.
LEMMA StaysOutGoesOn ==
    ASSUME IdentityInv, StayOutInv, ExhaustionLasts, NEW h \in Handlers, NEW r,
           handler' = [handler EXCEPT ![h] = r], r # None => StaysOut(r)'
    PROVE  StayOutInv'
<1>1. \A g \in Handlers : handler'[g] = IF g = h THEN r ELSE handler[g]
  BY DEF IdentityInv, HandlersOK
<1> SUFFICES ASSUME NEW g \in Handlers, handler'[g] # None PROVE StaysOut(handler[g])'
  BY DEF StayOutInv
<1>2. PICK q : q = handler'[g]
  OBVIOUS
<1>3. StaysOut(q)'
  <2>1. CASE g = h
    BY <1>1, <1>2, <2>1
  <2>2. CASE g # h
    <3>1. RequestOK(q) /\ StaysOut(q)
      BY <1>1, <1>2, <2>2 DEF StayOutInv, IdentityInv, HandlersOK
    <3> QED
      BY <3>1, StaysOutStays
  <2> QED
    BY <2>1, <2>2
<1> QED
  BY <1>2, <1>3 DEF StaysOut, ClientExhausted, Exhausted, Created

LEMMA StaysOutElse ==
    ASSUME IdentityInv, StayOutInv, ExhaustionLasts, UNCHANGED handler
    PROVE  StayOutInv'
<1> SUFFICES ASSUME NEW g \in Handlers, handler'[g] # None PROVE StaysOut(handler[g])'
  BY DEF StayOutInv
<1>1. PICK q : q = handler'[g]
  OBVIOUS
<1>2. RequestOK(q) /\ StaysOut(q)
  BY <1>1 DEF StayOutInv, IdentityInv, HandlersOK
<1>3. StaysOut(q)'
  BY <1>2, StaysOutStays
<1> QED
  BY <1>1, <1>3 DEF StaysOut, ClientExhausted, Exhausted, Created

LEMMA StayOutInit == Init => StayOutInv
BY DEF Init, StayOutInv

\* No step lets a barred request go past the gate, or forgets why it is barred.
LEMMA StayOutStep == IdentityInv /\ StayOutInv /\ [Next]_vars => StayOutInv'
<1> SUFFICES ASSUME IdentityInv, StayOutInv, [Next]_vars PROVE StayOutInv'
  OBVIOUS
<1> USE DEF At
<1>1. ASSUME NEW h \in Handlers, handler[h] # None
      PROVE  RequestOK(handler[h]) /\ handler[h] \in Requests /\ StaysOut(handler[h])
  BY <1>1 DEF IdentityInv, HandlersOK, RequestOK, StayOutInv
<1>2. ASSUME UNCHANGED <<device, used>> PROVE ExhaustionLasts
  BY <1>2, ExhaustionStays, UsageStays DEF Created
<1>3. ASSUME ExhaustionLasts, NEW h \in Handlers, Respond(h) PROVE StayOutInv'
  BY <1>3, StaysOutGoesOn DEF Respond
<1>4. ASSUME NEW h \in Handlers, NEW r, handler' = [handler EXCEPT ![h] = r],
             UNCHANGED <<device, used>>, r.barred => r.op # "open" \/ Holder[r.key] \notin TokenClients
      PROVE  StayOutInv'
  BY <1>2, <1>4, StaysOutGoesOn DEF StaysOut
<1>5. ASSUME NEW h \in Handlers, handler[h] # None, NEW at,
             Goto(h, at) \/ GoOn(h, at), UNCHANGED <<device, used>>,
             handler[h].barred =>
                handler[h].op # "open" \/ Holder[handler[h].key] \notin TokenClients
      PROVE  StayOutInv'
  <2>1. PICK q : q = handler[h]
    OBVIOUS
  <2>2. q \in Requests
    BY <1>1, <1>5, <2>1
  <2>3. CASE Goto(h, at)
    <3>1. PICK r : r = [q EXCEPT !.at = at]
      OBVIOUS
    <3>2. handler' = [handler EXCEPT ![h] = r]
      BY <2>1, <2>3, <3>1 DEF Goto, IdentityInv, HandlersOK
    <3>3. r.op = q.op /\ r.key = q.key /\ r.barred = q.barred
      BY <2>2, <3>1 DEF Requests
    <3> QED
      BY <1>4, <1>5, <2>1, <3>2, <3>3
  <2>4. CASE GoOn(h, at)
    <3>1. PICK r : r = [q EXCEPT !.plan = None, !.at = at]
      OBVIOUS
    <3>2. handler' = [handler EXCEPT ![h] = r]
      BY <2>1, <2>4, <3>1 DEF GoOn, IdentityInv, HandlersOK
    <3>3. r.op = q.op /\ r.key = q.key /\ r.barred = q.barred
      BY <2>2, <3>1 DEF Requests
    <3> QED
      BY <1>4, <1>5, <2>1, <3>2, <3>3
  <2> QED
    BY <1>5, <2>3, <2>4
<1>6. ASSUME NEW h \in Handlers, handler[h] # None, handler[h].at \notin {"resolve", "quota"}
      PROVE  handler[h].barred =>
                handler[h].op # "open" \/ Holder[handler[h].key] \notin TokenClients
  BY <1>1, <1>6 DEF StaysOut
<1>7. ASSUME NEW c \in Clients, Register(c) PROVE StayOutInv'
  <2>1. PICK d \in Devices : RegisterDevice(d, c)
    BY <1>7 DEF Register
  <2>2. \A e \in Created : e \in Created' /\ device'[e] = device[e]
    BY <2>1 DEF RegisterDevice, NewDevice, Created, IdentityInv, TablesOK
  <2>3. ExhaustionLasts
    BY <1>7, <2>2, ExhaustionStays, UsageStays DEF Register
  <2> QED
    BY <1>7, <2>3, StaysOutElse DEF Register
<1>8. ASSUME NEW c \in Clients, NEW d \in Created, device[d].client = c, NEW plan \in Plans,
             plan.client = c, device' = [device EXCEPT ![d] = plan], UNCHANGED used, Unbar({c})
      PROVE  StayOutInv'
  <2>1. Created' = Created /\ \A e \in Created : e # d => device'[e] = device[e]
    BY <1>8, NoneAssumption DEF IdentityInv, TablesOK, Created
  <2>2. ASSUME NEW h \in Handlers, handler'[h] # None PROVE StaysOut(handler[h])'
    <3>1. PICK q : q = handler[h]
      OBVIOUS
    <3>2. PICK r : r = handler'[h]
      OBVIOUS
    <3>3. r = IF q # None /\ Holder[q.key] \in {c} THEN [q EXCEPT !.barred = FALSE] ELSE q
      BY <1>8, <3>1, <3>2 DEF Unbar
    <3>4. q # None /\ RequestOK(q) /\ q \in Requests /\ StaysOut(q)
      BY <1>1, <2>2, <3>1, <3>2, <3>3
    <3>5. CASE Holder[q.key] = c
      <4>1. ~ r.barred
        BY <3>3, <3>4, <3>5 DEF Requests
      <4> QED
        BY <3>2, <4>1 DEF StaysOut
    <3>6. CASE Holder[q.key] # c
      <4>1. r = q
        BY <3>3, <3>6
      <4>2. ClientExhausted(Holder[q.key]) => ClientExhausted(Holder[q.key])'
        <5>1. SUFFICES ASSUME ClientExhausted(Holder[q.key])
                       PROVE  ClientExhausted(Holder[q.key])'
          OBVIOUS
        <5>2. PICK e \in Created : /\ device[e].client = Holder[q.key]
                                   /\ Exhausted(device[e], e)
          BY <5>1 DEF ClientExhausted
        <5>3. e # d /\ device'[e] = device[e] /\ e \in Created'
          BY <1>8, <2>1, <3>6, <5>2
        <5>4. Exhausted(device[e], e)'
          BY <1>8, <5>2, <5>3 DEF Exhausted, Limit
        <5> QED
          BY <5>2, <5>3, <5>4 DEF ClientExhausted
      <4>3. Exhausted(q.plan, q.dev) => Exhausted(q.plan, q.dev)'
        BY <1>8 DEF Exhausted
      <4>4. StaysOut(q)'
        BY <3>4, <4>2, <4>3 DEF StaysOut
      <4> QED
        BY <3>2, <4>1, <4>4 DEF StaysOut, ClientExhausted, Exhausted, Created
    <3> QED
      BY <3>5, <3>6
  <2> QED
    BY <2>2 DEF StayOutInv
<1>9. ASSUME NEW c \in Clients, NEW active \in BOOLEAN, SetPremium(c, active)
      PROVE  StayOutInv'
  <2>1. PICK d : d = token[c]
    OBVIOUS
  <2>2. d \in Created /\ device[d] \in Plans /\ device[d].client = c
    BY <1>9, <2>1 DEF SetPremium, IdentityInv, TokensOK, TablesOK, Owned, Created
  <2>3. PICK plan : plan = [device[d] EXCEPT !.premium = active]
    OBVIOUS
  <2>4. plan \in Plans /\ plan.client = c /\ device' = [device EXCEPT ![d] = plan]
    BY <1>9, <2>1, <2>2, <2>3 DEF SetPremium, Plans, IdentityInv, TablesOK
  <2> QED
    BY <1>8, <1>9, <2>2, <2>4 DEF SetPremium
<1>10. ASSUME NEW c \in Clients, NEW bytes \in Overrides, SetQuotaOverride(c, bytes)
       PROVE  StayOutInv'
  <2>1. PICK d : d = token[c]
    OBVIOUS
  <2>2. d \in Created /\ device[d] \in Plans /\ device[d].client = c
    BY <1>10, <2>1 DEF SetQuotaOverride, IdentityInv, TokensOK, TablesOK, Owned, Created
  <2>3. PICK plan : plan = [device[d] EXCEPT !.override = bytes]
    OBVIOUS
  <2>4. plan \in Plans /\ plan.client = c /\ device' = [device EXCEPT ![d] = plan]
    BY <1>10, <2>1, <2>2, <2>3 DEF SetQuotaOverride, Plans, IdentityInv, TablesOK
  <2> QED
    BY <1>8, <1>10, <2>2, <2>4 DEF SetQuotaOverride
<1>11. ASSUME NEW h \in Handlers, NEW op \in {"open", "authorize"}, NEW s \in Servers,
              NEW k \in Keys, Arrive(h, op, s, k)
       PROVE  StayOutInv'
  <2>1. PICK r : r = [op |-> op, server |-> s, key |-> k, auth |-> token[Holder[k]],
                      dev |-> None, plan |-> None, barred |-> ClientExhausted(Holder[k]),
                      at |-> IF op = "open" THEN "resolve" ELSE "row"]
    OBVIOUS
  <2>2. /\ r.op = op /\ r.key = k /\ (r.barred => ClientExhausted(Holder[k]))
        /\ (op = "open" => r.at = "resolve")
    BY <2>1
  <2>3. StaysOut(r)
    BY <2>2 DEF StaysOut
  <2>4. ExhaustionLasts
    BY <1>2, <1>11 DEF Arrive
  <2>5. Holder[k] \in Clients
    BY ClientsAssumption
  <2>6. StaysOut(r)'
    BY <2>2, <2>3, <2>4, <2>5 DEF StaysOut, ExhaustionLasts
  <2> QED
    BY <1>11, <2>1, <2>4, <2>6, StaysOutGoesOn DEF Arrive
<1>12. ASSUME NEW h \in Handlers, ReadRow(h) PROVE StayOutInv'
  BY <1>2, <1>3, <1>5, <1>6, <1>12 DEF ReadRow
<1>13. ASSUME NEW h \in Handlers, handler[h] # None, NEW d, NEW plan, Resolved(h, d, plan),
              ExhaustionLasts,
              handler[h].barred /\ handler[h].op = "open"
                 /\ Holder[handler[h].key] \in TokenClients
                 /\ ClientExhausted(Holder[handler[h].key])
                 => Exhausted(plan, d) /\ plan \in Plans /\ d \in Devices
       PROVE  handler[h].at = "resolve" \/ Holder[handler[h].key] \notin TokenClients
                 => StayOutInv'
  <2> SUFFICES ASSUME handler[h].at = "resolve" \/ Holder[handler[h].key] \notin TokenClients
               PROVE  StayOutInv'
    OBVIOUS
  <2>1. CASE Respond(h)
    BY <1>3, <1>13, <2>1
  <2>2. CASE ~ Respond(h)
    <3>1. PICK q : q = handler[h]
      OBVIOUS
    <3>2. PICK r : r = [q EXCEPT !.auth = None, !.dev = d, !.plan = plan, !.at = "quota"]
      OBVIOUS
    <3>3. handler' = [handler EXCEPT ![h] = r]
      BY <1>13, <2>2, <3>1, <3>2 DEF Resolved, IdentityInv, HandlersOK
    <3>4. q \in Requests /\ RequestOK(q) /\ StaysOut(q)
      BY <1>1, <1>13, <3>1
    <3>5. /\ r.op = q.op /\ r.key = q.key /\ r.barred = q.barred
          /\ r.at = "quota" /\ r.plan = plan /\ r.dev = d
      BY <3>2, <3>4 DEF Requests
    <3>6. StaysOut(r)'
      <4>1. SUFFICES ASSUME q.barred, q.op = "open", Holder[q.key] \in TokenClients
                     PROVE  ClientExhausted(Holder[q.key])' /\ Exhausted(plan, d)'
        BY <3>5 DEF StaysOut
      <4>2. ClientExhausted(Holder[q.key]) /\ Holder[q.key] \in Clients
        BY <3>4, <4>1, ClientsAssumption DEF StaysOut
      <4>3. Exhausted(plan, d) /\ plan \in Plans /\ d \in Devices
        BY <1>13, <3>1, <4>1, <4>2
      <4> QED
        BY <1>13, <4>2, <4>3 DEF ExhaustionLasts
    <3> QED
      BY <1>13, <3>3, <3>6, StaysOutGoesOn
  <2> QED
    BY <2>1, <2>2
<1>14. ASSUME NEW h \in Handlers, ResolveByToken(h) PROVE StayOutInv'
  <2>1. PICK d : d = handler[h].auth
    OBVIOUS
  <2>2. Owned(d, Holder[handler[h].key]) /\ handler[h].key \in Keys
    BY <1>1, <1>14, <2>1 DEF ResolveByToken, RequestOK, Requests
  <2>3. d \in Devices /\ device[d] \in Plans /\ Holder[handler[h].key] # None
    BY <2>2, ClientsAssumption, NoneAssumption DEF Owned, Created, IdentityInv, TablesOK
  <2>4. ClientExhausted(Holder[handler[h].key]) => Exhausted(device[d], d)
    BY <2>2, <2>3 DEF ClientExhausted, Owned, IdentityInv, OneDevicePerClient
  <2>5. ExhaustionLasts
    BY <1>2, <1>14 DEF ResolveByToken
  <2> QED
    BY <1>13, <1>14, <2>1, <2>3, <2>4, <2>5 DEF ResolveByToken
<1>15. ASSUME NEW h \in Handlers, ResolveByKey(h) PROVE StayOutInv'
  <2>1. Holder[handler[h].key] \notin TokenClients
    BY <1>1, <1>15 DEF ResolveByKey, RequestOK
  <2>2. ExhaustionLasts
    BY <1>2, <1>15 DEF ResolveByKey
  <2> QED
    BY <1>5, <1>13, <1>15, <2>1, <2>2 DEF ResolveByKey
<1>16. ASSUME NEW h \in Handlers, MintDevice(h) PROVE StayOutInv'
  <2>1. Holder[handler[h].key] \notin TokenClients
    BY <1>1, <1>16 DEF MintDevice, RequestOK
  <2>2. PICK d \in Devices : /\ NewDevice(d, None)
                             /\ Resolved(h, d, [client |-> None, premium |-> FALSE,
                                                override |-> None])
    BY <1>16 DEF MintDevice
  <2>3. \A e \in Created : e \in Created' /\ device'[e] = device[e]
    BY <2>2 DEF NewDevice, Created, IdentityInv, TablesOK
  <2>4. ExhaustionLasts
    BY <1>16, <2>3, ExhaustionStays, UsageStays DEF MintDevice
  <2> QED
    BY <1>13, <1>16, <2>1, <2>2, <2>4 DEF MintDevice
<1>17. ASSUME NEW h \in Handlers, QuotaGate(h) PROVE StayOutInv'
  <2>1. CASE Respond(h)
    BY <1>2, <1>3, <1>17, <2>1 DEF QuotaGate
  <2>2. CASE ~ Respond(h)
    <3>1. handler[h].barred =>
             handler[h].op # "open" \/ Holder[handler[h].key] \notin TokenClients
      BY <1>1, <1>17, <2>2 DEF QuotaGate, StaysOut
    <3> QED
      BY <1>5, <1>17, <2>2, <3>1 DEF QuotaGate
  <2> QED
    BY <2>1, <2>2
<1>18. ASSUME NEW h \in Handlers, LookupPeer(h) PROVE StayOutInv'
  BY <1>5, <1>6, <1>18 DEF LookupPeer
<1>19. ASSUME NEW h \in Handlers, AllocatePeer(h) PROVE StayOutInv'
  BY <1>2, <1>3, <1>5, <1>6, <1>19 DEF AllocatePeer
<1>20. ASSUME NEW h \in Handlers, AnswerOrAdd(h) PROVE StayOutInv'
  BY <1>2, <1>3, <1>5, <1>6, <1>20 DEF AnswerOrAdd
<1>21. ASSUME NEW h \in Handlers, AddPeer(h) PROVE StayOutInv'
  BY <1>2, <1>3, <1>21 DEF AddPeer
<1>22. ASSUME NEW h \in Handlers, QueryFails(h) PROVE StayOutInv'
  BY <1>2, <1>3, <1>22 DEF QueryFails
<1>23. ASSUME NEW s \in Servers, NEW k \in Keys, DeletePeer(s, k) PROVE StayOutInv'
  BY <1>2, <1>23, StaysOutElse DEF DeletePeer
<1>24. ASSUME NEW s \in Servers, NEW k \in Keys, AddUsage(s, k) PROVE StayOutInv'
  <2>1. PICK d : d = owner[s][k]
    OBVIOUS
  <2>2. d \in Devices /\ used' = [used EXCEPT ![d] = @ + 1] /\ UNCHANGED <<device, handler>>
    BY <1>24, <2>1 DEF AddUsage, IdentityInv, TablesOK
  <2>3. \A e \in Devices : used'[e] \in Int /\ used'[e] >= used[e]
    BY <2>2, LimitsAssumption DEF IdentityInv, TablesOK
  <2>4. ExhaustionLasts
    BY <2>2, <2>3, ExhaustionStays DEF Created
  <2> QED
    BY <2>2, <2>4, StaysOutElse
<1>25. CASE MonthEnds
  <2> SUFFICES ASSUME NEW h \in Handlers, handler'[h] # None PROVE ~ handler'[h].barred
    BY DEF StayOutInv, StaysOut
  <2>1. PICK q : q = handler[h]
    OBVIOUS
  <2>2. handler'[h] = IF q # None /\ Holder[q.key] \in Clients
                        THEN [q EXCEPT !.barred = FALSE] ELSE q
    BY <1>25, <2>1 DEF MonthEnds, Unbar
  <2>3. q # None /\ q \in Requests
    BY <1>1, <2>1, <2>2
  <2>4. Holder[q.key] \in Clients
    BY <2>3, ClientsAssumption DEF Requests
  <2> QED
    BY <2>2, <2>3, <2>4 DEF Requests
<1>26. CASE UNCHANGED vars
  BY <1>2, <1>26, StaysOutElse DEF vars
<1> QED
  BY <1>7, <1>9, <1>10, <1>11, <1>12, <1>14, <1>15, <1>16, <1>17, <1>18, <1>19, <1>20, <1>21,
     <1>22, <1>23, <1>24, <1>25, <1>26 DEF Next, Step

LEMMA StayOutCorrect == Spec => []StayOutInv
<1>1. IdentityInv /\ StayOutInv /\ [Next]_vars => StayOutInv'
  BY StayOutStep
<1> QED
  BY <1>1, StayOutInit, IdentityCorrect, PTL DEF Spec

\* What a client with a token sends once it is exhausted gets no further than the
\* quota gate (routes/sessions.js:57-62).
THEOREM ExhaustedRejected == Spec => []ExhaustedStayOut
<1>1. StayOutInv => ExhaustedStayOut
  BY DEF StayOutInv, StaysOut, ExhaustedStayOut
<1> QED
  BY <1>1, StayOutCorrect, PTL
=============================================================================
