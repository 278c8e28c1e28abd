--------------------------- MODULE DeviceIdentity ---------------------------
(***************************************************************************)
(* Which device a session is checked against, and which one it is charged  *)
(* to: POST /v1/devices and the entitlement routes (routes/devices.js),    *)
(* resolveForSession (services/devices.js), the premium and quota gates    *)
(* of POST /v1/sessions, the quota sent by /authorize, and quotaFor        *)
(* (services/quota.js).                                                    *)
(*                                                                         *)
(* A request reads the token's device, or that of a peer with its key, or  *)
(* creates one; its plan and its usage are read in turn, and the peers row *)
(* that usage is charged to is looked up last.  Between any two of these   *)
(* queries other requests, the reaper and the poller run.                  *)
(***************************************************************************)
EXTENDS Integers, FiniteSets

CONSTANTS
    Clients,         \* installations of the app, each with its deviceId
    TokenClients,    \* those that register first and send their token
    LegacyClients,   \* those that never do; the others have come to do it
    DevClients,      \* DEV_UNLIMITED_DEVICE_IDS
    Keys,            \* WireGuard public keys
    Holder,          \* [Keys -> Clients]
    Servers,
    PremiumServers,  \* servers.is_premium
    Handlers,        \* requests that may be in progress at once
    FreeLimit,       \* FREE_LIMIT_BYTES
    PremiumLimit,    \* PREMIUM_LIMIT_BYTES, or Unlimited
    Overrides,       \* values of limitBytes in POST /v1/devices/quota
    MaxDevices,      \* bound on the devices ever created
    MaxUsed,         \* bound on the bytes booked for a device in a month
    MaxMonths,       \* bound on the months
    Unlimited,
    None

ASSUME ClientsAssumption ==
    /\ TokenClients \subseteq Clients /\ LegacyClients \subseteq Clients
    /\ DevClients \subseteq Clients /\ TokenClients \cap LegacyClients = {}
    /\ Holder \in [Keys -> Clients] /\ PremiumServers \subseteq Servers
ASSUME LimitsAssumption ==
    /\ FreeLimit \in Nat /\ PremiumLimit \in Nat \cup {Unlimited}
    /\ Overrides \subseteq Nat \cup {None}
    /\ MaxDevices \in Nat /\ MaxUsed \in Nat /\ MaxMonths \in Nat

\* What a devices row says of its device.
Plans == [client : Clients \cup {None}, premium : BOOLEAN, override : Overrides \cup {None}]

ASSUME NoneAssumption == None \notin Int \cup Clients \cup Plans /\ Unlimited \notin Int

VARIABLES
    device,    \* device[d]: the devices row of d, or None
    token,     \* token[c]: the device whose bearer token c holds, or None
    owner,     \* owner[s][k]: device_id of the peers row of (s, k), or None
    used,      \* used[d]: used_bytes of d in the current period
    months,    \* months that have ended
    handler,   \* handler[h]: the request h works on, or None
    misled     \* history, the rows <<s, k>> for which the node was last given
               \* the allowance of another device than the row's owner

vars == <<device, token, owner, used, months, handler, misled>>

Devices == 1 .. MaxDevices
Created == {d \in Devices : device[d] # None}

-----------------------------------------------------------------------------
(* Plans and quotas *)

\* The cap of a devices row: the override, else the plan's.
Limit(plan) ==
    IF plan.override # None THEN plan.override
    ELSE IF plan.premium THEN PremiumLimit ELSE FreeLimit

\* isExhausted(quotaFor(device)), from a row read earlier and the usage now.
Exhausted(plan, d) == Limit(plan) # Unlimited /\ used[d] >= Limit(plan)

\* A device of the client has used up its plan.
ClientExhausted(c) ==
    \E d \in Created : device[d].client = c /\ Exhausted(device[d], d)

-----------------------------------------------------------------------------
(* POST /v1/devices *)

\* Faulty variant: is_premium has no default.
NewDeviceWithoutDefault(d, c) ==
    /\ d \in Devices \ Created
    /\ \A e \in Devices \ Created : d <= e
    /\ device' = [device EXCEPT ![d] = [client |-> c, premium |-> None, override |-> None]]

\* A row as INSERT leaves it, for the deviceId c or for none.
NewDevice(d, c) ==
    /\ d \in Devices \ Created
    /\ \A e \in Devices \ Created : d <= e
    /\ device' = [device EXCEPT ![d] = [client |-> c, premium |-> FALSE, override |-> None]]

\* Faulty variant: INSERT without ON CONFLICT (device_id).
RegisterAgain(d, c) == NewDevice(d, c)

\* INSERT ... ON CONFLICT (device_id) DO UPDATE: the row of c, new or not.
RegisterDevice(d, c) ==
    IF \E e \in Created : device[e].client = c
      THEN d \in Created /\ device[d].client = c /\ UNCHANGED device
      ELSE NewDevice(d, c)

\* The answer carries a token for that row; it may be lost.
Register(c) ==
    /\ c \notin LegacyClients
    /\ \E d \in Devices :
          /\ RegisterDevice(d, c)
          /\ token' = [token EXCEPT ![c] = d] \/ UNCHANGED token
    /\ UNCHANGED <<owner, used, months, handler, misled>>

\* A request is no longer barred once its client may go on (a property's
\* business: see ExhaustedStayOut).
Unbar(clients) ==
    handler' = [h \in Handlers |->
        IF handler[h] # None /\ Holder[handler[h].key] \in clients
          THEN [handler[h] EXCEPT !.barred = FALSE] ELSE handler[h]]

\* POST /v1/devices/subscription, and /premium for those on the allowlist.
SetPremium(c, active) ==
    /\ token[c] # None
    /\ device' = [device EXCEPT ![token[c]].premium = active]
    /\ Unbar({c})
    /\ UNCHANGED <<token, owner, used, months, misled>>

\* POST /v1/devices/quota.
SetQuotaOverride(c, bytes) ==
    /\ token[c] # None /\ device[token[c]].client \in DevClients
    /\ device' = [device EXCEPT ![token[c]].override = bytes]
    /\ Unbar({c})
    /\ UNCHANGED <<token, owner, used, months, misled>>

-----------------------------------------------------------------------------
(* POST /v1/sessions and /v1/sessions/authorize *)

At(h, at) == handler[h] # None /\ handler[h].at = at

Goto(h, at) == handler' = [handler EXCEPT ![h].at = at]

GoOn(h, at) == handler' = [handler EXCEPT ![h].plan = None, ![h].at = at]

Respond(h) == handler' = [handler EXCEPT ![h] = None]

\* Who may send a request: a client that sends its token may do so while others
\* are in progress; without a token it waits for the answer.
Free(h, c) ==
    /\ handler[h] = None
    /\ c \in TokenClients => token[c] # None
    /\ c \notin TokenClients =>
          \A g \in Handlers : handler[g] # None => Holder[handler[g].key] # c

Arrive(h, op, s, k) ==
    /\ Free(h, Holder[k])
    /\ handler' = [handler EXCEPT ![h] =
          [op |-> op, server |-> s, key |-> k, auth |-> token[Holder[k]],
           dev |-> None, plan |-> None, barred |-> ClientExhausted(Holder[k]),
           at |-> IF op = "open" THEN "resolve" ELSE "row"]]
    /\ UNCHANGED <<device, token, owner, used, months, misled>>

\* /authorize reads the row; its grant is Sessions' matter.
ReadRow(h) ==
    /\ At(h, "row")
    /\ IF owner[handler[h].server][handler[h].key] = None
         THEN Respond(h) ELSE Goto(h, "resolve")
    /\ UNCHANGED <<device, token, owner, used, months, misled>>

MeetsPremiumGate(h, plan) ==
    handler[h].op = "open" /\ handler[h].server \in PremiumServers => plan.premium

\* The device is known, its row at hand: 403 for a premium server, or go on.
\* (What the rest of the request does not use is forgotten here and at the gate,
\* so that TLC does not tell apart states that behave alike.)
Resolved(h, d, plan) ==
    IF MeetsPremiumGate(h, plan)
      THEN handler' = [handler EXCEPT ![h].auth = None, ![h].dev = d, ![h].plan = plan,
                                      ![h].at = "quota"]
      ELSE Respond(h)

\* 1. the device of a valid bearer token.
ResolveByToken(h) ==
    /\ At(h, "resolve") /\ handler[h].auth # None
    /\ Resolved(h, handler[h].auth, device[handler[h].auth])
    /\ UNCHANGED <<device, token, owner, used, months, misled>>

\* Faulty variant: only a peer of the server that is asked for counts.
OwnersHere(h) ==
    {d \in Created : owner[handler[h].server][handler[h].key] = d}

\* Faulty variant: the query forgets WHERE public_key.
OwnersOfAny(h) == {d \in Created : \E s \in Servers, k \in Keys : owner[s][k] = d}

\* The devices of the peers with the request's key, on any server.
Owners(h) == {d \in Created : \E s \in Servers : owner[s][handler[h].key] = d}

\* 2. that of one of them (LIMIT 1); none: a device is to be created.
ResolveByKey(h) ==
    /\ At(h, "resolve") /\ handler[h].auth = None
    /\ IF Owners(h) = {} THEN Goto(h, "mint")
       ELSE \E d \in Owners(h) : Resolved(h, d, device[d])
    /\ UNCHANGED <<device, token, owner, used, months, misled>>

\* 3. "otherwise lazily create a new anonymous device": registerDevice({}).
MintDevice(h) ==
    /\ At(h, "mint")
    /\ \E d \in Devices :
          /\ NewDevice(d, None)
          /\ Resolved(h, d, [client |-> None, premium |-> FALSE, override |-> None])
    /\ UNCHANGED <<token, owner, used, months, misled>>

\* Faulty variant: the gate lets an exhausted device keep its last connection.
QuotaGateForNewKeys(h) ==
    /\ At(h, "quota")
    /\ IF handler[h].op = "authorize" THEN GoOn(h, "add")
       ELSE IF Exhausted(handler[h].plan, handler[h].dev) /\ Owners(h) = {} THEN Respond(h)
       ELSE GoOn(h, "lookup")
    /\ UNCHANGED <<device, token, owner, used, months, misled>>

\* quotaFor: the usage is read.  An exhausted device gets 403 from /sessions;
\* /authorize has no such gate, it sends the node what remains.
QuotaGate(h) ==
    /\ At(h, "quota")
    /\ IF handler[h].op = "authorize" THEN GoOn(h, "add")
       ELSE IF Exhausted(handler[h].plan, handler[h].dev) THEN Respond(h)
       ELSE GoOn(h, "lookup")
    /\ UNCHANGED <<device, token, owner, used, months, misled>>

\* An existing row is taken as it is, whoever owns it.
LookupPeer(h) ==
    /\ At(h, "lookup")
    /\ Goto(h, IF owner[handler[h].server][handler[h].key] # None
                 THEN "answer" ELSE "allocate")
    /\ UNCHANGED <<device, token, owner, used, months, misled>>

\* allocatePeer inserts a row of the resolved device, or has no address.
AllocatePeer(h) ==
    LET s == handler[h].server
        k == handler[h].key
    IN  /\ At(h, "allocate")
        /\ \/ /\ owner[s][k] = None
              /\ owner' = [owner EXCEPT ![s][k] = handler[h].dev]
              /\ Goto(h, "answer")
           \/ Respond(h) /\ UNCHANGED owner
        /\ UNCHANGED <<device, token, used, months, misled>>

\* A gated client is answered now, for others the node is programmed.
AnswerOrAdd(h) ==
    /\ At(h, "answer")
    /\ Respond(h) \/ Goto(h, "add")
    /\ UNCHANGED <<device, token, owner, used, months, misled>>

\* addPeer with what remains to the resolved device; it may fail.
AddPeer(h) ==
    LET row == <<handler[h].server, handler[h].key>>
    IN  /\ At(h, "add")
        /\ \/ misled' = IF owner[row[1]][row[2]] \in {None, handler[h].dev}
                          THEN misled \ {row} ELSE misled \cup {row}
           \/ UNCHANGED misled
        /\ Respond(h)
        /\ UNCHANGED <<device, token, owner, used, months>>

\* A query fails: 500.
QueryFails(h) ==
    /\ handler[h] # None
    /\ Respond(h)
    /\ UNCHANGED <<device, token, owner, used, months, misled>>

-----------------------------------------------------------------------------
(* The rest of the system *)

\* /close, a roll-back or the reaper deletes a row.
DeletePeer(s, k) ==
    /\ owner[s][k] # None
    /\ owner' = [owner EXCEPT ![s][k] = None]
    /\ misled' = misled \ {<<s, k>>}
    /\ UNCHANGED <<device, token, used, months, handler>>

\* addUsage: traffic of a peer is booked to the device of its row.
AddUsage(s, k) ==
    /\ owner[s][k] # None
    /\ used[owner[s][k]] < MaxUsed
    /\ used' = [used EXCEPT ![owner[s][k]] = @ + 1]
    /\ UNCHANGED <<device, token, owner, months, handler, misled>>

\* currentPeriodStart is another date: every usage is 0 again.
MonthEnds ==
    /\ months < MaxMonths
    /\ months' = months + 1
    /\ used' = [d \in Devices |-> 0]
    /\ Unbar(Clients)
    /\ UNCHANGED <<device, token, owner, misled>>

-----------------------------------------------------------------------------
Init ==
    /\ device = [d \in Devices |-> None]
    /\ token = [c \in Clients |-> None]
    /\ owner = [s \in Servers |-> [k \in Keys |-> None]]
    /\ used = [d \in Devices |-> 0]
    /\ months = 0
    /\ handler = [h \in Handlers |-> None]
    /\ misled = {}

Step(h) ==
    \/ ReadRow(h) \/ ResolveByToken(h) \/ ResolveByKey(h) \/ MintDevice(h)
    \/ QuotaGate(h) \/ LookupPeer(h) \/ AllocatePeer(h) \/ AnswerOrAdd(h)
    \/ AddPeer(h) \/ QueryFails(h)

Next ==
    \/ \E c \in Clients : Register(c)
    \/ \E c \in Clients, active \in BOOLEAN : SetPremium(c, active)
    \/ \E c \in Clients, bytes \in Overrides : SetQuotaOverride(c, bytes)
    \/ \E h \in Handlers, op \in {"open", "authorize"}, s \in Servers, k \in Keys :
          Arrive(h, op, s, k)
    \/ \E h \in Handlers : Step(h)
    \/ \E s \in Servers, k \in Keys : DeletePeer(s, k) \/ AddUsage(s, k)
    \/ MonthEnds

Spec == Init /\ [][Next]_vars

-----------------------------------------------------------------------------
TypeOK ==
    /\ device \in [Devices -> Plans \cup {None}]
    /\ token \in [Clients -> Devices \cup {None}]
    /\ owner \in [Servers -> [Keys -> Devices \cup {None}]]
    /\ misled \subseteq Servers \X Keys
    /\ used \in [Devices -> 0 .. MaxUsed]
    /\ months \in 0 .. MaxMonths
    /\ \A h \in Handlers : handler[h] # None =>
          /\ handler[h].key \in Keys /\ handler[h].server \in Servers
          /\ handler[h].dev \in Created \cup {None}
          /\ handler[h].plan \in Plans \cup {None}
          /\ handler[h].at \in {"quota", "lookup", "allocate", "answer", "add"} =>
                handler[h].dev # None
          /\ handler[h].at = "quota" => handler[h].plan # None

\* "Adopting device tokens ... closes the `new keypair = fresh quota' gap"
\* (services/devices.js:73-74): whatever keys a client that sends its token uses
\* on whatever servers, all its traffic is charged to one device, its own.
TokenClosesGap ==
    /\ \A d, e \in Created :
          device[d].client = device[e].client /\ device[d].client # None => d = e
    /\ \A s \in Servers, k \in Keys :
          Holder[k] \in TokenClients /\ owner[s][k] # None =>
              device[owner[s][k]].client = Holder[k]

\* "Track per device, not per peer/node: a device roams across regions"
\* (docs/BACKEND.md:379): a client without token that waits for its answers has
\* the peers of a key on all servers charged to one device.
OneOwnerPerKey ==
    \A k \in Keys : Holder[k] \in LegacyClients =>
        \A s, t \in Servers :
            owner[s][k] # None /\ owner[t][k] # None => owner[s][k] = owner[t][k]

\* The allowance a node enforces for a peer is that of the device its traffic is
\* charged to, for clients that always or never send a token.
SteadyChargedIsChecked ==
    \A s \in Servers, k \in Keys :
        Holder[k] \in TokenClients \cup LegacyClients => <<s, k>> \notin misled

\* "reject BEFORE registering a peer if exhausted" (routes/sessions.js:57): a
\* request that a client with a token sends when it is exhausted registers no
\* peer and programs no node, with whatever key or server, unless the month ends
\* or its plan changes meanwhile.
ExhaustedStayOut ==
    \A h \in Handlers :
        handler[h] # None /\ handler[h].barred /\ handler[h].op = "open"
          /\ Holder[handler[h].key] \in TokenClients
          => handler[h].at \in {"resolve", "quota"}

\* "quota follows the device" (docs/BACKEND.md:55-56): as SteadyChargedIsChecked,
\* also for a client that has come to send a token.
ChargedIsChecked == misled = {}
=============================================================================
