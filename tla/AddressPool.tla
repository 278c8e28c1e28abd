---------------------------- MODULE AddressPool ----------------------------
(***************************************************************************)
(* What POST /v1/sessions promises about the tunnel addresses of one       *)
(* server, with no mention of transactions, locks or indexes: a request    *)
(* for a key either reuses the lease the key has, or is granted a usable   *)
(* address nobody holds, or is refused because every usable address is     *)
(* held, or fails.  Leases are given up by /sessions/close, the roll-back  *)
(* of a failed legacy connect and the two reapers.                         *)
(***************************************************************************)
CONSTANTS
    Keys,        \* WireGuard public keys
    Requests,    \* requests in flight on the server
    Usable,      \* the addresses that may be handed to a client
    None

VARIABLES
    lease,       \* lease[k]: the address key k holds, or None
    wants,       \* wants[r]: the key request r is about, or None
    answer       \* answer[r]: how far request r got

vars == <<lease, wants, answer>>

Init ==
    /\ lease = [k \in Keys |-> None]
    /\ wants = [r \in Requests |-> None]
    /\ answer = [r \in Requests |-> "idle"]

Settle(r, outcome) ==
    /\ answer[r] = "open"
    /\ answer' = [answer EXCEPT ![r] = outcome]

Free(a) == \A k \in Keys : lease[k] # a

\* A client asks for an address for its key.
Ask(r, k) ==
    /\ answer[r] = "idle"
    /\ answer' = [answer EXCEPT ![r] = "open"]
    /\ wants' = [wants EXCEPT ![r] = k]
    /\ UNCHANGED lease

\* The key already holds a lease, which the request reuses.
Reuse(r) ==
    /\ Settle(r, "reused")
    /\ lease[wants[r]] # None
    /\ UNCHANGED <<lease, wants>>

\* A usable address nobody holds becomes the key's lease.  The answer is lost
\* when the database commits but its acknowledgement does not arrive.
Grant(r, outcome) ==
    /\ Settle(r, outcome)
    /\ lease[wants[r]] = None
    /\ \E a \in Usable :
          /\ Free(a)
          /\ lease' = [lease EXCEPT ![wants[r]] = a]
    /\ UNCHANGED wants

\* Nobody is refused while a usable address is free.
Refuse(r) ==
    /\ \A a \in Usable : ~ Free(a)
    /\ Settle(r, "full")
    /\ UNCHANGED <<lease, wants>>

Fail(r) ==
    /\ Settle(r, "error")
    /\ UNCHANGED <<lease, wants>>

\* The response has been sent: the request is over.
Finish(r) ==
    /\ answer[r] \notin {"idle", "open"}
    /\ answer' = [answer EXCEPT ![r] = "idle"]
    /\ wants' = [wants EXCEPT ![r] = None]
    /\ UNCHANGED lease

Release(k) ==
    /\ lease[k] # None
    /\ lease' = [lease EXCEPT ![k] = None]
    /\ UNCHANGED <<wants, answer>>

Next ==
    \/ \E r \in Requests, k \in Keys : Ask(r, k)
    \/ \E r \in Requests :
          Reuse(r) \/ Grant(r, "granted") \/ Grant(r, "error")
            \/ Refuse(r) \/ Fail(r) \/ Finish(r)
    \/ \E k \in Keys : Release(k)

Spec == Init /\ [][Next]_vars
=============================================================================
