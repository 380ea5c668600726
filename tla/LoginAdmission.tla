--------------------------- MODULE LoginAdmission ---------------------------
(***************************************************************************)
(* The admission of anonymous login requests on one replica: which client  *)
(* a request is charged to, its token bucket, and the bounded table of     *)
(* buckets.                                                                *)
(***************************************************************************)
EXTENDS Integers, Sequences, FiniteSets, SequencesExt

CONSTANTS
    Clients,     \* addresses outside the trusted proxy networks
    Proxies,     \* addresses inside them
    Junk,        \* a forwarded token that is no address
    Burst,       \* LoginBurst
    MaxClients,  \* LoginMaxClients
    MaxHops,     \* maxForwardedForHops
    MaxDebt      \* bound on the charges that are told apart

ASSUME AdmissionConstants ==
    /\ {Burst, MaxClients} \subseteq Nat \ {0} /\ MaxDebt \in Nat /\ MaxDebt > Burst
    /\ MaxHops \in Nat /\ MaxHops > 1      \* as many hops as Arrivals has proxies
    /\ IsFiniteSet(Clients)
    /\ Clients \cap Proxies = {} /\ Junk \notin Clients \cup Proxies

VARIABLES
    table,    \* the clients with a bucket, by lastSeen, the stalest first
    tokens,   \* per key: what is left in its bucket
    debt,     \* per client: requests let in, less what time has given back
    others,   \* per client: other clients seen since its last request
    crowded   \* clients that MaxClients others have come after

admissionVars == <<table, tokens, debt, others, crowded>>

Keys == Clients \cup Proxies

AdmissionInit ==
    /\ table = <<>>
    /\ tokens = [k \in Keys |-> 0]
    /\ debt = [c \in Clients |-> 0]
    /\ others = [c \in Clients |-> {}]
    /\ crowded = {}

-----------------------------------------------------------------------------
(* authLoginClientKey                                                      *)

\* Mutant: the hops are read from the outermost one.
FirstForwardedIP(hops) ==
    {hops[k] : k \in {k \in 1 .. Len(hops) :
        hops[k] \in Clients /\ \A j \in 1 .. k - 1 : hops[j] \notin Clients}}

\* The nearest address of X-Forwarded-For that is no trusted proxy; junk is
\* passed over, and only MaxHops hops are read.
ForwardedClientIP(hops) ==
    {hops[k] : k \in {k \in 1 .. Len(hops) :
        /\ k > Len(hops) - MaxHops
        /\ hops[k] \in Clients
        /\ \A j \in k + 1 .. Len(hops) : hops[j] \notin Clients}}

ClientKey(peer, hops) ==
    IF peer \in Proxies /\ ForwardedClientIP(hops) # {}
      THEN CHOOSE c \in ForwardedClientIP(hops) : TRUE
      ELSE peer

-----------------------------------------------------------------------------
(* loginAdmission.allow                                                    *)

\* evictStalestLocked
Room(t) == IF Len(t) >= MaxClients THEN Tail(t) ELSE t

\* The table and the tokens of k as allow finds them, and whether it lets k in.
Found(k)  == k \in Range(table)
Seen(k)   == Append(IF Found(k) THEN RemoveFirst(table, k) ELSE Room(table), k)
Budget(k) == IF Found(k) THEN tokens[k] ELSE Burst

Allowed(k) == Budget(k) > 0

\* A request of client c that arrives at the process from peer with these hops.
Request(c, peer, hops) ==
    LET k == ClientKey(peer, hops) IN
    /\ table' = Seen(k)
    /\ tokens' = [x \in Keys |-> IF x = k THEN Budget(k) - (IF Allowed(k) THEN 1 ELSE 0)
                                 ELSE IF x \in Range(table') THEN tokens[x] ELSE 0]
    /\ debt' = [debt EXCEPT ![c] = IF Allowed(k) /\ @ < MaxDebt THEN @ + 1 ELSE @]
    /\ others' = [x \in Clients |-> IF x = c THEN {} ELSE others[x] \cup {c}]
    /\ crowded' = (crowded \ {x \in Clients : debt'[x] = 0})
                    \cup {x \in Clients : Cardinality(others'[x]) >= MaxClients}

\* What can arrive: the client connects itself with a header of its own, or
\* through one or two proxies that append what they saw to it.
Arrivals(c) ==
    LET own == {<<>>} \cup {<<x>> : x \in Keys \cup {Junk}}
    IN  (({c} \X own)
           \cup {<<p, Append(o, c)>> : p \in Proxies, o \in own})
           \cup {<<p, o \o <<c, q>>>> : p \in Proxies, q \in Proxies, o \in own}

\* Time gives a token back to every bucket (golang.org/x/time/rate).
Refill ==
    /\ tokens' = [k \in Keys |-> IF Found(k) /\ tokens[k] < Burst THEN tokens[k] + 1 ELSE tokens[k]]
    /\ debt' = [c \in Clients |-> IF debt[c] = 0 THEN 0 ELSE debt[c] - 1]
    /\ crowded' = crowded \ {c \in Clients : debt'[c] = 0}
    /\ UNCHANGED <<table, others>>

AdmissionNext ==
    \/ \E c \in Clients : \E a \in Arrivals(c) : Request(c, a[1], a[2])
    \/ Refill

AdmissionSpec == AdmissionInit /\ [][AdmissionNext]_admissionVars

-----------------------------------------------------------------------------
(* Properties                                                              *)

\* A client gets more than its bucket holds only after as many other clients
\* as the table has places came after it: no header of its own, no proxy and
\* no eviction of a fresher client buys it a new bucket (authLoginClientKey,
\* evictStalestLocked).
NoSecondBucket == \A c \in Clients : debt[c] > Burst => c \in crowded

=============================================================================
