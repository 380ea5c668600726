---------------------------- MODULE NodeRegistry ----------------------------
(***************************************************************************)
(* The table of scanner nodes: the handlers that create, update and delete *)
(* nodes concurrently, the seeding at start-up, and the choice of a node   *)
(* for the targets of a scan.                                              *)
(*                                                                         *)
(* Addresses are small naturals and a CIDR is a block [lo, size].  Node    *)
(* ids are ordered like the names of the nodes.  A certificate and the key *)
(* that belongs to it are the same number, 0 is an empty field.            *)
(***************************************************************************)
EXTENDS Integers, Sequences, FiniteSets

CONSTANTS
    NodeIds,    \* ids the registry hands out
    Admins,     \* update handlers that may be in progress at once
    Payloads,   \* request bodies: [cidrs, cert, key]
    Seeds,      \* SCANNER_URL and SCAN_ZONES, by the id each entry would get
    Addresses,  \* 0..n, the address space
    Targets,    \* hosts of a scan: [ip, block], the address written and the block it stands for
    NoNode      \* no row, no pending update, no result

\* net.IPNet.Contains.
Covers(block, ip) == block.lo <= ip /\ ip < block.lo + block.size

\* What a row, a request body and a configuration entry say of a node.
NodeRow == [cidrs : SUBSET [lo : Nat, size : Nat], cert : Nat, key : Nat]

ASSUME RegistryConstants ==
    /\ NodeIds \subseteq Nat /\ Addresses \subseteq Nat /\ NoNode \notin NodeIds
    /\ \A p \in Payloads : p \in NodeRow
    /\ DOMAIN Seeds \subseteq NodeIds /\ \A n \in DOMAIN Seeds : Seeds[n] \in NodeRow

\* A single address is a block of one; a host name has no address and an empty block.
ASSUME TargetsNameAddresses ==
    \A t \in Targets :
        /\ t.block \in [lo : Nat, size : Nat]
        /\ \/ t.ip = NoNode /\ t.block.size = 0
           \/ t.ip \in Addresses /\ t.ip # NoNode /\ Covers(t.block, t.ip)

VARIABLES
    nodes,      \* table scanner_nodes
    edits,      \* per handler: the effective row an update is about to write
    up          \* the backend has started

regVars == <<nodes, edits, up>>

Registered == {n \in NodeIds : nodes[n] # NoNode}
CatchAlls  == {n \in Registered : nodes[n].cidrs = {}}

First(S) == CHOOSE n \in S : \A m \in S : n <= m

\* Mutant: the new range is only compared from its own side.
OverlapOneSided(A, B) == \E a \in A, b \in B : Covers(a, b.lo)

\* The check of lockAndCheckOverlap and of validateNodeConfig: it compares
\* network addresses only.
Overlap(A, B) == \E a \in A, b \in B : Covers(a, b.lo) \/ Covers(b, a.lo)

\* The entries of the configuration exclude each other.
ValidateNodeConfig(config) ==
    \A m, n \in DOMAIN config : m # n => ~Overlap(config[m].cidrs, config[n].cidrs)

\* Start-up fails otherwise.
ASSUME SeedsAreDisjoint == ValidateNodeConfig(Seeds)

RegInit ==
    /\ nodes = [n \in NodeIds |-> NoNode]
    /\ edits = [a \in Admins |-> NoNode]
    /\ up = FALSE

\* lockAndCheckOverlap, under the table's lock: against every other node.
OverlapsOther(n, cidrs) == \E m \in Registered \ {n} : Overlap(cidrs, nodes[m].cidrs)

-----------------------------------------------------------------------------
(* Writes                                                                  *)

\* validateNodeTLS; a new node needs the key of its certificate.
ValidTLS(row, isCreate) ==
    /\ isCreate => (row.cert = 0) = (row.key = 0)
    /\ (row.cert # 0 /\ row.key # 0) => row.cert = row.key

CreateScannerNode(n, row) ==
    /\ nodes[n] = NoNode
    /\ ~OverlapsOther(n, row.cidrs)
    /\ nodes' = [nodes EXCEPT ![n] = row]

HandleCreateNode(n, payload) ==
    /\ up
    /\ ValidTLS(payload, TRUE)
    /\ CreateScannerNode(n, payload)
    /\ UNCHANGED <<edits, up>>

\* effectiveNodeForUpdate: without a certificate there is no key, a blank key
\* keeps the stored one.
EffectiveNodeForUpdate(existing, payload) ==
    [payload EXCEPT !.key = IF payload.cert = 0 THEN 0
                            ELSE IF @ # 0 THEN @ ELSE existing.key]

\* handleUpdateNode up to the write: read, merge, validate.
HandleUpdateNode(a, n, payload) ==
    /\ up /\ edits[a] = NoNode /\ n \in Registered
    /\ LET row == EffectiveNodeForUpdate(nodes[n], payload)
       IN  /\ ValidTLS(row, FALSE)
           /\ edits' = [edits EXCEPT ![a] = [id |-> n, row |-> row]]
    /\ UNCHANGED <<nodes, up>>

\* The transaction writes the validated row, or refuses.
UpdateScannerNode(a) ==
    /\ edits[a] # NoNode
    /\ LET n == edits[a].id
           row == edits[a].row
       IN  nodes' = IF n \in Registered /\ ~OverlapsOther(n, row.cidrs)
                    THEN [nodes EXCEPT ![n] = row] ELSE nodes
    /\ edits' = [edits EXCEPT ![a] = NoNode]
    /\ UNCHANGED up

\* Refused for the only catch-all.
DeleteScannerNode(n) ==
    /\ up /\ n \in Registered
    /\ CatchAlls # {n}
    /\ nodes' = [nodes EXCEPT ![n] = NoNode]
    /\ UNCHANGED <<edits, up>>

\* SeedScannerNodes at start-up, before anything is served: an entry whose name
\* is taken or whose ranges overlap a stored node is skipped.
SeedScannerNodes ==
    /\ ~up
    /\ nodes' = [n \in NodeIds |->
                   IF n \in DOMAIN Seeds /\ nodes[n] = NoNode /\ ~OverlapsOther(n, Seeds[n].cidrs)
                   THEN Seeds[n] ELSE nodes[n]]
    /\ up' = TRUE
    /\ UNCHANGED edits

\* The process ends; the handlers in progress end with it.
StopBackend ==
    /\ up
    /\ up' = FALSE
    /\ edits' = [a \in Admins |-> NoNode]
    /\ UNCHANGED nodes

RegNext ==
    \/ \E n \in NodeIds :
          \/ \E p \in Payloads : HandleCreateNode(n, p) \/ \E a \in Admins : HandleUpdateNode(a, n, p)
          \/ DeleteScannerNode(n)
    \/ \E a \in Admins : UpdateScannerNode(a)
    \/ SeedScannerNodes
    \/ StopBackend

RegSpec == RegInit /\ [][RegNext]_regVars

-----------------------------------------------------------------------------
(* Reads                                                                   *)

\* targetIP: a CIDR is reduced to its address as it was written, which need not be
\* the first of the block; a host name has none.
TargetIP(t) == t.ip

\* The rows with a range that holds the address.
Serving(ip) == {n \in Registered : \E c \in nodes[n].cidrs : ip # NoNode /\ Covers(c, ip)}

\* nodeForIP: the first of them.
NodeForIP(ip) ==
    LET serving == Serving(ip) IN IF serving = {} THEN NoNode ELSE First(serving)

\* The node of one target.
Match(t) == NodeForIP(TargetIP(t))

\* The positions of the targets that some node serves.
Matching(targets) == {i \in DOMAIN targets : Match(targets[i]) # NoNode}

\* The first catch-all is for scans without a match.
DefaultNode == IF CatchAlls # {} THEN First(CatchAlls) ELSE NoNode

\* Mutant: the last match wins and nobody notices that two nodes are involved.
SelectNodeLast(targets) ==
    IF Matching(targets) = {} THEN DefaultNode
    ELSE Match(targets[CHOOSE i \in Matching(targets) : \A j \in Matching(targets) : j <= i])

\* selectNode: the first target that matches a node decides, another node for a
\* later target is an error.
SelectNode(targets) ==
    LET matching == Matching(targets)
        match    == Match(targets[First(matching)])
    IN  IF matching = {} THEN DefaultNode
        ELSE IF \A i \in matching : Match(targets[i]) = match THEN match ELSE NoNode

\* nodeTLSConfig: what a client can be built from.
UsableTLS(row) == row.cert = row.key

-----------------------------------------------------------------------------
(* Properties                                                              *)

\* No address is served by two nodes, whatever was created, edited, deleted and
\* seeded concurrently: nodeForIP relies on it (nodes.go:251).
RangesDisjoint ==
    \A t \in Addresses, m, n \in Registered :
        (\E c \in nodes[m].cidrs : Covers(c, t)) /\ (\E c \in nodes[n].cidrs : Covers(c, t)) => m = n

\* A stored key is the key of the stored certificate, although an update merges
\* a row read earlier (nodes_http.go:97).  A node a client cannot be built for
\* is as the configuration seeded it, or its key was never given.
KeyFitsCertificate ==
    \A n \in Registered :
        \/ UsableTLS(nodes[n]) \/ nodes[n].key = 0
        \/ n \in DOMAIN Seeds /\ nodes[n] = Seeds[n]

\* Every address of the target lies in the ranges of node n.
LiesWith(t, n) == TargetIP(t) # NoNode /\ \A a \in Addresses : Covers(t.block, a) => n \in Serving(a)

\* The node of a scan serves every target's written address that some node serves, a
\* scan of addresses of two nodes gets none, and only a scan nobody serves goes to the
\* first catch-all; so the order of the targets is all the same.  No scan takes an
\* address or a whole block from the node it lies with.  Of a block that several nodes
\* share only the written address counts (nodes.go:332), against the words of
\* nodes.go:204.
SelectionIsSound ==
    \A s, t \in Targets :
        LET chosen == SelectNode(<<s, t>>)
            owners == Serving(TargetIP(s)) \cup Serving(TargetIP(t))
        IN  /\ Cardinality(owners) > 1 => chosen = NoNode
            /\ Cardinality(owners) = 1 => chosen \in owners
            /\ owners = {} => chosen = DefaultNode
            /\ chosen # NoNode => \A n \in Registered \ {chosen} : ~LiesWith(s, n) /\ ~LiesWith(t, n)

\* What the registry stores can be dialled and routed to without ambiguity.
RegistryIsSound == RangesDisjoint /\ KeyFitsCertificate
=============================================================================
