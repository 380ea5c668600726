---------------------------- MODULE TraceCoverage ----------------------------
(***************************************************************************)
(* Endpoint coverage on a node: nuclei writes a trace into a pipe, a       *)
(* goroutine reduces it to the template and endpoint pairs that answered,  *)
(* and the run publishes the result once nuclei is gone - or publishes     *)
(* none, when the reducer is not done in time.                             *)
(***************************************************************************)
EXTENDS Integers, FiniteSets, Sequences, Functions

CONSTANTS
    Lines,       \* lines of a trace, a subset of Line
    Templates,   \* template paths of the manifest
    Foreign,     \* a path that is not in it
    Hosts,       \* as normalizeHost writes them
    NoEndpoint,  \* the empty key
    MaxPairs,    \* maxCoveragePairs
    MaxLines     \* bound: lines nuclei writes

Address == [host : Hosts \cup {""}, port : Nat, scheme : {"", "http", "https", "ws", "wss"}]

Line == [kind     : {"event", "malformed", "oversized", "blank"},
         template : Templates \cup {Foreign},
         type     : {"http", "https", "ssl", "tls", "dns", "whois", "tcp"},
         address  : Address,
         input    : Address,
         error    : {"none", "failed", "absent"}]

ASSUME TraceConstants ==
    /\ Lines \subseteq Line
    /\ Foreign \notin Templates /\ "" \notin Hosts
    /\ {MaxPairs, MaxLines} \subseteq Nat

VARIABLES
    nuclei,    \* "running", "exited" or "killed"
    written,   \* the lines nuclei wrote
    read,      \* how many of them the reducer has taken from the pipe
    reducer,   \* "reading", then "eof", "broken" or "closed"
    seen,      \* pairs so far; dropped when they are too many
    tally,     \* what kinds of record were met
    coverage,  \* the published pairs
    published

traceVars == <<nuclei, written, read, reducer, seen, tally, coverage, published>>

TraceInit ==
    /\ nuclei = "running" /\ written = <<>> /\ read = 0
    /\ reducer = "reading" /\ seen = {}
    /\ tally = {}
    /\ coverage = {} /\ published = FALSE

\* nuclei sends a request and says how it went.
WriteLine(l) ==
    /\ nuclei = "running" /\ Len(written) < MaxLines
    /\ written' = Append(written, l)
    /\ UNCHANGED <<nuclei, read, reducer, seen, tally, coverage, published>>

\* It ends, and the run closes the last writer of the pipe.
NucleiExits ==
    /\ nuclei = "running"
    /\ nuclei' = "exited"
    /\ UNCHANGED <<written, read, reducer, seen, tally, coverage, published>>

DefaultEndpointPort(scheme, protocol) ==
    CASE scheme \in {"http", "ws"}             -> 80
      [] scheme \in {"https", "wss"}           -> 443
      [] protocol = "http"                     -> 80
      [] protocol \in {"https", "ssl", "tls"}  -> 443
      [] protocol = "dns"                      -> 53
      [] protocol = "whois"                    -> 43
      [] OTHER                                 -> 0

\* Host and port, or nothing: a host alone says not which service answered.
EndpointKey(raw, protocol) ==
    LET port == IF raw.port # 0 THEN raw.port ELSE DefaultEndpointPort(raw.scheme, protocol)
    IN  IF raw.host # "" /\ port \in 1..65535 THEN <<raw.host, port>> ELSE NoEndpoint

\* The endpoint that answered, or the one that was asked.
EndpointOf(l) ==
    LET answered == EndpointKey(l.address, l.type)
    IN  IF answered # NoEndpoint THEN answered ELSE EndpointKey(l.input, l.type)

PairOf(l) == [template |-> l.template, endpoint |-> EndpointOf(l)]

\* What process counts a line as.
Counts(l) ==
    CASE l.kind = "blank"     -> {}
      [] l.kind = "oversized" -> {"record", "malformed"}
      [] l.kind = "malformed" -> {"record", "malformed"}
      [] l.error = "absent"   -> {"record", "decoded"}
      [] OTHER                -> {"record", "decoded", "status"}

Succeeds(l) == l.kind = "event" /\ l.error = "none"
Mapped(l)   == l.template \in Templates /\ EndpointOf(l) # NoEndpoint

\* The pairs after one more: too many, and none is kept from then on.
Grown(l) ==
    IF "overflow" \in tally \/ ~Succeeds(l) \/ ~Mapped(l) THEN seen
    ELSE IF Cardinality(seen \cup {PairOf(l)}) > MaxPairs THEN {}
    ELSE seen \cup {PairOf(l)}

Overflows(l) ==
    /\ "overflow" \notin tally /\ Succeeds(l) /\ Mapped(l)
    /\ Cardinality(seen \cup {PairOf(l)}) > MaxPairs

ProcessLine ==
    /\ reducer = "reading" /\ read < Len(written)
    /\ read' = read + 1
    /\ LET l == written[read + 1] IN
       /\ seen' = Grown(l)
       /\ tally' = tally \cup Counts(l) \cup (IF Overflows(l) THEN {"overflow"} ELSE {})
    /\ UNCHANGED <<nuclei, written, reducer, coverage, published>>

ReachEOF ==
    /\ reducer = "reading" /\ read = Len(written) /\ nuclei # "running"
    /\ reducer' = "eof"
    /\ UNCHANGED <<nuclei, written, read, seen, tally, coverage, published>>

ReadFails ==
    /\ reducer = "reading"
    /\ reducer' = "broken"
    /\ UNCHANGED <<nuclei, written, read, seen, tally, coverage, published>>

\* What the reducer returns.  Unknown coverage and empty coverage (of a scan with
\* findings, too) differ in a warning; setCoverage stores the empty list for both.
Reduced ==
    IF \/ reducer = "broken" \/ "overflow" \in tally
       \/ "record" \in tally /\ "decoded" \notin tally
       \/ "decoded" \in tally /\ "status" \notin tally
    THEN {} ELSE seen

SetCoverage ==
    /\ nuclei = "exited" /\ ~published /\ reducer \in {"eof", "broken"}
    /\ coverage' = Reduced /\ published' = TRUE
    /\ UNCHANGED <<nuclei, written, read, reducer, seen, tally>>

\* Mutant: what was reduced so far is better than nothing.
PublishSoFar ==
    /\ nuclei = "exited" /\ ~published /\ reducer = "reading"
    /\ reducer' = "closed"
    /\ coverage' = seen /\ published' = TRUE
    /\ UNCHANGED <<nuclei, written, read, seen, tally>>

\* coverageDrainTimeout: the reader is closed, and nobody takes its result.
DrainTimeout ==
    /\ nuclei = "exited" /\ ~published /\ reducer = "reading"
    /\ reducer' = "closed"
    /\ coverage' = {} /\ published' = TRUE
    /\ UNCHANGED <<nuclei, written, read, seen, tally>>

\* The scan is cancelled: the run returns and publishes nothing.
KillScan ==
    /\ nuclei # "killed" /\ ~published
    /\ nuclei' = "killed"
    /\ UNCHANGED <<written, read, reducer, seen, tally, coverage, published>>

TraceNext ==
    \/ \E l \in Lines : WriteLine(l)
    \/ NucleiExits \/ KillScan
    \/ ProcessLine \/ ReachEOF \/ ReadFails
    \/ SetCoverage \/ DrainTimeout

TraceSpec == TraceInit /\ [][TraceNext]_traceVars

-----------------------------------------------------------------------------
(* Properties                                                              *)

Proven == {PairOf(l) : l \in {x \in Range(written) : Succeeds(x) /\ Mapped(x)}}

\* What a scan claims to have covered is everything nuclei proved to have
\* reached, or nothing: no pair without a successful request of exactly that
\* template to exactly that endpoint, and no part of a trace that was too long,
\* unreadable or not read in time (coveredEndpointsFromTrace, Runner.run).
CoverageIsProven ==
    coverage = IF published /\ reducer = "eof" /\ Cardinality(Proven) <= MaxPairs
               THEN Proven ELSE {}
=============================================================================
