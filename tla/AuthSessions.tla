---------------------------- MODULE AuthSessions ----------------------------
(***************************************************************************)
(* Browser logins: the pending authorization flows and the sessions in the *)
(* database, the handlers of all replicas between their statements, and    *)
(* the state cookie of each browser.                                       *)
(*                                                                         *)
(* Lifetimes count down with TimePasses, 0 being expired; now() is the     *)
(* start of a transaction.  Tokens are random, here numbers: the least one *)
(* is minted that nothing holds, since they differ in nothing else.        *)
(***************************************************************************)
EXTENDS Integers, FiniteSets

CONSTANTS
    Handlers,     \* requests in progress, on any replica
    Browsers,
    Subjects,     \* subjects the identity provider may name
    States,       \* state tokens
    SessionIds,   \* session tokens
    FlowTTL,      \* authFlowTTL
    SessionTTL,
    MaxFlows,     \* maxLiveAuthFlows
    MaxSessions,  \* MaxLiveSessionsPerSubject
    Attempts,     \* authFlowAdmissionAttempts
    Nobody        \* no handler, no token, no row

ASSUME AuthConstants ==
    /\ {FlowTTL, SessionTTL, MaxFlows, MaxSessions, Attempts} \subseteq Nat \ {0}
    /\ IsFiniteSet(States) /\ States = 1 .. Cardinality(States)
    /\ IsFiniteSet(SessionIds) /\ SessionIds = 1 .. Cardinality(SessionIds)
    /\ Nobody \notin Handlers \cup States \cup SessionIds \cup Subjects
    /\ Nobody \notin [subject : Subjects, life : Nat]

VARIABLES
    flows,          \* auth_flows: life left per state, or Nobody
    admission,      \* handler that holds the advisory lock of the admission
    sessions,       \* sessions: [subject, life] per id, or Nobody
    born,           \* created_at: per id, the ids that are older
    subjectLock,    \* per subject: handler that holds its advisory lock
    handler,        \* per handler: where it is and what it has read
    stateCookie,    \* per browser
    redeemed        \* per state: sessions it has led to

authVars == <<flows, admission, sessions, born, subjectLock, handler,
              stateCookie, redeemed>>

Idle == [at |-> "idle", browser |-> Nobody, state |-> Nobody, life |-> 0, tries |-> 0,
         count |-> 0, subject |-> Nobody, id |-> Nobody, expired |-> {}]

AuthInit ==
    /\ flows = [s \in States |-> Nobody]
    /\ admission = Nobody
    /\ sessions = [i \in SessionIds |-> Nobody]
    /\ born = [i \in SessionIds |-> {}]
    /\ subjectLock = [u \in Subjects |-> Nobody]
    /\ handler = [h \in Handlers |-> Idle]
    /\ stateCookie = [b \in Browsers |-> Nobody]
    /\ redeemed = [s \in States |-> 0]

LiveFlows == {s \in States : flows[s] # Nobody /\ flows[s] > 0}

Rows(u) == {i \in SessionIds : sessions[i] # Nobody /\ sessions[i].subject = u}

Live(u) == {i \in Rows(u) : sessions[i].life > 0}

FreshState(s) ==
    /\ flows[s] = Nobody
    /\ \A h \in Handlers : handler[h].state # s
    /\ \A b \in Browsers : stateCookie[b] # s

\* The ids of rows, and of logins whose transaction may insert one.
Known == {i \in SessionIds : sessions[i] # Nobody \/ \E h \in Handlers : handler[h].id = i}

\* created_at when ids are gone.
Without(ids) == [i \in SessionIds |-> IF i \in ids THEN {} ELSE born[i] \ ids]

FreshId(i) == i \notin Known /\ \A h \in Handlers : i \notin handler[h].expired

Least(Free(_), s) == Free(s) /\ \A t \in 1 .. s - 1 : ~Free(t)

Becomes(h, r) == handler' = [handler EXCEPT ![h] = r]

\* A response sets or clears a cookie when it arrives, and may be lost.
MaySet(jar, b, value) == \/ jar' = [jar EXCEPT ![b] = value]
                         \/ UNCHANGED jar

-----------------------------------------------------------------------------
(* handleLogin                                                             *)

Login(h, b, s) ==
    /\ handler[h].at = "idle" /\ Least(FreshState, s)
    /\ Becomes(h, [Idle EXCEPT !.at = "admit", !.browser = b, !.state = s, !.life = FlowTTL])
    /\ redeemed' = [redeemed EXCEPT ![s] = 0]
    /\ UNCHANGED <<flows, admission, sessions, born, subjectLock, stateCookie>>

\* An attempt begins, takes the lock and counts.
Admit(h) ==
    /\ handler[h].at = "admit" /\ admission = Nobody
    /\ admission' = h
    /\ Becomes(h, [handler[h] EXCEPT !.at = "insert", !.tries = 0, !.count = Cardinality(LiveFlows)])
    /\ UNCHANGED <<flows, sessions, born, subjectLock, stateCookie, redeemed>>

\* An attempt finds the lock taken: ErrAuthFlowBusy, a 503 after the last one.
Busy(h) ==
    /\ handler[h].at = "admit" /\ admission # Nobody
    /\ Becomes(h, IF handler[h].tries + 1 = Attempts
                    THEN Idle
                    ELSE [handler[h] EXCEPT !.tries = @ + 1])
    /\ UNCHANGED <<flows, admission, sessions, born, subjectLock, stateCookie, redeemed>>

FlowLimit(h) ==
    /\ handler[h].at = "insert" /\ handler[h].count >= MaxFlows
    /\ admission' = Nobody
    /\ Becomes(h, Idle)
    /\ UNCHANGED <<flows, sessions, born, subjectLock, stateCookie, redeemed>>

CreateAuthFlow(h) ==
    /\ handler[h].at = "insert" /\ handler[h].count < MaxFlows
    /\ flows' = [flows EXCEPT ![handler[h].state] = handler[h].life]
    /\ admission' = Nobody
    /\ MaySet(stateCookie, handler[h].browser, handler[h].state)
    /\ Becomes(h, Idle)
    /\ UNCHANGED <<sessions, born, subjectLock, redeemed>>

-----------------------------------------------------------------------------
(* handleCallback                                                          *)

\* The browser comes back from the provider: authStateMatches.
Callback(h, b) ==
    /\ handler[h].at = "idle" /\ stateCookie[b] # Nobody
    /\ Becomes(h, [Idle EXCEPT !.at = "take", !.browser = b, !.state = stateCookie[b]])
    /\ UNCHANGED <<flows, admission, sessions, born, subjectLock, stateCookie, redeemed>>

\* Mutant: the flow is read and stays.
ReadAuthFlow(h) ==
    /\ handler[h].at = "take" /\ handler[h].state \in LiveFlows
    /\ Becomes(h, [handler[h] EXCEPT !.at = "exchange"])
    /\ UNCHANGED <<flows, admission, sessions, born, subjectLock, stateCookie, redeemed>>

TakeAuthFlow(h) ==
    LET s == handler[h].state IN
    /\ handler[h].at = "take" /\ s \in LiveFlows
    /\ flows' = [flows EXCEPT ![s] = Nobody]
    /\ Becomes(h, [handler[h] EXCEPT !.at = "exchange"])
    /\ UNCHANGED <<admission, sessions, born, subjectLock, stateCookie, redeemed>>

\* Every other end of a callback clears the state cookie too: a provider
\* error, an unknown state, a failed exchange, verification, nonce or claims.
Refused(h) ==
    /\ \/ handler[h].at = "take" \/ handler[h].at = "exchange"
    /\ MaySet(stateCookie, handler[h].browser, Nobody)
    /\ Becomes(h, Idle)
    /\ UNCHANGED <<flows, admission, sessions, born, subjectLock, redeemed>>

\* The provider answers with a verified token for u, UpsertUser stores it, and
\* CreateSession begins its transaction.
Exchange(h, u, i) ==
    /\ handler[h].at = "exchange" /\ Least(FreshId, i)
    /\ Becomes(h, [handler[h] EXCEPT !.at = "lock", !.subject = u, !.id = i,
                                     !.life = SessionTTL,
                                     !.expired = Rows(u) \ Live(u)])
    /\ born' = [born EXCEPT ![i] = Known]
    /\ UNCHANGED <<flows, admission, sessions, subjectLock, stateCookie, redeemed>>

\* Mutant: the logins of a subject are not serialized.
CountUnlocked(h) ==
    LET u == handler[h].subject IN
    /\ handler[h].at = "lock"
    /\ Becomes(h, [handler[h] EXCEPT !.at = "commit",
                                     !.count = Cardinality(Rows(u) \ handler[h].expired)])
    /\ UNCHANGED <<flows, admission, sessions, born, subjectLock, stateCookie, redeemed>>

\* pg_advisory_xact_lock, then the count.
LockSubject(h) ==
    LET u == handler[h].subject IN
    /\ handler[h].at = "lock" /\ subjectLock[u] = Nobody
    /\ subjectLock' = [subjectLock EXCEPT ![u] = h]
    /\ Becomes(h, [handler[h] EXCEPT !.at = "commit",
                                     !.count = Cardinality(Rows(u) \ handler[h].expired)])
    /\ UNCHANGED <<flows, admission, sessions, born, stateCookie, redeemed>>

\* The first n of the ids in order of created_at, among those given.
Oldest(n, ids) == {i \in ids : Cardinality(born[i] \cap ids) < n}

Evicted(h) ==
    IF handler[h].count >= MaxSessions
      THEN Oldest(handler[h].count - MaxSessions + 1, Rows(handler[h].subject) \ handler[h].expired)
      ELSE {}

Gone(ids) ==
    /\ sessions' = [i \in SessionIds |-> IF i \in ids THEN Nobody ELSE sessions[i]]
    /\ born' = Without(ids)

\* The eviction, the insert and the commit, then the redirect.
CreateSession(h) ==
    LET r == handler[h] IN
    /\ r.at = "commit"
    /\ sessions' = [i \in SessionIds |->
                      IF i = r.id THEN [subject |-> r.subject, life |-> r.life]
                      ELSE IF i \in Evicted(h) THEN Nobody
                      ELSE sessions[i]]
    /\ born' = Without(Evicted(h))
    /\ subjectLock' = [subjectLock EXCEPT ![r.subject] = Nobody]
    /\ redeemed' = [redeemed EXCEPT ![r.state] = @ + 1]
    /\ MaySet(stateCookie, r.browser, Nobody)
    /\ Becomes(h, Idle)
    /\ UNCHANGED <<flows, admission>>

\* A statement fails, the client goes away or the process dies: the
\* transaction rolls back and its locks go with it.
Released(lock, h) == IF lock = h THEN Nobody ELSE lock

Fail(h) ==
    /\ handler[h].at # "idle"
    /\ admission' = Released(admission, h)
    /\ subjectLock' = [u \in Subjects |-> Released(subjectLock[u], h)]
    /\ born' = Without({handler[h].id})
    /\ \/ UNCHANGED stateCookie
       \/ /\ handler[h].at \in {"take", "exchange", "lock", "commit"}
          /\ stateCookie' = [stateCookie EXCEPT ![handler[h].browser] = Nobody]
    /\ Becomes(h, Idle)
    /\ UNCHANGED <<flows, sessions, redeemed>>

-----------------------------------------------------------------------------
(* Logout                                                                  *)

\* Where a request to log out comes from: the application, a page of a sibling
\* host, a page of another site, or the address bar.
Sites == {"app", "sibling", "foreign", "typed"}

\* The headers a browser sends.  Only a POST names its origin; a browser may
\* not know fetch metadata; the session cookie is SameSite=Lax.
FetchSite(site) ==
    CASE site = "app" -> "same-origin" [] site = "sibling" -> "same-site"
      [] site = "foreign" -> "cross-site" [] site = "typed" -> "none"

Requests ==
    {[site |-> site, method |-> m, origin |-> IF m = "POST" THEN site ELSE "absent", fetch |-> f] :
        site \in Sites, m \in {"GET", "POST"}, f \in {"absent"} \cup {FetchSite(x) : x \in Sites}}

Sendable(q) ==
    /\ q.fetch \in {"absent", FetchSite(q.site)}
    /\ q.method = "POST" => q.site \in {"app", "sibling"}

SameOriginRequest(q) ==
    IF q.origin # "absent"
      THEN q.origin = "app" /\ q.fetch \in {"absent", "same-origin"}
      ELSE q.fetch = "same-origin"

LogoutAllowed(q) ==
    \/ SameOriginRequest(q)
    \/ q.method = "GET" /\ q.origin = "absent" /\ q.fetch = "none"

\* A request with the cookie of session i, live or not: DeleteSession.  Where it
\* fails the answer is a 503 and nothing is changed.
Logout(i, q) ==
    /\ sessions[i] # Nobody /\ Sendable(q) /\ LogoutAllowed(q)
    /\ Gone({i})
    /\ UNCHANGED <<flows, admission, subjectLock, handler, stateCookie, redeemed>>

-----------------------------------------------------------------------------
(* Administration and time                                                 *)

\* handleDeleteSession and handleDeleteSessions
Revoke(ids) ==
    /\ Gone(ids)
    /\ UNCHANGED <<flows, admission, subjectLock, handler, stateCookie, redeemed>>

RevokeOne(i) == sessions[i] # Nobody /\ Revoke({i})
RevokeAll(u) == Rows(u) # {} /\ Revoke(Rows(u))

\* The two statements of SweepExpiredAuth; nothing needs them to run.
SweepSessions ==
    LET ids == {i \in SessionIds : sessions[i] # Nobody /\ sessions[i].life = 0} IN
    /\ ids # {}
    /\ Gone(ids)
    /\ UNCHANGED <<flows, admission, subjectLock, handler, stateCookie, redeemed>>

SweepFlows ==
    /\ \E s \in States : flows[s] = 0
    /\ flows' = [s \in States |-> IF flows[s] = 0 THEN Nobody ELSE flows[s]]
    /\ UNCHANGED <<admission, sessions, born, subjectLock, handler, stateCookie, redeemed>>

\* The state cookie reaches its age.
Forget(b) ==
    /\ stateCookie[b] # Nobody
    /\ stateCookie' = [stateCookie EXCEPT ![b] = Nobody]
    /\ UNCHANGED <<flows, admission, sessions, born, subjectLock, handler, redeemed>>

Shorter(n) == IF n = 0 THEN 0 ELSE n - 1

TimePasses ==
    /\ flows' = [s \in States |-> IF flows[s] = Nobody THEN Nobody ELSE Shorter(flows[s])]
    /\ sessions' = [i \in SessionIds |-> IF sessions[i] = Nobody THEN Nobody
                                         ELSE [sessions[i] EXCEPT !.life = Shorter(@)]]
    /\ handler' = [h \in Handlers |-> [handler[h] EXCEPT !.life = Shorter(@)]]
    /\ UNCHANGED <<admission, born, subjectLock, stateCookie, redeemed>>

Step(h) ==
    \/ Admit(h) \/ Busy(h) \/ FlowLimit(h) \/ CreateAuthFlow(h)
    \/ TakeAuthFlow(h) \/ Refused(h)
    \/ LockSubject(h) \/ CreateSession(h) \/ Fail(h)

AuthNext ==
    \/ \E h \in Handlers :
          \/ Step(h)
          \/ \E b \in Browsers : Callback(h, b) \/ \E s \in States : Login(h, b, s)
          \/ \E u \in Subjects, i \in SessionIds : Exchange(h, u, i)
    \/ \E b \in Browsers : Forget(b)
    \/ \E i \in SessionIds : RevokeOne(i) \/ \E q \in Requests : Logout(i, q)
    \/ \E u \in Subjects : RevokeAll(u)
    \/ SweepSessions \/ SweepFlows \/ TimePasses

AuthSpec == AuthInit /\ [][AuthNext]_authVars

-----------------------------------------------------------------------------
(* Properties                                                              *)

\* The cap on pending logins holds across replicas at every moment, although
\* the admission lock is only tried (CreateAuthFlow).
FlowsBounded == Cardinality(LiveFlows) <= MaxFlows

\* A subject never has more live sessions than the cap, whatever logins,
\* sweeps and revocations overlap (CreateSession).
SessionsBounded == \A u \in Subjects : Cardinality(Live(u)) <= MaxSessions

\* One login leads to at most one session, however often the callback is
\* presented (TakeAuthFlow).
LoginIsSingleUse == \A s \in States : redeemed[s] <= 1

\* No page of a sibling host or of another site can log a user out, and every
\* request of the application itself is let through (sameOrigin,
\* sameOriginOrDirect).
OnlyTheUserLogsOut ==
    (\E u \in Subjects : Live(u) # {}) =>
        \A q \in Requests : Sendable(q) =>
            /\ LogoutAllowed(q) => q.site \in {"app", "typed"}
            /\ q.site = "app" /\ (q.method = "POST" \/ q.fetch # "absent") => LogoutAllowed(q)

\* A login in progress is counted once and spent once.
LoginsAreSound == FlowsBounded /\ LoginIsSingleUse

\* A user's sessions stay within the cap, and other pages cannot end them.
SessionsAreSound == SessionsBounded /\ OnlyTheUserLogsOut
=============================================================================
