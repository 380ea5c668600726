-------------------------- MODULE MCConfiguration --------------------------
(***************************************************************************)
(* Instances for TLC of what administrators configure: scanner nodes, the  *)
(* template source with its mirror, and template sets.  The modules share  *)
(* no variable; a behaviour takes the steps of one of them, so that their  *)
(* state spaces add up.                                                    *)
(***************************************************************************)
EXTENDS NodeRegistry, TemplateSync, TemplateSets, TLC

VARIABLE focus

Block(lo, size) == [lo |-> lo, size |-> size]
Payload(cidrs, cert, key) == [cidrs |-> cidrs, cert |-> cert, key |-> key]

\* Nested and disjoint ranges; key pairs 1 and 2, and a blank key.
MCPayloads ==
    {Payload({}, 0, 0), Payload({Block(0, 2)}, 1, 1), Payload({Block(1, 1)}, 2, 0),
     Payload({Block(2, 2)}, 2, 2)}

Address(a) == [ip |-> a, block |-> Block(a, 1)]
HostName   == [ip |-> NoNode, block |-> Block(0, 0)]

\* An address, a block within a node's range, one that two nodes can share, not
\* written with its first address, and a host name.
MCTargets ==
    {Address(1), [ip |-> 2, block |-> Block(2, 2)], [ip |-> 3, block |-> Block(0, 4)], HostName}

MCSeeds == (1 :> Payload({}, 0, 0)) @@ (3 :> Payload({Block(1, 1), Block(2, 1)}, 1, 2))

\* Two releases of one source that give one path to two ids, and another source.
MCReleases == ("A" :> <<"t" :> "p", "u" :> "p">>) @@ ("B" :> <<("t" :> "q") @@ ("u" :> "p")>>)

MCSnapshots == {"t" :> 1, "u" :> 2, ("t" :> 1) @@ ("u" :> 2)}

Entry(id, owner, body) == [id |-> id, owner |-> owner, sha |-> body, yaml |-> body]
Doc(mode, named) == [name |-> "s", mode |-> mode, named |-> named]

MCArchives ==
    {[entries |-> <<Entry("t", "custom", 2)>>, set |-> Doc("exact", {"t"})],
     [entries |-> <<Entry("t", "custom", 2), Entry("u", "custom", 1)>>, set |-> Doc("exclude", {"t"})],
     [entries |-> <<Entry("u", "upstream", 2)>>, set |-> Doc("exclude", {"t", "u"})]}

\* u is the id that t gets when it is renamed, r the name that s gets.
MCCandidates == ("t" :> <<"u">>) @@ ("u" :> <<>>) @@ ("s" :> <<"r">>) @@ ("r" :> <<>>)

ConfigInit ==
    /\ RegInit /\ SyncInit /\ SetsInit
    /\ \/ focus = "sync" /\ source = "A"
       \/ focus \in {"registry", "sets"} /\ source = Off

ConfigNext ==
    /\ UNCHANGED focus
    /\ \/ focus = "registry" /\ RegNext /\ UNCHANGED <<syncVars, setVars>>
       \/ focus = "sync" /\ SyncNext /\ UNCHANGED <<regVars, setVars>>
       \/ focus = "sets" /\ SetsNext /\ UNCHANGED <<regVars, syncVars>>

\* The ticker fires for ever; a goroutine that can run runs, and one that waits
\* for the worktree gets it, since probes only try the lock.
Mirror(A) == focus = "sync" /\ A
SyncFairness ==
    \A r \in Replicas :
        /\ WF_syncVars(Mirror(Wake(r))) /\ WF_syncVars(Mirror(LoopStep(r)))
        /\ SF_syncVars(Mirror(LockWorktree(r)))
        /\ WF_syncVars(Mirror(SwitchStep(r))) /\ WF_syncVars(Mirror(Age(r)))

ConfigSpec ==
    /\ ConfigInit /\ [][ConfigNext]_<<focus, regVars, syncVars, setVars>>
    /\ SyncFairness
=============================================================================
