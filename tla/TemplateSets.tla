---------------------------- MODULE TemplateSets ----------------------------
(***************************************************************************)
(* Template sets and everything that edits the catalog below them: custom  *)
(* templates, an upstream sync as one transaction, the preview of a        *)
(* source, portable archives, and the resolution of a set into the ids and *)
(* the bundle of a scan, which reads the database several times.           *)
(*                                                                         *)
(* Resolutions and imports are the requests of several steps; one is in    *)
(* flight at a time, and every other operation is one transaction that may *)
(* happen between its steps.  Sets are told apart by name.                 *)
(***************************************************************************)
EXTENDS Integers, FiniteSets, Sequences, SequencesExt

CONSTANTS
    TemplateIds,           \* template ids
    Bodies,        \* template contents; a content stands for its sha256 too
    Empty,         \* the YAML of a row that was read without it
    Snapshots,     \* catalogs of upstream: functions from ids to contents
    Archives,      \* portable archives that are uploaded
    SetNames,
    Edited,        \* the sets that admins edit, the others are only imported
    Candidates,    \* per id and per set name: the names a rename tries in turn
    NoName,        \* no candidate of a rename is free
    NoSet, NoWrite

Modes == {"exact", "all", "exclude"}

ASSUME SetConstants ==
    /\ Edited \subseteq SetNames /\ Empty \notin Bodies
    /\ \A S \in Snapshots : DOMAIN S \subseteq TemplateIds
    /\ IsFiniteSet(TemplateIds)
    /\ \A a \in Archives :
          /\ a.entries \in Seq([id : TemplateIds, owner : {"custom", "upstream"}, sha : Bodies, yaml : Bodies])
          /\ a.set.mode \in Modes

VARIABLES
    templates,     \* table templates: [owner, active, body] per id, or NoTemplate
    sets,          \* template_sets with members and exclusions, or NoSet
    request,       \* the resolution or import in flight
    recreated      \* sets deleted since the import in flight read them

setVars == <<templates, sets, request, recreated>>

\* There is no row of the id.
NoTemplate == [owner |-> "nobody"]

Strategies == {"skip", "overwrite", "rename"}
Idle == [at |-> "idle"]

IsOwned(t, who) == templates[t] # NoTemplate /\ templates[t].owner = who
Active(R) == {t \in TemplateIds : R[t] # NoTemplate /\ R[t].active}
Existing(R) == {t \in TemplateIds : R[t] # NoTemplate}

SetsInit ==
    /\ templates = [t \in TemplateIds |-> NoTemplate]
    /\ sets = [n \in SetNames |-> NoSet]
    /\ request = Idle
    /\ recreated = {}

-----------------------------------------------------------------------------
(* The catalog                                                             *)

CreateCustom(t, b) ==
    /\ templates[t] = NoTemplate
    /\ templates' = [templates EXCEPT ![t] = [owner |-> "custom", active |-> TRUE, body |-> b]]
    /\ UNCHANGED <<sets, request, recreated>>

UpdateCustom(t, b) ==
    /\ IsOwned(t, "custom")
    /\ templates' = [templates EXCEPT ![t].body = b]
    /\ UNCHANGED <<sets, request, recreated>>

\* The foreign keys: an exclusion forbids the deletion, a membership goes with it.
DeleteCustom(t) ==
    /\ IsOwned(t, "custom")
    /\ \A n \in SetNames : sets[n] # NoSet => t \notin sets[n].exclusions
    /\ templates' = [templates EXCEPT ![t] = NoTemplate]
    /\ sets' = [n \in SetNames |->
                  IF sets[n] = NoSet THEN NoSet ELSE [sets[n] EXCEPT !.members = @ \ {t}]]
    /\ UNCHANGED <<request, recreated>>

ShadowsCustom(S) == \E t \in DOMAIN S : IsOwned(t, "custom")

\* The catalog after a sync: what upstream dropped is kept, inactive.
Synced(S) ==
    [t \in TemplateIds |->
       IF t \in DOMAIN S THEN [owner |-> "upstream", active |-> TRUE, body |-> S[t]]
       ELSE IF IsOwned(t, "upstream") THEN [templates[t] EXCEPT !.active = FALSE]
       ELSE templates[t]]

\* Mutant: what upstream dropped is deleted, and the memberships go with it.
SyncDeleting(S) ==
    /\ ~ShadowsCustom(S)
    /\ templates' = [t \in TemplateIds |-> IF IsOwned(t, "upstream") /\ t \notin DOMAIN S THEN NoTemplate ELSE Synced(S)[t]]
    /\ sets' = [n \in SetNames |->
                  IF sets[n] = NoSet THEN NoSet
                  ELSE [sets[n] EXCEPT !.members = {t \in @ : templates'[t] # NoTemplate}]]
    /\ UNCHANGED <<request, recreated>>

Sync(S) ==
    /\ ~ShadowsCustom(S)
    /\ templates' = Synced(S)
    /\ UNCHANGED <<sets, request, recreated>>

-----------------------------------------------------------------------------
(* Sets                                                                    *)

NewSet(mode, excluded) == [mode |-> mode, members |-> {}, exclusions |-> excluded]

\* Exclusions come with mode exclude only, and name rows that exist.
ValidExclusions(mode, excluded) ==
    excluded \subseteq Existing(templates) /\ (mode # "exclude" => excluded = {})

CreateTemplateSet(n, mode, excluded) ==
    /\ sets[n] = NoSet /\ ValidExclusions(mode, excluded)
    /\ sets' = [sets EXCEPT ![n] = NewSet(mode, excluded)]
    /\ UNCHANGED <<templates, request, recreated>>

\* replace: the request carries a list of exclusions.
UpdateTemplateSet(n, mode, replace, excluded) ==
    /\ sets[n] # NoSet /\ ValidExclusions(mode, excluded)
    /\ sets' = [sets EXCEPT ![n] =
                  [mode |-> mode,
                   members |-> IF mode = "exact" THEN @.members ELSE {},
                   exclusions |-> IF mode = "exclude" /\ ~replace THEN @.exclusions ELSE excluded]]
    /\ UNCHANGED <<templates, request, recreated>>

DeleteTemplateSet(n) ==
    /\ sets[n] # NoSet
    /\ sets' = [sets EXCEPT ![n] = NoSet]
    /\ recreated' = IF request.at = "apply" THEN recreated \cup {n} ELSE recreated
    /\ UNCHANGED <<templates, request>>

\* Members belong to exact sets and are rows that exist.
EditMembers(n, M) ==
    /\ sets[n] # NoSet /\ sets[n].mode = "exact" /\ M \subseteq Existing(templates)
    /\ sets' = [sets EXCEPT ![n].members = M]
    /\ UNCHANGED <<templates, request, recreated>>

ReplaceTemplateSetMembers(n, M) == EditMembers(n, M)

AddTemplateSetMembers(n, M) == sets[n] # NoSet /\ EditMembers(n, sets[n].members \cup M)

RemoveTemplateSetMember(n, t) ==
    sets[n] # NoSet /\ t \in sets[n].members /\ EditMembers(n, sets[n].members \ {t})

ReplaceTemplateSetExclusions(n, X) ==
    /\ sets[n] # NoSet /\ sets[n].mode = "exclude" /\ X \subseteq Existing(templates)
    /\ sets' = [sets EXCEPT ![n].exclusions = X]
    /\ UNCHANGED <<templates, request, recreated>>

\* ListTemplateSetMembers, given the mode it read before.
Listed(n, mode) ==
    CASE mode = "exact"   -> IF sets[n] = NoSet THEN {} ELSE sets[n].members
      [] mode = "all"     -> Active(templates)
      [] mode = "exclude" -> Active(templates) \ (IF sets[n] = NoSet THEN {} ELSE sets[n].exclusions)

-----------------------------------------------------------------------------
(* resolveConfigSpec: one read of the database per step                    *)

ResolveError == request' = Idle

\* GetTemplateSet.
BeginResolve(n) ==
    /\ request = Idle /\ sets[n] # NoSet
    /\ IF sets[n].mode = "exact" /\ sets[n].members = {}
         THEN ResolveError
         ELSE request' = [at |-> IF sets[n].mode = "exact" THEN "mode" ELSE "entries",
                          set |-> n, mode |-> sets[n].mode, picked |-> {}]
    /\ UNCHANGED <<templates, sets, recreated>>

\* The first read of ListTemplateSetMembers, of a set that may have changed.
ReadMode ==
    /\ request.at = "mode"
    /\ IF sets[request.set] = NoSet
         THEN ResolveError
         ELSE request' = [request EXCEPT !.at = sets[request.set].mode]
    /\ UNCHANGED <<templates, sets, recreated>>

\* The second: a set that is empty by now, or names a tombstone, is refused.
ReadMembers ==
    /\ request.at \in {"exact", "all", "exclude"}
    /\ LET M == Listed(request.set, request.at) IN
       IF M = {} \/ ~(M \subseteq Active(templates))
         THEN ResolveError
         ELSE request' = [request EXCEPT !.at = "entries", !.picked = M]
    /\ UNCHANGED <<templates, sets, recreated>>

\* Mutant: what was selected is not compared with the bundle.
ReadEntriesUnchecked ==
    /\ request.at = "entries"
    /\ IF Active(templates) = {}
         THEN ResolveError
         ELSE request' = [at |-> IF request.mode = "exclude" THEN "supported" ELSE "done",
                          set |-> request.set, mode |-> request.mode, bundle |-> Active(templates),
                          picked |-> IF request.mode = "all" THEN Active(templates) ELSE request.picked]
    /\ UNCHANGED <<templates, sets, recreated>>

\* ActiveTemplateBundleEntries: the ids of the bundle, and the selection of mode all.
ReadEntries ==
    /\ request.at = "entries"
    /\ IF Active(templates) = {} \/ ~(request.picked \subseteq Active(templates))
         THEN ResolveError
         ELSE request' = [at |-> IF request.mode = "exclude" THEN "supported" ELSE "done",
                          set |-> request.set, mode |-> request.mode, bundle |-> Active(templates),
                          picked |-> IF request.mode = "all" THEN Active(templates) ELSE request.picked]
    /\ UNCHANGED <<templates, sets, recreated>>

\* ListTemplateSetExclusionIDs, its two reads.
CheckSupported ==
    /\ request.at = "supported"
    /\ IF sets[request.set] = NoSet \/ sets[request.set].mode # "exclude"
         THEN ResolveError
         ELSE request' = [request EXCEPT !.at = "exclusions"]
    /\ UNCHANGED <<templates, sets, recreated>>

Subtract ==
    /\ request.at = "exclusions"
    /\ LET X == IF sets[request.set] = NoSet THEN {} ELSE sets[request.set].exclusions
           P == request.bundle \ X IN
       IF P = {} THEN ResolveError
                 ELSE request' = [request EXCEPT !.at = "done", !.picked = P]
    /\ UNCHANGED <<templates, sets, recreated>>

\* The scan is submitted with the selection.
Dispatch ==
    /\ request.at = "done"
    /\ request' = Idle
    /\ UNCHANGED <<templates, sets, recreated>>

-----------------------------------------------------------------------------
(* Portable archives                                                       *)

\* handleExportTemplateSet.  An exact set travels with the rows of its members.
\* The exclusions of an exclude set come from the catalog list, without YAML.
ExportTemplateSet(n) ==
    LET s == sets[n]
        carried == IF s.mode = "exact" THEN s.members ELSE s.exclusions IN
    [entries |-> SetToSeq({[id |-> t, owner |-> templates[t].owner, sha |-> templates[t].body,
                            yaml |-> IF s.mode = "exact" THEN templates[t].body ELSE Empty] :
                               t \in carried}),
     set |-> [name |-> n, mode |-> s.mode, named |-> carried]]

\* validatePortableEntries: an id comes once, hashes fit, an exact set names what
\* it carries and a set of all templates names none.
ValidArchive(a) ==
    /\ \A i, j \in DOMAIN a.entries : a.entries[i].id = a.entries[j].id => i = j
    /\ \A e \in ToSet(a.entries) : e.yaml = e.sha
    /\ a.set.mode = "exact" => a.set.named \subseteq {e.id : e \in ToSet(a.entries)}
    /\ a.set.mode = "all" => a.set.named = {}

\* The first candidate that is not occupied; the model has only so many.
NextImported(x, occupied) ==
    LET free == SelectSeq(Candidates[x], LAMBDA c : c \notin occupied) IN
    IF free = <<>> THEN NoName ELSE Head(free)

Written(plan, e, id, over) ==
    [plan EXCEPT !.writes = Append(@, [id |-> id, body |-> e.yaml, over |-> over]),
                 !.occupied = @ \cup {id}, !.renamed[e.id] = id]

\* One round of planPortableTemplateWrites: a custom entry is created, renamed,
\* written over a custom row, or skipped.
PlanEntry(strategy, plan, e) ==
    CASE e.owner = "upstream"      -> plan
      [] e.owner = "custom" /\ templates[e.id] = NoTemplate -> Written(plan, e, e.id, FALSE)
      [] e.owner = "custom" /\ templates[e.id] # NoTemplate /\ strategy = "rename" ->
            Written(plan, e, NextImported(e.id, plan.occupied), FALSE)
      [] e.owner = "custom" /\ IsOwned(e.id, "custom") /\ strategy = "overwrite" ->
            Written(plan, e, e.id, TRUE)
      [] OTHER -> plan

NoPlan == [writes |-> <<>>, renamed |-> [t \in TemplateIds |-> t], occupied |-> Existing(templates)]

\* planPortableTemplateWrites: its loop, as the plan after i entries.
PlanWrites(a, strategy) ==
    LET plan[i \in 0 .. Len(a.entries)] ==
            IF i = 0 THEN NoPlan ELSE PlanEntry(strategy, plan[i - 1], a.entries[i])
    IN  plan[Len(a.entries)]

\* The set is created, written over the set of its name, renamed or skipped.
SetWrite(a, strategy, renamed) ==
    LET n == a.set.name
        taken == {m \in SetNames : sets[m] # NoSet} IN
    IF n \in taken /\ strategy = "skip" THEN NoWrite
    ELSE [name |-> IF n \in taken /\ strategy = "rename" THEN NextImported(n, taken) ELSE n,
          over |-> n \in taken /\ strategy = "overwrite",
          mode |-> a.set.mode,
          named |-> {renamed[t] : t \in a.set.named}]

\* applyPortableImport up to the validation by a node: a plan from what the
\* catalog holds now.  A set is refused where one of its templates collides
\* with upstream, and where it names one that is not there.
PlanImport(a, strategy, withSet) ==
    LET plan  == PlanWrites(a, strategy)
        write == IF withSet THEN SetWrite(a, strategy, plan.renamed) ELSE NoWrite IN
    /\ request = Idle /\ ValidArchive(a)
    /\ NoName \notin plan.occupied /\ (write # NoWrite => write.name # NoName)
    /\ withSet => /\ \A e \in ToSet(a.entries) :
                       e.owner = "custom" /\ IsOwned(e.id, "upstream") => strategy = "rename"
                  /\ {plan.renamed[t] : t \in a.set.named} \subseteq plan.occupied
    /\ request' = [at |-> "apply", archive |-> a, strategy |-> strategy,
                   writes |-> plan.writes, set |-> write]
    /\ recreated' = {}
    /\ UNCHANGED <<templates, sets>>

\* The node finds the templates invalid, or cannot be reached.
ImportRefused ==
    /\ request.at = "apply"
    /\ request' = Idle
    /\ UNCHANGED <<templates, sets, recreated>>

Imported(W) ==
    [t \in TemplateIds |-> IF \E w \in ToSet(W) : w.id = t
                     THEN [owner |-> "custom", active |-> TRUE,
                           body |-> (CHOOSE w \in ToSet(W) : w.id = t).body]
                     ELSE templates[t]]

\* Mutant: a row that appeared since the plan is written over.
WritableOver(W) ==
    /\ \A i, j \in DOMAIN W : W[i].id = W[j].id => i = j
    /\ \A w \in ToSet(W) : w.over => IsOwned(w.id, "custom")

\* The statements that do not fail: an overwrite finds a custom row, an insert
\* finds none, also not one it has just inserted.
Writable(W) ==
    /\ \A i, j \in DOMAIN W : W[i].id = W[j].id => i = j
    /\ \A w \in ToSet(W) : IF w.over THEN IsOwned(w.id, "custom") ELSE templates[w.id] = NoTemplate

SetWritable(s, R) ==
    s # NoWrite =>
        /\ IF s.over THEN sets[s.name] # NoSet /\ s.name \notin recreated ELSE sets[s.name] = NoSet
        /\ s.named \subseteq Existing(R)

WrittenSet(s) ==
    [mode |-> s.mode,
     members    |-> IF s.mode = "exact" THEN s.named ELSE {},
     exclusions |-> IF s.mode = "exclude" THEN s.named ELSE {}]

\* One transaction, all of it or nothing.
ApplyTemplateImport ==
    LET s == request.set
        R == Imported(request.writes) IN
    /\ request.at = "apply"
    /\ IF Writable(request.writes) /\ SetWritable(s, R)
         THEN /\ templates' = R
              /\ sets' = IF s = NoWrite THEN sets ELSE [sets EXCEPT ![s.name] = WrittenSet(s)]
         ELSE UNCHANGED <<templates, sets>>
    /\ request' = Idle
    /\ UNCHANGED recreated

-----------------------------------------------------------------------------
ResolveStep ==
    \/ ReadMode \/ ReadMembers \/ ReadEntries \/ CheckSupported \/ Subtract \/ Dispatch

SetsNext ==
    \/ \E t \in TemplateIds, b \in Bodies : CreateCustom(t, b) \/ UpdateCustom(t, b)
    \/ \E t \in TemplateIds : DeleteCustom(t)
    \/ \E S \in Snapshots : Sync(S)
    \/ \E n \in Edited, mode \in Modes, X \in SUBSET TemplateIds :
          \/ CreateTemplateSet(n, mode, X)
          \/ \E replace \in BOOLEAN : UpdateTemplateSet(n, mode, replace, X)
    \/ \E n \in Edited, M \in SUBSET TemplateIds :
          ReplaceTemplateSetMembers(n, M) \/ AddTemplateSetMembers(n, M) \/ ReplaceTemplateSetExclusions(n, M)
    \/ \E n \in Edited, t \in TemplateIds : RemoveTemplateSetMember(n, t)
    \/ \E n \in SetNames : DeleteTemplateSet(n)
    \/ \E n \in Edited : BeginResolve(n)
    \/ ResolveStep
    \/ \E a \in Archives, strategy \in Strategies, withSet \in BOOLEAN : PlanImport(a, strategy, withSet)
    \/ ImportRefused
    \/ ApplyTemplateImport

SetsSpec == SetsInit /\ [][SetsNext]_setVars

-----------------------------------------------------------------------------
(* Properties                                                              *)

\* Whatever is synced, deleted or edited between the reads of a resolution, a
\* scan gets a selection that is not empty and that its bundle contains
\* (resolveConfigSpec).
SelectionInBundle ==
    request.at = "done" => request.picked # {} /\ request.picked \subseteq request.bundle

\* A sync loses no member of a curated set and lifts no exclusion, and only an
\* edit of the set itself or of its name by an import lifts one
\* (ApplyUpstreamTemplates, DeleteCustomTemplate).
ExclusionsOutlastTheCatalog ==
    [][\A n \in SetNames :
          sets[n] # NoSet /\ templates' # templates /\ request' = request =>
              /\ sets'[n].exclusions = sets[n].exclusions
              /\ \A t \in sets[n].members \ sets'[n].members : IsOwned(t, "custom")]_setVars

ImportCommits == request.at = "apply" /\ request'.at = "idle" /\ templates' # templates

\* An import changes no row that its policy does not let it change, also none
\* that came between its plan and its transaction (ApplyTemplateImport).
ImportKeepsPolicy ==
    [][ImportCommits =>
         \A t \in TemplateIds : templates[t] # NoTemplate /\ templates'[t] # templates[t] =>
             request.strategy = "overwrite" /\ IsOwned(t, "custom") /\ t \in {e.id : e \in ToSet(request.archive.entries)}]_setVars

\* The set that an import writes selects, or excludes, the contents its archive
\* carries, under whatever ids they got (applyPortableImport).
ImportedSetIsTheArchives ==
    [][request.at = "apply" /\ sets' # sets /\ request'.at = "idle" /\ request.strategy # "skip" =>
         LET s == sets'[request.set.name] IN
         \A e \in ToSet(request.archive.entries) :
             e.owner = "custom" /\ e.id \in request.archive.set.named =>
                 \E t \in s.members \cup s.exclusions :
                     templates'[t] = [owner |-> "custom", active |-> TRUE, body |-> e.yaml]]_setVars

Scannable(n, R) == sets[n].members # {} /\ sets[n].members \subseteq Active(R)

\* PreviewSource: what it counts, from the rows and the candidate.
Restored(S) == {t \in DOMAIN S : IsOwned(t, "upstream") /\ ~templates[t].active}
Removed(S)  == {t \in TemplateIds : IsOwned(t, "upstream") /\ templates[t].active /\ t \notin DOMAIN S}

TemplateSetsLosingMembers(S) ==
    {n \in SetNames : sets[n] # NoSet /\ sets[n].mode = "exact" /\ sets[n].members \cap Removed(S) # {}}

\* Mutant: some of the missing members come back.
RegainingSome(S) ==
    {n \in SetNames : sets[n] # NoSet /\ sets[n].mode = "exact" /\ sets[n].members \cap Restored(S) # {}}

TemplateSetsRegainingMembers(S) ==
    {n \in SetNames :
       /\ sets[n] # NoSet /\ sets[n].mode = "exact"
       /\ LET gone == sets[n].members \ Active(templates) IN
          gone # {} /\ gone \subseteq Restored(S)
       /\ sets[n].members \cap Removed(S) = {}}

\* The preview of a source tells which curated sets its sync makes scannable
\* again and which it breaks (PreviewSource, ApplyUpstreamTemplates).
PreviewForetells ==
    \A S \in Snapshots : ~ShadowsCustom(S) =>
        \A n \in SetNames : sets[n] # NoSet /\ sets[n].mode = "exact" =>
            /\ n \in TemplateSetsRegainingMembers(S)
                 <=> ~Scannable(n, templates) /\ Scannable(n, Synced(S))
            /\ Scannable(n, templates)
                 => (n \in TemplateSetsLosingMembers(S) <=> ~Scannable(n, Synced(S)))

\* An export of a curated set, tombstoned members included, is accepted when it
\* is imported over the same catalog, and changes neither a template nor the set
\* (handleExportTemplateSet, applyPortableImport).
ExactSetRoundTrips ==
    \A n \in SetNames : sets[n] # NoSet /\ sets[n].mode = "exact" =>
        LET a     == ExportTemplateSet(n)
            plan  == PlanWrites(a, "overwrite")
            write == SetWrite(a, "overwrite", plan.renamed)
        IN  /\ ValidArchive(a)
            /\ Writable(plan.writes) /\ Imported(plan.writes) = templates
            /\ write.named \subseteq Existing(templates) /\ WrittenSet(write) = sets[n]

\* Archives bring a set over as it was, and nothing else: exports of curated sets
\* can be imported, and an import writes what its archive and its policy say.
ArchivesAreFaithful ==
    ImportKeepsPolicy /\ ImportedSetIsTheArchives /\ []ExactSetRoundTrips
=============================================================================
