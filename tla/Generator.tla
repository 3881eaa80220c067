----------------------------- MODULE Generator -----------------------------
(***************************************************************************)
(* Runs of the code generator: a run loads a definition, renders every     *)
(* artefact, and writes or checks them one by one, while the definition    *)
(* and the artefacts are edited and runs fail or are interrupted           *)
(* (crates/clerkenwell-codegen/src/lib.rs); and what a definition that     *)
(* loads is good for.                                                      *)
(***************************************************************************)
EXTENDS Fixtures

CONSTANTS
    Files,       \* the definitions the file may hold
    Edited,      \* bound: the ones an edit may leave in it
    Artefacts,   \* the artefacts in the order a run takes them
    Missing,     \* an artefact that is not there
    Torn,        \* an artefact that is no rendering
    Universe,    \* the values schemas are compared on
    MaxRuns,     \* bound: runs
    MaxEdits,    \* bound: edits of the definition
    MaxTampers   \* bound: edits of an artefact

ASSUME FilesAssumption == DOMAIN Files = 1..Len(Files) /\ IsInjective(Artefacts) /\ Edited \subseteq DOMAIN Files
ASSUME BoundsAssumption == {MaxRuns, MaxEdits, MaxTampers} \subseteq Nat

VARIABLES
    file,       \* the definition on disk
    artefacts,  \* what each artefact was rendered from
    run,        \* the run under way or the last one
    touched,    \* history: the artefacts edited since the run began
    runs, edits, tampers

vars == <<file, artefacts, run, touched, runs, edits, tampers>>

--------------------------------------------------------------------------
(* A definition is loaded and every artefact rendered before the first is *)
(* written.                                                               *)

Definitions == [f \in DOMAIN Files |-> Loaded(Files[f])]

\* A definition renders when its fixtures can be made.
Built(d) ==
    /\ d # Refused
    /\ \A n \in DOMAIN d.projections : /\ FixtureSnapshot(d, d.projections[n]) # Refused
                                       /\ SampledChanges(d, d.projections[n]) # Refused
    /\ \A e \in DOMAIN d.collaboration : ~HoldsRefused(Object(WireDocument(d, e)))

Renders == [f \in DOMAIN Files |-> Built(Definitions[f])]

Ended == {"idle", "ok", "stale", "refused", "failed"}

Init ==
    /\ file \in DOMAIN Files
    /\ artefacts = [a \in Range(Artefacts) |-> Missing]
    /\ run = [stage |-> "idle", mode |-> "check", of |-> 0, next |-> 1, changed |-> {}]
    /\ touched = {}
    /\ runs = 0 /\ edits = 0 /\ tampers = 0

Generate(mode) ==
    /\ run.stage \in Ended /\ runs < MaxRuns
    /\ run' = [stage |-> IF Renders[file] THEN "settling" ELSE "refused",
               mode |-> mode, of |-> file, next |-> 1, changed |-> {}]
    /\ touched' = {}
    /\ runs' = runs + 1
    /\ UNCHANGED <<file, artefacts, edits, tampers>>

Current == Artefacts[run.next]
Settling == run.stage = "settling" /\ run.next <= Len(Artefacts)

\* A missing artefact is not an error; one that holds other bytes is stale.
\* Different definitions are taken to render different bytes.
Same == artefacts[Current] = run.of

Skip ==
    /\ Settling /\ Same
    /\ run' = [run EXCEPT !.next = @ + 1]
    /\ UNCHANGED <<file, artefacts, touched, runs, edits, tampers>>

Report ==
    /\ Settling /\ ~Same /\ run.mode = "check"
    /\ run' = [run EXCEPT !.next = @ + 1, !.changed = @ \cup {Current}]
    /\ UNCHANGED <<file, artefacts, touched, runs, edits, tampers>>

Write ==
    /\ Settling /\ ~Same /\ run.mode = "write"
    /\ artefacts' = [artefacts EXCEPT ![Current] = run.of]
    /\ run' = [run EXCEPT !.next = @ + 1, !.changed = @ \cup {Current}]
    /\ UNCHANGED <<file, touched, runs, edits, tampers>>

\* A read or a write fails, or the process ends: a write that began leaves the artefact torn.
Break ==
    /\ Settling
    /\ \E stage \in {"failed", "idle"} : run' = [run EXCEPT !.stage = stage]
    /\ \/ UNCHANGED artefacts
       \/ ~Same /\ run.mode = "write" /\ artefacts' = [artefacts EXCEPT ![Current] = Torn]
    /\ UNCHANGED <<file, touched, runs, edits, tampers>>

\* Mutant: a check that found a stale artefact ends like any other.
FinishAsOk ==
    /\ run.stage = "settling" /\ run.next > Len(Artefacts)
    /\ run' = [run EXCEPT !.stage = "ok"]
    /\ UNCHANGED <<file, artefacts, touched, runs, edits, tampers>>

Finish ==
    /\ run.stage = "settling" /\ run.next > Len(Artefacts)
    /\ run' = [run EXCEPT !.stage = IF run.mode = "check" /\ run.changed # {} THEN "stale" ELSE "ok"]
    /\ UNCHANGED <<file, artefacts, touched, runs, edits, tampers>>

\* The definition is edited, a run under way or not.
Edit ==
    /\ edits < MaxEdits
    /\ file' \in Edited \ {file}
    /\ edits' = edits + 1
    /\ UNCHANGED <<artefacts, run, touched, runs, tampers>>

\* An artefact is edited by hand or removed.
Tamper ==
    /\ tampers < MaxTampers
    /\ \E a \in Range(Artefacts) : \E content \in {Missing, Torn} \ {artefacts[a]} :
        /\ artefacts' = [artefacts EXCEPT ![a] = content]
        /\ touched' = touched \cup {a}
    /\ tampers' = tampers + 1
    /\ UNCHANGED <<file, run, runs, edits>>

Next ==
    \/ \E mode \in {"write", "check"} : Generate(mode)
    \/ Skip \/ Report \/ Write \/ Break \/ Finish
    \/ Edit \/ Tamper

Spec == Init /\ [][Next]_vars

--------------------------------------------------------------------------
(* Properties of runs.                                                    *)

\* The shape of the state: in particular what a run reports as changed are
\* artefacts it has come to.
TypeOK ==
    /\ file \in DOMAIN Files
    /\ artefacts \in [Range(Artefacts) -> DOMAIN Files \cup {Missing, Torn}]
    /\ run.stage \in Ended \cup {"settling"} /\ run.mode \in {"write", "check"}
    /\ run.next \in 1..(Len(Artefacts) + 1)
    /\ run.changed \subseteq {Artefacts[n] : n \in 1..(run.next - 1)}
    /\ touched \subseteq Range(Artefacts)

ProjectionsSampled(d) == \A n \in DOMAIN d.projections : FixtureSnapshot(d, d.projections[n]) # Refused

\* No artefact is ever of a definition that some other artefact cannot be
\* rendered from: generate renders all of them before it writes the first.
WholeDefinitions ==
    \A a \in Range(Artefacts) : artefacts[a] \notin {Missing, Torn} =>
        ProjectionsSampled(Definitions[artefacts[a]])

\* What a run says is true of the artefacts nobody edited meanwhile, whatever
\* failed before it and however often the definition was edited: after "ok" they
\* are all of the definition it loaded, after "stale" exactly those are not that
\* the refusal lists, and at no time is one of a definition that was refused.
RunsTell ==
    /\ WholeDefinitions
    /\ \A a \in Range(Artefacts) \ touched :
        /\ run.stage = "ok" => artefacts[a] = run.of
        /\ run.stage = "stale" => run.changed # {} /\ (a \in run.changed <=> artefacts[a] # run.of)

--------------------------------------------------------------------------
(* What a definition that renders is good for.  Each is a set of          *)
(* definitions, and is asked of the one a run settles.                    *)

IfLoaded(d, Good(_)) == d # Refused => Good(d)
Holds(good) == run.stage = "settling" => run.of \in good

RECURSIVE Nodes(_)
Nodes(s) == {s} \cup UNION {Nodes(t) : t \in Subschemas(s)}

OpenSchemas(d) == {s \in UNION {Nodes(d.defs[n]) : n \in DOMAIN d.defs} : IsOpen(s)}

MembersFit(d) ==
    \A s \in OpenSchemas(d) : \A name \in DOMAIN s.properties : \A v \in Universe :
        Validates(d.defs, s.properties[name], v) => Validates(d.defs, s.additionalProperties, v)
WithFittingMembers == {f \in DOMAIN Files : IfLoaded(Definitions[f], MembersFit)}

\* Every value of a declared member of an open object is a value of its other
\* members' schema, as the map the bindings read them into needs: `admits` may
\* refuse too much and never too little, through references, unions, listed
\* values and bounds between two integers.
OtherMembersFit == Holds(WithFittingMembers)

ImportKept(bundle, defs) ==
    LET plain == [m \in DOMAIN bundle |-> Plain(bundle[m])] @@ defs
    IN  \A name \in DOMAIN bundle : \A v \in Universe :
            Validates(defs, defs[name], v) = Validates(plain, plain[name], v)
ImportsKept(d) == \A n \in DOMAIN d.imports : ImportKept(d.imports[n], d.defs)
WithKeptImports == {f \in DOMAIN Files : IfLoaded(Definitions[f], ImportsKept)}

\* A schema imported from elsewhere keeps exactly its values: formats become
\* bounds without loosening those given, and a oneOf told apart by constants
\* becomes the tagged union of the same objects.
ImportsKeepValues == Holds(WithKeptImports)

SameValues(defs, s, document) ==
    \A v \in Universe : Validates(defs, s, v) = Validates(document.defs, document.schema, v)
DocumentsEqual(d) == \A name \in DOMAIN d.defs : SameValues(d.defs, d.defs[name], SchemaDocument(d.defs, name))
WithEqualDocuments == {f \in DOMAIN Files : IfLoaded(Definitions[f], DocumentsEqual)}

\* The JSON Schema document an operation publishes has the values of the schema
\* it was written from, its tagged unions and the definitions it reaches included.
DocumentsDenote == Holds(WithEqualDocuments)

\* The schemas a definition renders keep their meaning from the file they are
\* imported from, through the bindings, to the documents published.
SchemasHold == OtherMembersFit /\ ImportsKeepValues /\ DocumentsDenote

ExplicitScalars(d, e) == {p \in DOMAIN FieldsOf(d, e) :
    FieldsOf(d, e)[p].kind = "scalar" /\ FieldsOf(d, e)[p].conflict = "explicit"}

IsValue(defs, s, sample) == sample # Refused => Validates(defs, s, sample)

RelaxedRoot(d, e) == Relaxed(d.defs, RootOf(d, e), <<>>, OptionalPaths(d, e))

SamplesValid(d) ==
    /\ \A n \in DOMAIN d.defs : IsValue(d.defs, d.defs[n], Sample(d.defs, d.defs[n]))
    /\ \A e \in DOMAIN d.collaboration :
        /\ Validates(d.defs, RelaxedRoot(d, e), Object(WireDocument(d, e)))
        /\ \A p \in ExplicitScalars(d, e) :
            /\ Validates(d.defs, SchemaAt(d.defs, RootOf(d, e), p).schema, ScalarUpdateValue(d, e, p))
            /\ Len(DeclaredEnum(d, e, p)) # 1 => ScalarUpdateValue(d, e, p) # FixtureValue(d, e, p, "one")
WithValidSamples == {f \in DOMAIN Files : IfLoaded(Definitions[f], SamplesValid)}

\* The samples in the corpora are values of their schemas: every bound, listed
\* value and required member is met, or the run refuses; and the value an operation
\* writes to a scalar is another one, wherever the schema lists two.
FixturesAreValues == Holds(WithValidSamples)

\* The update of a member the snapshot may leave out is another matter (README).
TargetRequired(d, projection, kind) ==
    kind = "update" => projection.plan.updateField \in RequiredNames(d.defs[projection.snapshot])

Applies(case, snapshot, kind, plan) ==
    MaterializePatch(snapshot, Put(case.patch, "kind", Text(kind, 1)), kind, plan) = case.expected

CaseApplies(plan, kind, sampled, changes) ==
    LET snapshot == IF sampled[1] = "object" THEN sampled[2] ELSE <<>>
    IN  sampled # Refused => Applies(FixtureCase(plan, kind, snapshot, changes), snapshot, kind, plan)

ProjectionCasesApply(d, p) ==
    \A kind \in PatchKinds(p.plan) : TargetRequired(d, p, kind) =>
        CaseApplies(p.plan, kind, FixtureSnapshot(d, p), SampledChanges(d, p))
AllCasesApply(d) == \A n \in DOMAIN d.projections : ProjectionCasesApply(d, d.projections[n])
WithApplyingCases == {f \in DOMAIN Files : IfLoaded(Definitions[f], AllCasesApply)}

\* The patch of each case, applied the way the client applies patches, leaves the
\* snapshot the case expects, for every strategy a definition may choose.
CasesApply == Holds(WithApplyingCases)

\* The corpora a run renders are right: their samples are values of the schemas,
\* and their cases are what a client that follows them ends up with.
FixturesHold == FixturesAreValues /\ CasesApply

TakesWithout(d, e, relaxed, document, absent) ==
    LET written == FoldSet(LAMBDA p, m : LeaveOut(m, p), document, absent)
    IN  Validates(d.defs, relaxed, Object(Held(FieldsOf(d, e), <<>>, written)))
ReplicasFit(d) ==
    \A e \in DOMAIN d.collaboration : \A absent \in SUBSET OptionalAbsent(d, e) :
        TakesWithout(d, e, RelaxedRoot(d, e), WireDocument(d, e), absent)
WithFittingReplicas == {f \in DOMAIN Files : IfLoaded(Definitions[f], ReplicasFit)}

\* The type generated for a replica's document takes every document a replica
\* holds: the fixture document and what any of the members a client may leave out leaves of it,
\* though an object no field was written beneath disappears with its members.
ReplicaTypesFit == Holds(WithFittingReplicas)

=============================================================================
