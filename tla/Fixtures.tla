------------------------------ MODULE Fixtures ------------------------------
(***************************************************************************)
(* The two corpora the bindings of a definition are tested against: a      *)
(* snapshot with a patch of every kind for each projection, and a document *)
(* with its operations for each collaborative entity (fixtures.rs); the    *)
(* members a replica leaves out of a document (replica.rs); and how the    *)
(* client applies a patch (materialize.ts), which a case must agree with.  *)
(***************************************************************************)
EXTENDS Contracts

Put(members, name, v) == (name :> v) @@ members
Sample(defs, s) == SampleWithin(defs, s, TRUE)
FixtureId == Text("fixture-id", FixtureLength)
FixtureText == Text("fixture", FixtureLength)

--------------------------------------------------------------------------
(* Projections.                                                           *)

EmptyOutput(plan) == Object(Put(plan.sequenceField :> Number(0), plan.textField, Text("", 0)))

\* A keyed or sequenced snapshot has one item, of a known identity.
PrepareFixtureSnapshot(sampled, plan) ==
    LET held == Setting(sampled[2], plan.collectionField)
        first == IF held # None /\ held[1] = "array" /\ held[2] # <<>> /\ held[2][1][1] = "object" THEN held[2][1][2] ELSE <<>>
        identified == Put(first, plan.itemIdentityField, FixtureId)
        item == IF plan.strategy = "sequencedText" THEN Put(identified, plan.snapshotOutputField, EmptyOutput(plan)) ELSE identified
    IN  IF sampled = Refused \/ plan.strategy \notin {"keyedCollection", "sequencedText"} THEN sampled
        ELSE Object(Put(sampled[2], plan.collectionField, Array(<<Object(item)>>)))

FixtureSnapshot(d, projection) ==
    PrepareFixtureSnapshot(Sample(d.defs, d.defs[projection.snapshot]), projection.plan)

PatchForSnapshot(plan, snapshot) ==
    IF Setting(plan, "snapshotMode") = "field" THEN plan.snapshotField :> Object(snapshot)
    ELSE Restrict(snapshot, DOMAIN snapshot \ Omitted(plan))

KeyedCase(plan, kind, snapshot) ==
    LET items == snapshot[plan.collectionField] IN
    CASE kind = "reset" -> [patch |-> plan.collectionField :> items, expected |-> Object(snapshot)]
      [] kind = "upsert" -> [patch |-> plan.itemField :> items[2][1], expected |-> Object(snapshot)]
      [] kind = "remove" -> [patch |-> plan.patchIdentityField :> FixtureId,
                             expected |-> Object(Put(snapshot, plan.collectionField, Array(<<>>)))]

SequencedCase(plan, kind, snapshot) ==
    LET item == snapshot[plan.collectionField][2][1][2]
        output == item[plan.snapshotOutputField][2]
        sequence == Number(output[plan.sequenceField][2] + 2)
        written == Object(Put(plan.sequenceField :> sequence, plan.textField, FixtureText))
    IN  IF kind = "reset" THEN [patch |-> snapshot, expected |-> Object(snapshot)]
        ELSE [patch |-> Put(plan.patchIdentityField :> item[plan.itemIdentityField], plan.patchOutputField,
                            Object(Put(plan.sequenceField :> sequence, plan.deltaTextField, FixtureText))),
              expected |-> Object(Put(snapshot, plan.collectionField,
                                      Array(<<Object(Put(item, plan.snapshotOutputField, written))>>)))]

\* An update empties the arrays it carries.
UpdateCase(plan, snapshot, sampled) ==
    LET changes == [n \in DOMAIN sampled[2] |-> IF sampled[2][n][1] = "array" THEN Array(<<>>) ELSE sampled[2][n]]
        held == Setting(snapshot, plan.updateField)
        target == IF held # None /\ held[1] = "object" THEN held[2] ELSE <<>>
    IN  [patch |-> plan.updatesField :> Object(changes),
         expected |-> Object(Put(snapshot, plan.updateField, Object(changes @@ target)))]

RemoveCase(plan, snapshot) ==
    [patch |-> <<>>,
     expected |-> IF plan.removeMode = "nullSnapshot" THEN JsonNull ELSE Object(Put(snapshot, plan.removeField, JsonNull))]

\* One patch of a kind, less the kind, and the snapshot it should leave.
FixtureCase(plan, kind, snapshot, changes) ==
    CASE plan.strategy = "keyedCollection" -> KeyedCase(plan, kind, snapshot)
      [] plan.strategy = "sequencedText" -> SequencedCase(plan, kind, snapshot)
      [] plan.strategy = "reset" -> [patch |-> snapshot, expected |-> Object(snapshot)]
      [] kind = "update" -> UpdateCase(plan, snapshot, changes)
      [] kind = "replace" -> [patch |-> PatchForSnapshot(plan, snapshot), expected |-> Object(snapshot)]
      [] kind = "remove" -> RemoveCase(plan, snapshot)

ChangesSchema(d, projection) ==
    IF projection.plan.strategy = "replaceOrRemove" /\ Setting(projection.plan, "updatesField") # None
    THEN d.defs[projection.patch].properties[projection.plan.updatesField] ELSE None

\* The changes an update carries, when the strategy has updates.
SampledChanges(d, projection) ==
    LET s == ChangesSchema(d, projection)
    IN  IF s = None THEN Object(<<>>) ELSE Sample(d.defs, s)

--------------------------------------------------------------------------
(* How the client applies a patch to the snapshot it holds; Refused when  *)
(* it throws.                                                             *)

OmitFields(members, fields) == Restrict(members, DOMAIN members \ fields)

SnapshotFromPatch(patch, plan) ==
    IF Setting(plan, "snapshotMode") # "field" THEN Object(OmitFields(patch, {"kind"} \cup Omitted(plan)))
    ELSE IF plan.snapshotField \in DOMAIN patch THEN patch[plan.snapshotField] ELSE Refused

IsItem(v, plan, identity) == v[1] = "object" /\ Setting(v[2], plan.itemIdentityField) = identity

MaterializeKeyed(held, patch, kind, plan) ==
    LET items == IF plan.collectionField \in DOMAIN held THEN held[plan.collectionField][2] ELSE <<>>
        without(identity) == SelectSeq(items, LAMBDA v : ~IsItem(v, plan, identity))
        with(list) == Object(Put(held, plan.collectionField, Array(list)))
    IN  CASE kind = "reset" -> with(patch[plan.collectionField][2])
          [] kind = "upsert" ->
                LET item == patch[plan.itemField] IN
                IF plan.itemIdentityField \notin DOMAIN item[2] THEN Refused
                ELSE with(Append(without(item[2][plan.itemIdentityField]), item))
          [] kind = "remove" -> with(without(patch[plan.patchIdentityField]))

\* The text that follows another.
Joined(text, delta) == IF text = Text("", 0) THEN delta ELSE <<text, delta>>

MaterializeSequenced(held, patch, kind, plan) ==
    LET items == held[plan.collectionField][2]
        identity == patch[plan.patchIdentityField]
        delta == patch[plan.patchOutputField][2]
        output(v) == v[2][plan.snapshotOutputField][2]
        next(v) == Object(Put(v[2], plan.snapshotOutputField,
            Object(Put(plan.sequenceField :> delta[plan.sequenceField],
                       plan.textField, Joined(output(v)[plan.textField], delta[plan.deltaTextField])))))
        matched == {n \in DOMAIN items : IsItem(items[n], plan, identity)}
    IN  IF kind = "reset" THEN Object(OmitFields(patch, {"kind"}))
        ELSE IF \/ matched = {}
                \/ \E n \in matched : delta[plan.sequenceField][2] # output(items[n])[plan.sequenceField][2] + 2
             THEN Refused
             ELSE Object(Put(held, plan.collectionField,
                             Array([n \in DOMAIN items |-> IF n \in matched THEN next(items[n]) ELSE items[n]])))

MaterializeReplaceOrRemove(held, patch, kind, plan) ==
    CASE kind = "replace" -> SnapshotFromPatch(patch, plan)
      [] kind = "update" ->
            LET target == Setting(held, plan.updateField) IN
            IF target = None \/ target[1] # "object" THEN Refused
            ELSE Object(Put(held, plan.updateField, Object(patch[plan.updatesField][2] @@ target[2])))
      [] kind = "remove" ->
            IF plan.removeMode = "nullSnapshot" THEN JsonNull
            ELSE Object(Put(OmitFields(patch, {"kind"} \cup Omitted(plan)) @@ held, plan.removeField, JsonNull))

MaterializePatch(held, patch, kind, plan) ==
    CASE plan.strategy = "keyedCollection" -> MaterializeKeyed(held, patch, kind, plan)
      [] plan.strategy = "sequencedText" -> MaterializeSequenced(held, patch, kind, plan)
      [] plan.strategy = "replaceOrRemove" -> MaterializeReplaceOrRemove(held, patch, kind, plan)
      [] plan.strategy = "replace" -> SnapshotFromPatch(patch, plan)
      [] plan.strategy = "reset" -> Object(OmitFields(patch, {"kind"}))

--------------------------------------------------------------------------
(* Documents of collaborative entities.                                   *)

Derived(field) == field.kind \in {"derivedIdentity", "derivedRevision"}
FieldsOf(d, e) == d.collaboration[e].fields
RootOf(d, e) == [ref |-> d.entities[e].schema]

\* The value at a path, and the members with a value put there.
RECURSIVE SetPath(_, _, _)
SetPath(members, path, v) ==
    IF Len(path) = 1 THEN Put(members, path[1], v)
    ELSE LET held == Setting(members, path[1])
             inner == IF held # None /\ held[1] = "object" THEN held[2] ELSE <<>>
         IN  Put(members, path[1], Object(SetPath(inner, Tail(path), v)))

RECURSIVE ValueAt(_, _)
ValueAt(members, path) ==
    LET held == Setting(members, path[1])
    IN  IF Len(path) = 1 \/ held = None THEN held
        ELSE IF held[1] = "object" THEN ValueAt(held[2], Tail(path)) ELSE None

\* The fields and the sequences directly in a scope: the document, or the items
\* of a sequence, whose paths then follow its prefix.
InScope(fields, scope) ==
    {p \in DOMAIN fields : PrefixOf(scope, p) /\ "*" \notin Range(SubSeq(p, Len(scope) + 1, Len(p)))}
Relative(path, scope) == SubSeq(path, Len(scope) + 1, Len(path))

\* An open map whose declared members sample to none has one entry.
OpenMapSample(defs, s, suffix) ==
    LET values == Setting(s, "additionalProperties")
        entry == IF values # None /\ ~HasType(values, "json") THEN Sample(defs, values) ELSE Text(suffix, FixtureLength)
    IN  WholeObject("fixture-key" :> entry)

StructuredSample(defs, field, sample, suffix) ==
    IF field.kind \notin {"structuredMap", "structuredDocument"} THEN WholeArray(sample)
    ELSE IF sample = Object(<<>>) THEN OpenMapSample(defs, defs[field.value], suffix) ELSE sample

StructuredValue(defs, field, suffix) ==
    StructuredSample(defs, field, Sample(defs, defs[field.value]), suffix)

EnumOf(s) == IF Has(s, "enum") THEN s.enum ELSE <<>>
DeclaredEnum(d, e, path) == EnumOf(Dereference(d.defs, SchemaAt(d.defs, RootOf(d, e), path).schema))

\* The sample of a field's codec, or of the values its schema lists.
CodecValue(defs, field, listed, suffix) ==
    CASE field.codec = "integer" -> Number(2)
      [] field.codec \in {"number", "optionalNumber"} -> Number(3)
      [] field.codec = "boolean" -> Boolean(TRUE)
      [] field.codec \in {"string", "optionalString"} /\ listed # <<>> -> listed[1]
      [] field.codec = "propertyText" ->
            Object(("$mime" :> Text("text/markdown", 1)) @@ ("value" :> Text(suffix, FixtureLength)))
      [] field.codec = "stringList" -> Array(<<Text(suffix, FixtureLength)>>)
      [] field.codec = "structuredJson" -> StructuredValue(defs, field, suffix)
      [] OTHER -> Text(suffix, FixtureLength)

FixtureValue(d, e, path, suffix) ==
    CodecValue(d.defs, FieldsOf(d, e)[path], DeclaredEnum(d, e, path), suffix)

\* What the operation on an explicit scalar writes.
UpdatedValue(codec, listed) ==
    CASE codec = "integer" -> Number(4)
      [] codec \in {"number", "optionalNumber"} -> Number(5)
      [] codec = "boolean" -> Boolean(FALSE)
      [] codec \notin {"integer", "number", "optionalNumber", "boolean"} ->
            IF listed = <<>> THEN Text("updated", FixtureLength)
            ELSE IF Len(listed) > 1 THEN listed[2] ELSE listed[1]

ScalarUpdateValue(d, e, path) == UpdatedValue(FieldsOf(d, e)[path].codec, DeclaredEnum(d, e, path))

\* The members of a scope, its sequences with an item named one and an item named two.
RECURSIVE WireMembers(_, _, _, _, _)
WireMembers(d, e, scope, held, suffix) ==
    LET fields == FieldsOf(d, e)
        within == InScope(fields, scope)
        plain == SetToSeq({p \in within : ~Derived(fields[p]) /\ fields[p].kind # "keyedSequence"})
        sequences == SetToSeq({p \in within : fields[p].kind = "keyedSequence"})
        item(p, name) == Object(WireMembers(d, e, Append(p, "*"), fields[p].identity :> Text(name, FixtureLength), name))
        items(p) == Array([n \in 1..2 |-> item(p, <<"one", "two">>[n])])
        withPlain == FoldLeft(LAMBDA m, p : SetPath(m, Relative(p, scope), FixtureValue(d, e, p, suffix)), held, plain)
    IN  FoldLeft(LAMBDA m, p : SetPath(m, Relative(p, scope), items(p)), withPlain, sequences)

WireDocument(d, e) == WireMembers(d, e, <<>>, <<>>, "value")

RECURSIVE HoldsRefused(_)
HoldsRefused(v) ==
    \/ v = Refused
    \/ v # Refused /\ v[1] = "object" /\ \E n \in DOMAIN v[2] : HoldsRefused(v[2][n])
    \/ v # Refused /\ v[1] = "array" /\ \E n \in DOMAIN v[2] : HoldsRefused(v[2][n])

\* The nearest group around a path that its parent may leave out, up to the item that holds it.
RECURSIVE OptionalGroup(_, _, _)
OptionalGroup(d, e, path) ==
    LET parent == Front(path)
    IN  IF parent = <<>> \/ Last(parent) = "*" THEN None
        ELSE IF ~SchemaAt(d.defs, RootOf(d, e), parent).inParent THEN parent
        ELSE OptionalGroup(d, e, parent)

\* The paths a client may leave out.
OptionalAbsent(d, e) ==
    LET fields == FieldsOf(d, e)
        path(p) == IF ~fields[p].requiredInParent THEN p
                   ELSE IF ~fields[p].required THEN OptionalGroup(d, e, p) ELSE None
    IN  {path(p) : p \in {q \in DOMAIN fields : ~Derived(fields[q])}} \ {None}

RECURSIVE LeaveOut(_, _)
LeaveOut(members, path) ==
    LET held == Setting(members, path[1])
        inner(v) == IF v[1] = "object" THEN Object(LeaveOut(v[2], Tail(path))) ELSE v
    IN  IF held = None THEN members
        ELSE IF Len(path) = 1 THEN OmitFields(members, {path[1]})
        ELSE IF path[2] = "*"
             THEN Put(members, path[1], Array([n \in DOMAIN held[2] |-> Object(LeaveOut(held[2][n][2], Tail(Tail(path))))]))
             ELSE Put(members, path[1], inner(held))

--------------------------------------------------------------------------
(* The document a replica holds.                                          *)

MaterialisedOptionally(path, field) ==
    field.kind = "derivedRevision" \/ (field.kind = "derivedIdentity" /\ "*" \notin Range(path))

\* Mutant: an object counts as written when any field lies beneath it.
AnyBeneath(fields, path) == \E p \in DOMAIN fields : PrefixOf(path, p)

\* Some field beneath the object is in every document.
AlwaysBeneath(fields, path) ==
    \E p \in DOMAIN fields : PrefixOf(path, p) /\ fields[p].required /\ ~MaterialisedOptionally(p, fields[p])

\* The objects of a schema that no field lies at or beneath.
RECURSIVE FieldlessObjects(_, _, _, _)
FieldlessObjects(defs, raw, prefix, fields) ==
    LET members == Addressable(Dereference(defs, raw))
        under(n) ==
            LET path == Append(prefix, n)
                s == Dereference(defs, members[n])
            IN  IF path \in DOMAIN fields
                THEN IF fields[path].kind = "keyedSequence" /\ HasType(s, "array")
                     THEN FieldlessObjects(defs, s.items, Append(path, "*"), fields) ELSE {}
                ELSE IF \E p \in DOMAIN fields : PrefixOf(path, p) THEN FieldlessObjects(defs, s, path, fields)
                ELSE IF HasType(s, "object") THEN {path} ELSE {}
    IN  UNION {under(n) : n \in DOMAIN members}

\* Where a replica may leave out a member that the schema requires.
OptionalPaths(d, e) ==
    LET fields == FieldsOf(d, e)
        objects == UNION {{SubSeq(p, 1, n) : n \in 1..(Len(p) - 1)} : p \in DOMAIN fields}
        unwritten == {p \in objects : Last(p) # "*" /\ p \notin DOMAIN fields /\ ~AlwaysBeneath(fields, p)}
        derived == {p \in DOMAIN fields : MaterialisedOptionally(p, fields[p])}
        fieldless == FieldlessObjects(d.defs, RootOf(d, e), <<>>, fields)
    IN  {p \in unwritten \cup derived \cup fieldless : SchemaAt(d.defs, RootOf(d, e), p).inParent}

\* The entity schema without the requirements at some paths.
RECURSIVE Relaxed(_, _, _, _)
Relaxed(defs, raw, prefix, optional) ==
    LET s == Dereference(defs, raw)
        inner == [k \in DOMAIN s |->
            CASE k = "properties" -> [n \in DOMAIN s.properties |-> Relaxed(defs, s.properties[n], Append(prefix, n), optional)]
              [] k = "items" -> Relaxed(defs, s.items, Append(prefix, "*"), optional)
              [] k = "required" -> {n \in s.required : Append(prefix, n) \notin optional}
              [] OTHER -> s[k]]
    IN  inner

\* The document a replica reads back: it holds what lies at its fields.
RECURSIVE Held(_, _, _)
Held(fields, scope, members) ==
    LET kept == {p \in InScope(fields, scope) :
                    ~MaterialisedOptionally(p, fields[p]) /\ ValueAt(members, Relative(p, scope)) # None}
        value(p) == LET v == ValueAt(members, Relative(p, scope)) IN
                    IF fields[p].kind # "keyedSequence" THEN v
                    ELSE Array([n \in DOMAIN v[2] |-> Object(Held(fields, Append(p, "*"), v[2][n][2]))])
    IN  FoldSet(LAMBDA p, m : SetPath(m, Relative(p, scope), value(p)), <<>>, kept)

=============================================================================
