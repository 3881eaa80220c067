----------------------------- MODULE Contracts -----------------------------
(***************************************************************************)
(* The definitions crates/clerkenwell-codegen generates from: how one is   *)
(* composed and expanded before it is checked, and the rules JSON Schema   *)
(* cannot state (validate.rs).                                             *)
(*                                                                         *)
(* A definition is a record of its sections, each a function from a name   *)
(* to its declaration.  A collaboration field path is a sequence of member *)
(* names with "*" for the items of an array; a container setting is its    *)
(* fixed part and the set of identity variables its template names.        *)
(***************************************************************************)
EXTENDS Schemas

CONSTANTS
    ParamsName,  \* the definition that holds an entity's authoring-state parameters
    None         \* a setting that is left out

PrefixOf(p, q) == Len(p) < Len(q) /\ SubSeq(q, 1, Len(p)) = p
Setting(r, key) == IF key \in DOMAIN r THEN r[key] ELSE None

--------------------------------------------------------------------------
(* Reading a definition.                                                  *)

Composes(d) ==
    /\ \A n \in DOMAIN d.imports : /\ DOMAIN d.imports[n] \cap DOMAIN d.defs = {}
                                   /\ \A k \in 1..(n - 1) : DOMAIN d.imports[n] \cap DOMAIN d.imports[k] = {}
    /\ \A n \in DOMAIN d.imports : \A name \in DOMAIN d.imports[n] : Convert(d.imports[n][name]) # Refused

\* The bundles a configuration names are converted into the definition.
Compose(d) ==
    LET names == UNION {DOMAIN d.imports[n] : n \in DOMAIN d.imports}
        source(name) == d.imports[CHOOSE n \in DOMAIN d.imports : name \in DOMAIN d.imports[n]][name]
    IN  [d EXCEPT !.defs = @ @@ [name \in names |-> Convert(source(name))]]

Closed(properties, required) ==
    [type |-> <<"object">>, closed |-> TRUE, properties |-> properties, required |-> required]
StringSchema == [type |-> <<"string">>]
EnumSchema(values) == [type |-> <<"string">>, enum |-> [n \in DOMAIN values |-> Text(values[n], 1)]]

\* The definitions every collaborative entity shares, of an authoring state
\* abstracted to its version and its bytes.
Shared ==
    "AuthoringState" :> Closed(("schema_version" :> [type |-> <<"integer">>, minimum |-> 0])
                               @@ ("update_base64" :> StringSchema)
                               @@ ("exchange_modes" :> [type |-> <<"array">>, items |-> [ref |-> "CollaborationExchangeMode"]]),
                               {"schema_version", "update_base64", "exchange_modes"})
    @@ "AuthoringStatePatch" :> Closed(("kind" :> EnumSchema(<<"replace", "remove">>))
                                       @@ ("state" :> [ref |-> "AuthoringState"]), {"kind"})
    @@ "CollaborationExchangeMode" :> EnumSchema(<<"incremental", "bootstrap">>)

StateOf(e, params) ==
    [params |-> params, snapshot |-> "AuthoringState", patch |-> "AuthoringStatePatch", dependsOn |-> {e},
     plan |-> [strategy |-> "replaceOrRemove", snapshotMode |-> "field", snapshotField |-> "state", removeMode |-> "nullSnapshot"]]

\* The parameters that name a document: its id, unless its store holds just one, and its store's.
StateParams(d, e) ==
    d.collaboration[e].storeParams \cup (IF d.collaboration[e].single THEN {} ELSE {d.entities[e].id})

Authored(d) == DOMAIN d.collaboration \cap DOMAIN d.entities

Expands(d) ==
    /\ DOMAIN Shared \cap DOMAIN d.defs = {}
    /\ \A e \in Authored(d) :
        /\ d.collaboration[e].projection \notin DOMAIN d.projections
        /\ ParamsName[e] \notin DOMAIN d.defs
        /\ d.collaboration[e].single \/ d.entities[e].id \notin d.collaboration[e].storeParams
    /\ IsInjective([e \in Authored(d) |-> d.collaboration[e].projection])

\* The authoring state of every collaborative entity is declared for it.
Expand(d) ==
    LET params == [e \in Authored(d) |-> Closed([p \in StateParams(d, e) |-> StringSchema], StateParams(d, e))]
        states == {d.collaboration[e].projection : e \in Authored(d)}
        named(p) == CHOOSE e \in Authored(d) : d.collaboration[e].projection = p
    IN  [d EXCEPT
            !.defs = @ @@ Shared @@ [n \in {ParamsName[e] : e \in Authored(d)} |->
                                        params[CHOOSE e \in Authored(d) : ParamsName[e] = n]],
            !.projections = @ @@ [p \in states |-> StateOf(named(p), ParamsName[named(p)])]]

--------------------------------------------------------------------------
(* Projections.                                                           *)

\* The schema of a property that a contract declares.
ContractProperty(s, name) == HasType(s, "object") /\ name \in DOMAIN Properties(s)

PatchKinds(plan) ==
    CASE plan.strategy = "keyedCollection" -> {"remove", "reset", "upsert"}
      [] plan.strategy = "sequencedText" -> {"output", "reset"}
      [] plan.strategy = "replaceOrRemove" ->
            {"remove", "replace"} \cup (IF Setting(plan, "updateField") # None THEN {"update"} ELSE {})
      [] OTHER -> {plan.strategy}

\* A json value is checked where it is owned; its properties cannot be seen here.
CheckSchemaProperty(defs, s, name) ==
    LET end == IF Has(s, "ref") THEN defs[s.ref] ELSE s
    IN  HasType(end, "json") \/ ContractProperty(end, name)

CheckArrayItemProperty(defs, s, name) ==
    HasType(s, "array") /\ Has(s, "items") /\ CheckSchemaProperty(defs, s.items, name)

\* Mutant: the patch may have fields of its own.
PatchCoversSnapshot(snapshot, patch, omitted) ==
    DOMAIN Properties(snapshot) \subseteq DOMAIN Properties(patch)

CheckPatchMatchesSnapshot(snapshot, patch, omitted) ==
    DOMAIN Properties(snapshot) = DOMAIN Properties(patch) \ ({"kind"} \cup omitted)

Omitted(plan) == IF Setting(plan, "omit") = None THEN {} ELSE plan.omit

CheckSnapshotMode(snapshot, patch, plan) ==
    IF Setting(plan, "snapshotMode") = "field" THEN ContractProperty(patch, plan.snapshotField)
    ELSE /\ "kind" \notin Omitted(plan)
         /\ \A name \in Omitted(plan) : ContractProperty(patch, name)
         /\ CheckPatchMatchesSnapshot(snapshot, patch, Omitted(plan))

\* Each property an update carries is one of the target's, of the same schema.
CheckUpdateFields(defs, snapshot, patch, plan) ==
    LET follow(s) == IF Has(s, "ref") THEN defs[s.ref] ELSE s
    IN  /\ ContractProperty(snapshot, plan.updateField)
        /\ ContractProperty(patch, plan.updatesField)
        /\ LET target == follow(snapshot.properties[plan.updateField])
               changes == follow(patch.properties[plan.updatesField])
           IN  /\ Has(target, "properties") /\ Has(changes, "properties")
               /\ \A key \in DOMAIN changes.properties :
                    key \in DOMAIN target.properties /\ target.properties[key] = changes.properties[key]

CheckMaterialization(defs, projection) ==
    LET snapshot == defs[projection.snapshot]
        patch == defs[projection.patch]
        plan == projection.plan
        kinds == IF "kind" \in DOMAIN Properties(patch) THEN {v[2][1] : v \in Listed(patch.properties.kind, "enum")} ELSE {}
    IN
    /\ kinds = PatchKinds(plan)
    /\ CASE plan.strategy = "keyedCollection" ->
            /\ ContractProperty(snapshot, plan.collectionField) /\ ContractProperty(patch, plan.collectionField)
            /\ ContractProperty(patch, plan.itemField) /\ ContractProperty(patch, plan.patchIdentityField)
            /\ CheckArrayItemProperty(defs, snapshot.properties[plan.collectionField], plan.itemIdentityField)
            /\ CheckArrayItemProperty(defs, patch.properties[plan.collectionField], plan.itemIdentityField)
            /\ CheckSchemaProperty(defs, patch.properties[plan.itemField], plan.itemIdentityField)
         [] plan.strategy = "sequencedText" ->
            /\ ContractProperty(snapshot, plan.collectionField)
            /\ CheckArrayItemProperty(defs, snapshot.properties[plan.collectionField], plan.itemIdentityField)
            /\ ContractProperty(patch, plan.patchIdentityField) /\ ContractProperty(patch, plan.patchOutputField)
         [] plan.strategy = "replaceOrRemove" ->
            /\ (Setting(plan, "updateField") = None) = (Setting(plan, "updatesField") = None)
            /\ Setting(plan, "updateField") # None => CheckUpdateFields(defs, snapshot, patch, plan)
            /\ CheckSnapshotMode(snapshot, patch, plan)
            /\ plan.removeMode = "nullField" => ContractProperty(snapshot, plan.removeField)
         [] plan.strategy = "replace" -> CheckSnapshotMode(snapshot, patch, plan)
         [] plan.strategy = "reset" -> CheckPatchMatchesSnapshot(snapshot, patch, {})

--------------------------------------------------------------------------
(* Collaborative entities.                                                *)

\* The members that field paths address; an open object is one value.
Addressable(s) == IF HasType(s, "object") /\ ~IsOpen(s) THEN Properties(s) ELSE <<>>

\* How a schema requires the value at a path, and that value's schema as it is
\* written there, or None when the path does not resolve.
RECURSIVE SchemaAt(_, _, _)
SchemaAt(defs, root, path) ==
    IF path = <<>> THEN [required |-> TRUE, inParent |-> TRUE, schema |-> root]
    ELSE LET parent == SchemaAt(defs, root, Front(path))
             name == Last(path)
         IN  IF parent = None THEN None
             ELSE LET s == Dereference(defs, parent.schema) IN
                  IF name = "*"
                  THEN IF HasType(s, "array") /\ Has(s, "items") THEN [parent EXCEPT !.schema = s.items] ELSE None
                  ELSE IF name \notin DOMAIN Addressable(s) THEN None
                  ELSE [required |-> parent.required /\ name \in RequiredNames(s),
                        inParent |-> name \in RequiredNames(s),
                        schema |-> s.properties[name]]

\* The paths under a schema that fields must cover.
RECURSIVE SchemaPaths(_, _, _)
SchemaPaths(defs, raw, prefix) ==
    LET s == Dereference(defs, raw) IN
    IF HasType(s, "array") /\ Has(s, "items")
    THEN {prefix} \cup (IF HasType(Dereference(defs, s.items), "object")
                        THEN SchemaPaths(defs, s.items, Append(prefix, "*")) ELSE {})
    ELSE IF HasType(s, "object") /\ ~IsOpen(s) /\ Has(s, "properties")
         THEN UNION {SchemaPaths(defs, s.properties[n], Append(prefix, n)) : n \in DOMAIN s.properties}
         ELSE {prefix}

Sequences1(fields) == {p \in DOMAIN fields : fields[p].kind = "keyedSequence"}

\* The sequences whose items hold a path, the outermost first.
Enclosing(fields, path) ==
    SortSeq(SetToSeq({q \in Sequences1(fields) : PrefixOf(Append(q, "*"), path)}), LAMBDA p, q : Len(p) < Len(q))

SequenceIdentity(field) == IF Setting(field, "variable") # None THEN field.variable ELSE field.identity

\* A container in a keyed sequence names the item of every sequence around it,
\* and an item's container its own.
CheckKeyedSequenceContainers(fields) ==
    \A path \in DOMAIN fields : \A key \in DOMAIN fields[path].containers :
        LET enclosing == Enclosing(fields, path)
            own == IF key = "itemContainerTemplate" THEN {SequenceIdentity(fields[path])} ELSE {}
        IN  {SequenceIdentity(fields[enclosing[n]]) : n \in DOMAIN enclosing} \cup own
                \subseteq fields[path].containers[key].names

CheckStorage(field) ==
    LET held(keys) == keys \cap DOMAIN field.containers # {}
    IN  CASE field.kind = "scalar" -> held({"container", "containerTemplate"}) /\ Setting(field, "key") # None
          [] field.kind = "keyedSequence" ->
                Setting(field, "identity") # None /\ held({"orderContainer"}) /\ held({"itemContainerTemplate"})
          [] field.kind \in {"derivedIdentity", "derivedRevision"} -> TRUE
          [] OTHER -> held({"container", "containerTemplate"})

\* A value schema is the definition the entity schema names at the path, or
\* for a structured list that of an item there.
CheckValueSchema(defs, field, raw) ==
    LET s == Dereference(defs, raw)
        declared == IF field.kind # "structuredList" THEN raw
                    ELSE IF HasType(s, "array") /\ Has(s, "items") THEN s.items ELSE StringSchema
    IN  field.value \in DOMAIN defs /\ EndName(defs, [ref |-> field.value]) = EndName(defs, declared)

CheckField(defs, root, path, field) ==
    LET at == SchemaAt(defs, root, path) IN
    /\ at # None
    /\ at.required = field.required /\ at.inParent = field.requiredInParent
    /\ CheckStorage(field)
    /\ field.codec = "propertyText" =>
        /\ {"metadataContainer", "metadataContainerTemplate"} \cap DOMAIN field.containers # {}
        /\ Setting(field, "metadataKey") # None
    /\ field.codec = "structuredJson" => Setting(field, "value") # None
    /\ Setting(field, "value") # None => CheckValueSchema(defs, field, at.schema)
    /\ LET s == Dereference(defs, at.schema) IN
        HasType(s, "object") =>
            \/ field.codec = "structuredJson"
            \/ field.codec = "propertyText" /\ ~IsOpen(s) /\ ~IsRecord(s)

\* The paths of a schema are declared, or lie in a value that is stored whole.
CheckCoverage(defs, root, fields) ==
    \A path \in SchemaPaths(defs, root, <<>>) :
        \/ path \in DOMAIN fields
        \/ \E p \in DOMAIN fields : PrefixOf(p, path) /\ fields[p].codec \in {"propertyText", "structuredJson"}

CheckCollaborationEntity(d, e) ==
    LET collaboration == d.collaboration[e]
        fields == collaboration.fields
        root == [ref |-> d.entities[e].schema]
        items(p) == LET at == SchemaAt(d.defs, root, Append(p, "*"))
                    IN  IF at = None THEN None ELSE Dereference(d.defs, at.schema)
    IN
    /\ collaboration.projection \in DOMAIN d.projections /\ e \in d.projections[collaboration.projection].dependsOn
    /\ collaboration.importMutation \in DOMAIN d.mutations /\ e \in d.mutations[collaboration.importMutation].touches
    /\ ~IsOpen(d.defs[d.entities[e].schema])
    /\ \A p \in Sequences1(fields) : items(p) # None => HasType(items(p), "object") /\ Has(items(p), "closed")
    /\ \A p \in DOMAIN fields : CheckField(d.defs, root, p, fields[p])
    /\ CheckKeyedSequenceContainers(fields)
    /\ CheckCoverage(d.defs, root, fields)

--------------------------------------------------------------------------
(* The rules JSON Schema cannot state.                                    *)

CheckEntity(d, e) ==
    LET entity == d.entities[e] IN
    /\ entity.schema \in DOMAIN d.defs
    /\ LET s == d.defs[entity.schema] IN
        /\ ContractProperty(s, entity.id)
        /\ IF entity.revision = "contentHash" THEN ContractProperty(s, entity.revisionField)
           ELSE Setting(entity, "revisionField") = None
    /\ entity.authoring = "collaborative" => entity.revision = "replica"
    /\ entity.planning \subseteq {m \in DOMAIN d.mutations : e \in d.mutations[m].touches}

CheckCall(d, call) ==
    /\ {call.params, call.result} \subseteq DOMAIN d.defs
    /\ \A e \in call.touches : e \in DOMAIN d.entities /\ d.entities[e].authoring # "readOnly"

CheckProjection(d, projection) ==
    /\ {projection.params, projection.snapshot, projection.patch} \subseteq DOMAIN d.defs
    /\ projection.dependsOn \subseteq DOMAIN d.entities
    /\ CheckMaterialization(d.defs, projection)

\* An operation's input is an object, and one name serves one operation.
CheckOperations(d) ==
    /\ \A n \in DOMAIN d.projections : HasType(d.defs[d.projections[n].params], "object")
    /\ \A calls \in {d.mutations, d.commands} : \A n \in DOMAIN calls : HasType(d.defs[calls[n].params], "object")
    /\ DOMAIN d.projections \cap DOMAIN d.mutations = {}
    /\ (DOMAIN d.projections \cup DOMAIN d.mutations) \cap DOMAIN d.commands = {}

CheckSemantics(d) ==
    /\ DOMAIN d.projections # {}
    /\ CheckReferenceChains(d.defs)
    /\ \A name \in DOMAIN d.defs : CheckSchemaNode(d.defs, d.defs[name], TRUE)
    /\ \A e \in DOMAIN d.entities : CheckEntity(d, e)
    /\ \A e \in DOMAIN d.collaboration :
        /\ e \in DOMAIN d.entities
        /\ d.entities[e].revision = "replica" /\ d.entities[e].authoring = "collaborative"
        /\ CheckCollaborationEntity(d, e)
    /\ \A e \in DOMAIN d.entities : d.entities[e].authoring = "collaborative" => e \in DOMAIN d.collaboration
    /\ \A n \in DOMAIN d.projections : CheckProjection(d, d.projections[n])
    /\ \A n \in DOMAIN d.mutations : CheckCall(d, d.mutations[n])
    /\ \A n \in DOMAIN d.commands : CheckCall(d, d.commands[n])
    /\ CheckOperations(d)

\* The definition a file holds once composed, expanded and checked, or Refused.
Checked(d) == IF CheckSemantics(d) THEN d ELSE Refused
Expanded(d) == IF Expands(d) THEN Checked(Expand(d)) ELSE Refused
Loaded(written) == IF Composes(written) THEN Expanded(Compose(written)) ELSE Refused

=============================================================================
