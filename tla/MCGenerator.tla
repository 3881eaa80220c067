----------------------------- MODULE MCGenerator -----------------------------
(***************************************************************************)
(* Definitions for module Generator, in five families over one base: pairs *)
(* of member schemas of an open object, other schemas, imported bundles,   *)
(* projections of every strategy, and a collaborative entity with its      *)
(* members required or not and its declarations perturbed one at a time.   *)
(***************************************************************************)
EXTENDS Generator

MCFormats == [int8 |-> <<-4, 2>>, uint8 |-> <<0, 4>>]

Str == [type |-> <<"string">>]
Long == [type |-> <<"string">>, minLength |-> 4]
Whole == [type |-> <<"integer">>]
Num == [type |-> <<"number">>]
Json == [type |-> <<"json">>]
Arr(s) == [type |-> <<"array">>, items |-> s]
Open(members, required, others) ==
    [type |-> <<"object">>, properties |-> members, required |-> required, additionalProperties |-> others]
Rec(s) == [type |-> <<"object">>, additionalProperties |-> s]

Kinds(kinds) == "kind" :> EnumSchema(kinds)

Base ==
    [defs |-> "Q" :> Closed(<<>>, {}) @@ "S" :> Closed("a" :> Str, {"a"})
              @@ "P" :> Closed(Kinds(<<"reset">>) @@ "a" :> Str, {"kind"})
              @@ "U" :> [type |-> <<"string">>, minLength |-> 2],
     imports |-> <<>>, entities |-> <<>>, collaboration |-> <<>>,
     projections |-> "view" :> [params |-> "Q", snapshot |-> "S", patch |-> "P", dependsOn |-> {}, plan |-> [strategy |-> "reset"]],
     mutations |-> <<>>, commands |-> <<>>]

Declaring(d, defs) == [d EXCEPT !.defs = defs @@ @]

--------------------------------------------------------------------------
(* Open objects.                                                          *)

Pool == <<Str, Long, Whole, Num, Json,
    [type |-> <<"integer">>, minimum |-> 1], [type |-> <<"integer">>, minimum |-> 2],
    [type |-> <<"number">>, minimum |-> 1, maximum |-> 3], [type |-> <<"integer">>, maximum |-> 3],
    [type |-> <<"string">>, enum |-> <<Text("x", 1), Text("y", 2)>>],
    [type |-> <<"number">>, const |-> Number(2)],
    [type |-> <<"integer", "string">>, minimum |-> 1],
    [ref |-> "U"], Arr(Str), Rec(Str)>>

OpenFiles == [n \in 1..(Len(Pool) * Len(Pool)) |->
    LET m == Pool[1 + ((n - 1) % Len(Pool))]
        v == Pool[1 + ((n - 1) \div Len(Pool))]
    IN  Declaring(Base, "T" :> Open("a" :> m, {"a"}, v))]

--------------------------------------------------------------------------
(* Schemas to sample and to write out.                                    *)

Union(variants) == [type |-> <<"object">>, discriminator |-> "kind", oneOf |-> variants]
Shapes == <<
    [type |-> <<"integer">>, minimum |-> 3], [type |-> <<"integer">>, minimum |-> 3, maximum |-> 3],
    [type |-> <<"integer">>, maximum |-> 1], [type |-> <<"number">>, minimum |-> 3, maximum |-> 3],
    [type |-> <<"number">>, minimum |-> 3, maximum |-> 1], [type |-> <<"integer">>, minimum |-> 9],
    [type |-> <<"number">>, const |-> Number(2), maximum |-> 1], [type |-> <<"integer">>, const |-> Number(1)],
    [type |-> <<"string">>, minLength |-> 4, enum |-> <<Text("x", 1), Text("y", 2)>>],
    [type |-> <<"string">>, minLength |-> 8], [type |-> <<"string", "integer">>, minLength |-> 8, maximum |-> 1],
    [type |-> <<"string">>, default |-> Text("x", 1)], [type |-> <<"integer">>, default |-> Number(1)],
    Closed("a" :> [ref |-> "V"], {"a"}), Arr([ref |-> "V"]), [ref |-> "T"], [ref |-> "X"],
    Union(<<<<"x", Closed("a" :> [ref |-> "V"], {"a"})>>, <<"y", Closed(<<>>, {})>>>>),
    Union(<<<<"x", Closed("kind" :> Str, {})>>, <<"y", Closed(<<>>, {})>>>>)>>

ShapeFiles == [n \in DOMAIN Shapes |-> Declaring(Base, "T" :> Shapes[n] @@ "V" :> [ref |-> "U"])]

--------------------------------------------------------------------------
(* Imports.                                                               *)

Tagged(tag, members) ==
    [type |-> <<"object">>, closed |-> TRUE, required |-> {"kind"} \cup DOMAIN members,
     properties |-> ("kind" :> [const |-> Text(tag, 1)]) @@ members]
Formatted(name, bounds) == [type |-> <<"integer">>, format |-> name] @@ bounds

Bundles == <<
    Formatted("int8", <<>>), Formatted("int8", "minimum" :> -6), Formatted("int8", "minimum" :> 0),
    Formatted("int8", "maximum" :> 6), Formatted("uint8", "maximum" :> 3), Formatted("int9", <<>>),
    [type |-> <<"number">>, format |-> "int8"],
    [any |-> TRUE], [ref |-> "U"], [ref |-> "U", type |-> <<"string">>], [pattern |-> "x"],
    [oneOf |-> <<Tagged("x", "a" :> Formatted("uint8", <<>>)), Tagged("y", <<>>)>>],
    [oneOf |-> <<Tagged("x", <<>>), Tagged("x", <<>>)>>],
    [oneOf |-> <<Tagged("x", <<>>), [type |-> <<"object">>, closed |-> TRUE, properties |-> "a" :> Str, required |-> {"a"}]>>],
    Closed("a" :> Formatted("int8", "minimum" :> 0), {}), Closed("a" :> [any |-> TRUE], {"a"}),
    Arr(Formatted("uint8", <<>>)), Rec(Formatted("uint8", <<>>))>>

Importing(name, s) == [Base EXCEPT !.imports = <<name :> s>>]
ImportFiles ==
    [n \in DOMAIN Bundles |-> Importing("I", Bundles[n])]
    \o <<Importing("U", Str), [Base EXCEPT !.imports = <<"I" :> Str, "I" :> Whole>>],
         [Base EXCEPT !.imports = <<"I" :> Closed("a" :> [ref |-> "J"], {"a"}), "J" :> Formatted("uint8", <<>>)>>]>>

--------------------------------------------------------------------------
(* Projections.                                                           *)

Viewing(snapshot, patch, plan) ==
    [Declaring(Base, "S" :> snapshot @@ "P" :> patch) EXCEPT !.projections["view"].plan = plan]

Item == Closed("id" :> Str @@ "b" :> Whole, {"id"})
Items == Closed("items" :> Arr(Item) @@ "a" :> Str, {"items"})
KeyedPlan == [strategy |-> "keyedCollection", collectionField |-> "items", itemField |-> "item",
              itemIdentityField |-> "id", patchIdentityField |-> "id"]
KeyedPatch(item) ==
    Closed(Kinds(<<"reset", "upsert", "remove">>) @@ "items" :> Arr(item) @@ "item" :> item @@ "id" :> Str, {"kind"})

Stream == Closed("id" :> Str @@ "out" :> Json, {"id"})
StreamPlan == [strategy |-> "sequencedText", collectionField |-> "items", itemIdentityField |-> "id",
               patchIdentityField |-> "id", snapshotOutputField |-> "out", patchOutputField |-> "delta",
               sequenceField |-> "seq", textField |-> "text", deltaTextField |-> "more"]
StreamPatch == Closed(Kinds(<<"reset", "output">>) @@ "id" :> Str @@ "delta" :> Json, {"kind"})

Pair == Closed("a" :> Str @@ "b" :> Arr(Whole), {"a"})
PatchPlan == [strategy |-> "replace", snapshotMode |-> "patch"]
RemovePlan(mode) == [strategy |-> "replaceOrRemove", snapshotMode |-> "patch", removeMode |-> mode, removeField |-> "a"]
UpdatePlan == [strategy |-> "replaceOrRemove", snapshotMode |-> "field", snapshotField |-> "state",
               removeMode |-> "nullSnapshot", updateField |-> "a", updatesField |-> "changes"]
Updated(required) == Closed("a" :> Closed("b" :> Arr(Whole) @@ "c" :> Str, {"c"}), required)
UpdatePatch(changes) ==
    Closed(Kinds(<<"replace", "remove", "update">>) @@ "state" :> Json @@ "changes" :> changes, {"kind"})

ProjectionFiles == <<
    Viewing(Items, KeyedPatch(Item), KeyedPlan), Viewing(Items, KeyedPatch(Json), KeyedPlan),
    Viewing(Items, KeyedPatch(Closed("b" :> Whole, {})), KeyedPlan), Viewing(Pair, KeyedPatch(Item), KeyedPlan),
    Viewing(Closed("items" :> Arr(Stream), {"items"}), StreamPatch, StreamPlan),
    Viewing(Closed("items" :> Arr(Stream), {}), StreamPatch, StreamPlan),
    Viewing(Closed("items" :> Arr(Str), {}), StreamPatch, StreamPlan),
    Viewing(Pair, Closed(Kinds(<<"replace">>) @@ "a" :> Str @@ "b" :> Arr(Whole), {"kind"}), PatchPlan),
    Viewing(Pair, Closed(Kinds(<<"replace">>) @@ "a" :> Str, {"kind"}), PatchPlan),
    Viewing(Pair, Closed(Kinds(<<"replace">>) @@ "a" :> Str @@ "b" :> Arr(Whole), {"kind"}), "omit" :> {"a"} @@ PatchPlan),
    Viewing(Pair, Closed(Kinds(<<"replace">>) @@ "a" :> Str @@ "b" :> Arr(Whole) @@ "c" :> Str, {"kind"}), "omit" :> {"c"} @@ PatchPlan),
    Viewing(Arr(Str), Closed(Kinds(<<"replace">>) @@ "a" :> Arr(Str), {"kind"}), [strategy |-> "replace", snapshotMode |-> "field", snapshotField |-> "a"]),
    Viewing(Pair, Closed(Kinds(<<"replace">>), {"kind"}), [strategy |-> "replace", snapshotMode |-> "field", snapshotField |-> "a"]),
    Viewing(Pair, Closed(Kinds(<<"replace", "remove">>) @@ "a" :> Str @@ "b" :> Arr(Whole), {"kind"}), RemovePlan("nullSnapshot")),
    Viewing(Pair, Closed(Kinds(<<"replace", "remove">>) @@ "a" :> Str @@ "b" :> Arr(Whole), {"kind"}), RemovePlan("nullField")),
    Viewing(Closed("b" :> Str, {}), Closed(Kinds(<<"replace", "remove">>) @@ "b" :> Str, {"kind"}), RemovePlan("nullField")),
    Viewing(Updated({"a"}), UpdatePatch(Closed("b" :> Arr(Whole) @@ "c" :> Str, {"b"})), UpdatePlan),
    Viewing(Updated({}), UpdatePatch(Closed("c" :> Str, {"c"})), UpdatePlan),
    Viewing(Updated({"a"}), UpdatePatch(Closed("c" :> Whole, {"c"})), UpdatePlan),
    Viewing(Pair, Closed(Kinds(<<"reset">>) @@ "a" :> Str, {"kind"}), [strategy |-> "reset"]),
    Viewing(Closed("a" :> [type |-> <<"string">>, minLength |-> 8], {"a"}),
            Closed(Kinds(<<"reset">>) @@ "a" :> Str, {"kind"}), [strategy |-> "reset"]),
    [Base EXCEPT !.projections["view"].params = "U"], [Base EXCEPT !.projections["view"].dependsOn = {"Board"}],
    [Base EXCEPT !.projections = <<>>]>>

--------------------------------------------------------------------------
(* A collaborative entity: a board with cards, each with tags.            *)

In(base, names) == [base |-> base, names |-> names]
FieldOf(kind, codec, containers) == [kind |-> kind, codec |-> codec, containers |-> containers, conflict |-> "merge"]
Scalar(base, names) == "key" :> "k" @@ FieldOf("scalar", "string", "containerTemplate" :> In(base, names))
SequenceOf(base, identity, variable, around) ==
    [identity |-> identity, variable |-> variable]
    @@ FieldOf("keyedSequence", "keyedSequence",
               "orderContainer" :> In(<<base, "order">>, around) @@ "itemContainerTemplate" :> In(<<base, "item">>, around \cup {variable}))

Tag == Closed("id" :> Str @@ "label" :> Str, {"id"})
Card == Closed("id" :> Str @@ "text" :> Str @@ "tags" :> Arr([ref |-> "Tag"]), {"id", "text"})
\* `required` lists the members that are; meta and note lie in objects of their own.
BoardDefs(required) ==
    "Tag" :> Tag @@ "Card" :> Card
    @@ "Board" :> Closed("id" :> Str @@ "title" :> EnumSchema(<<"x", "y">>)
                         @@ "meta" :> Closed("by" :> Str @@ "at" :> Whole, required \cap {"by", "at"})
                         @@ "void" :> Closed(<<>>, {})
                         @@ "cards" :> Arr([ref |-> "Card"]),
                         {"id"} \cup (required \cap {"title", "meta", "void", "cards"}))

BoardFields ==
    <<"id">> :> FieldOf("derivedIdentity", "identity", <<>>)
    @@ <<"title">> :> [Scalar("board", {}) EXCEPT !.conflict = "explicit"]
    @@ <<"meta", "by">> :> FieldOf("text", "string", "container" :> In("by", {}))
    @@ <<"meta", "at">> :> [Scalar("at", {}) EXCEPT !.codec = "integer"]
    @@ <<"cards">> :> SequenceOf("cards", "id", "card", {})
    @@ <<"cards", "*", "id">> :> FieldOf("derivedIdentity", "identity", <<>>)
    @@ <<"cards", "*", "text">> :> FieldOf("text", "string", "containerTemplate" :> In("text", {"card"}))
    @@ <<"cards", "*", "tags">> :> SequenceOf("tags", "id", "tag", {"card"})
    @@ <<"cards", "*", "tags", "*", "id">> :> FieldOf("derivedIdentity", "identity", <<>>)
    @@ <<"cards", "*", "tags", "*", "label">> :> Scalar("label", {"card", "tag"})

\* Fields with the presence the schema gives them.
Placed(defs, fields) == [p \in DOMAIN fields |->
    LET at == SchemaAt(defs, [ref |-> "Board"], p)
    IN  [required |-> at # None /\ at.required, requiredInParent |-> at # None /\ at.inParent] @@ fields[p]]

Boards(defs, fields) ==
    [Declaring(Base, defs) EXCEPT
        !.entities = "Board" :> [schema |-> "Board", id |-> "id", revision |-> "replica", authoring |-> "collaborative", planning |-> {}],
        !.collaboration = "Board" :> [projection |-> "board", importMutation |-> "save", storeParams |-> {}, single |-> FALSE,
                                      fields |-> Placed(defs, fields)],
        !.mutations = "save" :> [params |-> "Q", result |-> "Q", touches |-> {"Board"}]]

Optional == <<"title", "meta", "void", "by", "cards">>
\* The sets of members that are required, one for each number written in binary.
Presences == [n \in 1..2^Len(Optional) |-> {Optional[i] : i \in {j \in DOMAIN Optional : (n \div 2^(j - 1)) % 2 = 1}}]
All == BoardDefs(Range(Optional))
Full == Boards(All, BoardFields)
Without(p) == Boards(All, Restrict(BoardFields, DOMAIN BoardFields \ {p}))
Label == <<"cards", "*", "tags", "*", "label">>
Tags == <<"cards", "*", "tags">>

BoardFiles ==
    [n \in DOMAIN Presences |-> Boards(BoardDefs(Presences[n]), BoardFields)]
    \o <<Without(<<"title">>), Without(Label), Without(<<"cards">>),
         [Full EXCEPT !.collaboration["Board"].fields[<<"title">>].required = FALSE],
         [Full EXCEPT !.collaboration["Board"].fields[<<"meta", "at">>].requiredInParent = TRUE],
         [Full EXCEPT !.collaboration["Board"].fields[<<"title">>].containers = <<>>],
         [Full EXCEPT !.collaboration["Board"].fields[<<"title">>].codec = "structuredJson"],
         [Full EXCEPT !.collaboration["Board"].fields[Label].containers["containerTemplate"].names = {"tag"}],
         [Full EXCEPT !.collaboration["Board"].fields[Tags].containers["orderContainer"].names = {}],
         [Full EXCEPT !.collaboration["Board"].fields[Tags].containers["itemContainerTemplate"].names = {"card"}],
         [Full EXCEPT !.collaboration["Board"].importMutation = "move"],
         [Full EXCEPT !.collaboration["Board"].storeParams = {"id"}],
         [Full EXCEPT !.collaboration["Board"].storeParams = {"shelf"}],
         [Full EXCEPT !.collaboration["Board"].projection = "view"],
         [Full EXCEPT !.entities["Board"].id = "key"],
         [Full EXCEPT !.entities["Board"].authoring = "readOnly"],
         [Full EXCEPT !.mutations = "save" :> [params |-> "Q", result |-> "Q", touches |-> {"Board", "Shelf"}]],
         [Full EXCEPT !.commands = "save" :> [params |-> "Q", result |-> "Q", touches |-> {}]],
         [Full EXCEPT !.commands = "tidy" :> [params |-> "Q", result |-> "Q", touches |-> {"Board"}]],
         Declaring(Full, "AuthoringState" :> Str)>>

\* Cards and tags whose identities have the same name.
Unnamed(f) == Restrict(f, DOMAIN f \ {"variable"})
SharingFields ==
    [BoardFields EXCEPT ![<<"cards">>] = Unnamed(SequenceOf("cards", "id", "id", {})),
                        ![Tags] = Unnamed(SequenceOf("tags", "id", "id", {"id"})),
                        ![<<"cards", "*", "text">>].containers["containerTemplate"].names = {"id"},
                        ![Label].containers["containerTemplate"].names = {"id"}]
SharingFiles == <<Boards(All, SharingFields)>>

MCFiles == OpenFiles \o ImportFiles \o ProjectionFiles \o BoardFiles \o SharingFiles \o ShapeFiles
\* One that is refused, one that imports, one with projections, and the full board.
MCEdited == LET views == Len(OpenFiles) + Len(ImportFiles)
                boards == views + Len(ProjectionFiles)
            IN  {2, Len(OpenFiles) + 1, views + 1, views + 21, boards + 31}
MCParamsName == "Board" :> "BoardAuthoringParams"
MCArtefacts == <<"model", "fixtures">>

Scalars == {Number(n) : n \in -6..6} \cup {Text("x", 1), Text("y", 2), Text("z", 0), Boolean(TRUE), JsonNull}
Few == {Number(1), Number(2), Text("x", 1), Text("y", 2)}
MCUniverse ==
    Scalars \cup {Array(<<>>)} \cup {Array(<<v>>) : v \in Scalars}
    \cup {Object(<<>>)} \cup {Object(n :> v) : n \in {"a", "b", "kind"}, v \in Scalars}
    \cup {Object("a" :> u @@ n :> v) : n \in {"b", "kind"}, u \in Few, v \in Few}

=============================================================================
