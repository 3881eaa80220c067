------------------------------ MODULE Schemas ------------------------------
(***************************************************************************)
(* The JSON Schema subset of crates/clerkenwell-codegen: which schemas the *)
(* generator takes (validate.rs), how it brings in schemas written         *)
(* elsewhere (schema_imports.rs), the documents it writes them out as      *)
(* (json_schema.rs) and the sample values it makes of them (fixtures.rs).  *)
(*                                                                         *)
(* A schema is a record of the keywords it declares: `type` lists its      *)
(* types, `closed` stands for additionalProperties: false, `ref` names a   *)
(* definition, and `oneOf` is a sequence of schemas or, beside a           *)
(* `discriminator`, of <<tag, schema>>.  A value is a pair of its JSON     *)
(* type and its content; numbers and lengths are counted in halves, so     *)
(* that an even number is an integer.  A text is its name and its length.  *)
(***************************************************************************)
EXTENDS Integers, Sequences, SequencesExt, FiniteSets, FiniteSetsExt, Functions, TLC

CONSTANTS
    Refused,       \* the answer of a conversion that refuses
    Int64,         \* an i64 holds the integers from -Int64 up to, without, Int64
    FormatLimits,  \* the least and greatest number of each numeric format
    FixtureLength, \* the length of the sample text
    FixtureLimit   \* the most characters a sample text may have

Number(n) == <<"number", n>>
Text(name, length) == <<"string", <<name, length>>>>
Boolean(b) == <<"boolean", b>>
Array(items) == <<"array", items>>
Object(members) == <<"object", members>>
JsonNull == <<"null">>

Has(s, keyword) == keyword \in DOMAIN s
HasType(s, type) == Has(s, "type") /\ s.type = <<type>>
TypesOf(s) == IF Has(s, "type") THEN Range(s.type) ELSE {}
Listed(s, keyword) == IF Has(s, keyword) THEN Range(s[keyword]) ELSE {}
Properties(s) == IF Has(s, "properties") THEN s.properties ELSE <<>>
RequiredNames(s) == IF Has(s, "required") THEN s.required ELSE {}

IsInteger(n) == n % 2 = 0
Ceil(n) == n + (n % 2)
Floor(n) == n - (n % 2)
Representable(n) == -Int64 <= n /\ n < Int64

\* A record holds members of one schema; an open object declares some beside them.
IsRecord(s) == HasType(s, "object") /\ ~Has(s, "properties") /\ Has(s, "additionalProperties")
IsOpen(s) == HasType(s, "object") /\ Has(s, "properties") /\ Has(s, "additionalProperties")

\* The schemas nested in a schema, by the places it holds them at.
Places(s) ==
    {<<"properties", n>> : n \in DOMAIN Properties(s)}
    \cup {<<"oneOf", n>> : n \in IF Has(s, "oneOf") THEN DOMAIN s.oneOf ELSE {}}
    \cup {<<k>> : k \in {"items", "additionalProperties"} \cap DOMAIN s}
At(s, place) ==
    CASE place[1] = "properties" -> s.properties[place[2]]
      [] place[1] = "oneOf" -> s.oneOf[place[2]][2]
      [] OTHER -> s[place[1]]
Subschemas(s) == {At(s, place) : place \in Places(s)}

\* The schema at the end of a chain of references, and the definition that holds it.
RECURSIVE Dereference(_, _)
Dereference(defs, s) == IF Has(s, "ref") THEN Dereference(defs, defs[s.ref]) ELSE s

RECURSIVE EndName(_, _)
EndName(defs, s) ==
    IF ~Has(s, "ref") THEN ""
    ELSE IF Has(defs[s.ref], "ref") THEN EndName(defs, defs[s.ref]) ELSE s.ref

\* The bounds of a schema that apply to a value's type.
MeetsBounds(s, v) ==
    CASE v[1] = "string" -> Has(s, "minLength") => 2 * v[2][2] >= s.minLength
      [] v[1] = "number" -> /\ Has(s, "minimum") => v[2] >= s.minimum
                            /\ Has(s, "maximum") => v[2] <= s.maximum
      [] OTHER -> TRUE

IsOfType(v, type) ==
    CASE type = "integer" -> v[1] = "number" /\ IsInteger(v[2])
      [] type = "json" -> TRUE
      [] OTHER -> v[1] = type

--------------------------------------------------------------------------
(* Reference: the values of a schema, as JSON Schema defines them, with a *)
(* tagged union's tag in its discriminator.                               *)

\* The parts of a value that a schema has a schema for, and which.
Governed(s, v) ==
    CASE v[1] = "array" /\ Has(s, "items") -> DOMAIN v[2]
      [] v[1] = "object" -> {n \in DOMAIN v[2] : n \in DOMAIN Properties(s) \/ Has(s, "additionalProperties")}
      [] OTHER -> {}
PartSchema(s, v, n) ==
    IF v[1] = "array" THEN s.items
    ELSE IF n \in DOMAIN Properties(s) THEN Properties(s)[n] ELSE s.additionalProperties

MembersAllowed(s, members) ==
    /\ RequiredNames(s) \subseteq DOMAIN members
    /\ Has(s, "closed") => DOMAIN members \subseteq DOMAIN Properties(s)

\* The alternatives of a union that may hold a value: of a tagged one, those of its tag.
IsTagged(s) == Has(s, "discriminator")
Alternatives(s, v) ==
    IF IsTagged(s) THEN {n \in DOMAIN s.oneOf : v[2][s.discriminator] = Text(s.oneOf[n][1], 1)} ELSE DOMAIN s.oneOf
Alternative(s, n) == IF IsTagged(s) THEN s.oneOf[n][2] ELSE s.oneOf[n]
Untagged(s, v) == IF IsTagged(s) THEN Object(Restrict(v[2], DOMAIN v[2] \ {s.discriminator})) ELSE v

RECURSIVE Validates(_, _, _)
Validates(defs, s, v) ==
    IF Has(s, "ref") THEN s.ref \in DOMAIN defs /\ Validates(defs, defs[s.ref], v)
    ELSE
    /\ Has(s, "type") => \E type \in TypesOf(s) : IsOfType(v, type)
    /\ Has(s, "const") => v = s.const
    /\ Has(s, "enum") => v \in Range(s.enum)
    /\ MeetsBounds(s, v)
    /\ v[1] = "object" => MembersAllowed(s, v[2])
    /\ \A n \in Governed(s, v) : Validates(defs, PartSchema(s, v, n), v[2][n])
    /\ Has(s, "oneOf") =>
        /\ IsTagged(s) => s.discriminator \in DOMAIN v[2]
        /\ Cardinality({n \in Alternatives(s, v) : Validates(defs, Alternative(s, n), Untagged(s, v))})
              \in 1..(IF IsTagged(s) THEN Len(s.oneOf) ELSE 1)

--------------------------------------------------------------------------
(* Which schemas the generator takes.                                     *)

AllowedKeywords == {"ref", "additionalProperties", "closed", "enum", "items", "properties", "required",
    "type", "discriminator", "oneOf", "const", "minLength", "minimum", "maximum", "default"}

Primitive == {"string", "boolean", "integer", "number"}
IsUnion(s) == Has(s, "type") /\ Len(s.type) > 1

\* No chain of references returns to a definition already on it.
RECURSIVE ChainEnds(_, _, _)
ChainEnds(defs, s, chain) ==
    Has(s, "ref") =>
        s.ref \in DOMAIN defs /\ s.ref \notin chain /\ ChainEnds(defs, defs[s.ref], chain \cup {s.ref})
CheckReferenceChains(defs) == \A name \in DOMAIN defs : ChainEnds(defs, defs[name], {name})

\* A structural keyword is given only with a type it shapes.
CheckApplicableKeywords(s) ==
    /\ {"properties", "additionalProperties", "closed", "required"} \cap DOMAIN s # {} => "object" \in TypesOf(s)
    /\ Has(s, "items") => "array" \in TypesOf(s)

CheckConst(s) ==
    Has(s, "const") =>
        /\ ~Has(s, "enum")
        /\ \E type \in TypesOf(s) \cap Primitive : IsOfType(s.const, type)
        /\ s.const[1] = "number" /\ "integer" \in TypesOf(s) /\ "number" \notin TypesOf(s) => Representable(s.const[2])
        /\ MeetsBounds(s, s.const)

CheckValidationKeywords(s) ==
    /\ {"minimum", "maximum"} \cap DOMAIN s # {} => TypesOf(s) \cap {"integer", "number"} # {}
    /\ Has(s, "minimum") /\ Has(s, "maximum") => s.minimum <= s.maximum
    /\ CheckConst(s)
    /\ Has(s, "minLength") => "string" \in TypesOf(s) /\ IsInteger(s.minLength) /\ s.minLength >= 0
    /\ Has(s, "enum") => \E n \in DOMAIN s.enum : MeetsBounds(s, s.enum[n])

CheckDefaultValue(s) ==
    Has(s, "default") =>
        /\ \E type \in TypesOf(s) \ {"json"} : IsOfType(s.default, type)
        /\ Has(s, "enum") => s.default \in Range(s.enum)

\* Whether every value of `member` is a value of `values`, as far as the subset
\* can tell; `assumed` holds the pairs of references being compared.
RECURSIVE Admits(_, _, _, _)

\* The values a schema lists, less those its own bounds exclude.
ListedValues(s) ==
    IF Has(s, "enum") THEN {v \in Range(s.enum) : MeetsBounds(s, v)} ELSE {s.const}

AdmitsTypes(values, member) ==
    LET integral == (Has(member, "enum") \/ Has(member, "const"))
                    /\ \A v \in ListedValues(member) : v[1] = "number" /\ IsInteger(v[2])
    IN  \A m \in TypesOf(member) : \E t \in TypesOf(values) :
            \/ t = m
            \/ t = "number" /\ m = "integer"
            \/ t = "integer" /\ m = "number" /\ integral

AdmitsListed(values, member) ==
    /\ Has(values, "enum") => Has(member, "enum") /\ Range(member.enum) \subseteq Range(values.enum)
    /\ Has(values, "const") =>
        (Has(member, "enum") \/ Has(member, "const")) /\ ListedValues(member) \subseteq {values.const}

\* A numeric bound of a schema whose numbers are integers is the integer it leaves.
IntegralBound(s, bound) ==
    IF bound = "minLength" \/ "number" \in TypesOf(s) \/ "integer" \notin TypesOf(s) THEN s[bound]
    ELSE IF bound = "minimum" THEN Ceil(s[bound]) ELSE Floor(s[bound])

\* A bound binds a member whose values include its type.
BoundApplies(member, bound) ==
    IF bound = "minLength" THEN "string" \in TypesOf(member) ELSE TypesOf(member) \cap {"integer", "number"} # {}

\* Mutant: a bound is not asked of a member that states none.
AdmitsBoundsStated(values, member) ==
    \A bound \in {"minimum", "maximum", "minLength"} \cap DOMAIN values \cap DOMAIN member :
        IF bound = "maximum" THEN member[bound] <= values[bound] ELSE member[bound] >= values[bound]

AdmitsBounds(values, member) ==
    IF Has(member, "enum") \/ Has(member, "const")
    THEN \A v \in ListedValues(member) : MeetsBounds(values, v)
    ELSE \A bound \in {"minimum", "maximum", "minLength"} \cap DOMAIN values :
            BoundApplies(member, bound) =>
                /\ Has(member, bound)
                /\ LET limit == IntegralBound(values, bound)
                       held == IntegralBound(member, bound)
                   IN  IF bound = "maximum" THEN held <= limit ELSE held >= limit

Admits(defs, values, member, assumed) ==
    CASE HasType(values, "json") -> TRUE
      [] ~HasType(values, "json") /\ (Has(values, "ref") \/ Has(member, "ref")) ->
            \/ Has(values, "ref") /\ Has(member, "ref") /\ values.ref = member.ref
            \/ <<values, member>> \in assumed
            \/ EndName(defs, values) # "" /\ EndName(defs, values) = EndName(defs, member)
            \/ Admits(defs, Dereference(defs, values), Dereference(defs, member), assumed \cup {<<values, member>>})
      [] OTHER ->
            /\ TypesOf(member) # {} /\ TypesOf(values) # {}
            /\ AdmitsTypes(values, member)
            /\ AdmitsListed(values, member)
            /\ AdmitsBounds(values, member)
            /\ ~IsUnion(values) /\ ~IsUnion(member) =>
                CASE HasType(values, "array") -> Admits(defs, values.items, member.items, assumed)
                  [] HasType(values, "object") ->
                        /\ IsRecord(values) /\ IsRecord(member)
                        /\ Admits(defs, values.additionalProperties, member.additionalProperties, assumed)
                  [] OTHER -> TRUE

\* An open object declares members, each a value of its other members' schema.
CheckOpenObject(defs, s) ==
    /\ Properties(s) # <<>>
    /\ \A name \in DOMAIN s.properties : Admits(defs, s.additionalProperties, s.properties[name], {})

\* A tagged union is a definition of its own; its variants are closed objects
\* that do not declare the tag.
CheckTaggedUnion(s, top) ==
    /\ top /\ HasType(s, "object")
    /\ Has(s, "discriminator") /\ Has(s, "oneOf") /\ {"properties", "additionalProperties", "closed"} \cap DOMAIN s = {}
    /\ s.oneOf # <<>>
    /\ \A n \in DOMAIN s.oneOf : LET variant == s.oneOf[n][2] IN
        /\ HasType(variant, "object")
        /\ s.discriminator \notin DOMAIN Properties(variant)
        /\ ~Has(variant, "additionalProperties")

CheckObject(s) ==
    /\ Has(s, "additionalProperties") \/ Has(s, "closed")
    /\ IF IsRecord(s) THEN ~Has(s, "required")
       ELSE Has(s, "properties") /\ RequiredNames(s) \subseteq DOMAIN s.properties

\* The schemas every renderer represents exactly, down to the last nested one.
\* `top`: the node is a definition itself.
RECURSIVE CheckSchemaNode(_, _, _)
CheckSchemaNode(defs, s, top) ==
    /\ DOMAIN s \subseteq AllowedKeywords
    /\ IF Has(s, "ref")
       THEN /\ DOMAIN s \subseteq {"ref", "default"}
            /\ s.ref \in DOMAIN defs
            /\ Has(s, "default") => CheckDefaultValue(("default" :> s.default) @@ Dereference(defs, s))
       ELSE /\ Has(s, "enum") => /\ s.enum # <<>> /\ HasType(s, "string")
                                 /\ \A n \in DOMAIN s.enum : s.enum[n][1] = "string"
            /\ IF Has(s, "oneOf") \/ Has(s, "discriminator") THEN CheckTaggedUnion(s, top)
               ELSE /\ Has(s, "type") /\ (IsUnion(s) => TypesOf(s) \subseteq Primitive)
                    /\ CheckApplicableKeywords(s) /\ CheckValidationKeywords(s) /\ CheckDefaultValue(s)
                    /\ HasType(s, "object") => CheckObject(s)
                    /\ HasType(s, "array") => Has(s, "items")
                    /\ TypesOf(s) \subseteq Primitive \cup {"object", "array", "json"}
    /\ \A nested \in Subschemas(s) : CheckSchemaNode(defs, nested, FALSE)
    /\ IsOpen(s) => CheckOpenObject(defs, s)

--------------------------------------------------------------------------
(* Schemas imported from elsewhere.                                       *)

\* The range a numeric format stands for, unless a bound is as tight.
FormatBounds(s) ==
    LET limits == FormatLimits[s.format] IN
    [minimum |-> IF Has(s, "minimum") /\ s.minimum >= limits[1] THEN s.minimum ELSE limits[1],
     maximum |-> IF Has(s, "maximum") /\ s.maximum <= limits[2] THEN s.maximum ELSE limits[2]]

\* The properties that every variant requires as a string constant.
Discriminators(variants) ==
    {key \in DOMAIN Properties(variants[1]) : \A n \in DOMAIN variants :
        /\ key \in DOMAIN Properties(variants[n]) /\ key \in RequiredNames(variants[n])
        /\ Has(variants[n].properties[key], "const") /\ variants[n].properties[key].const[1] = "string"}

\* A oneOf of objects that one constant tells apart.
TellsApart(variants, key) ==
    LET tagOf(n) == variants[n].properties[key] IN
    /\ \A n \in DOMAIN variants : /\ DOMAIN tagOf(n) \subseteq {"const", "type"}
                                  /\ Has(tagOf(n), "type") => HasType(tagOf(n), "string")
    /\ IsInjective([n \in DOMAIN variants |-> tagOf(n).const])

IsTaggedUnion(source) ==
    /\ DOMAIN source = {"oneOf"} /\ source.oneOf # <<>>
    /\ \E key \in Discriminators(source.oneOf) :
        Discriminators(source.oneOf) = {key} /\ TellsApart(source.oneOf, key)

Discriminator(source) == CHOOSE key \in Discriminators(source.oneOf) : TRUE
WithoutTag(variant, key) ==
    [variant EXCEPT !.properties = Restrict(@, DOMAIN @ \ {key}), !.required = @ \ {key}]

\* It becomes the tagged union of the `converted` objects.
TaggedUnion(source, key, converted) ==
    IF Refused \in Range(converted) THEN Refused
    ELSE [type |-> <<"object">>, discriminator |-> key,
          oneOf |-> [n \in DOMAIN source.oneOf |-> <<source.oneOf[n].properties[key].const[2][1], converted[n]>>]]

ImportedKeywords == {"type", "properties", "required", "additionalProperties", "closed", "items", "enum",
    "const", "minLength", "minimum", "maximum", "format", "default"}

\* A schema with other schemas nested in it.
WithNested(s, nested) ==
    [k \in DOMAIN s |->
        IF k = "properties" THEN [n \in DOMAIN s.properties |-> nested[<<k, n>>]]
        ELSE IF <<k>> \in DOMAIN nested THEN nested[<<k>>] ELSE s[k]]

\* An imported schema whose nested schemas are converted; its format becomes its bounds.
Converted(s, nested) ==
    IF /\ DOMAIN s \subseteq ImportedKeywords
       /\ Has(s, "format") => s.format \in DOMAIN FormatLimits /\ HasType(s, "integer")
       /\ Refused \notin Range(nested)
    THEN (IF Has(s, "format") THEN FormatBounds(s) ELSE <<>>)
         @@ Restrict(WithNested(s, nested), DOMAIN s \ {"format"})
    ELSE Refused

\* An imported schema in the generator's subset; `any` is the schema true.
RECURSIVE Convert(_)
Convert(s) ==
    CASE Has(s, "any") -> [type |-> <<"json">>]
      [] Has(s, "ref") -> IF DOMAIN s \subseteq {"ref", "default"} THEN s ELSE Refused
      [] Has(s, "oneOf") ->
            IF ~IsTaggedUnion(s) THEN Refused
            ELSE TaggedUnion(s, Discriminator(s),
                             [n \in DOMAIN s.oneOf |-> Convert(WithoutTag(s.oneOf[n], Discriminator(s)))])
      [] OTHER -> Converted(s, [place \in Places(s) |-> Convert(At(s, place))])

\* Reference: the values of an imported schema, whose format is its range.
RECURSIVE Plain(_)
Plain(s) ==
    LET within == IF Has(s, "format") THEN FormatLimits[s.format] ELSE <<>>
        nested(k, v) == CASE k \in {"properties", "oneOf"} -> [n \in DOMAIN v |-> Plain(v[n])]
                          [] k \in {"items", "additionalProperties"} -> Plain(v)
                          [] OTHER -> v
        bare == [k \in DOMAIN s \ {"any", "format"} |-> nested(k, s[k])]
    IN  IF within = <<>> THEN bare
        ELSE [minimum |-> Max({within[1]} \cup (IF Has(s, "minimum") THEN {s.minimum} ELSE {})),
              maximum |-> Min({within[2]} \cup (IF Has(s, "maximum") THEN {s.maximum} ELSE {}))] @@ bare

--------------------------------------------------------------------------
(* Schemas written out as JSON Schema documents.                          *)

\* A converted variant with the discriminator a required property whose value is the tag.
TaggedVariant(discriminator, tag, variant) ==
    ("properties" :> ((discriminator :> [const |-> Text(tag, 1)]) @@ Properties(variant)))
    @@ ("required" :> {discriminator} \cup RequiredNames(variant))
    @@ variant

Documented(s, nested) ==
    LET kept == {k \in DOMAIN s : k # "discriminator" /\ ~(k = "type" /\ HasType(s, "json"))}
        variants == [n \in DOMAIN s.oneOf |-> TaggedVariant(s.discriminator, s.oneOf[n][1], nested[<<"oneOf", n>>])]
    IN  Restrict((IF Has(s, "oneOf") THEN "oneOf" :> variants ELSE <<>>) @@ WithNested(s, nested), kept)

RECURSIVE JsonSchema(_)
JsonSchema(s) == Documented(s, [place \in Places(s) |-> JsonSchema(At(s, place))])

\* The definitions a schema names, itself or in its nested schemas.
RECURSIVE References(_)
References(s) ==
    (IF Has(s, "ref") THEN {s.ref} ELSE {}) \cup UNION {References(t) : t \in Subschemas(s)}

RECURSIVE ReachedFrom(_, _)
ReachedFrom(defs, names) ==
    LET next == names \cup UNION {References(defs[n]) : n \in names}
    IN  IF next = names THEN names ELSE ReachedFrom(defs, next)

Reached(defs, s) == ReachedFrom(defs, References(s))

\* The document of a schema, with the definitions it reaches.
SchemaDocument(defs, name) ==
    [schema |-> JsonSchema(defs[name]),
     defs |-> [n \in Reached(defs, defs[name]) |-> JsonSchema(defs[n])]]

--------------------------------------------------------------------------
(* Sample values.                                                         *)

\* 1, or the bound nearest it.
BoundedSample(s, integer) ==
    LET raised == IF ~Has(s, "minimum") \/ 2 >= s.minimum THEN 2
                  ELSE IF integer THEN Ceil(s.minimum) ELSE s.minimum
        sample == IF ~Has(s, "maximum") \/ raised <= s.maximum THEN raised
                  ELSE IF integer THEN Floor(s.maximum) ELSE s.maximum
    IN  IF MeetsBounds(s, Number(sample)) /\ (integer => Representable(sample)) THEN Number(sample) ELSE Refused

RECURSIVE SampleWithin(_, _, _)

\* A sample with a part that has none is none.
WholeObject(members) == IF Refused \in Range(members) THEN Refused ELSE Object(members)
WholeArray(item) == IF item = Refused THEN Refused ELSE Array(<<item>>)

SampleMembers(defs, s, extend) ==
    LET declared == [n \in RequiredNames(s) |-> SampleWithin(defs, s.properties[n], extend)]
        other == IF extend /\ IsOpen(s)
                 THEN "other-member" :> (IF HasType(s.additionalProperties, "json") THEN Text("other", 1)
                                         ELSE SampleWithin(defs, s.additionalProperties, FALSE))
                 ELSE <<>>
    IN  declared @@ other

SampleOfType(defs, s, extend) ==
    CASE HasType(s, "string") ->
            LET length == IF Has(s, "minLength") THEN s.minLength \div 2 ELSE 0
            IN  IF length > FixtureLimit THEN Refused ELSE Text("fixture", Max({FixtureLength, length}))
      [] HasType(s, "integer") \/ HasType(s, "number") -> BoundedSample(s, HasType(s, "integer"))
      [] HasType(s, "boolean") -> Boolean(TRUE)
      [] HasType(s, "json") -> JsonNull
      [] HasType(s, "array") -> WholeArray(SampleWithin(defs, s.items, extend))
      [] HasType(s, "object") ->
            LET tag == IF Has(s, "oneOf") THEN s.discriminator :> Text(s.oneOf[1][1], 1) ELSE <<>>
                variant == IF Has(s, "oneOf") THEN s.oneOf[1][2] ELSE s
            IN  WholeObject(tag @@ SampleMembers(defs, variant, extend))

\* A union is sampled by its first type that has a sample.
FirstSample(samples) ==
    LET taken == {n \in DOMAIN samples : samples[n] # Refused}
    IN  IF taken = {} THEN Refused ELSE samples[Min(taken)]

SampleEnd(defs, s, extend) ==
    CASE Has(s, "const") -> s.const
      [] ~Has(s, "const") /\ Has(s, "enum") ->
            LET held == {n \in DOMAIN s.enum : MeetsBounds(s, s.enum[n])}
            IN  IF held = {} THEN Refused ELSE s.enum[Min(held)]
      [] ~Has(s, "const") /\ ~Has(s, "enum") ->
            FirstSample([n \in DOMAIN s.type |-> SampleOfType(defs, [s EXCEPT !.type = <<s.type[n]>>], extend)])

\* A sample value of a schema, with a member an open object does not declare when `extend`.
SampleWithin(defs, s, extend) == SampleEnd(defs, Dereference(defs, s), extend)

=============================================================================
