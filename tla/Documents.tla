------------------------------ MODULE Documents ------------------------------
(***************************************************************************)
(* Documents and their replicas, as crates/clerkenwell-doc keeps them: how *)
(* a whole document becomes operations on containers, how it is read back  *)
(* from them, and how the conflict policy of each field judges an edit.    *)
(*                                                                         *)
(* A replica is a set of changes: a change sets registers, adds elements   *)
(* to text and lists and removes elements it has seen.  That is what the   *)
(* code asks of Loro, which is external.  A document is a function from    *)
(* the slots it holds to their values, a slot being a field with the       *)
(* identities of the records around it: sequence[identity].field in the    *)
(* source.  The order of items and of characters is abstracted: a          *)
(* sequence's value is the set of its identities, a text the set of its    *)
(* characters, each named by the change that typed it.                     *)
(***************************************************************************)
EXTENDS Integers, Sequences, FiniteSets, FiniteSetsExt, Functions

CONSTANTS
    Plan,       \* each field's specification, by its name
    PlanOrder,  \* the fields in the order the plan lists them
    Ids,        \* identities of keyed records
    Keys,       \* keys of structured maps
    None,       \* an absent value
    Null        \* JSON null

Fields == DOMAIN Plan
Depth(f) == Len(Plan[f].within)

--------------------------------------------------------------------------
(* Slots of a document.                                                   *)

Slots == UNION {{<<f, ctx>> : ctx \in [1..Depth(f) -> Ids]} : f \in Fields}
Kind(slot) == Plan[slot[1]].kind
Required(slot) == Plan[slot[1]].required

\* The sequence, resolved, that holds the n-th record around a slot.
SequenceAround(slot, n) == <<Plan[slot[1]].within[n], SubSeq(slot[2], 1, n - 1)>>

\* Whether `slot` lies in record `id` of the sequence `seq`.
LiesIn(slot, seq, id) ==
    \E n \in 1..Len(slot[2]) : SequenceAround(slot, n) = seq /\ slot[2][n] = id

\* The records a slot lies in are in the document.
RecordsIn(doc, slot) ==
    \A n \in 1..Len(slot[2]) : LET s == SequenceAround(slot, n) IN
        s \in DOMAIN doc /\ slot[2][n] \in doc[s]

At(doc, slot) == IF slot \in DOMAIN doc THEN doc[slot] ELSE None
Drop(doc, slots) == Restrict(doc, DOMAIN doc \ slots)
With(doc, slot, v) == IF v = None THEN Drop(doc, {slot}) ELSE [s \in DOMAIN doc \cup {slot} |-> IF s = slot THEN v ELSE doc[s]]

EmptyOf(kind) == CASE kind = "scalar" -> ""
                   [] kind = "map" -> <<>>
                   [] OTHER -> {}

--------------------------------------------------------------------------
(* Changes, and what Loro makes of a set of them (external).              *)

IdsOf(C) == {c.id : c \in C}
PeerOf(c) == <<c.id[1], c.id[2]>>

\* Of two writes to a register the later wins: the higher Lamport time, then the peer.
Later(c, d) ==
    \/ c.at > d.at
    \/ c.at = d.at /\ c.id[1] > d.id[1]

Register(C, place) ==
    LET ws == {c \in C : place \in DOMAIN c.sets} IN
    IF ws = {} THEN None
    ELSE (CHOOSE c \in ws : \A d \in ws \ {c} : Later(c, d)).sets[place]

\* The elements of a list or text: what was added to it and not removed.
Elements(C, slot) ==
    LET added == UNION {{[by |-> c.id, slot |-> slot, entry |-> a[2]] : a \in {b \in c.adds : b[1] = slot}} : c \in C}
    IN  {e \in added : \A c \in C : e \notin c.dels}

Closed(C) == \A c \in C : c.deps \subseteq IdsOf(C)
Forked(C, version) == {c \in C : c.id \in version}

\* The counter after the last change of each peer.
VersionOf(C) == [p \in {PeerOf(c) : c \in C} |->
    CHOOSE n \in {c.id[3] : c \in {d \in C : PeerOf(d) = p}} :
        \A c \in C : PeerOf(c) = p => c.id[3] <= n]

--------------------------------------------------------------------------
(* Reading a document back.                                               *)

MapAt(C, slot) ==
    LET held == {k \in Keys : Register(C, <<slot, k>>) # None}
    IN  [k \in held |-> Register(C, <<slot, k>>)]

Present(C, slot) == Register(C, <<slot, "present">>) # None

ReadField(C, slot) ==
    CASE Kind(slot) = "scalar" -> Register(C, <<slot, "value">>)
      [] Kind(slot) = "text" -> {e.by : e \in Elements(C, slot)}
      [] Kind(slot) \in {"list", "structuredList", "sequence"} -> {e.entry : e \in Elements(C, slot)}
      [] Kind(slot) = "map" ->
            LET m == MapAt(C, slot)
            IN  IF Required(slot) \/ Present(C, slot) \/ DOMAIN m # {} THEN m ELSE None

\* An optional value that is empty reads as absent, but for a map; a sequence
\* stays when it was written as present.
Reads(C, slot, v) ==
    /\ v # None
    /\ \/ Required(slot)
       \/ Kind(slot) = "map"
       \/ v # EmptyOf(Kind(slot))
       \/ Kind(slot) = "sequence" /\ Present(C, slot)

\* A member its present parent requires is given the empty form of its codec.
Completes(doc, slot) ==
    LET p == Plan[slot[1]] IN
    /\ p.requiredInParent /\ ~p.required
    /\ slot \notin DOMAIN doc
    /\ p.group # <<>> => \E s \in DOMAIN doc : s[2] = slot[2] /\ Plan[s[1]].group = p.group
    /\ p.kind # "map"
    /\ p.kind = "scalar" => p.codec # "other"

CompleteRequiredMembers(doc, live) ==
    LET restored == {s \in live : Completes(doc, s)}
    IN  [s \in DOMAIN doc \cup restored |-> IF s \in restored THEN EmptyOf(Kind(s)) ELSE doc[s]]

\* The document a set of changes reads as.
Materialized(C) ==
    LET value == [s \in Slots |-> ReadField(C, s)]
        live == {s \in Slots : \A n \in 1..Len(s[2]) : s[2][n] \in value[SequenceAround(s, n)]}
        read == {s \in live : Reads(C, s, value[s])}
    IN  CompleteRequiredMembers(Restrict(value, read), live)

--------------------------------------------------------------------------
(* Writing a document.                                                    *)

\* Null and absence are one state of an optional field.
WithoutNullOptionals(doc) == Drop(doc, {s \in DOMAIN doc : ~Required(s) /\ doc[s] = Null})

\* A required field must hold a value, an optional one may be absent or null.  A
\* value that is offered is one its field's codec accepts.
ValidateDeclaredValue(slot, v) == Required(slot) => v \notin {None, Null}

\* The fields of every record of every sequence.
ValidateSequence(doc) ==
    \A s \in Slots : s[2] # <<>> /\ RecordsIn(doc, s) => ValidateDeclaredValue(s, At(doc, s))

ValidateDocument(doc) ==
    /\ \A s \in Slots : s[2] = <<>> => ValidateDeclaredValue(s, At(doc, s))
    /\ ValidateSequence(doc)

\* One register is written.
Single(place, v) == [p \in {place} |-> v]
NoEffect == [sets |-> <<>>, adds |-> {}, dels |-> {}]

\* Rewrites a list or text to `next` as the difference from what it holds;
\* `moved` entries keep their value and lose their element.
WriteElements(C, slot, next, moved) ==
    LET name(e) == IF Kind(slot) = "text" THEN e.by ELSE e.entry
        current == Elements(C, slot)
        kept == {n \in next : \E e \in current : name(e) = n} \ moved
        element(n) == CHOOSE e \in current : name(e) = n
        keeps == {element(n) : n \in kept}
    IN  [sets |-> <<>>,
         adds |-> {<<slot, IF Kind(slot) = "text" THEN "" ELSE n>> : n \in next \ kept},
         dels |-> current \ keeps]

\* Mutant: an absent value leaves the key as it was.
WriteScalarPresent(slot, next) ==
    IF next = None THEN NoEffect ELSE [NoEffect EXCEPT !.sets = Single(<<slot, "value">>, next)]

WriteScalar(slot, next) ==
    LET v == IF next = "" /\ Plan[slot[1]].codec = "optionalString" THEN None ELSE next
    IN  [NoEffect EXCEPT !.sets = Single(<<slot, "value">>, v)]

\* A map is written key by key against the value it had before.
WriteMap(C, slot, previous, next) ==
    LET was == IF previous = None THEN <<>> ELSE previous
        cleared == IF next = None THEN DOMAIN MapAt(C, slot) ELSE DOMAIN was \ DOMAIN next
        written == IF next = None THEN {}
                   ELSE {k \in DOMAIN next : k \notin DOMAIN was \/ was[k] # next[k]}
    IN  [NoEffect EXCEPT !.sets =
            [p \in {<<slot, k>> : k \in cleared \cup written} \cup {<<slot, "present">>} |->
                IF p[2] = "present" THEN (IF next = None THEN None ELSE "true")
                ELSE IF p[2] \in written THEN next[p[2]] ELSE None]]

WriteFieldIfChanged(C, slot, previous, next) ==
    IF previous = next THEN NoEffect
    ELSE CASE Kind(slot) = "scalar" -> WriteScalar(slot, next)
           [] Kind(slot) = "map" -> WriteMap(C, slot, previous, next)
           [] OTHER -> WriteElements(C, slot, IF next = None THEN {} ELSE next, {})

\* A sequence marks itself present, then rewrites its order when it changed.
WriteSequence(C, slot, previous, next, moved) ==
    LET was == IF previous = None THEN {} ELSE previous
        now == IF next = None THEN {} ELSE next
        mark == IF next # None \/ Required(slot) THEN "true" ELSE None
        order == IF was = now /\ moved = {} THEN NoEffect ELSE WriteElements(C, slot, now, moved)
    IN  [order EXCEPT !.sets =
            IF Register(C, <<slot, "present">>) = mark THEN <<>> ELSE Single(<<slot, "present">>, mark)]

\* An optional structured list has no way to be written as absent.
Unwritable(slot, previous, next) ==
    Kind(slot) = "structuredList" /\ previous # next /\ next = None

Index(f) == CHOOSE n \in DOMAIN PlanOrder : PlanOrder[n] = f

\* The document's own fields are written first, in the plan's order, then its
\* sequences with their items.  Every slot before the first that cannot be
\* written is written.
WrittenBefore(slot, failing) ==
    \A s \in failing :
        Depth(slot[1]) = 0 /\ Kind(slot) # "sequence" /\ Index(slot[1]) < Index(s[1])

\* The change that writes `next` over `previous`, and whether the writing finished.
WriteDocumentChanges(C, previous, next, moved, id) ==
    LET live == {s \in Slots : RecordsIn(next, s)}
        failing == {s \in live : Unwritable(s, At(previous, s), At(next, s))}
        \* A record new to the document is written against nothing.
        was(s) == IF RecordsIn(previous, s) THEN At(previous, s) ELSE None
        written == {s \in live : WrittenBefore(s, failing)}
        effect == [s \in written |->
            IF Kind(s) = "sequence"
            THEN WriteSequence(C, s, was(s), At(next, s), IF s = moved[1] THEN {moved[2]} ELSE {})
            ELSE WriteFieldIfChanged(C, s, was(s), At(next, s))]
        sets == UNION {{<<p, effect[s].sets[p]>> : p \in DOMAIN effect[s].sets} : s \in written}
    IN  [change |-> [id |-> id, deps |-> IdsOf(C),
                     at |-> 1 + Max({0} \cup {c.at : c \in C}),
                     sets |-> [p \in {q[1] : q \in sets} |-> (CHOOSE q \in sets : q[1] = p)[2]],
                     adds |-> UNION {effect[s].adds : s \in written},
                     dels |-> UNION {effect[s].dels : s \in written}],
         whole |-> failing = {}]

Writes(change) == change.sets # <<>> \/ change.adds # {} \/ change.dels # {}

--------------------------------------------------------------------------
(* The conflict policy of a field.                                        *)

\* The policy that replaces a field's own for one kind of writer, or None.
WriterConflict(f, kind) == IF kind \in DOMAIN Plan[f].writers THEN Plan[f].writers[kind] ELSE None
ConflictFor(f, kind) ==
    IF WriterConflict(f, kind) # None THEN WriterConflict(f, kind) ELSE Plan[f].conflict

\* What a field holds at a slot; for a sequence, its items and all they hold.
FieldValue(doc, slot) ==
    IF Kind(slot) = "sequence" /\ slot \in DOMAIN doc
    THEN Restrict(doc, {slot} \cup {s \in DOMAIN doc : \E id \in Ids : LiesIn(s, slot, id)})
    ELSE At(doc, slot)

\* The slots an edit changes against the policy of their field.
JudgedFieldPaths(from, client, current, policy) ==
    {s \in Slots :
        LET b == FieldValue(from, s)
            c == FieldValue(client, s)
            a == FieldValue(current, s)
        IN  \/ policy[s[1]] = "immutable" /\ c # b
            \/ policy[s[1]] = "explicit" /\ c # b /\ a # b /\ c # a}

\* Mutant: the edits accepted meanwhile are not looked at.
ConflictingWithBase(from, client, current, kind) ==
    JudgedFieldPaths(from, client, from, [f \in Fields |-> ConflictFor(f, kind)])

ConflictingFieldPaths(from, client, current, kind) ==
    JudgedFieldPaths(from, client, current, [f \in Fields |-> ConflictFor(f, kind)])

CreationConflictingFieldPaths(created, kind) ==
    JudgedFieldPaths(<<>>, created, <<>>, [f \in Fields |-> WriterConflict(f, kind)])

--------------------------------------------------------------------------
(* Updates.                                                               *)

\* The changes a peer lacks that holds `version`: of each peer, those beyond its counter.
SinceVersion(C, version) ==
    {c \in C : PeerOf(c) \notin DOMAIN version \/ c.id[3] > version[PeerOf(c)]}

\* Mutant: a history built apart is taken.
AnyHistory(C, update) == Closed(C \cup update)

\* An update that holds a root the replica lacks was built apart from it.
RelatedHistory(C, update) == \A c \in update : c.deps = {} => c.id \in IdsOf(C)

--------------------------------------------------------------------------
(* The documents a writer may ask for, and what they read back as.        *)

\* The values an edit may give a slot, beside leaving it out.
Offered(slot, held, id) ==
    LET values == Plan[slot[1]].values IN
    CASE Kind(slot) = "scalar" -> values \cup {Null}
      [] Kind(slot) = "text" -> {{}, held \cup {id}}
      [] Kind(slot) \in {"list", "structuredList"} -> SUBSET values
      [] Kind(slot) = "map" -> UNION {[K -> values] : K \in SUBSET Keys}
      [] Kind(slot) = "sequence" -> IF held = {} THEN {{}} ELSE {}

\* Fields of a new record, each given some value.
Filled(doc, seq, i, id) ==
    LET new == {t \in Slots : Kind(t) \in {"scalar", "text"} /\ LiesIn(t, seq, i) /\ Len(t[2]) = Len(seq[2]) + 1}
    IN  [t \in DOMAIN doc \cup new |->
            IF t \notin new THEN doc[t] ELSE IF Kind(t) = "text" THEN {id} ELSE CHOOSE v \in Plan[t[1]].values : v # ""]

\* The documents one member away from `doc` that a writer may ask for.
Modified(doc, id) ==
    LET live == {s \in Slots : RecordsIn(doc, s)}
        sequences == {s \in live : Kind(s) = "sequence"}
        held(s) == IF s \in DOMAIN doc THEN doc[s] ELSE {}
        under(s, i) == {t \in DOMAIN doc : LiesIn(t, s, i)}
        changed == UNION {{With(doc, s, v) : v \in Offered(s, held(s), id) \cup {None}} :
                             s \in {t \in live : Kind(t) = "sequence" => held(t) = {}}}
        added == UNION {UNION {{With(d, s, held(s) \cup {i}) : d \in {doc, Filled(doc, s, i, id)}} :
                             i \in Ids \ held(s)} : s \in sequences}
        removed == UNION {{With(Drop(doc, under(s, i)), s, held(s) \ {i}) : i \in held(s)} : s \in sequences}
    IN  changed \cup added \cup removed

\* An item whose place in its sequence the edit changes, or none of them.
Moves(doc) ==
    {<<None, None>>} \cup UNION {{<<s, i>> : i \in doc[s]} :
        s \in {t \in DOMAIN doc : Kind(t) = "sequence" /\ Cardinality(doc[t]) > 1}}

\* What an empty optional value, and a member its parent requires, read back as.
Normal(doc) ==
    LET kept == {s \in DOMAIN doc : Required(s) \/ Kind(s) \in {"map", "sequence"} \/ doc[s] # EmptyOf(Kind(s))}
        live == {s \in Slots : RecordsIn(doc, s)}
    IN  CompleteRequiredMembers(Restrict(doc, kept), live)

\* An identity was given to a new record after another of it was removed.
Recreated(C, slot) ==
    \E n \in 1..Len(slot[2]) : \E c \in C : \E d \in C :
        LET add == <<SequenceAround(slot, n), slot[2][n]>> IN
        /\ add \in c.adds /\ add \in d.adds /\ c.id \in d.deps
        /\ ~ \E e \in d.dels : <<e.slot, e.entry>> = add

=============================================================================
