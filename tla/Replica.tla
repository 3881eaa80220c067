------------------------------ MODULE Replica ------------------------------
(***************************************************************************)
(* Writers with a replica of one document each, and the store they         *)
(* exchange changes with: crates/clerkenwell-doc's CollaborationReplica as *)
(* its callers use it.  Edits made apart merge; the policy of each field   *)
(* judges an edit against the ones accepted since its base; text prepared  *)
(* at a captured frontier is published later.                              *)
(***************************************************************************)
EXTENDS Documents

CONSTANTS
    Writers,     \* writers with a replica each; Loro orders peers by their numbers
    KindOf,      \* the kind of actor each writer is
    EditSize,    \* bound: members one edit changes
    MaxEdits,    \* bound: edits made and text operations prepared
    MaxPrepared  \* bound: text operations prepared at a captured frontier

ASSUME PlanAssumption ==
    /\ Range(PlanOrder) = Fields
    /\ \A f \in Fields :
        /\ Plan[f].kind \in {"scalar", "text", "list", "structuredList", "map", "sequence"}
        /\ Plan[f].codec \in {"string", "optionalString", "other"}
        /\ Plan[f].conflict \in {"explicit", "immutable", "merge", "lastWriterWins"}
        /\ {Plan[f].required, Plan[f].requiredInParent} \subseteq BOOLEAN
        /\ Plan[f].within \in Seq(Fields)
        \* Structured lists belong to the document itself.
        /\ Plan[f].kind = "structuredList" => Depth(f) = 0
\* The mark that a map is present, in a container of its own, is no key's.
ASSUME KeysAssumption == "present" \notin Keys
ASSUME BoundsAssumption == {EditSize, MaxEdits, MaxPrepared} \subseteq Nat
ASSUME WritersAssumption == Writers \subseteq Nat \ {0} /\ IsFiniteSet(Writers)

VARIABLES
    accepted,  \* the changes the store has accepted
    replica,   \* each writer's replica: its changes and the document its next edit is written against
    base,      \* the version of the accepted document each writer's update is made from
    peer,      \* the number of the peer each writer writes under
    edits,     \* the number of edits made
    prepared,  \* text operations prepared and not yet published
    published  \* the number of text operations prepared so far

vars == <<accepted, replica, base, peer, edits, prepared, published>>

--------------------------------------------------------------------------
(* Exchanging changes.                                                    *)

Update(w) == replica[w].changes \ Forked(accepted, base[w])

\* Adopting leaves no document to write against: the next edit reads it anew.
Adopted(r, update) ==
    IF RelatedHistory(r.changes, update) /\ Closed(r.changes \cup update)
    THEN [changes |-> r.changes \cup update, baseline |-> None]
    ELSE r

NoReplica == [changes |-> {}, baseline |-> None]
FromUpdate(C) == [changes |-> C, baseline |-> Materialized(C)]
NextId(w) == <<w, peer[w], Cardinality({c \in replica[w].changes : PeerOf(c) = <<w, peer[w]>>})>>
Baseline(r) == IF r.baseline = None THEN Materialized(r.changes) ELSE r.baseline

Init ==
    /\ accepted = {}
    /\ replica = [w \in Writers |-> NoReplica]
    /\ base = [w \in Writers |-> {}]
    /\ peer = [w \in Writers |-> 1]
    /\ edits = 0
    /\ prepared = {}
    /\ published = 0

Requested(doc, id) ==
    LET one == Modified(doc, id)
    IN  IF EditSize < 2 THEN one ELSE one \cup UNION {Modified(d, id) : d \in one}

\* A document of what is required, and nothing more.
First == [s \in {t \in Slots : Depth(t[1]) = 0 /\ Required(t)} |->
    IF Kind(s) = "scalar" THEN CHOOSE v \in Plan[s[1]].values : v # "" ELSE EmptyOf(Kind(s))]

\* A replica of a document its writer begins, knowing of no other.
NewDocument(w) ==
    /\ replica[w] = NoReplica
    /\ edits + published < MaxEdits
    /\ \E d \in {First} \cup Modified(First, NextId(w)) :
            LET document == WithoutNullOptionals(d) IN
            /\ ValidateDocument(document)
            /\ replica' = [replica EXCEPT ![w] =
                    [changes |-> {WriteDocumentChanges({}, <<>>, document, <<None, None>>, NextId(w)).change},
                     baseline |-> document]]
    /\ edits' = edits + 1
    /\ UNCHANGED <<accepted, base, peer, prepared, published>>

\* replace_document: the edit is written against the baseline, which is lost
\* when the edit is refused.
ReplaceDocument(w) ==
    LET r == replica[w]
        held == Baseline(r)
        id == NextId(w)
    IN
    /\ r # NoReplica
    /\ edits + published < MaxEdits
    /\ \E d \in Requested(held, id) \ {held} : \E move \in Moves(held) :
        LET document == WithoutNullOptionals(d)
            written == WriteDocumentChanges(r.changes, held, document, move, id)
            changes == r.changes \cup IF Writes(written.change) THEN {written.change} ELSE {}
        IN
        \* What is moved is kept.
        /\ move[1] # None => move[2] \in At(document, move[1])
        /\ IF ~ValidateDocument(document)
           THEN replica' = [replica EXCEPT ![w].baseline = None]
           ELSE replica' = [replica EXCEPT ![w] =
                    [changes |-> changes, baseline |-> IF written.whole THEN document ELSE None]]
    /\ edits' = edits + 1
    /\ UNCHANGED <<accepted, base, peer, prepared, published>>

\* The store judges an update against what it has accepted since its base.
Judged(w) ==
    LET before == Materialized(Forked(accepted, base[w]))
        client == Materialized(Forked(accepted, base[w]) \cup Update(w))
    IN  IF accepted = {}
        THEN CreationConflictingFieldPaths(client, KindOf[w])
        ELSE ConflictingFieldPaths(before, client, Materialized(accepted), KindOf[w])

\* An accepted update is answered with the changes its writer lacks.
Accept(w) ==
    LET known == VersionOf(Forked(accepted, base[w]) \cup Update(w))
        missing == SinceVersion(accepted, known)
    IN
    /\ Update(w) # {}
    /\ accepted # {} => RelatedHistory(accepted, Update(w))
    /\ Judged(w) = {}
    /\ accepted' = accepted \cup Update(w)
    /\ replica' = [replica EXCEPT ![w] = IF missing = {} THEN @ ELSE Adopted(@, missing)]
    /\ base' = [base EXCEPT ![w] = IdsOf(accepted')]
    /\ UNCHANGED <<peer, edits, prepared, published>>

\* A refused writer starts over from the accepted document, under a new peer.
Refuse(w) ==
    /\ Update(w) # {}
    /\ \/ accepted # {} /\ ~RelatedHistory(accepted, Update(w))
       \/ Judged(w) # {}
    /\ replica' = [replica EXCEPT ![w] = IF accepted = {} THEN NoReplica ELSE FromUpdate(accepted)]
    /\ base' = [base EXCEPT ![w] = IdsOf(accepted)]
    /\ peer' = [peer EXCEPT ![w] = @ + 1]
    /\ UNCHANGED <<accepted, edits, prepared, published>>

\* A writer takes the accepted changes beyond the version it holds.
Follow(w) ==
    LET held == replica[w].changes
        since == SinceVersion(accepted, VersionOf(held))
    IN
    /\ accepted # {} /\ base[w] # IdsOf(accepted)
    /\ held # {} => RelatedHistory(held, since)
    /\ replica' = [replica EXCEPT ![w] = IF held = {} THEN FromUpdate(accepted) ELSE Adopted(@, since)]
    /\ base' = [base EXCEPT ![w] = IdsOf(accepted)]
    /\ UNCHANGED <<accepted, peer, edits, prepared, published>>

\* Mutant: the operation removes what the text holds now.
PrepareTextLive(w) ==
    LET branch == Forked(accepted, base[w])
        id == <<0, published + 1, 0>>
    IN
    /\ published < MaxPrepared /\ edits + published < MaxEdits
    /\ \E s \in {t \in Slots : Kind(t) = "text"} : \E replaces \in BOOLEAN : \E types \in BOOLEAN :
        /\ RecordsIn(Materialized(branch), s) /\ RecordsIn(Materialized(accepted), s)
        /\ branch # {} /\ (replaces \/ types)
        /\ prepared' = prepared \cup {[id |-> id, deps |-> IdsOf(branch),
                at |-> 1 + Max({0} \cup {c.at : c \in branch}), sets |-> <<>>,
                adds |-> IF types THEN {<<s, "">>} ELSE {},
                dels |-> IF replaces THEN Elements(accepted, s) ELSE {}]}
    /\ published' = published + 1
    /\ UNCHANGED <<accepted, replica, base, peer, edits>>

\* A text operation is prepared on a branch at a captured frontier: it removes
\* the captured characters, or only goes before them.  The record must be there
\* at the frontier and now.
PrepareText(w) ==
    LET branch == Forked(accepted, base[w])
        id == <<0, published + 1, 0>>
    IN
    /\ published < MaxPrepared /\ edits + published < MaxEdits
    /\ \E s \in {t \in Slots : Kind(t) = "text"} : \E replaces \in BOOLEAN : \E types \in BOOLEAN :
        /\ RecordsIn(Materialized(branch), s) /\ RecordsIn(Materialized(accepted), s)
        /\ branch # {} /\ (replaces \/ types)
        /\ prepared' = prepared \cup {[id |-> id, deps |-> IdsOf(branch),
                at |-> 1 + Max({0} \cup {c.at : c \in branch}), sets |-> <<>>,
                adds |-> IF types THEN {<<s, "">>} ELSE {},
                dels |-> IF replaces THEN Elements(branch, s) ELSE {}]}
    /\ published' = published + 1
    /\ UNCHANGED <<accepted, replica, base, peer, edits>>

\* The owner of the command publishes what it prepared.
PublishText ==
    \E c \in prepared :
        /\ accepted' = accepted \cup {c}
        /\ prepared' = prepared \ {c}
        /\ UNCHANGED <<replica, base, peer, edits, published>>

Next ==
    \/ \E w \in Writers : NewDocument(w) \/ ReplaceDocument(w) \/ Accept(w) \/ Refuse(w) \/ Follow(w) \/ PrepareText(w)
    \/ PublishText

Spec == Init /\ [][Next]_vars

--------------------------------------------------------------------------
(* Properties.                                                            *)

\* The shape of the state.  Changes are named apart: no two of the accepted ones
\* share a peer and a counter, whichever replica, restart or adoption made them.
TypeOK ==
    /\ \A w \in Writers :
        /\ base[w] \subseteq IdsOf(accepted)
        /\ replica[w].changes = {} => replica[w].baseline = None
        /\ replica[w].baseline # None => DOMAIN replica[w].baseline \subseteq Slots
    /\ IsInjective([c \in accepted |-> c.id])
    /\ peer \in [Writers -> Nat] /\ edits \in 0..MaxEdits /\ published \in 0..MaxPrepared

\* A document written with from_document or replace_document reads back as it was
\* written, up to the empty optional values and required members that the plan
\* restores, though each write only touches what differs from the one before and
\* updates were merged in between.  Left aside: a record removed and made again
\* under its identity, which finds its old containers.
ReadsBack ==
    \A w \in Writers : LET r == replica[w] IN
        r.baseline # None =>
            LET slots == {s \in Slots : ~Recreated(r.changes, s)}
                read == Materialized(r.changes)
                written == Normal(r.baseline)
            IN  \A s \in slots : At(read, s) = At(written, s)

\* require_related_history keeps every history one: what the store and each
\* replica hold has a single root and no change without the ones it follows, and
\* a replica holds all its base version names.
OneHistory ==
    /\ Closed(accepted) /\ Cardinality({c \in accepted : c.deps = {}}) <= 1
    /\ \A w \in Writers : Closed(replica[w].changes) /\ base[w] \subseteq IdsOf(replica[w].changes)

\* Whatever edits are merged, the accepted document still has every value that
\* validate_document required of each of them outside records.
AcceptedValid ==
    LET document == Materialized(accepted) IN
    accepted # {} => \A s \in Slots : Depth(s[1]) = 0 /\ Required(s) => At(document, s) # None

\* An accepted document is whole: its history is one, and it has every value that
\* was required of the document itself, however updates of forks, restarts and
\* adoptions were merged.
AcceptedWhole == OneHistory /\ AcceptedValid

\* Text nobody had seen is never removed: a character accepted is in the text, or
\* a writer who held it removed it.  In particular the text operations prepared
\* at a captured frontier leave alone what was typed after it.
TextKept ==
    \A c \in accepted : \A a \in c.adds : Kind(a[1]) = "text" =>
        LET e == [by |-> c.id, slot |-> a[1], entry |-> ""] IN
        \/ e \in Elements(accepted, a[1])
        \/ \E d \in accepted : e \in d.dels /\ c.id \in d.deps

\* The judgement of conflicting_field_paths is about the merge that follows it: a
\* field under an explicit or immutable policy ends up, in the merged document,
\* with its writer's value when the writer changed it and with the accepted one
\* otherwise.  Left aside: a field unset at the base in a record one side removes,
\* and one that a side set back since the base, or made its record again or moved
\* it.  The judgement sees these as unchanged, and the merge does not.
SetBack(C, slot, before, side) ==
    /\ At(side, slot) = At(before, slot)
    /\ \E c \in C :
        \/ \E place \in DOMAIN c.sets : place[1] = slot
        \/ \E n \in 1..Len(slot[2]) : <<SequenceAround(slot, n), slot[2][n]>> \in c.adds

JudgedMerge ==
    [][\A w \in Writers : accepted # {} /\ Update(w) # {} /\ accepted' = accepted \cup Update(w) =>
        LET before == Materialized(Forked(accepted, base[w]))
            client == Materialized(Forked(accepted, base[w]) \cup Update(w))
            current == Materialized(accepted)
            merged == Materialized(accepted')
            judged == {s \in Slots : ConflictFor(s[1], KindOf[w]) \in {"explicit", "immutable"}}
            since == accepted \ Forked(accepted, base[w])
        IN  \A s \in judged :
                /\ At(before, s) # None \/ (RecordsIn(client, s) /\ RecordsIn(current, s))
                /\ ~SetBack(since, s, before, current) /\ ~SetBack(Update(w), s, before, client)
                => At(merged, s) = At(IF At(client, s) = At(before, s) THEN current ELSE client, s)]_vars
====
