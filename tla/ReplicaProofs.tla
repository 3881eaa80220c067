--------------------------- MODULE ReplicaProofs ---------------------------
(***************************************************************************)
(* For every plan, number of writers, edits and prepared text operations:  *)
(* what the store accepts stays one whole history with every value that    *)
(* was required of its edits, and no text is removed that its remover had  *)
(* not seen, however edits made apart, refusals and new peers, adoptions   *)
(* and text published at an earlier frontier are merged.                   *)
(***************************************************************************)
EXTENDS Replica, FiniteSetTheorems, SequenceTheorems, WellFoundedInduction, TLAPS

Names == Nat \X Nat \X Nat

(* Every change there is: accepted, prepared, or in a replica.             *)
All == accepted \cup prepared \cup UNION {replica[w].changes : w \in Writers}
Own(w) == {c \in replica[w].changes : PeerOf(c) = <<w, peer[w]>>}

(* What a slot that is no scalar may hold.                                 *)
Fits(slot, v) ==
    /\ Kind(slot) = "text" => v \subseteq Names
    /\ Kind(slot) \in {"list", "structuredList"} => v \subseteq Plan[slot[1]].values
    /\ Kind(slot) = "sequence" => v \subseteq Ids
    /\ Kind(slot) = "map" => v \in UNION {[K -> Plan[slot[1]].values] : K \in SUBSET Keys}
DocOK(doc) ==
    /\ doc = [s \in DOMAIN doc |-> doc[s]]
    /\ \A s \in DOMAIN doc : s \in Slots /\ Fits(s, doc[s])

(* The fields every document must have, outside of any sequence.           *)
Musts == {s \in Slots : Depth(s[1]) = 0 /\ Required(s)}

--------------------------------------------------------------------------
(* The inductive invariant.                                               *)

Shaped ==
    /\ replica = [w \in Writers |-> [changes |-> replica[w].changes, baseline |-> replica[w].baseline]]
    /\ base = [w \in Writers |-> base[w]]
    /\ peer \in [Writers -> Nat] /\ edits \in 0..MaxEdits /\ published \in 0..MaxPrepared
    /\ \A w \in Writers :
        /\ replica[w].changes = {} => replica[w].baseline = None
        /\ replica[w].baseline # None => DocOK(replica[w].baseline)

(* Names say who made a change, under which peer and as its which.         *)
Named ==
    \A c \in All :
        /\ c.id \in Names /\ c.id[3] <= edits
        /\ c.at \in Nat /\ c.at <= edits + published
        /\ c.id[1] = 0 => c.id[2] <= published
        /\ c.id[1] # 0 => c.id[1] \in Writers /\ c.id[2] <= peer[c.id[1]]

(* No two changes share a name, nor two of a writer a moment.              *)
Apart ==
    \A c, d \in All :
        /\ c.id = d.id => c = d
        /\ c.id[1] = d.id[1] /\ c.id[1] # 0 /\ c.at = d.at => c = d

(* A change follows all its peer made before it, and where it has any      *)
(* predecessor, a first one.                                               *)
Chained ==
    \A c \in All :
        /\ \A j \in Nat : j < c.id[3] => <<c.id[1], c.id[2], j>> \in c.deps
        /\ c.deps # {} => \E r \in All : r.deps = {} /\ r.id \in c.deps

(* A writer holds all it made, and what it made under its present peer is  *)
(* named by counting; all else it holds is accepted.                       *)
Held ==
    \A w \in Writers :
        /\ \A c \in All : c.id[1] = w => c \in replica[w].changes
        /\ \A c \in replica[w].changes : c \in accepted \/ c.id[1] = w
        /\ IsFiniteSet(Own(w))
        /\ \A n \in Nat : n < Cardinality(Own(w)) <=> \E c \in Own(w) : c.id[3] = n

OneRoot(C) == \A c, d \in C : c.deps = {} /\ d.deps = {} => c = d
Whole ==
    /\ Closed(accepted) /\ OneRoot(accepted)
    /\ \A w \in Writers :
        /\ Closed(replica[w].changes) /\ OneRoot(replica[w].changes)
        /\ base[w] \subseteq IdsOf(accepted) /\ base[w] \subseteq IdsOf(replica[w].changes)
        /\ \A c \in accepted : c.id \in base[w] => c.deps \subseteq base[w]
    /\ \A c \in prepared : c.id[1] = 0 /\ c.deps # {} /\ c.deps \subseteq IdsOf(accepted)

(* What a change may write.                                                *)
Writing(c) ==
    /\ c.id[1] = 0 => c.sets = <<>>
    /\ \A a \in c.adds : Kind(a[1]) = "text" => a[2] = ""
    /\ \A a \in c.adds : Kind(a[1]) # "text" => Fits(a[1], {a[2]})
    /\ \A p \in DOMAIN c.sets :
        Kind(p[1]) = "map" /\ p[2] \in Keys => c.sets[p] \in Plan[p[1][1]].values \cup {None}
    /\ \A e \in c.dels : e.by \in c.deps

Written == \A c \in All : Writing(c)

(* A required field is never written as absent, and is written by a first  *)
(* change.                                                                 *)
Provides(c) ==
    \A s \in Musts : Kind(s) = "scalar" =>
        /\ <<s, "value">> \in DOMAIN c.sets => c.sets[<<s, "value">>] # None
        /\ c.deps = {} => <<s, "value">> \in DOMAIN c.sets
Provided == \A c \in All : Provides(c)

IInv == Shaped /\ Named /\ Apart /\ Chained /\ Held /\ Whole /\ Written


--------------------------------------------------------------------------
(* The greatest of some numbers, and the last write to a register.        *)

LEMMA LeastIsThere ==
    ASSUME NEW S, S \subseteq Nat, S # {}
    PROVE  \E m \in S : \A x \in S : m <= x
<1> DEFINE Less == {pair \in Nat \X Nat : pair[1] < pair[2]}
<1>1. IsWellFoundedOn(Less, Nat)
    BY NatLessThanWellFounded DEF OpToRel
<1>2. \A x, y \in Nat : y < x => <<y, x>> \in Less
    OBVIOUS
<1> HIDE DEF Less
<1>3. PICK m \in S : \A y \in S : ~(<<y, m>> \in Less)
    BY <1>1, WFMin
<1>4. ASSUME NEW x \in S PROVE m <= x
    <2>1. m \in Nat /\ x \in Nat
        OBVIOUS
    <2>2. ~(x < m)
        BY <1>2, <1>3, <2>1
    <2> QED BY <2>1, <2>2
<1> QED BY <1>4

LEMMA GreatestIsThere ==
    ASSUME NEW S, S \subseteq Nat, S # {}, NEW b \in Nat, \A x \in S : x <= b
    PROVE  \E m \in S : \A x \in S : x <= m
<1> DEFINE Above == {n \in Nat : \A x \in S : x <= n}
<1>1. Above \subseteq Nat /\ b \in Above
    OBVIOUS
<1>2. PICK m \in Above : \A n \in Above : m <= n
    BY <1>1, LeastIsThere
<1>3. CASE m \in S
    BY <1>2, <1>3
<1>4. CASE m \notin S
    <2>1. PICK x \in S : TRUE
        OBVIOUS
    <2>2. m \in Nat /\ \A y \in S : y \in Nat /\ y <= m /\ y # m
        BY <1>4
    <2>3. m # 0
        BY <2>1, <2>2
    <2>4. m - 1 \in Above
        BY <2>2, <2>3
    <2> QED BY <1>2, <2>2, <2>4
<1> QED BY <1>3, <1>4

(* A version knows of each peer the last change there is.                  *)
LEMMA VersionKnows ==
    ASSUME Shaped, Named, NEW C, C \subseteq All, NEW c \in C
    PROVE  /\ PeerOf(c) \in DOMAIN VersionOf(C)
           /\ \E d \in C : /\ PeerOf(d) = PeerOf(c) /\ VersionOf(C)[PeerOf(c)] = d.id[3]
                           /\ \A e \in C : PeerOf(e) = PeerOf(c) => e.id[3] <= d.id[3]
<1> DEFINE p == PeerOf(c)
           S == {e.id[3] : e \in {d \in C : PeerOf(d) = p}}
           Last(n) == \A e \in C : PeerOf(e) = p => e.id[3] <= n
<1>1. S \subseteq Nat /\ S # {} /\ edits \in Nat /\ \A x \in S : x <= edits
    BY BoundsAssumption DEF Shaped, Named, Names
<1>2. PICK m \in S : \A x \in S : x <= m
    BY <1>1, GreatestIsThere
<1>3. \A e \in C : PeerOf(e) = p => e.id[3] \in S
    OBVIOUS
<1>4. \E n \in S : Last(n)
    BY <1>2, <1>3
<1>5. p \in DOMAIN VersionOf(C) /\ VersionOf(C)[p] = CHOOSE n \in S : Last(n)
    BY DEF VersionOf
<1>6. VersionOf(C)[p] \in S /\ Last(VersionOf(C)[p])
    BY <1>4, <1>5
<1> QED BY <1>5, <1>6


(* A finite set of numbers is bounded: those below its members are finitely *)
(* many, and are the first of the numbers.                                 *)
LEMMA WritersBounded == \E b \in Nat : \A w \in Writers : w <= b
<1> DEFINE below == [w \in Writers |-> 0..w]
           Family == {0..w : w \in Writers}
           T == UNION Family
<1>1. below \in Surjection(Writers, Family)
    BY DEF Surjection
<1>2. IsFiniteSet(Family)
    BY <1>1, WritersAssumption, FS_Surjection
<1>3. \A F \in Family : IsFiniteSet(F)
    BY WritersAssumption, FS_Interval
<1>4. IsFiniteSet(T)
    BY <1>2, <1>3, FS_UNION
<1>5. Cardinality(T) \in Nat
    BY <1>4, FS_CardinalityType
<1>6. ASSUME NEW w \in Writers PROVE w <= Cardinality(T)
    <2>1. w \in Nat /\ 0..w \subseteq T
        BY WritersAssumption
    <2>2. Cardinality(0..w) = IF 0 > w THEN 0 ELSE w - 0 + 1
        BY <2>1, FS_Interval
    <2>3. Cardinality(0..w) <= Cardinality(T)
        BY <1>4, <2>1, FS_Subset
    <2> HIDE DEF T
    <2> QED BY <1>5, <2>1, <2>2, <2>3
<1> QED BY <1>5, <1>6

LEMMA RegisterIsLast ==
    ASSUME Shaped, Named, Apart, Written, NEW C, C \subseteq All, NEW place,
           NEW c \in C, place \in DOMAIN c.sets
    PROVE  \E last \in C :
              /\ place \in DOMAIN last.sets /\ Register(C, place) = last.sets[place]
              /\ \A d \in C : place \in DOMAIN d.sets /\ d # last => Later(last, d)
<1> DEFINE ws == {d \in C : place \in DOMAIN d.sets}
           Final(l) == \A d \in ws \ {l} : Later(l, d)
<1>1. \A d \in ws : /\ d \in All /\ d.at \in Nat /\ d.at <= edits + published
                    /\ d.id \in Names /\ d.id[1] # 0 /\ d.id[1] \in Writers
    <2> TAKE d \in ws
    <2>1. d \in All /\ d.at \in Nat /\ d.at <= edits + published /\ d.id \in Names
        BY DEF Named
    <2>2. d.id[1] # 0
        <3>1. d.id[1] = 0 => d.sets = <<>>
            BY <2>1 DEF Written, Writing
        <3>2. DOMAIN <<>> = {}
            OBVIOUS
        <3> QED BY <3>1, <3>2
    <2> QED BY <2>1, <2>2 DEF Named
<1>2. edits + published \in Nat
    BY BoundsAssumption DEF Shaped
<1>3. PICK m \in {d.at : d \in ws} : \A x \in {d.at : d \in ws} : x <= m
    <2>1. {d.at : d \in ws} \subseteq Nat /\ \A x \in {d.at : d \in ws} : x <= edits + published
        BY <1>1
    <2>2. {d.at : d \in ws} # {}
        OBVIOUS
    <2> QED BY <1>2, <2>1, <2>2, GreatestIsThere
<1> DEFINE top == {d \in ws : d.at = m}
<1>4. PICK n \in {d.id[1] : d \in top} : \A x \in {d.id[1] : d \in top} : x <= n
    <2>1. PICK b \in Nat : \A w \in Writers : w <= b
        BY WritersBounded
    <2>2. /\ {d.id[1] : d \in top} \subseteq Nat
          /\ \A x \in {d.id[1] : d \in top} : x <= b
        BY <1>1, <2>1, WritersAssumption
    <2>3. {d.id[1] : d \in top} # {}
        BY <1>3
    <2> QED BY <2>1, <2>2, <2>3, GreatestIsThere
<1>5. PICK last \in top : last.id[1] = n
    BY <1>4
<1>6. Final(last)
    <2> SUFFICES ASSUME NEW d \in ws \ {last} PROVE Later(last, d)
        OBVIOUS
    <2>1. d.at <= last.at /\ d.at \in Nat /\ last.at \in Nat
        BY <1>1, <1>3, <1>5
    <2>2. CASE d.at = last.at
        <3>1. d.id[1] <= last.id[1] /\ d.id[1] \in Nat /\ last.id[1] \in Nat
            BY <1>1, <1>4, <1>5, <2>2, WritersAssumption
        <3>2. d.id[1] # last.id[1]
            BY <1>1, <1>5, <2>2 DEF Apart
        <3> QED BY <2>2, <3>1, <3>2 DEF Later
    <2> QED BY <2>1, <2>2 DEF Later
<1>7. Register(C, place) = (CHOOSE l \in ws : Final(l)).sets[place]
    BY DEF Register
<1> DEFINE it == CHOOSE l \in ws : Final(l)
<1>8. it \in ws /\ Final(it)
    BY <1>5, <1>6
<1> QED BY <1>7, <1>8

LEMMA RegisterIsNone ==
    ASSUME NEW C, NEW place, \A c \in C : place \notin DOMAIN c.sets
    PROVE  Register(C, place) = None
BY DEF Register


--------------------------------------------------------------------------
(* Slots, and what is read from them.                                     *)

LEMMA SlotShape ==
    ASSUME NEW s \in Slots
    PROVE  /\ s[1] \in Fields /\ Depth(s[1]) \in Nat
           /\ s[2] \in [1..Depth(s[1]) -> Ids]
           /\ Len(s[2]) = Depth(s[1])
<1>1. s[1] \in Fields /\ s[2] \in [1..Depth(s[1]) -> Ids]
    BY DEF Slots
<1>2. Depth(s[1]) \in Nat
    BY <1>1, PlanAssumption, LenProperties DEF Depth
<1>3. s[2] \in Seq(Ids)
    BY <1>1, <1>2, SeqDef
<1>4. Len(s[2]) \in Nat /\ DOMAIN s[2] = 1..Len(s[2])
    BY <1>3, LenProperties
<1> QED BY <1>1, <1>2, <1>4

LEMMA KindsOf ==
    ASSUME NEW s \in Slots
    PROVE  /\ Kind(s) \in {"scalar", "text", "list", "structuredList", "map", "sequence"}
           /\ Required(s) \in BOOLEAN
BY SlotShape, PlanAssumption DEF Kind, Required

LEMMA ElementsAre ==
    ASSUME NEW C, NEW slot, NEW e \in Elements(C, slot)
    PROVE  \E c \in C : \E a \in c.adds :
              /\ a[1] = slot /\ e = [by |-> c.id, slot |-> slot, entry |-> a[2]]
              /\ \A d \in C : e \notin d.dels
BY DEF Elements

LEMMA MapFits ==
    ASSUME Shaped, Named, Apart, Written, NEW C, C \subseteq All, NEW s \in Slots, Kind(s) = "map"
    PROVE  Fits(s, MapAt(C, s))
<1> DEFINE held == {k \in Keys : Register(C, <<s, k>>) # None}
<1>1. MapAt(C, s) = [k \in held |-> Register(C, <<s, k>>)]
    BY DEF MapAt
<1>2. ASSUME NEW k \in held PROVE Register(C, <<s, k>>) \in Plan[s[1]].values
    <2>1. PICK c \in C : <<s, k>> \in DOMAIN c.sets
        BY <1>2, RegisterIsNone
    <2>2. PICK l \in C : <<s, k>> \in DOMAIN l.sets /\ Register(C, <<s, k>>) = l.sets[<<s, k>>]
        BY <2>1, RegisterIsLast
    <2>3. Writing(l) /\ Kind(<<s, k>>[1]) = "map" /\ <<s, k>>[2] \in Keys
        BY DEF Written
    <2>4. l.sets[<<s, k>>] \in Plan[s[1]].values \cup {None}
        BY <2>2, <2>3 DEF Writing
    <2> QED BY <2>2, <2>4
<1>3. MapAt(C, s) \in [held -> Plan[s[1]].values]
    BY <1>1, <1>2
<1> QED BY <1>3 DEF Fits

LEMMA FieldFits ==
    ASSUME Shaped, Named, Apart, Written, NEW C, C \subseteq All, NEW s \in Slots,
           Kind(s) # "map" \/ ReadField(C, s) # None
    PROVE  Fits(s, ReadField(C, s))
<1>1. CASE Kind(s) = "scalar"
    BY <1>1 DEF Fits
<1>2. CASE Kind(s) = "text"
    <2>1. ReadField(C, s) = {e.by : e \in Elements(C, s)}
        BY <1>2 DEF ReadField
    <2>2. \A e \in Elements(C, s) : e.by \in Names
        BY ElementsAre DEF Named
    <2> QED BY <1>2, <2>1, <2>2 DEF Fits
<1>3. CASE Kind(s) \in {"list", "structuredList", "sequence"}
    <2>1. ReadField(C, s) = {e.entry : e \in Elements(C, s)}
        BY <1>3 DEF ReadField
    <2>2. ASSUME NEW e \in Elements(C, s) PROVE Fits(s, {e.entry})
        <3>1. PICK c \in C : \E a \in c.adds :
                  a[1] = s /\ e = [by |-> c.id, slot |-> s, entry |-> a[2]]
            BY ElementsAre
        <3>2. PICK a \in c.adds : a[1] = s /\ e = [by |-> c.id, slot |-> s, entry |-> a[2]]
            BY <3>1
        <3>3. Fits(a[1], {a[2]})
            BY <1>3, <3>2 DEF Written, Writing
        <3> QED BY <3>2, <3>3
    <2> QED BY <1>3, <2>1, <2>2 DEF Fits
<1>4. CASE Kind(s) = "map"
    BY <1>4, MapFits DEF ReadField
<1> QED BY <1>1, <1>2, <1>3, <1>4, KindsOf

LEMMA EmptyFits ==
    ASSUME NEW s \in Slots
    PROVE  Fits(s, EmptyOf(Kind(s)))
<1>1. <<>> \in [{} -> Plan[s[1]].values]
    OBVIOUS
<1> QED BY <1>1, KindsOf DEF Fits, EmptyOf

LEMMA MaterialDoc ==
    ASSUME Shaped, Named, Apart, Written, NEW C, C \subseteq All
    PROVE  DocOK(Materialized(C))
<1> DEFINE value == [s \in Slots |-> ReadField(C, s)]
           live == {s \in Slots : \A n \in 1..Len(s[2]) : s[2][n] \in value[SequenceAround(s, n)]}
           read == {s \in live : Reads(C, s, value[s])}
           doc == Restrict(value, read)
           restored == {s \in live : Completes(doc, s)}
<1>1. Materialized(C) = [s \in DOMAIN doc \cup restored |->
          IF s \in restored THEN EmptyOf(Kind(s)) ELSE doc[s]]
    BY DEF Materialized, CompleteRequiredMembers
<1>2. DOMAIN doc = read /\ \A s \in read : doc[s] = ReadField(C, s)
    BY DEF Restrict
<1>3. \A s \in read : s \in Slots /\ Fits(s, ReadField(C, s))
    <2> TAKE s \in read
    <2>1. s \in Slots /\ ReadField(C, s) # None
        BY DEF Reads
    <2> QED BY <2>1, FieldFits
<1>4. \A s \in restored : s \in Slots /\ Fits(s, EmptyOf(Kind(s)))
    BY EmptyFits
<1> HIDE DEF doc, restored, read
<1> QED BY <1>1, <1>2, <1>3, <1>4 DEF DocOK


(* The values of a plan are told from an absent one.                       *)
NoneApart == \A s \in Slots : Kind(s) # "scalar" => ~Fits(s, None)

(* What a required field outside any record reads as is in the document.   *)
LEMMA MustReads ==
    ASSUME Shaped, Named, Apart, Written, NoneApart, NEW C, C \subseteq All, NEW s \in Musts,
           Kind(s) = "scalar" => Register(C, <<s, "value">>) # None
    PROVE  At(Materialized(C), s) # None
<1> DEFINE value == [t \in Slots |-> ReadField(C, t)]
           live == {t \in Slots : \A n \in 1..Len(t[2]) : t[2][n] \in value[SequenceAround(t, n)]}
           read == {t \in live : Reads(C, t, value[t])}
           doc == Restrict(value, read)
           restored == {t \in live : Completes(doc, t)}
<1>1. Materialized(C) = [t \in DOMAIN doc \cup restored |->
          IF t \in restored THEN EmptyOf(Kind(t)) ELSE doc[t]]
    BY DEF Materialized, CompleteRequiredMembers
<1>2. DOMAIN doc = read /\ \A t \in read : doc[t] = ReadField(C, t)
    BY DEF Restrict
<1>3. s \in Slots /\ Required(s) /\ Len(s[2]) = 0
    BY SlotShape DEF Musts
<1>4. ReadField(C, s) # None
    <2>1. CASE Kind(s) = "scalar"
        BY <2>1 DEF ReadField
    <2>2. CASE Kind(s) = "map"
        BY <1>3, <2>2, MapFits DEF ReadField, NoneApart
    <2>3. CASE Kind(s) \notin {"scalar", "map"}
        BY <1>3, <2>3, FieldFits DEF NoneApart
    <2> QED BY <2>1, <2>2, <2>3
<1>5. s \in live
    BY <1>3
<1>6. s \in read
    BY <1>3, <1>4, <1>5 DEF Reads
<1>7. ~Completes(doc, s)
    BY <1>3 DEF Completes, Required
<1>8. s \in DOMAIN Materialized(C) /\ Materialized(C)[s] = ReadField(C, s)
    <2> HIDE DEF doc, live, read
    <2> QED BY <1>1, <1>2, <1>6, <1>7
<1> QED BY <1>4, <1>8 DEF At


--------------------------------------------------------------------------
(* The documents a writer may ask for.                                    *)

LEMMA DropDoc ==
    ASSUME NEW doc, DocOK(doc), NEW slots
    PROVE  DocOK(Drop(doc, slots))
BY DEF DocOK, Drop, Restrict

LEMMA WithDoc ==
    ASSUME NEW doc, DocOK(doc), NEW s \in Slots, NEW v, v = None \/ Fits(s, v)
    PROVE  DocOK(With(doc, s, v))
<1>1. CASE v = None
    BY <1>1, DropDoc DEF With
<1>2. CASE v # None
    <2>1. With(doc, s, v) = [t \in DOMAIN doc \cup {s} |-> IF t = s THEN v ELSE doc[t]]
        BY <1>2 DEF With
    <2> QED BY <1>2, <2>1 DEF DocOK
<1> QED BY <1>1, <1>2

LEMMA OfferedFits ==
    ASSUME NEW s \in Slots, NEW held, held = {} \/ Fits(s, held), NEW id \in Names,
           NEW v \in Offered(s, held, id)
    PROVE  Fits(s, v)
<1>1. CASE Kind(s) = "scalar"
    BY <1>1 DEF Fits
<1>2. CASE Kind(s) = "text"
    <2>1. v \in {{}, held \cup {id}}
        BY <1>2 DEF Offered
    <2> QED BY <1>2, <2>1 DEF Fits
<1>3. CASE Kind(s) \in {"list", "structuredList"}
    <2>1. v \in SUBSET Plan[s[1]].values
        BY <1>3 DEF Offered
    <2> QED BY <1>3, <2>1 DEF Fits
<1>4. CASE Kind(s) = "map"
    <2>1. v \in UNION {[K -> Plan[s[1]].values] : K \in SUBSET Keys}
        BY <1>4 DEF Offered
    <2> QED BY <1>4, <2>1 DEF Fits
<1>5. CASE Kind(s) = "sequence"
    <2>1. v = {}
        BY <1>5 DEF Offered
    <2> QED BY <1>5, <2>1 DEF Fits
<1> QED BY <1>1, <1>2, <1>3, <1>4, <1>5, KindsOf

LEMMA FilledDoc ==
    ASSUME NEW doc, DocOK(doc), NEW seq, NEW i, NEW id \in Names
    PROVE  DocOK(Filled(doc, seq, i, id))
<1> DEFINE new == {t \in Slots : Kind(t) \in {"scalar", "text"} /\ LiesIn(t, seq, i)
                                 /\ Len(t[2]) = Len(seq[2]) + 1}
           what(t) == IF Kind(t) = "text" THEN {id} ELSE CHOOSE v \in Plan[t[1]].values : v # ""
<1>1. Filled(doc, seq, i, id) = [t \in DOMAIN doc \cup new |-> IF t \notin new THEN doc[t] ELSE what(t)]
    BY DEF Filled
<1>2. \A t \in new : t \in Slots /\ Fits(t, what(t))
    BY DEF Fits
<1> HIDE DEF new, what
<1> QED BY <1>1, <1>2 DEF DocOK

LEMMA ModifiedDoc ==
    ASSUME NEW doc, DocOK(doc), NEW id \in Names, NEW d \in Modified(doc, id)
    PROVE  DocOK(d)
<1> DEFINE live == {s \in Slots : RecordsIn(doc, s)}
           sequences == {s \in live : Kind(s) = "sequence"}
           held(s) == IF s \in DOMAIN doc THEN doc[s] ELSE {}
           under(s, i) == {t \in DOMAIN doc : LiesIn(t, s, i)}
           changed == UNION {{With(doc, s, v) : v \in Offered(s, held(s), id) \cup {None}} :
                                s \in {t \in live : Kind(t) = "sequence" => held(t) = {}}}
           added == UNION {UNION {{With(e, s, held(s) \cup {i}) : e \in {doc, Filled(doc, s, i, id)}} :
                                i \in Ids \ held(s)} : s \in sequences}
           removed == UNION {{With(Drop(doc, under(s, i)), s, held(s) \ {i}) : i \in held(s)} :
                                s \in sequences}
<1>1. d \in changed \cup added \cup removed
    BY DEF Modified
<1>2. \A s \in Slots : held(s) = {} \/ Fits(s, held(s))
    BY DEF DocOK
<1>3. ASSUME d \in changed PROVE DocOK(d)
    <2>1. PICK s \in live : \E v \in Offered(s, held(s), id) \cup {None} : d = With(doc, s, v)
        BY <1>3
    <2>2. PICK v \in Offered(s, held(s), id) \cup {None} : d = With(doc, s, v)
        BY <2>1
    <2>3. v = None \/ Fits(s, v)
        BY <1>2, <2>2, OfferedFits
    <2> QED BY <2>2, <2>3, WithDoc
<1>4. ASSUME d \in added PROVE DocOK(d)
    <2>1. PICK s \in sequences, i \in Ids : d \in {With(e, s, held(s) \cup {i}) : e \in {doc, Filled(doc, s, i, id)}}
        BY <1>4
    <2>2. Fits(s, held(s) \cup {i})
        BY <1>2, <2>1 DEF Fits
    <2> QED BY <2>1, <2>2, WithDoc, FilledDoc
<1>5. ASSUME d \in removed PROVE DocOK(d)
    <2>1. PICK s \in sequences : \E i \in held(s) : d = With(Drop(doc, under(s, i)), s, held(s) \ {i})
        BY <1>5
    <2>2. PICK i \in held(s) : d = With(Drop(doc, under(s, i)), s, held(s) \ {i})
        BY <2>1
    <2>3. Fits(s, held(s) \ {i})
        BY <1>2, <2>1 DEF Fits
    <2> QED BY <2>1, <2>2, <2>3, WithDoc, DropDoc
<1> QED BY <1>1, <1>3, <1>4, <1>5

LEMMA RequestedDoc ==
    ASSUME NEW doc, DocOK(doc), NEW id \in Names, NEW d \in Requested(doc, id)
    PROVE  DocOK(d)
<1> DEFINE one == Modified(doc, id)
<1>1. d \in one \/ \E e \in one : d \in Modified(e, id)
    BY DEF Requested
<1> QED BY <1>1, ModifiedDoc

LEMMA FirstDoc == DocOK(First)
<1>1. ASSUME NEW s \in DOMAIN First PROVE s \in Slots /\ Fits(s, First[s])
    <2>1. s \in Slots
        BY DEF First
    <2>2. CASE Kind(s) = "scalar"
        BY <2>1, <2>2 DEF Fits
    <2>3. CASE Kind(s) # "scalar"
        <3>1. First[s] = EmptyOf(Kind(s))
            BY <2>3 DEF First
        <3> QED BY <2>1, <3>1, EmptyFits
    <2> QED BY <2>1, <2>2, <2>3
<1>2. First = [s \in DOMAIN First |-> First[s]]
    BY DEF First
<1> QED BY <1>1, <1>2 DEF DocOK


--------------------------------------------------------------------------
(* What writing a document writes.                                        *)

(* A slot's part of a change: its own registers and elements.              *)
Effect(C, s, effect) ==
    /\ \A p \in DOMAIN effect.sets :
        /\ p[1] = s
        /\ Kind(s) = "map" /\ p[2] \in Keys => effect.sets[p] \in Plan[s[1]].values \cup {None}
    /\ \A a \in effect.adds :
        /\ a[1] = s
        /\ IF Kind(s) = "text" THEN a[2] = "" ELSE Fits(s, {a[2]})
    /\ effect.dels \subseteq Elements(C, s)

LEMMA NothingDone ==
    ASSUME NEW C, NEW s
    PROVE  Effect(C, s, NoEffect)
<1>1. DOMAIN NoEffect.sets = {} /\ NoEffect.adds = {} /\ NoEffect.dels = {}
    BY DEF NoEffect
<1> QED BY <1>1 DEF Effect

LEMMA ElementsEffect ==
    ASSUME NEW C, NEW s \in Slots, Kind(s) \in {"text", "list", "structuredList", "sequence"},
           NEW next, Fits(s, next), NEW moved
    PROVE  /\ Effect(C, s, WriteElements(C, s, next, moved))
           /\ WriteElements(C, s, next, moved).sets = <<>>
<1> DEFINE it == WriteElements(C, s, next, moved)
<1>1. it.sets = <<>> /\ DOMAIN it.sets = {}
    BY DEF WriteElements
<1>2. \A a \in it.adds : \E n \in next : a = <<s, IF Kind(s) = "text" THEN "" ELSE n>>
    BY DEF WriteElements
<1>3. it.dels \subseteq Elements(C, s)
    BY DEF WriteElements
<1>4. ASSUME NEW n \in next, Kind(s) # "text" PROVE Fits(s, {n})
    BY <1>4 DEF Fits
<1>5. ASSUME NEW a \in it.adds
      PROVE  a[1] = s /\ IF Kind(s) = "text" THEN a[2] = "" ELSE Fits(s, {a[2]})
    <2>1. PICK n \in next : a = <<s, IF Kind(s) = "text" THEN "" ELSE n>>
        BY <1>2
    <2>2. a[1] = s /\ a[2] = IF Kind(s) = "text" THEN "" ELSE n
        BY <2>1
    <2> QED BY <1>4, <2>2
<1> QED BY <1>1, <1>3, <1>5 DEF Effect

LEMMA ScalarEffect ==
    ASSUME NEW C, NEW s \in Slots, Kind(s) = "scalar", NEW next
    PROVE  /\ Effect(C, s, WriteScalar(s, next))
           /\ DOMAIN WriteScalar(s, next).sets = {<<s, "value">>}
           /\ Plan[s[1]].codec # "optionalString" => WriteScalar(s, next).sets[<<s, "value">>] = next
<1> DEFINE v == IF next = "" /\ Plan[s[1]].codec = "optionalString" THEN None ELSE next
<1>1. WriteScalar(s, next).sets = [x \in {<<s, "value">>} |-> v]
    BY DEF WriteScalar, NoEffect, Single
<1>2. WriteScalar(s, next).adds = {} /\ WriteScalar(s, next).dels = {}
    BY DEF WriteScalar, NoEffect
<1>3. DOMAIN WriteScalar(s, next).sets = {<<s, "value">>}
    BY <1>1
<1>4. Effect(C, s, WriteScalar(s, next))
    <2>1. \A p \in DOMAIN WriteScalar(s, next).sets : p[1] = s
        BY <1>3
    <2> QED BY <1>2, <2>1 DEF Effect
<1>5. WriteScalar(s, next).sets[<<s, "value">>] = v
    BY <1>1
<1> QED BY <1>3, <1>4, <1>5

LEMMA MapEffect ==
    ASSUME NEW C, NEW s \in Slots, Kind(s) = "map", NEW previous, NEW next,
           next = None \/ Fits(s, next)
    PROVE  Effect(C, s, WriteMap(C, s, previous, next))
<1> DEFINE was == IF previous = None THEN <<>> ELSE previous
           cleared == IF next = None THEN DOMAIN MapAt(C, s) ELSE DOMAIN was \ DOMAIN next
           written == IF next = None THEN {}
                      ELSE {k \in DOMAIN next : k \notin DOMAIN was \/ was[k] # next[k]}
           it == WriteMap(C, s, previous, next)
<1>1. it.sets = [p \in {<<s, k>> : k \in cleared \cup written} \cup {<<s, "present">>} |->
                    IF p[2] = "present" THEN (IF next = None THEN None ELSE "true")
                    ELSE IF p[2] \in written THEN next[p[2]] ELSE None]
    BY DEF WriteMap, NoEffect
<1>2. it.adds = {} /\ it.dels = {}
    BY DEF WriteMap, NoEffect
<1>3. ASSUME NEW k \in written PROVE next[k] \in Plan[s[1]].values
    <2>1. next # None /\ k \in DOMAIN next
        BY <1>3
    <2>2. PICK K \in SUBSET Keys : next \in [K -> Plan[s[1]].values]
        BY <2>1 DEF Fits
    <2> QED BY <2>1, <2>2
<1>4. ASSUME NEW p \in DOMAIN it.sets
      PROVE  /\ p[1] = s
             /\ p[2] \in Keys => it.sets[p] \in Plan[s[1]].values \cup {None}
    <2> HIDE DEF written, cleared
    <2>1. p[1] = s
        BY <1>1
    <2>2. ASSUME p[2] \in Keys PROVE it.sets[p] \in Plan[s[1]].values \cup {None}
        <3>1. it.sets[p] = IF p[2] \in written THEN next[p[2]] ELSE None
            BY <1>1, <2>2, KeysAssumption
        <3> QED BY <1>3, <3>1
    <2> QED BY <2>1, <2>2
<1> QED BY <1>2, <1>4 DEF Effect

LEMMA SequenceEffect ==
    ASSUME NEW C, NEW s \in Slots, Kind(s) = "sequence", NEW previous, NEW next,
           next = None \/ Fits(s, next), NEW moved
    PROVE  Effect(C, s, WriteSequence(C, s, previous, next, moved))
<1> DEFINE was == IF previous = None THEN {} ELSE previous
           now == IF next = None THEN {} ELSE next
           mark == IF next # None \/ Required(s) THEN "true" ELSE None
           order == IF was = now /\ moved = {} THEN NoEffect ELSE WriteElements(C, s, now, moved)
           it == WriteSequence(C, s, previous, next, moved)
<1>1. it = [order EXCEPT !.sets =
                IF Register(C, <<s, "present">>) = mark THEN <<>> ELSE Single(<<s, "present">>, mark)]
    BY DEF WriteSequence
<1>2. Fits(s, now)
    BY DEF Fits
<1>3. Effect(C, s, order)
    BY <1>2, NothingDone, ElementsEffect
<1>4. DOMAIN order = {"sets", "adds", "dels"}
    BY DEF NoEffect, WriteElements
<1> HIDE DEF order
<1>5. it.adds = order.adds /\ it.dels = order.dels
    BY <1>1, <1>4
<1>6. it.sets = IF Register(C, <<s, "present">>) = mark THEN <<>> ELSE Single(<<s, "present">>, mark)
    BY <1>1, <1>4
<1>7. \A p \in DOMAIN it.sets : p[1] = s
    <2>1. DOMAIN Single(<<s, "present">>, mark) = {<<s, "present">>} /\ DOMAIN <<>> = {}
        BY DEF Single
    <2> HIDE DEF it
    <2> QED BY <1>6, <2>1
<1> QED BY <1>3, <1>5, <1>7 DEF Effect


LEMMA FieldEffect ==
    ASSUME NEW C, NEW s \in Slots, Kind(s) # "sequence", NEW previous, NEW next,
           next = None \/ Fits(s, next)
    PROVE  Effect(C, s, WriteFieldIfChanged(C, s, previous, next))
<1>1. CASE previous = next
    BY <1>1, NothingDone DEF WriteFieldIfChanged
<1>2. CASE previous # next /\ Kind(s) = "scalar"
    BY <1>2, ScalarEffect DEF WriteFieldIfChanged
<1>3. CASE previous # next /\ Kind(s) = "map"
    BY <1>3, MapEffect DEF WriteFieldIfChanged
<1>4. CASE previous # next /\ Kind(s) \in {"text", "list", "structuredList"}
    <2>1. WriteFieldIfChanged(C, s, previous, next)
              = WriteElements(C, s, IF next = None THEN {} ELSE next, {})
        BY <1>4 DEF WriteFieldIfChanged
    <2>2. Fits(s, IF next = None THEN {} ELSE next)
        BY <1>4 DEF Fits
    <2> QED BY <1>4, <2>1, <2>2, ElementsEffect
<1> QED BY <1>1, <1>2, <1>3, <1>4, KindsOf

(* What is said of a change that writes a document, given the document it  *)
(* writes: each place it writes is some slot's, as that slot's effect says. *)
WrittenBy(C, previous, next, moved, s) ==
    LET was == IF RecordsIn(previous, s) THEN At(previous, s) ELSE None
    IN  IF Kind(s) = "sequence"
        THEN WriteSequence(C, s, was, At(next, s), IF s = moved[1] THEN {moved[2]} ELSE {})
        ELSE WriteFieldIfChanged(C, s, was, At(next, s))

Failing(previous, next) ==
    {s \in {t \in Slots : RecordsIn(next, t)} : Unwritable(s, At(previous, s), At(next, s))}
WrittenSlots(previous, next) ==
    {s \in {t \in Slots : RecordsIn(next, t)} : WrittenBefore(s, Failing(previous, next))}

LEMMA SlotEffect ==
    ASSUME NEW C, NEW previous, NEW next, DocOK(next), NEW moved, NEW s \in Slots
    PROVE  Effect(C, s, WrittenBy(C, previous, next, moved, s))
<1>1. At(next, s) = None \/ Fits(s, At(next, s))
    BY DEF At, DocOK
<1>2. CASE Kind(s) = "sequence"
    BY <1>1, <1>2, SequenceEffect DEF WrittenBy
<1>3. CASE Kind(s) # "sequence"
    BY <1>1, <1>3, FieldEffect DEF WrittenBy
<1> QED BY <1>2, <1>3

Assembled(C, previous, next, moved, c) ==
    LET slots == WrittenSlots(previous, next)
        by == [s \in slots |-> WrittenBy(C, previous, next, moved, s)]
    IN  /\ \A p \in DOMAIN c.sets : \E s \in slots :
              p[1] = s /\ p \in DOMAIN by[s].sets /\ c.sets[p] = by[s].sets[p]
        /\ \A s \in slots : \A p \in DOMAIN by[s].sets :
              p \in DOMAIN c.sets /\ c.sets[p] = by[s].sets[p]
        /\ \A a \in c.adds : \E s \in slots : a \in by[s].adds
        /\ \A e \in c.dels : \E s \in slots : e \in by[s].dels

LEMMA ChangeIs ==
    ASSUME NEW C, NEW previous, NEW next, DocOK(next), NEW moved, NEW id
    PROVE  LET written == WriteDocumentChanges(C, previous, next, moved, id)
               c == written.change
           IN  /\ c.id = id /\ c.deps = IdsOf(C)
               /\ Assembled(C, previous, next, moved, c)
               /\ written.whole = (Failing(previous, next) = {})
<1> DEFINE written == WriteDocumentChanges(C, previous, next, moved, id)
           slots == WrittenSlots(previous, next)
           by(s) == WrittenBy(C, previous, next, moved, s)
           c == written.change
           effect == [s \in slots |-> by(s)]
           sets == UNION {{<<p, effect[s].sets[p]>> : p \in DOMAIN effect[s].sets} : s \in slots}
           places == {q[1] : q \in sets}
<1>1. written = [change |-> [id |-> id, deps |-> IdsOf(C),
                     at |-> 1 + Max({0} \cup {d.at : d \in C}),
                     sets |-> [p \in places |-> (CHOOSE q \in sets : q[1] = p)[2]],
                     adds |-> UNION {effect[s].adds : s \in slots},
                     dels |-> UNION {effect[s].dels : s \in slots}],
                 whole |-> Failing(previous, next) = {}]
    BY DEF WriteDocumentChanges, WrittenSlots, Failing, WrittenBy
<1>2. \A s \in slots : s \in Slots /\ effect[s] = by(s)
    BY DEF WrittenSlots
<1>3. ASSUME NEW s \in slots, NEW p \in DOMAIN by(s).sets PROVE p[1] = s
    <2>1. Effect(C, s, by(s))
        BY <1>2, SlotEffect
    <2> HIDE DEF by
    <2> QED BY <2>1 DEF Effect
<1> HIDE DEF slots, by
<1>4. ASSUME NEW s \in slots, NEW p \in DOMAIN by(s).sets
      PROVE  p \in places /\ (CHOOSE q \in sets : q[1] = p)[2] = by(s).sets[p]
    <2>1. <<p, by(s).sets[p]>> \in sets /\ <<p, by(s).sets[p]>>[1] = p
        BY <1>2
    <2>2. p \in places
        BY <2>1
    <2> DEFINE q == CHOOSE r \in sets : r[1] = p
    <2>3. q \in sets /\ q[1] = p
        BY <2>1
    <2> HIDE DEF q
    <2>4. PICK t \in slots : \E o \in DOMAIN by(t).sets : q = <<o, by(t).sets[o]>>
        BY <1>2, <2>3
    <2>5. PICK o \in DOMAIN by(t).sets : q = <<o, by(t).sets[o]>>
        BY <2>4
    <2>6. o = p /\ o[1] = t /\ p[1] = s
        BY <1>3, <2>3, <2>5
    <2>7. s = t /\ q[2] = by(s).sets[p]
        BY <2>5, <2>6
    <2> QED BY <2>2, <2>7 DEF q
<1>5. \A p \in places : \E s \in slots : p \in DOMAIN by(s).sets
    BY <1>2
<1>6. /\ c.id = id /\ c.deps = IdsOf(C) /\ c.at = 1 + Max({0} \cup {d.at : d \in C})
      /\ c.sets = [p \in places |-> (CHOOSE q \in sets : q[1] = p)[2]]
      /\ c.adds = UNION {effect[s].adds : s \in slots}
      /\ c.dels = UNION {effect[s].dels : s \in slots}
      /\ written.whole = (Failing(previous, next) = {})
    BY <1>1
<1> HIDE DEF c, written, places, sets
<1>7. DOMAIN c.sets = places
    BY <1>6
<1>8. \A p \in DOMAIN c.sets : \E s \in slots :
          p[1] = s /\ p \in DOMAIN by(s).sets /\ c.sets[p] = by(s).sets[p]
    BY <1>3, <1>4, <1>5, <1>6, <1>7
<1>9. \A s \in slots : \A p \in DOMAIN by(s).sets :
          p \in DOMAIN c.sets /\ c.sets[p] = by(s).sets[p]
    BY <1>4, <1>6, <1>7
<1>10. \A a \in c.adds : \E s \in slots : a \in by(s).adds
    BY <1>2, <1>6
<1>11. \A e \in c.dels : \E s \in slots : e \in by(s).dels
    BY <1>2, <1>6
<1>12. Assembled(C, previous, next, moved, c)
    BY <1>8, <1>9, <1>10, <1>11 DEF Assembled, slots, by
<1> USE DEF c, written
<1> QED BY <1>6, <1>12


LEMMA ChangeAt ==
    ASSUME NEW C, NEW previous, NEW next, NEW moved, NEW id
    PROVE  WriteDocumentChanges(C, previous, next, moved, id).change.at
               = 1 + Max({0} \cup {d.at : d \in C})
BY DEF WriteDocumentChanges

LEMMA ChangeWrites ==
    ASSUME NEW C, NEW previous, NEW next, DocOK(next), NEW moved, NEW id, id[1] # 0
    PROVE  Writing(WriteDocumentChanges(C, previous, next, moved, id).change)
<1> DEFINE c == WriteDocumentChanges(C, previous, next, moved, id).change
           slots == WrittenSlots(previous, next)
           by(s) == WrittenBy(C, previous, next, moved, s)
<1>1. \A s \in slots : s \in Slots /\ Effect(C, s, by(s))
    BY SlotEffect DEF WrittenSlots
<1>2. /\ c.id = id /\ c.deps = IdsOf(C)
      /\ \A p \in DOMAIN c.sets : \E s \in slots :
            p[1] = s /\ p \in DOMAIN by(s).sets /\ c.sets[p] = by(s).sets[p]
      /\ \A a \in c.adds : \E s \in slots : a \in by(s).adds
      /\ \A e \in c.dels : \E s \in slots : e \in by(s).dels
    <2>1. c.id = id /\ c.deps = IdsOf(C) /\ Assembled(C, previous, next, moved, c)
        BY ChangeIs
    <2> HIDE DEF c
    <2> QED BY <2>1 DEF Assembled
<1> HIDE DEF c, slots, by
<1>3. ASSUME NEW a \in c.adds
      PROVE  IF Kind(a[1]) = "text" THEN a[2] = "" ELSE Fits(a[1], {a[2]})
    <2>1. PICK s \in slots : a \in by(s).adds
        BY <1>2
    <2>2. a[1] = s /\ IF Kind(s) = "text" THEN a[2] = "" ELSE Fits(s, {a[2]})
        BY <1>1, <2>1 DEF Effect
    <2> QED BY <2>2
<1>4. ASSUME NEW p \in DOMAIN c.sets, Kind(p[1]) = "map", p[2] \in Keys
      PROVE  c.sets[p] \in Plan[p[1][1]].values \cup {None}
    <2>1. PICK s \in slots : p[1] = s /\ p \in DOMAIN by(s).sets /\ c.sets[p] = by(s).sets[p]
        BY <1>2
    <2> QED BY <1>1, <1>4, <2>1 DEF Effect
<1>5. ASSUME NEW e \in c.dels PROVE e.by \in c.deps
    <2>1. PICK s \in slots : e \in by(s).dels
        BY <1>2
    <2>2. e \in Elements(C, s)
        BY <1>1, <2>1 DEF Effect
    <2>3. PICK d \in C : \E a \in d.adds : e = [by |-> d.id, slot |-> s, entry |-> a[2]]
        BY <2>2, ElementsAre
    <2> QED BY <1>2, <2>3 DEF IdsOf
<1>6. Writing(c)
    BY <1>2, <1>3, <1>4, <1>5 DEF Writing
<1> QED BY <1>6 DEF c

(* An empty text is written as absent by the codec optionalString alone.   *)
MustsStored ==
    \A f \in Fields :
        Depth(f) = 0 /\ Plan[f].required /\ Plan[f].kind = "scalar" => Plan[f].codec # "optionalString"

LEMMA MustsAre ==
    ASSUME NEW s \in Musts
    PROVE  /\ s \in Slots /\ Required(s) /\ s[2] = <<>>
           /\ \A doc : RecordsIn(doc, s)
           /\ MustsStored /\ Kind(s) = "scalar" => Plan[s[1]].codec # "optionalString"
<1>1. s \in Slots /\ Required(s) /\ Len(s[2]) = 0 /\ s[1] \in Fields /\ Depth(s[1]) = 0
    BY SlotShape DEF Musts
<1>2. s[2] \in [1..0 -> Ids]
    BY <1>1, SlotShape
<1>3. s[2] \in Seq(Ids)
    BY <1>2, SeqDef
<1>4. s[2] = <<>>
    BY <1>1, <1>3, EmptySeq
<1>5. \A doc : RecordsIn(doc, s)
    BY <1>1 DEF RecordsIn
<1> QED BY <1>1, <1>4, <1>5 DEF MustsStored, Required, Kind

LEMMA ChangeProvides ==
    ASSUME MustsStored, NEW C, NEW previous, NEW next, DocOK(next), NEW moved, NEW id,
           \A s \in Musts : At(next, s) # None, C = {} => previous = <<>>
    PROVE  Provides(WriteDocumentChanges(C, previous, next, moved, id).change)
<1> DEFINE c == WriteDocumentChanges(C, previous, next, moved, id).change
           slots == WrittenSlots(previous, next)
           by(s) == WrittenBy(C, previous, next, moved, s)
<1>1. /\ c.deps = IdsOf(C)
      /\ \A p \in DOMAIN c.sets : \E s \in slots :
            p[1] = s /\ p \in DOMAIN by(s).sets /\ c.sets[p] = by(s).sets[p]
      /\ \A s \in slots : \A p \in DOMAIN by(s).sets :
            p \in DOMAIN c.sets /\ c.sets[p] = by(s).sets[p]
    <2>1. c.deps = IdsOf(C) /\ Assembled(C, previous, next, moved, c)
        BY ChangeIs
    <2> HIDE DEF c
    <2> QED BY <2>1 DEF Assembled
<1> HIDE DEF c, slots
<1> SUFFICES ASSUME NEW s \in Musts, Kind(s) = "scalar"
             PROVE  /\ <<s, "value">> \in DOMAIN c.sets => c.sets[<<s, "value">>] # None
                    /\ c.deps = {} => <<s, "value">> \in DOMAIN c.sets
    BY DEF Provides, c
<1> DEFINE place == <<s, "value">>
           was == IF RecordsIn(previous, s) THEN At(previous, s) ELSE None
<1>2. /\ s \in Slots /\ At(next, s) # None /\ Plan[s[1]].codec # "optionalString"
      /\ RecordsIn(next, s)
    BY MustsAre
<1>3. /\ by(s) = IF was = At(next, s) THEN NoEffect ELSE WriteScalar(s, At(next, s))
    BY DEF WrittenBy, WriteFieldIfChanged
<1>4. /\ DOMAIN NoEffect.sets = {}
      /\ DOMAIN WriteScalar(s, At(next, s)).sets = {place}
      /\ WriteScalar(s, At(next, s)).sets[place] = At(next, s)
    BY <1>2, ScalarEffect DEF NoEffect
<1> HIDE DEF by
<1>5. ASSUME place \in DOMAIN c.sets PROVE c.sets[place] # None
    <2>1. PICK t \in slots : place[1] = t /\ place \in DOMAIN by(t).sets /\ c.sets[place] = by(t).sets[place]
        BY <1>1, <1>5
    <2>2. t = s
        BY <2>1
    <2> QED BY <1>2, <1>3, <1>4, <2>1, <2>2
<1>6. ASSUME c.deps = {} PROVE place \in DOMAIN c.sets
    <2>1. C = {}
        BY <1>1, <1>6 DEF IdsOf
    <2>2. previous = <<>> /\ DOMAIN previous = {}
        BY <2>1
    <2>3. \A t : At(previous, t) = None
        BY <2>2 DEF At
    <2>4. Failing(previous, next) = {}
        BY <2>3 DEF Failing, Unwritable
    <2>5. s \in slots
        BY <1>2, <2>4 DEF slots, WrittenSlots, WrittenBefore
    <2>6. was # At(next, s)
        BY <1>2, <2>3
    <2> QED BY <1>1, <1>3, <1>4, <2>5, <2>6
<1> QED BY <1>5, <1>6


--------------------------------------------------------------------------
(* The kinds of step.                                                     *)

\* A change is made, over what its writer holds.
Makes(w, c, doc) ==
    /\ c.id = <<w, peer[w], Cardinality(Own(w))>>
    /\ c.deps = IdsOf(replica[w].changes)
    /\ c.at = 1 + Max({0} \cup {d.at : d \in replica[w].changes})
    /\ Writing(c)
    /\ MustsStored => Provides(c)
    /\ doc = None \/ DocOK(doc)
    /\ edits + published < MaxEdits
    /\ replica' = [replica EXCEPT ![w] = [changes |-> replica[w].changes \cup {c}, baseline |-> doc]]
    /\ edits' = edits + 1
    /\ UNCHANGED <<accepted, base, peer, prepared, published>>

\* An edit changes nothing but the document the next is written against.
Settles(w, doc) ==
    /\ replica[w].changes # {} /\ edits + published < MaxEdits
    /\ doc = None \/ DocOK(doc)
    /\ replica' = [replica EXCEPT ![w] = [changes |-> replica[w].changes, baseline |-> doc]]
    /\ edits' = edits + 1
    /\ UNCHANGED <<accepted, base, peer, prepared, published>>

LEMMA OwnIsFinite ==
    ASSUME Held, Shaped, NEW w \in Writers
    PROVE  /\ Cardinality(Own(w)) \in Nat
           /\ NextId(w) = <<w, peer[w], Cardinality(Own(w))>>
           /\ NextId(w) \in Names
           /\ NextId(w)[1] # 0
<1>1. Cardinality(Own(w)) \in Nat
    BY FS_CardinalityType DEF Held
<1>2. NextId(w) = <<w, peer[w], Cardinality(Own(w))>>
    BY DEF NextId, Own
<1>3. w \in Nat /\ w # 0 /\ peer[w] \in Nat
    BY WritersAssumption DEF Shaped
<1> QED BY <1>1, <1>2, <1>3 DEF Names

LEMMA HasReplica ==
    ASSUME Shaped, NEW w \in Writers
    PROVE  /\ replica[w] = NoReplica <=> replica[w].changes = {}
           /\ replica[w] = [changes |-> replica[w].changes, baseline |-> replica[w].baseline]
<1> DEFINE as(v) == [changes |-> replica[v].changes, baseline |-> replica[v].baseline]
<1>1. replica = [v \in Writers |-> as(v)]
    BY DEF Shaped
<1> HIDE DEF as
<1>2. replica[w] = as(w)
    BY <1>1
<1>3. replica[w] = [changes |-> replica[w].changes, baseline |-> replica[w].baseline]
    BY <1>2 DEF as
<1>4. replica[w].changes = {} => replica[w].baseline = None
    BY DEF Shaped
<1>5. ASSUME replica[w].changes = {} PROVE replica[w] = NoReplica
    BY <1>3, <1>4, <1>5 DEF NoReplica
<1>6. replica[w] = NoReplica => replica[w].changes = {}
    BY DEF NoReplica
<1> QED BY <1>3, <1>5, <1>6

LEMMA BaselineDoc ==
    ASSUME IInv, NEW w \in Writers
    PROVE  DocOK(Baseline(replica[w]))
<1>1. replica[w].changes \subseteq All
    BY DEF All
<1> QED BY <1>1, MaterialDoc DEF IInv, Shaped, Baseline

LEMMA ValidHasMusts ==
    ASSUME NEW doc, ValidateDocument(doc)
    PROVE  \A s \in Musts : At(doc, s) # None
BY MustsAre DEF ValidateDocument, ValidateDeclaredValue

LEMMA NewKind ==
    ASSUME IInv, NEW w \in Writers, NewDocument(w)
    PROVE  \E c, doc : Makes(w, c, doc)
<1>1. PICK d \in {First} \cup Modified(First, NextId(w)) :
          /\ ValidateDocument(WithoutNullOptionals(d))
          /\ replica' = [replica EXCEPT ![w] =
                [changes |-> {WriteDocumentChanges({}, <<>>, WithoutNullOptionals(d),
                                                   <<None, None>>, NextId(w)).change},
                 baseline |-> WithoutNullOptionals(d)]]
    BY DEF NewDocument
<1> DEFINE doc == WithoutNullOptionals(d)
           c == WriteDocumentChanges({}, <<>>, doc, <<None, None>>, NextId(w)).change
<1>2. Held /\ Shaped
    BY DEF IInv
<1>3. DocOK(doc)
    BY <1>1, <1>2, OwnIsFinite, FirstDoc, ModifiedDoc, DropDoc DEF WithoutNullOptionals
<1>4. replica[w].changes = {}
    BY <1>2, HasReplica DEF NewDocument
<1>5. c.id = NextId(w) /\ c.deps = IdsOf({})
    BY <1>3, ChangeIs
<1>6. c.at = 1 + Max({0} \cup {e.at : e \in {}})
    BY ChangeAt
<1>7. Writing(c)
    BY <1>2, <1>3, OwnIsFinite, ChangeWrites
<1>8. MustsStored => Provides(c)
    BY <1>1, <1>3, ValidHasMusts, ChangeProvides
<1> HIDE DEF c, doc
<1>9. replica' = [replica EXCEPT ![w] = [changes |-> replica[w].changes \cup {c}, baseline |-> doc]]
    BY <1>1, <1>4 DEF c, doc
<1>10. Makes(w, c, doc)
    BY <1>2, <1>3, <1>4, <1>5, <1>6, <1>7, <1>8, <1>9, OwnIsFinite DEF Makes, NewDocument
<1> QED BY <1>10

LEMMA ReplaceKinds ==
    ASSUME IInv, NEW w \in Writers, ReplaceDocument(w)
    PROVE  \/ \E c, doc : Makes(w, c, doc)
           \/ \E doc : Settles(w, doc)
<1> DEFINE r == replica[w]
           id == NextId(w)
<1>1. Held /\ Shaped /\ DocOK(Baseline(r))
    BY BaselineDoc DEF IInv
<1>2. r.changes # {} /\ edits + published < MaxEdits /\ edits' = edits + 1
      /\ UNCHANGED <<accepted, base, peer, prepared, published>>
    BY <1>1, HasReplica DEF ReplaceDocument
<1>3. PICK d \in Requested(Baseline(r), id), move \in Moves(Baseline(r)) :
        LET document == WithoutNullOptionals(d)
            written == WriteDocumentChanges(r.changes, Baseline(r), document, move, id)
            changes == r.changes \cup IF Writes(written.change) THEN {written.change} ELSE {}
        IN  IF ~ValidateDocument(document)
            THEN replica' = [replica EXCEPT ![w].baseline = None]
            ELSE replica' = [replica EXCEPT ![w] =
                     [changes |-> changes, baseline |-> IF written.whole THEN document ELSE None]]
    BY DEF ReplaceDocument
<1> DEFINE document == WithoutNullOptionals(d)
           written == WriteDocumentChanges(r.changes, Baseline(r), document, move, id)
           c == written.change
           doc == IF written.whole THEN document ELSE None
<1>4. DocOK(document)
    BY <1>1, <1>3, OwnIsFinite, RequestedDoc, DropDoc DEF WithoutNullOptionals
<1>5. CASE ~ValidateDocument(document)
    <2>1. replica' = [replica EXCEPT ![w].baseline = None]
        BY <1>3, <1>5
    <2>2. [r EXCEPT !.baseline = None] = [changes |-> r.changes, baseline |-> None]
        <3>1. r = [changes |-> r.changes, baseline |-> r.baseline]
            BY <1>1, HasReplica
        <3> QED BY <3>1
    <2>3. replica' = [replica EXCEPT ![w] = [r EXCEPT !.baseline = None]]
        BY <2>1
    <2>4. replica' = [replica EXCEPT ![w] = [changes |-> r.changes, baseline |-> None]]
        BY <2>2, <2>3
    <2>5. Settles(w, None)
        BY <1>2, <2>4 DEF Settles
    <2> QED BY <2>5
<1>6. CASE ValidateDocument(document)
    <2>1. replica' = [replica EXCEPT ![w] =
              [changes |-> r.changes \cup IF Writes(c) THEN {c} ELSE {}, baseline |-> doc]]
        BY <1>3, <1>6
    <2>2. doc = None \/ DocOK(doc)
        BY <1>4
    <2>3. c.id = NextId(w) /\ c.deps = IdsOf(r.changes)
        BY <1>4, ChangeIs
    <2>4. c.at = 1 + Max({0} \cup {e.at : e \in r.changes})
        BY ChangeAt
    <2>5. Writing(c)
        BY <1>1, <1>4, OwnIsFinite, ChangeWrites
    <2>6. MustsStored => Provides(c)
        BY <1>2, <1>4, <1>6, ValidHasMusts, ChangeProvides
    <2> HIDE DEF c, doc
    <2>7. CASE Writes(c)
        <3>1. replica' = [replica EXCEPT ![w] = [changes |-> r.changes \cup {c}, baseline |-> doc]]
            BY <2>1, <2>7
        <3>2. Makes(w, c, doc)
            BY <1>1, <1>2, <2>2, <2>3, <2>4, <2>5, <2>6, <3>1, OwnIsFinite DEF Makes
        <3> QED BY <3>2
    <2>8. CASE ~Writes(c)
        <3>1. replica' = [replica EXCEPT ![w] = [changes |-> r.changes, baseline |-> doc]]
            BY <2>1, <2>8
        <3>2. Settles(w, doc)
            BY <1>2, <2>2, <3>1 DEF Settles
        <3> QED BY <3>2
    <2> QED BY <2>7, <2>8
<1> QED BY <1>5, <1>6


\* A writer and the store have the same changes, of one history.
Shares(w, doc) ==
    /\ accepted' \in {accepted, accepted \cup replica[w].changes}
    /\ OneRoot(accepted \cup replica[w].changes)
    /\ accepted \cup replica[w].changes # {}
    /\ doc = None \/ DocOK(doc)
    /\ replica' = [replica EXCEPT ![w] =
            [changes |-> accepted \cup replica[w].changes, baseline |-> doc]]
    /\ base' = [base EXCEPT ![w] = IdsOf(accepted')]
    /\ UNCHANGED <<peer, edits, prepared, published>>

\* A writer starts over.
Drops(w, doc) ==
    /\ accepted = {} => doc = None
    /\ doc = None \/ DocOK(doc)
    /\ replica' = [replica EXCEPT ![w] = [changes |-> accepted, baseline |-> doc]]
    /\ base' = [base EXCEPT ![w] = IdsOf(accepted)]
    /\ peer' = [peer EXCEPT ![w] = @ + 1]
    /\ UNCHANGED <<accepted, edits, prepared, published>>

(* What a peer lacks by its version it lacks: it has all that each peer    *)
(* made before what it has of it.                                          *)
LEMMA RestIsHeld ==
    ASSUME IInv, NEW C, C \subseteq All, Closed(C)
    PROVE  C \cup SinceVersion(accepted, VersionOf(C)) = C \cup accepted
<1> DEFINE since == SinceVersion(accepted, VersionOf(C))
<1>1. since \subseteq accepted
    BY DEF SinceVersion
<1>2. ASSUME NEW c \in accepted, c \notin since PROVE c \in C
    <2>1. PeerOf(c) \in DOMAIN VersionOf(C) /\ ~(c.id[3] > VersionOf(C)[PeerOf(c)])
        BY <1>2 DEF SinceVersion
    <2>2. PICK b \in C : PeerOf(b) = PeerOf(c)
        BY <2>1 DEF VersionOf
    <2>3. PICK d \in C : PeerOf(d) = PeerOf(b) /\ VersionOf(C)[PeerOf(b)] = d.id[3]
        BY VersionKnows DEF IInv
    <2>4. c \in All /\ d \in All /\ c.id \in Names /\ d.id \in Names
        BY DEF All, IInv, Named
    <2>5. c.id[1] = d.id[1] /\ c.id[2] = d.id[2] /\ ~(c.id[3] > d.id[3])
        BY <2>1, <2>2, <2>3 DEF PeerOf
    <2>6. CASE c.id[3] = d.id[3]
        <3>1. c.id = d.id
            BY <2>4, <2>5, <2>6 DEF Names
        <3> QED BY <2>4, <3>1 DEF IInv, Apart
    <2>7. CASE c.id[3] # d.id[3]
        <3>1. c.id[3] \in Nat /\ d.id[3] \in Nat /\ c.id[3] < d.id[3]
            BY <2>4, <2>5, <2>7 DEF Names
        <3>2. <<d.id[1], d.id[2], c.id[3]>> \in d.deps
            BY <2>4, <3>1 DEF IInv, Chained
        <3>3. c.id = <<d.id[1], d.id[2], c.id[3]>>
            BY <2>4, <2>5 DEF Names
        <3>4. c.id \in IdsOf(C)
            BY <3>2, <3>3 DEF Closed
        <3>5. PICK e \in C : e.id = c.id
            BY <3>4 DEF IdsOf
        <3> QED BY <2>4, <3>5 DEF IInv, Apart
    <2> QED BY <2>6, <2>7
<1> QED BY <1>1, <1>2

LEMMA SameName ==
    ASSUME IInv, NEW C, C \subseteq All, NEW c \in All, c.id \in IdsOf(C)
    PROVE  c \in C
BY DEF IdsOf, IInv, Apart

LEMMA ClosedTogether ==
    ASSUME NEW C, NEW D, Closed(C), Closed(D)
    PROVE  Closed(C \cup D)
BY DEF Closed, IdsOf

(* A whole set of changes has a first one.                                 *)
LEMMA BeginsSomewhere ==
    ASSUME IInv, NEW C, C \subseteq All, Closed(C), C # {}
    PROVE  \E r \in C : r.deps = {}
<1>1. PICK c \in C : TRUE
    OBVIOUS
<1>2. CASE c.deps = {}
    BY <1>2
<1>3. CASE c.deps # {}
    <2>1. PICK r \in All : r.deps = {} /\ r.id \in c.deps
        BY <1>3 DEF IInv, Chained
    <2>2. r.id \in IdsOf(C)
        BY <2>1 DEF Closed
    <2> QED BY <2>1, <2>2, SameName
<1> QED BY <1>2, <1>3

LEMMA AllHas ==
    ASSUME NEW w \in Writers
    PROVE  accepted \subseteq All /\ prepared \subseteq All /\ replica[w].changes \subseteq All
BY DEF All

(* Two whole sets of changes with one beginning are one history together.  *)
LEMMA OneRootTogether ==
    ASSUME IInv, NEW C, C \subseteq All, NEW D, D \subseteq All, OneRoot(C),
           \A d \in D : d.deps = {} => d.id \in IdsOf(C)
    PROVE  OneRoot(C \cup D)
<1>1. \A d \in D : d.deps = {} => d \in C
    BY SameName
<1> QED BY <1>1 DEF OneRoot

LEMMA AcceptKind ==
    ASSUME IInv, NEW w \in Writers, Accept(w)
    PROVE  \E doc : Shares(w, doc)
<1> DEFINE R == replica[w].changes
           before == Forked(accepted, base[w])
           missing == SinceVersion(accepted, VersionOf(before \cup Update(w)))
<1>1. accepted \subseteq All /\ R \subseteq All /\ Closed(accepted) /\ Closed(R)
      /\ OneRoot(accepted) /\ OneRoot(R)
    BY AllHas DEF IInv, Whole
<1>2. before \subseteq accepted /\ before \subseteq R
    <2>1. before \subseteq accepted /\ \A c \in before : c.id \in IdsOf(R)
        BY DEF Forked, IInv, Whole
    <2> QED BY <1>1, <2>1, SameName
<1>3. before \cup Update(w) = R /\ accepted \cup Update(w) = accepted \cup R
    BY <1>2 DEF Update
<1>4. R # {}
    BY <1>3 DEF Accept
<1>5. R \cup missing = accepted \cup R
    BY <1>1, <1>3, RestIsHeld
<1>6. \A c \in R : accepted # {} /\ c.deps = {} => c.id \in IdsOf(accepted)
    <2> SUFFICES ASSUME NEW c \in R, accepted # {}, c.deps = {} PROVE c.id \in IdsOf(accepted)
        OBVIOUS
    <2>1. CASE c \in before
        BY <1>2, <2>1 DEF IdsOf
    <2>2. CASE c \in Update(w)
        BY <2>2 DEF Accept, RelatedHistory
    <2> QED BY <1>3, <2>1, <2>2
<1>7. OneRoot(accepted \cup R)
    <2>1. CASE accepted = {}
        BY <1>1, <2>1
    <2>2. CASE accepted # {}
        BY <1>1, <1>6, <2>2, OneRootTogether
    <2> QED BY <2>1, <2>2
<1>8. RelatedHistory(R, missing)
    <2> SUFFICES ASSUME NEW c \in missing, c.deps = {} PROVE c.id \in IdsOf(R)
        BY DEF RelatedHistory
    <2>1. c \in accepted
        BY DEF SinceVersion
    <2>2. PICK r \in R : r.deps = {}
        BY <1>1, <1>4, BeginsSomewhere
    <2>3. c = r
        BY <1>7, <2>1, <2>2 DEF OneRoot
    <2> QED BY <2>2, <2>3 DEF IdsOf
<1>9. Closed(R \cup missing)
    BY <1>1, <1>5, ClosedTogether
<1>10. Adopted(replica[w], missing) = [changes |-> accepted \cup R, baseline |-> None]
    BY <1>5, <1>8, <1>9 DEF Adopted
<1> DEFINE doc == IF missing = {} THEN replica[w].baseline ELSE None
<1>11. replica' = [replica EXCEPT ![w] = [changes |-> accepted \cup R, baseline |-> doc]]
    <2>1. CASE missing = {}
        <3>1. accepted \cup R = R
            BY <1>5, <2>1
        <3>2. replica' = [replica EXCEPT ![w] = replica[w]]
            BY <2>1 DEF Accept
        <3>3. replica[w] = [changes |-> R, baseline |-> replica[w].baseline]
            BY HasReplica DEF IInv
        <3> QED BY <2>1, <3>1, <3>2, <3>3
    <2>2. CASE missing # {}
        BY <1>10, <2>2 DEF Accept
    <2> QED BY <2>1, <2>2
<1>12. doc = None \/ DocOK(doc)
    BY DEF IInv, Shaped
<1>13. accepted' = accepted \cup R
    BY <1>3 DEF Accept
<1> HIDE DEF doc
<1>14. Shares(w, doc)
    BY <1>4, <1>7, <1>11, <1>12, <1>13 DEF Shares, Accept
<1> QED BY <1>14

LEMMA FollowKind ==
    ASSUME IInv, NEW w \in Writers, Follow(w)
    PROVE  \E doc : Shares(w, doc)
<1> DEFINE R == replica[w].changes
           since == SinceVersion(accepted, VersionOf(R))
<1>1. accepted \subseteq All /\ R \subseteq All /\ Closed(accepted) /\ Closed(R)
      /\ OneRoot(accepted) /\ OneRoot(R)
    BY AllHas DEF IInv, Whole
<1>2. accepted # {} /\ accepted' = accepted /\ base' = [base EXCEPT ![w] = IdsOf(accepted)]
      /\ UNCHANGED <<peer, edits, prepared, published>>
    BY DEF Follow
<1>3. DocOK(Materialized(accepted))
    BY <1>1, MaterialDoc DEF IInv
<1>4. CASE R = {}
    <2> DEFINE doc == Materialized(accepted)
    <2>1. replica' = [replica EXCEPT ![w] = [changes |-> accepted \cup R, baseline |-> doc]]
        BY <1>4 DEF Follow, FromUpdate
    <2>2. OneRoot(accepted \cup R)
        BY <1>1, <1>4
    <2> HIDE DEF doc
    <2>3. Shares(w, doc)
        BY <1>2, <1>3, <2>1, <2>2 DEF Shares, doc
    <2> QED BY <2>3
<1>5. CASE R # {}
    <2>1. R \cup since = accepted \cup R
        BY <1>1, RestIsHeld
    <2>2. RelatedHistory(R, since)
        BY <1>5 DEF Follow
    <2>3. Closed(R \cup since)
        BY <1>1, <2>1, ClosedTogether
    <2>4. Adopted(replica[w], since) = [changes |-> accepted \cup R, baseline |-> None]
        BY <2>1, <2>2, <2>3 DEF Adopted
    <2>5. replica' = [replica EXCEPT ![w] = [changes |-> accepted \cup R, baseline |-> None]]
        BY <1>5, <2>4 DEF Follow
    <2>6. OneRoot(accepted \cup R)
        <3>1. since \subseteq All
            BY <1>1 DEF SinceVersion
        <3>2. OneRoot(R \cup since)
            BY <1>1, <2>2, <3>1, OneRootTogether DEF RelatedHistory
        <3> QED BY <2>1, <3>2
    <2>7. Shares(w, None)
        BY <1>2, <2>5, <2>6 DEF Shares
    <2> QED BY <2>7
<1> QED BY <1>4, <1>5

LEMMA RefuseKind ==
    ASSUME IInv, NEW w \in Writers, Refuse(w)
    PROVE  \E doc : Drops(w, doc)
<1> DEFINE doc == IF accepted = {} THEN None ELSE Materialized(accepted)
<1>1. replica' = [replica EXCEPT ![w] = [changes |-> accepted, baseline |-> doc]]
    BY DEF Refuse, NoReplica, FromUpdate
<1>2. doc = None \/ DocOK(doc)
    BY AllHas, MaterialDoc DEF IInv
<1>3. accepted = {} => doc = None
    OBVIOUS
<1> HIDE DEF doc
<1>4. Drops(w, doc)
    BY <1>1, <1>2, <1>3 DEF Refuse, Drops
<1> QED BY <1>4


--------------------------------------------------------------------------
(* Each kind of step keeps the invariant.                                 *)

\* Only the replica of `w` changes, to these changes and this document.
Replaces(w, changes, doc) ==
    replica' = [replica EXCEPT ![w] = [changes |-> changes, baseline |-> doc]]

LEMMA ReplacesReplica ==
    ASSUME Shaped, NEW w \in Writers, NEW C, NEW doc, Replaces(w, C, doc)
    PROVE  /\ replica' = [v \in Writers |->
                  [changes |-> replica'[v].changes, baseline |-> replica'[v].baseline]]
           /\ replica'[w].changes = C /\ replica'[w].baseline = doc
           /\ \A v \in Writers \ {w} : replica'[v] = replica[v]
<1>1. DOMAIN replica = Writers
    BY DEF Shaped
<1>2. /\ DOMAIN replica' = Writers /\ replica' = [v \in Writers |-> replica'[v]]
      /\ replica'[w] = [changes |-> C, baseline |-> doc]
      /\ \A v \in Writers \ {w} : replica'[v] = replica[v]
    BY <1>1 DEF Replaces
<1>3. \A v \in Writers : replica'[v] = [changes |-> replica'[v].changes, baseline |-> replica'[v].baseline]
    BY <1>2, HasReplica
<1> QED BY <1>2, <1>3

LEMMA MakesApart ==
    ASSUME IInv, NEW w \in Writers, NEW c, NEW doc, Makes(w, c, doc)
    PROVE  /\ c.id \in Names /\ c.id[1] = w /\ c.id[2] = peer[w] /\ c.id[3] = Cardinality(Own(w))
           /\ w # 0 /\ Cardinality(Own(w)) \in Nat /\ c.id[3] <= edits + 1
           /\ c.at \in Nat /\ c.at <= edits + published + 1
           /\ \A d \in All : d.id[1] = w => d.at < c.at /\ d.id # c.id
           /\ PeerOf(c) = <<w, peer[w]>>
<1> DEFINE n == Cardinality(Own(w))
           S == {0} \cup {d.at : d \in replica[w].changes}
<1>1. n \in Nat /\ c.id = <<w, peer[w], n>> /\ c.id \in Names /\ w # 0
    BY OwnIsFinite, WritersAssumption DEF Makes, IInv
<1>2. c.id[1] = w /\ c.id[2] = peer[w] /\ c.id[3] = n
    BY <1>1
<1>3. edits \in Nat /\ published \in Nat
    BY BoundsAssumption DEF IInv, Shaped
<1>4. replica[w].changes \subseteq All
    BY AllHas
<1>5. n <= edits + 1
    <2>1. CASE n = 0
        BY <1>3, <2>1
    <2>2. CASE n # 0
        <3>1. n - 1 \in Nat /\ n - 1 < n
            BY <1>1, <2>2
        <3>2. PICK d \in Own(w) : d.id[3] = n - 1
            BY <3>1 DEF IInv, Held
        <3>3. d.id[3] <= edits
            BY <1>4 DEF IInv, Named, Own
        <3> QED BY <1>1, <1>3, <3>2, <3>3
    <2> QED BY <2>1, <2>2
<1>6. S \subseteq Nat /\ S # {} /\ \A x \in S : x <= edits + published
    BY <1>3, <1>4 DEF IInv, Named
<1>7. Max(S) \in S /\ \A x \in S : x <= Max(S)
    <2>1. edits + published \in Nat
        BY <1>3
    <2>2. PICK m \in S : \A x \in S : x <= m
        BY <1>6, <2>1, GreatestIsThere
    <2>3. \A x \in S : m >= x
        BY <1>6, <2>2
    <2>4. Max(S) \in S /\ \A x \in S : Max(S) >= x
        BY <2>3 DEF Max
    <2> QED BY <1>6, <2>4
<1> DEFINE m == Max(S)
<1>8. c.at = 1 + m
    BY DEF Makes
<1>11. m \in S /\ \A x \in S : x <= m
    BY <1>7
<1> HIDE DEF S, m
<1>9. c.at \in Nat /\ c.at <= edits + published + 1
    BY <1>3, <1>6, <1>8, <1>11
<1>10. ASSUME NEW d \in All, d.id[1] = w PROVE d.at < c.at /\ d.id # c.id
    <2>1. d \in replica[w].changes
        BY <1>10 DEF IInv, Held
    <2>2. d.at \in S
        BY <2>1 DEF S
    <2>3. d.at < c.at
        <3>1. d.at \in Nat /\ m \in Nat /\ d.at <= m
            BY <1>6, <1>11, <2>2
        <3> QED BY <1>8, <3>1
    <2>4. d.id # c.id
        <3> SUFFICES ASSUME d.id = c.id PROVE FALSE
            OBVIOUS
        <3>1. d \in Own(w) /\ d.id[3] = n
            BY <1>1, <2>1 DEF Own, PeerOf
        <3>2. n < n
            BY <1>1, <3>1 DEF IInv, Held
        <3> QED BY <1>1, <3>2
    <2> QED BY <2>3, <2>4
<1>12. PeerOf(c) = <<w, peer[w]>>
    BY <1>2 DEF PeerOf
<1> QED BY <1>1, <1>2, <1>5, <1>9, <1>10, <1>12

LEMMA MakesAdds ==
    ASSUME IInv, NEW w \in Writers, NEW c, NEW doc, Makes(w, c, doc)
    PROVE  /\ All' = All \cup {c}
           /\ replica'[w].changes = replica[w].changes \cup {c} /\ replica'[w].baseline = doc
           /\ \A v \in Writers \ {w} : replica'[v] = replica[v]
           /\ Own(w)' = Own(w) \cup {c} /\ c \notin All
           /\ \A v \in Writers \ {w} : Own(v)' = Own(v)
<1>1. /\ replica'[w].changes = replica[w].changes \cup {c} /\ replica'[w].baseline = doc
      /\ \A v \in Writers \ {w} : replica'[v] = replica[v]
    BY ReplacesReplica DEF Makes, Replaces, IInv
<1>2. UNCHANGED <<accepted, prepared, peer>>
    BY DEF Makes
<1>3. All' = All \cup {c}
    BY <1>1, <1>2 DEF All
<1>4. PeerOf(c) = <<w, peer[w]>> /\ c \notin All
    BY MakesApart
<1>5. Own(w)' = Own(w) \cup {c}
    BY <1>1, <1>2, <1>4 DEF Own
<1>6. \A v \in Writers \ {w} : Own(v)' = Own(v)
    BY <1>1, <1>2 DEF Own
<1> QED BY <1>1, <1>3, <1>4, <1>5, <1>6

LEMMA MakesKept ==
    ASSUME IInv, NEW w \in Writers, NEW c, NEW doc, Makes(w, c, doc)
    PROVE  IInv'
<1> DEFINE R == replica[w].changes
           n == Cardinality(Own(w))
<1>1. /\ All' = All \cup {c} /\ replica'[w].changes = R \cup {c} /\ replica'[w].baseline = doc
      /\ \A v \in Writers \ {w} : replica'[v] = replica[v]
      /\ Own(w)' = Own(w) \cup {c} /\ \A v \in Writers \ {w} : Own(v)' = Own(v)
      /\ c \notin All
    BY MakesAdds
<1>2. UNCHANGED <<accepted, base, peer, prepared, published>> /\ edits' = edits + 1
    BY DEF Makes
<1>3. /\ c.id \in Names /\ c.id[1] = w /\ c.id[2] = peer[w] /\ c.id[3] = n
      /\ w # 0 /\ n \in Nat /\ c.id[3] <= edits + 1
      /\ c.at \in Nat /\ c.at <= edits + published + 1
      /\ \A d \in All : d.id[1] = w => d.at < c.at /\ d.id # c.id
    BY MakesApart
<1>4. R \subseteq All /\ Closed(R) /\ c.deps = IdsOf(R)
    BY AllHas DEF IInv, Whole, Makes
<1>5. edits \in Nat /\ published \in Nat /\ edits' \in Nat
    BY <1>2, BoundsAssumption DEF IInv, Shaped
<1>6. Shaped'
    <2>1. replica' = [v \in Writers |->
              [changes |-> replica'[v].changes, baseline |-> replica'[v].baseline]]
        BY ReplacesReplica DEF Makes, Replaces, IInv
    <2>2. \A v \in Writers :
              /\ replica'[v].changes = {} => replica'[v].baseline = None
              /\ replica'[v].baseline # None => DocOK(replica'[v].baseline)
        <3> TAKE v \in Writers
        <3>1. CASE v = w
            BY <1>1, <3>1 DEF Makes
        <3>2. CASE v # w
            BY <1>1, <3>2 DEF IInv, Shaped
        <3> QED BY <3>1, <3>2
    <2>3. edits' \in 0..MaxEdits
        BY <1>2, <1>5, BoundsAssumption DEF Makes
    <2>4. base' = [v \in Writers |-> base'[v]] /\ peer' \in [Writers -> Nat] /\ published' \in 0..MaxPrepared
        BY <1>2 DEF IInv, Shaped
    <2> QED BY <2>1, <2>2, <2>3, <2>4 DEF Shaped
<1>7. Named'
    <2> SUFFICES ASSUME NEW d \in All'
                 PROVE  /\ d.id \in Names /\ d.id[3] <= edits'
                        /\ d.at \in Nat /\ d.at <= edits' + published'
                        /\ d.id[1] = 0 => d.id[2] <= published'
                        /\ d.id[1] # 0 => d.id[1] \in Writers /\ d.id[2] <= peer'[d.id[1]]
        BY DEF Named
    <2>1. CASE d = c
        <3>1. peer[w] \in Nat
            BY DEF IInv, Shaped
        <3> QED BY <1>2, <1>3, <1>5, <2>1, <3>1
    <2>2. CASE d \in All
        <3>1. d.id \in Names /\ d.id[3] <= edits /\ d.at \in Nat /\ d.at <= edits + published
            BY <2>2 DEF IInv, Named
        <3>2. d.id[3] \in Nat
            BY <3>1 DEF Names
        <3>3. d.id[3] <= edits' /\ d.at <= edits' + published'
            BY <1>2, <1>5, <3>1, <3>2
        <3> QED BY <1>2, <2>2, <3>1, <3>3 DEF IInv, Named
    <2> QED BY <1>1, <2>1, <2>2
<1>8. Apart'
    <2> SUFFICES ASSUME NEW d \in All', NEW e \in All'
                 PROVE  /\ d.id = e.id => d = e
                        /\ d.id[1] = e.id[1] /\ d.id[1] # 0 /\ d.at = e.at => d = e
        BY DEF Apart
    <2>1. \A f \in All : f.at \in Nat
        BY DEF IInv, Named
    <2>2. CASE d = c /\ e \in All
        BY <1>3, <2>1, <2>2
    <2>3. CASE e = c /\ d \in All
        BY <1>3, <2>1, <2>3
    <2>4. CASE d \in All /\ e \in All
        BY <2>4 DEF IInv, Apart
    <2> QED BY <1>1, <2>2, <2>3, <2>4
<1>9. Chained'
    <2> SUFFICES ASSUME NEW d \in All'
                 PROVE  /\ \A j \in Nat : j < d.id[3] => <<d.id[1], d.id[2], j>> \in d.deps
                        /\ d.deps # {} => \E r \in All' : r.deps = {} /\ r.id \in d.deps
        BY DEF Chained
    <2>1. CASE d \in All
        BY <1>1, <2>1 DEF IInv, Chained
    <2>2. CASE d = c
        <3>1. ASSUME NEW j \in Nat, j < n PROVE <<w, peer[w], j>> \in c.deps
            <4>1. PICK e \in Own(w) : e.id[3] = j
                BY <3>1 DEF IInv, Held
            <4>2. e \in R /\ PeerOf(e) = <<w, peer[w]>>
                BY DEF Own
            <4>3. e.id \in Names
                BY <1>4, <4>2 DEF IInv, Named
            <4>4. e.id = <<w, peer[w], j>>
                BY <4>1, <4>2, <4>3 DEF PeerOf, Names
            <4> QED BY <1>4, <4>2, <4>4 DEF IdsOf
        <3>2. ASSUME c.deps # {} PROVE \E r \in All : r.deps = {} /\ r.id \in c.deps
            <4>1. R # {}
                BY <1>4, <3>2 DEF IdsOf
            <4>2. PICK r \in R : r.deps = {}
                BY <1>4, <4>1, BeginsSomewhere
            <4> QED BY <1>4, <4>2 DEF IdsOf
        <3> QED BY <1>1, <1>3, <2>2, <3>1, <3>2
    <2> QED BY <1>1, <2>1, <2>2
<1>10. Held'
    <2> SUFFICES ASSUME NEW v \in Writers
                 PROVE  /\ \A d \in All' : d.id[1] = v => d \in replica'[v].changes
                        /\ \A d \in replica'[v].changes : d \in accepted' \/ d.id[1] = v
                        /\ IsFiniteSet(Own(v)')
                        /\ \A k \in Nat : k < Cardinality(Own(v)') <=> \E d \in Own(v)' : d.id[3] = k
        BY DEF Held
    <2>1. CASE v # w
        BY <1>1, <1>2, <1>3, <2>1 DEF IInv, Held
    <2>2. CASE v = w
        <3>1. /\ \A d \in All : d.id[1] = w => d \in R
              /\ \A d \in R : d \in accepted \/ d.id[1] = w
              /\ IsFiniteSet(Own(w))
              /\ \A k \in Nat : k < n <=> \E d \in Own(w) : d.id[3] = k
            BY DEF IInv, Held
        <3>2. Own(w) \subseteq All
            BY <1>4 DEF Own
        <3>3. IsFiniteSet(Own(w) \cup {c}) /\ Cardinality(Own(w) \cup {c}) = n + 1
            BY <1>1, <3>1, <3>2, FS_AddElement
        <3>4. ASSUME NEW k \in Nat
              PROVE  k < n + 1 <=> \E d \in Own(w) \cup {c} : d.id[3] = k
            <4>1. k < n + 1 <=> k < n \/ k = n
                BY <1>3
            <4>2. k < n <=> \E d \in Own(w) : d.id[3] = k
                BY <3>1
            <4>3. (\E d \in Own(w) \cup {c} : d.id[3] = k) <=> (\E d \in Own(w) : d.id[3] = k) \/ c.id[3] = k
                OBVIOUS
            <4>4. c.id[3] = k <=> k = n
                BY <1>3
            <4> HIDE DEF n
            <4> QED BY <4>1, <4>2, <4>3, <4>4
        <3>5. IsFiniteSet(Own(w)') /\ Cardinality(Own(w)') = n + 1
            BY <1>1, <3>3
        <3>6. \A k \in Nat : k < Cardinality(Own(w)') <=> \E d \in Own(w)' : d.id[3] = k
            <4> TAKE k \in Nat
            <4>1. k < n + 1 <=> \E d \in Own(w) \cup {c} : d.id[3] = k
                BY <3>4
            <4> QED BY <1>1, <3>5, <4>1
        <3>7. /\ \A d \in All' : d.id[1] = w => d \in replica'[w].changes
              /\ \A d \in replica'[w].changes : d \in accepted' \/ d.id[1] = w
            BY <1>1, <1>2, <1>3, <3>1
        <3> QED BY <2>2, <3>5, <3>6, <3>7
    <2> QED BY <2>1, <2>2
<1>11. Whole'
    <2>1. Closed(R \cup {c})
        BY <1>4 DEF Closed, IdsOf
    <2>2. OneRoot(R \cup {c})
        <3>1. OneRoot(R)
            BY DEF IInv, Whole
        <3>2. CASE R = {}
            BY <3>2 DEF OneRoot
        <3>3. CASE R # {}
            <4>1. c.deps # {}
                BY <1>4, <3>3 DEF IdsOf
            <4> QED BY <3>1, <4>1 DEF OneRoot
        <3> QED BY <3>2, <3>3
    <2>3. IdsOf(R) \subseteq IdsOf(R \cup {c})
        BY DEF IdsOf
    <2>4. \A v \in Writers :
            /\ Closed(replica'[v].changes) /\ OneRoot(replica'[v].changes)
            /\ base'[v] \subseteq IdsOf(accepted') /\ base'[v] \subseteq IdsOf(replica'[v].changes)
            /\ \A d \in accepted' : d.id \in base'[v] => d.deps \subseteq base'[v]
        <3> TAKE v \in Writers
        <3>1. CASE v = w
            BY <1>1, <1>2, <2>1, <2>2, <2>3, <3>1 DEF IInv, Whole
        <3>2. CASE v # w
            BY <1>1, <1>2, <3>2 DEF IInv, Whole
        <3> QED BY <3>1, <3>2
    <2> QED BY <1>2, <2>4 DEF IInv, Whole
<1>12. Written'
    BY <1>1 DEF IInv, Written, Makes
<1> QED BY <1>6, <1>7, <1>8, <1>9, <1>10, <1>11, <1>12 DEF IInv


LEMMA SettlesKept ==
    ASSUME IInv, NEW w \in Writers, NEW doc, Settles(w, doc)
    PROVE  IInv'
<1> DEFINE R == replica[w].changes
<1>1. /\ replica'[w].changes = R /\ replica'[w].baseline = doc
      /\ \A v \in Writers \ {w} : replica'[v] = replica[v]
      /\ replica' = [v \in Writers |->
              [changes |-> replica'[v].changes, baseline |-> replica'[v].baseline]]
    BY ReplacesReplica DEF Settles, Replaces, IInv
<1>2. /\ UNCHANGED <<accepted, base, peer, prepared, published>> /\ edits' = edits + 1
      /\ R # {} /\ edits + published < MaxEdits /\ (doc = None \/ DocOK(doc))
    BY DEF Settles
<1>3. \A v \in Writers : replica'[v].changes = replica[v].changes
    BY <1>1
<1>4. All' = All /\ \A v \in Writers : Own(v)' = Own(v)
    BY <1>2, <1>3 DEF All, Own
<1>5. edits \in Nat /\ published \in Nat /\ edits' \in 0..MaxEdits
    BY <1>2, BoundsAssumption DEF IInv, Shaped
<1>6. Shaped'
    <2>1. \A v \in Writers :
              /\ replica'[v].changes = {} => replica'[v].baseline = None
              /\ replica'[v].baseline # None => DocOK(replica'[v].baseline)
        BY <1>1, <1>2 DEF IInv, Shaped
    <2> QED BY <1>1, <1>2, <1>5, <2>1 DEF IInv, Shaped
<1>7. Named'
    <2>1. ASSUME NEW d \in All PROVE d.id[3] <= edits + 1 /\ d.at <= edits + 1 + published
        <3>1. d.id \in Names /\ d.id[3] <= edits /\ d.at \in Nat /\ d.at <= edits + published
            BY DEF IInv, Named
        <3>2. d.id[3] \in Nat
            BY <3>1 DEF Names
        <3> QED BY <1>5, <3>1, <3>2
    <2> QED BY <1>2, <1>4, <2>1 DEF IInv, Named
<1>8. Apart' /\ Chained' /\ Written'
    BY <1>4 DEF IInv, Apart, Chained, Written
<1>9. Held' /\ Whole'
    BY <1>2, <1>3, <1>4 DEF IInv, Held, Whole
<1> QED BY <1>6, <1>7, <1>8, <1>9 DEF IInv

(* What is shared was there.                                               *)
LEMMA SharesAll ==
    ASSUME IInv, NEW w \in Writers, NEW doc, Shares(w, doc)
    PROVE  /\ replica'[w].changes = accepted \cup replica[w].changes /\ replica'[w].baseline = doc
           /\ \A v \in Writers \ {w} : replica'[v] = replica[v]
           /\ All' = All
           /\ \A v \in Writers : Own(v)' = Own(v)
<1>1. /\ replica'[w].changes = accepted \cup replica[w].changes /\ replica'[w].baseline = doc
      /\ \A v \in Writers \ {w} : replica'[v] = replica[v]
    BY ReplacesReplica DEF Shares, Replaces, IInv
<1>2. All' = All
    <2>1. prepared' = prepared /\ accepted' \in {accepted, accepted \cup replica[w].changes}
        BY DEF Shares
    <2>2. UNION {replica'[v].changes : v \in Writers}
              = accepted \cup UNION {replica[v].changes : v \in Writers}
        BY <1>1
    <2> QED BY <2>1, <2>2 DEF All
<1>3. ASSUME NEW v \in Writers PROVE Own(v)' = Own(v)
    <2>1. peer' = peer
        BY DEF Shares
    <2>2. CASE v # w
        BY <1>1, <2>1, <2>2 DEF Own
    <2>3. CASE v = w
        <3>1. ASSUME NEW c \in accepted, PeerOf(c) = <<w, peer[w]>> PROVE c \in replica[w].changes
            <4>1. c.id[1] = w
                BY <3>1 DEF PeerOf
            <4> QED BY <4>1, AllHas DEF IInv, Held
        <3> QED BY <1>1, <2>1, <2>3, <3>1 DEF Own
    <2> QED BY <2>2, <2>3
<1> QED BY <1>1, <1>2, <1>3

(* What a version names of a larger whole set is of the smaller.           *)
LEMMA BaseStays ==
    ASSUME IInv, NEW v \in Writers, NEW D, D \subseteq All,
           NEW c \in D, c.id \in base[v]
    PROVE  c.deps \subseteq base[v]
<1>1. c \in accepted
    BY AllHas, SameName DEF IInv, Whole
<1> QED BY <1>1 DEF IInv, Whole

LEMMA SharesKept ==
    ASSUME IInv, NEW w \in Writers, NEW doc, Shares(w, doc)
    PROVE  IInv'
<1> DEFINE R == replica[w].changes
<1>1. /\ replica'[w].changes = accepted \cup R /\ replica'[w].baseline = doc
      /\ \A v \in Writers \ {w} : replica'[v] = replica[v]
      /\ All' = All /\ \A v \in Writers : Own(v)' = Own(v)
    BY SharesAll
<1>2. /\ UNCHANGED <<peer, edits, prepared, published>>
      /\ accepted' \in {accepted, accepted \cup R}
      /\ accepted \cup R # {} /\ (doc = None \/ DocOK(doc)) /\ OneRoot(accepted \cup R)
      /\ base' = [base EXCEPT ![w] = IdsOf(accepted')]
    BY DEF Shares
<1>3. accepted \subseteq All /\ R \subseteq All /\ accepted \cup R \subseteq All
      /\ Closed(accepted) /\ Closed(R) /\ Closed(accepted \cup R)
    BY AllHas, ClosedTogether DEF IInv, Whole
<1>4. /\ base'[w] = IdsOf(accepted')
      /\ \A v \in Writers \ {w} : base'[v] = base[v]
      /\ base' = [v \in Writers |-> base'[v]]
    <2>1. DOMAIN base = Writers
        BY DEF IInv, Shaped
    <2> QED BY <1>2, <2>1
<1>5. Shaped'
    <2>1. replica' = [v \in Writers |->
              [changes |-> replica'[v].changes, baseline |-> replica'[v].baseline]]
        BY ReplacesReplica DEF Shares, Replaces, IInv
    <2>2. \A v \in Writers :
              /\ replica'[v].changes = {} => replica'[v].baseline = None
              /\ replica'[v].baseline # None => DocOK(replica'[v].baseline)
        BY <1>1, <1>2 DEF IInv, Shaped
    <2> QED BY <1>2, <1>4, <2>1, <2>2 DEF IInv, Shaped
<1>6. Named' /\ Apart' /\ Chained' /\ Written'
    BY <1>1, <1>2 DEF IInv, Named, Apart, Chained, Written
<1>7. Held'
    <2> SUFFICES ASSUME NEW v \in Writers
                 PROVE  /\ \A d \in All : d.id[1] = v => d \in replica'[v].changes
                        /\ \A d \in replica'[v].changes : d \in accepted' \/ d.id[1] = v
        BY <1>1 DEF IInv, Held
    <2>1. accepted \subseteq accepted'
        BY <1>2
    <2> QED BY <1>1, <2>1 DEF IInv, Held
<1>8. Whole'
    <2>1. Closed(accepted') /\ OneRoot(accepted') /\ accepted' \subseteq All
        BY <1>2, <1>3 DEF IInv, Whole
    <2>2. IdsOf(accepted) \subseteq IdsOf(accepted') /\ IdsOf(accepted') \subseteq IdsOf(accepted \cup R)
        BY <1>2 DEF IdsOf
    <2>3. ASSUME NEW v \in Writers
          PROVE  /\ Closed(replica'[v].changes) /\ OneRoot(replica'[v].changes)
                 /\ base'[v] \subseteq IdsOf(accepted') /\ base'[v] \subseteq IdsOf(replica'[v].changes)
                 /\ \A d \in accepted' : d.id \in base'[v] => d.deps \subseteq base'[v]
        <3>1. CASE v = w
            <4>1. \A d \in accepted' : d.deps \subseteq IdsOf(accepted')
                BY <2>1 DEF Closed
            <4> QED BY <1>1, <1>2, <1>3, <1>4, <2>2, <3>1, <4>1
        <3>2. CASE v # w
            <4>1. base'[v] = base[v] /\ replica'[v].changes = replica[v].changes
                BY <1>1, <1>4, <3>2
            <4>2. \A d \in accepted' : d.id \in base[v] => d.deps \subseteq base[v]
                BY <2>1, BaseStays
            <4> QED BY <2>2, <4>1, <4>2 DEF IInv, Whole
        <3> QED BY <3>1, <3>2
    <2>4. \A c \in prepared' : c.id[1] = 0 /\ c.deps # {} /\ c.deps \subseteq IdsOf(accepted')
        BY <1>2, <2>2 DEF IInv, Whole
    <2> QED BY <2>1, <2>3, <2>4 DEF Whole
<1> QED BY <1>5, <1>6, <1>7, <1>8 DEF IInv

LEMMA DropsKept ==
    ASSUME IInv, NEW w \in Writers, NEW doc, Drops(w, doc)
    PROVE  IInv'
<1>1. /\ replica'[w].changes = accepted /\ replica'[w].baseline = doc
      /\ \A v \in Writers \ {w} : replica'[v] = replica[v]
      /\ replica' = [v \in Writers |->
              [changes |-> replica'[v].changes, baseline |-> replica'[v].baseline]]
    BY ReplacesReplica DEF Drops, Replaces, IInv
<1>2. /\ UNCHANGED <<accepted, edits, prepared, published>>
      /\ (accepted = {} => doc = None) /\ (doc = None \/ DocOK(doc))
    BY DEF Drops
<1>3. /\ base'[w] = IdsOf(accepted) /\ \A v \in Writers \ {w} : base'[v] = base[v]
      /\ base' = [v \in Writers |-> base'[v]]
    <2>1. DOMAIN base = Writers
        BY DEF IInv, Shaped
    <2> QED BY <2>1 DEF Drops
<1>4. /\ peer' \in [Writers -> Nat] /\ peer[w] \in Nat /\ peer'[w] = peer[w] + 1
      /\ \A v \in Writers \ {w} : peer'[v] = peer[v]
    BY DEF Drops, IInv, Shaped
<1>5. All' \subseteq All /\ accepted \subseteq All' /\ prepared \subseteq All'
      /\ \A v \in Writers \ {w} : replica[v].changes \subseteq All'
    BY <1>1, <1>2 DEF All
<1>6. Shaped'
    <2>1. \A v \in Writers :
              /\ replica'[v].changes = {} => replica'[v].baseline = None
              /\ replica'[v].baseline # None => DocOK(replica'[v].baseline)
        BY <1>1, <1>2 DEF IInv, Shaped
    <2> QED BY <1>1, <1>2, <1>3, <1>4, <2>1 DEF IInv, Shaped
<1>7. Named'
    <2> SUFFICES ASSUME NEW d \in All', d.id[1] # 0
                 PROVE  d.id[1] \in Writers /\ d.id[2] <= peer'[d.id[1]]
        BY <1>2, <1>5 DEF IInv, Named
    <2>1. d.id \in Names /\ d.id[1] \in Writers /\ d.id[2] <= peer[d.id[1]]
        BY <1>5 DEF IInv, Named
    <2>2. d.id[2] \in Nat
        BY <2>1 DEF Names
    <2>3. CASE d.id[1] = w
        BY <1>4, <2>1, <2>2, <2>3
    <2>4. CASE d.id[1] # w
        BY <1>4, <2>1, <2>4
    <2> QED BY <2>3, <2>4
<1>8. Apart' /\ Written'
    BY <1>5 DEF IInv, Apart, Written
<1>9. Chained'
    <2> SUFFICES ASSUME NEW d \in All', d.deps # {}
                 PROVE  \E r \in All' : r.deps = {} /\ r.id \in d.deps
        BY <1>5 DEF IInv, Chained
    <2>1. PICK r \in All : r.deps = {} /\ r.id \in d.deps
        BY <1>5 DEF IInv, Chained
    <2>2. CASE d \in accepted \/ d \in prepared
        <3>1. d.deps \subseteq IdsOf(accepted)
            BY <2>2 DEF IInv, Whole, Closed
        <3>2. r \in accepted
            BY <2>1, <3>1, AllHas, SameName
        <3> QED BY <1>5, <2>1, <3>2
    <2>3. ASSUME NEW v \in Writers \ {w}, d \in replica[v].changes
          PROVE  \E s \in All' : s.deps = {} /\ s.id \in d.deps
        <3>1. d.deps \subseteq IdsOf(replica[v].changes)
            BY <2>3 DEF IInv, Whole, Closed
        <3>2. r \in replica[v].changes
            BY <2>1, <3>1, AllHas, SameName
        <3> QED BY <1>5, <2>1, <3>2
    <2>4. d \in accepted \/ d \in prepared \/ \E v \in Writers \ {w} : d \in replica[v].changes
        BY <1>1, <1>2 DEF All
    <2> QED BY <2>2, <2>3, <2>4
<1>10. Held'
    <2>1. \A d \in All' : d.id[1] = w => d \in accepted
        <3> SUFFICES ASSUME NEW d \in All', d.id[1] = w PROVE d \in accepted
            OBVIOUS
        <3>1. w # 0
            BY WritersAssumption
        <3>2. d \notin prepared
            BY <3>1 DEF IInv, Whole
        <3>3. CASE d \in accepted
            BY <3>3
        <3>4. ASSUME NEW v \in Writers \ {w}, d \in replica[v].changes PROVE d \in accepted
            BY <3>4 DEF IInv, Held
        <3>5. d \in accepted \/ \E v \in Writers \ {w} : d \in replica[v].changes
            BY <1>1, <1>2, <3>2 DEF All
        <3> QED BY <3>4, <3>5
    <2>2. Own(w)' = {}
        <3> SUFFICES ASSUME NEW d \in accepted, PeerOf(d) = <<w, peer[w] + 1>> PROVE FALSE
            BY <1>1, <1>4 DEF Own
        <3>1. d.id[1] = w /\ d.id[2] = peer[w] + 1 /\ w # 0
            BY WritersAssumption DEF PeerOf
        <3>2. d.id[2] <= peer[w]
            BY <3>1, AllHas DEF IInv, Named
        <3> QED BY <1>4, <3>1, <3>2
    <2>3. \A v \in Writers \ {w} : Own(v)' = Own(v)
        BY <1>1, <1>4 DEF Own
    <2> SUFFICES ASSUME NEW v \in Writers
                 PROVE  /\ \A d \in All' : d.id[1] = v => d \in replica'[v].changes
                        /\ \A d \in replica'[v].changes : d \in accepted' \/ d.id[1] = v
                        /\ IsFiniteSet(Own(v)')
                        /\ \A k \in Nat : k < Cardinality(Own(v)') <=> \E d \in Own(v)' : d.id[3] = k
        BY DEF Held
    <2>4. CASE v = w
        <3>1. IsFiniteSet(Own(w)') /\ Cardinality(Own(w)') = 0
            BY <2>2, FS_EmptySet
        <3>2. \A k \in Nat : k < Cardinality(Own(w)') <=> \E d \in Own(w)' : d.id[3] = k
            BY <2>2, <3>1
        <3> QED BY <1>1, <1>2, <2>1, <2>4, <3>1, <3>2
    <2>5. CASE v # w
        BY <1>1, <1>2, <1>5, <2>3, <2>5 DEF IInv, Held
    <2> QED BY <2>4, <2>5
<1>11. Whole'
    <2>1. \A d \in accepted : d.deps \subseteq IdsOf(accepted)
        BY DEF IInv, Whole, Closed
    <2>2. ASSUME NEW v \in Writers
          PROVE  /\ Closed(replica'[v].changes) /\ OneRoot(replica'[v].changes)
                 /\ base'[v] \subseteq IdsOf(accepted') /\ base'[v] \subseteq IdsOf(replica'[v].changes)
                 /\ \A d \in accepted' : d.id \in base'[v] => d.deps \subseteq base'[v]
        <3>1. CASE v = w
            BY <1>1, <1>2, <1>3, <2>1, <3>1 DEF IInv, Whole
        <3>2. CASE v # w
            BY <1>1, <1>2, <1>3, <3>2 DEF IInv, Whole
        <3> QED BY <3>1, <3>2
    <2> QED BY <1>2, <2>2 DEF IInv, Whole
<1> QED BY <1>6, <1>7, <1>8, <1>9, <1>10, <1>11 DEF IInv

(* A change comes one moment after the last it follows.                    *)
LEMMA NextMoment ==
    ASSUME IInv, NEW C, C \subseteq All
    PROVE  /\ 1 + Max({0} \cup {c.at : c \in C}) \in Nat
           /\ 1 + Max({0} \cup {c.at : c \in C}) <= edits + published + 1
<1> DEFINE S == {0} \cup {c.at : c \in C}
           m == Max(S)
<1>1. edits \in Nat /\ published \in Nat /\ edits + published \in Nat
    BY BoundsAssumption DEF IInv, Shaped
<1>2. S \subseteq Nat /\ S # {} /\ \A x \in S : x <= edits + published
    BY <1>1 DEF IInv, Named
<1>3. PICK top \in S : \A x \in S : x <= top
    BY <1>1, <1>2, GreatestIsThere
<1>4. \A x \in S : top >= x
    BY <1>2, <1>3
<1>5. m \in S
    BY <1>4 DEF Max
<1> HIDE DEF S, m
<1>6. m \in Nat /\ m <= edits + published
    BY <1>2, <1>5
<1>7. 1 + m \in Nat /\ 1 + m <= edits + published + 1
    BY <1>1, <1>6
<1> QED BY <1>7 DEF S, m

\* Text is prepared on a branch of what is accepted, and waits to be published.
Prepares(w, c) ==
    /\ c.id = <<0, published + 1, 0>>
    /\ c.deps = IdsOf(Forked(accepted, base[w])) /\ c.deps # {}
    /\ c.at = 1 + Max({0} \cup {d.at : d \in Forked(accepted, base[w])})
    /\ c.sets = <<>> /\ Writing(c)
    /\ published < MaxPrepared
    /\ prepared' = prepared \cup {c}
    /\ published' = published + 1
    /\ UNCHANGED <<accepted, replica, base, peer, edits>>

LEMMA PrepareKind ==
    ASSUME IInv, NEW w \in Writers, PrepareText(w)
    PROVE  \E c : Prepares(w, c)
<1> DEFINE branch == Forked(accepted, base[w])
           change(s, replaces, types) ==
               [id |-> <<0, published + 1, 0>>, deps |-> IdsOf(branch),
                at |-> 1 + Max({0} \cup {c.at : c \in branch}), sets |-> <<>>,
                adds |-> IF types THEN {<<s, "">>} ELSE {},
                dels |-> IF replaces THEN Elements(branch, s) ELSE {}]
<1>1. PICK s \in {t \in Slots : Kind(t) = "text"}, replaces \in BOOLEAN, types \in BOOLEAN :
          /\ branch # {} /\ prepared' = prepared \cup {change(s, replaces, types)}
          /\ published < MaxPrepared /\ published' = published + 1
          /\ UNCHANGED <<accepted, replica, base, peer, edits>>
    BY DEF PrepareText
<1> DEFINE c == change(s, replaces, types)
<1>2. /\ c.id = <<0, published + 1, 0>> /\ c.deps = IdsOf(branch) /\ c.sets = <<>>
      /\ c.at = 1 + Max({0} \cup {d.at : d \in branch})
      /\ c.adds \subseteq {<<s, "">>} /\ c.dels \subseteq Elements(branch, s)
    OBVIOUS
<1>7. Kind(s) = "text"
    BY <1>1
<1>3. prepared' = prepared \cup {c}
    BY <1>1
<1> HIDE DEF c
<1>4. c.deps # {}
    BY <1>1, <1>2 DEF IdsOf
<1>5. Writing(c)
    <2>1. ASSUME NEW a \in c.adds PROVE Kind(a[1]) = "text" /\ a[2] = ""
        <3>1. a = <<s, "">>
            BY <1>2
        <3>2. a[1] = s /\ a[2] = ""
            BY <3>1
        <3> QED BY <1>7, <3>2
    <2>2. DOMAIN c.sets = {}
        <3>1. DOMAIN <<>> = {}
            OBVIOUS
        <3> QED BY <1>2, <3>1
    <2>3. \A e \in c.dels : e.by \in c.deps
        <3>1. \A e \in Elements(branch, s) : \E d \in branch : e.by = d.id
            BY ElementsAre
        <3> QED BY <1>2, <3>1 DEF IdsOf
    <2> QED BY <1>2, <2>1, <2>2, <2>3 DEF Writing
<1> HIDE DEF branch
<1>6. Prepares(w, c)
    BY <1>1, <1>2, <1>3, <1>4, <1>5 DEF Prepares, branch
<1> QED BY <1>6

LEMMA PreparesKept ==
    ASSUME IInv, NEW w \in Writers, NEW c, Prepares(w, c)
    PROVE  IInv'
<1> DEFINE branch == Forked(accepted, base[w])
<1>1. /\ c.id = <<0, published + 1, 0>> /\ c.deps = IdsOf(branch) /\ c.deps # {}
      /\ c.at = 1 + Max({0} \cup {d.at : d \in branch})
      /\ published < MaxPrepared /\ Writing(c)
      /\ prepared' = prepared \cup {c} /\ published' = published + 1
      /\ UNCHANGED <<accepted, replica, base, peer, edits>>
    BY DEF Prepares
<1>2. All' = All \cup {c} /\ \A v \in Writers : Own(v)' = Own(v)
    BY <1>1 DEF All, Own
<1>3. edits \in Nat /\ published \in Nat /\ published' \in 0..MaxPrepared
    BY <1>1, BoundsAssumption DEF IInv, Shaped
<1>4. branch \subseteq accepted /\ branch \subseteq All /\ branch # {}
    BY <1>1, AllHas DEF Forked, IdsOf
<1>5. Closed(branch)
    <2> SUFFICES ASSUME NEW d \in branch, NEW i \in d.deps PROVE i \in IdsOf(branch)
        BY DEF Closed
    <2>1. d \in accepted /\ d.id \in base[w]
        BY DEF Forked
    <2>2. i \in base[w] /\ base[w] \subseteq IdsOf(accepted)
        BY <2>1 DEF IInv, Whole
    <2> QED BY <2>2 DEF Forked, IdsOf
<1>6. PICK r \in branch : r.deps = {}
    BY <1>4, <1>5, BeginsSomewhere
<1>7. c.at \in Nat /\ c.at <= edits + published + 1
    BY <1>1, <1>4, NextMoment
<1> HIDE DEF branch
<1>8. /\ c.id \in Names /\ c.id[1] = 0 /\ c.id[2] = published' /\ c.id[3] = 0
      /\ \A d \in All : d.id # c.id
    <2>1. c.id \in Names /\ c.id[1] = 0 /\ c.id[2] = published + 1 /\ c.id[3] = 0
        BY <1>1, <1>3 DEF Names
    <2>2. ASSUME NEW d \in All, d.id = c.id PROVE FALSE
        <3>1. d.id[1] = 0 /\ d.id[2] = published + 1
            BY <2>1, <2>2
        <3>2. d.id[2] <= published
            BY <3>1 DEF IInv, Named
        <3> QED BY <1>3, <3>1, <3>2
    <2> QED BY <1>1, <2>1, <2>2
<1>9. Shaped'
    BY <1>1, <1>3 DEF IInv, Shaped
<1>10. Named'
    <2> SUFFICES ASSUME NEW d \in All'
                 PROVE  /\ d.id \in Names /\ d.id[3] <= edits
                        /\ d.at \in Nat /\ d.at <= edits + published'
                        /\ d.id[1] = 0 => d.id[2] <= published'
                        /\ d.id[1] # 0 => d.id[1] \in Writers /\ d.id[2] <= peer[d.id[1]]
        BY <1>1 DEF Named
    <2>1. CASE d = c
        <3>1. published' \in Nat
            BY <1>3, BoundsAssumption
        <3>2. d.at <= edits + published'
            BY <1>1, <1>3, <1>7, <2>1
        <3> QED BY <1>3, <1>7, <1>8, <2>1, <3>1, <3>2
    <2>2. CASE d \in All
        <3>1. /\ d.id \in Names /\ d.id[3] <= edits
              /\ d.at \in Nat /\ d.at <= edits + published
              /\ d.id[1] = 0 => d.id[2] <= published
              /\ d.id[1] # 0 => d.id[1] \in Writers /\ d.id[2] <= peer[d.id[1]]
            BY <2>2 DEF IInv, Named
        <3>2. d.id[2] \in Nat
            BY <3>1 DEF Names
        <3>3. d.at <= edits + published' /\ (d.id[1] = 0 => d.id[2] <= published')
            BY <1>1, <1>3, <3>1, <3>2
        <3> QED BY <3>1, <3>3
    <2> QED BY <1>2, <2>1, <2>2
<1>11. Apart'
    <2> SUFFICES ASSUME NEW d \in All', NEW e \in All'
                 PROVE  /\ d.id = e.id => d = e
                        /\ d.id[1] = e.id[1] /\ d.id[1] # 0 /\ d.at = e.at => d = e
        BY DEF Apart
    <2>1. CASE d = c \/ e = c
        BY <1>2, <1>8, <2>1
    <2>2. CASE d \in All /\ e \in All
        BY <2>2 DEF IInv, Apart
    <2> QED BY <1>2, <2>1, <2>2
<1>12. Chained'
    <2> SUFFICES ASSUME NEW d \in All'
                 PROVE  /\ \A j \in Nat : j < d.id[3] => <<d.id[1], d.id[2], j>> \in d.deps
                        /\ d.deps # {} => \E s \in All' : s.deps = {} /\ s.id \in d.deps
        BY DEF Chained
    <2>1. CASE d \in All
        BY <1>2, <2>1 DEF IInv, Chained
    <2>2. CASE d = c
        <3>1. \A j \in Nat : ~(j < 0)
            OBVIOUS
        <3>2. r \in All' /\ r.id \in c.deps
            BY <1>1, <1>2, <1>4, <1>6 DEF IdsOf
        <3> QED BY <1>6, <1>8, <2>2, <3>1, <3>2
    <2> QED BY <1>2, <2>1, <2>2
<1>13. Held'
    <2>1. \A v \in Writers : c.id[1] # v
        BY <1>8, WritersAssumption
    <2> QED BY <1>1, <1>2, <2>1 DEF IInv, Held
<1>14. Whole'
    <2>1. IdsOf(branch) \subseteq IdsOf(accepted)
        BY <1>4 DEF IdsOf
    <2>2. \A d \in prepared' : d.id[1] = 0 /\ d.deps # {} /\ d.deps \subseteq IdsOf(accepted)
        BY <1>1, <1>8, <2>1 DEF IInv, Whole
    <2> QED BY <1>1, <2>2 DEF IInv, Whole
<1>15. Written'
    BY <1>1, <1>2 DEF IInv, Written
<1> QED BY <1>9, <1>10, <1>11, <1>12, <1>13, <1>14, <1>15 DEF IInv

LEMMA PublishKept ==
    ASSUME IInv, PublishText
    PROVE  IInv' /\ All' = All
<1>1. PICK c \in prepared :
          /\ accepted' = accepted \cup {c} /\ prepared' = prepared \ {c}
          /\ UNCHANGED <<replica, base, peer, edits, published>>
    BY DEF PublishText
<1>2. All' = All /\ \A v \in Writers : Own(v)' = Own(v)
    BY <1>1 DEF All, Own
<1>3. /\ accepted \subseteq accepted' /\ accepted' \subseteq All
      /\ c.deps # {} /\ c.deps \subseteq IdsOf(accepted)
    BY <1>1 DEF All, IInv, Whole
<1>4. Shaped' /\ Named' /\ Apart' /\ Chained' /\ Written'
    BY <1>1, <1>2 DEF IInv, Shaped, Named, Apart, Chained, Written
<1>5. Held'
    BY <1>1, <1>2, <1>3 DEF IInv, Held
<1>6. Whole'
    <2>1. Closed(accepted') /\ IdsOf(accepted) \subseteq IdsOf(accepted')
        BY <1>1, <1>3 DEF IInv, Whole, Closed, IdsOf
    <2>2. OneRoot(accepted')
        BY <1>1, <1>3 DEF IInv, Whole, OneRoot
    <2>3. \A v \in Writers : \A d \in accepted' : d.id \in base[v] => d.deps \subseteq base[v]
        BY <1>3, BaseStays
    <2>4. \A d \in prepared' : d.id[1] = 0 /\ d.deps # {} /\ d.deps \subseteq IdsOf(accepted')
        BY <1>1, <2>1 DEF IInv, Whole
    <2> QED BY <1>1, <2>1, <2>2, <2>3, <2>4 DEF IInv, Whole
<1> QED BY <1>2, <1>4, <1>5, <1>6 DEF IInv

--------------------------------------------------------------------------
(* The theorems.                                                          *)

LEMMA InitInv == Init => IInv /\ All = {}
<1> SUFFICES ASSUME Init PROVE IInv /\ All = {}
    OBVIOUS
<1>1. /\ accepted = {} /\ prepared = {} /\ edits = 0 /\ published = 0
      /\ replica = [w \in Writers |-> NoReplica]
      /\ base = [w \in Writers |-> {}] /\ peer = [w \in Writers |-> 1]
    BY DEF Init
<1>2. /\ \A w \in Writers : /\ replica[w] = NoReplica /\ replica[w].changes = {} /\ replica[w].baseline = None
                            /\ base[w] = {}
      /\ NoReplica = [changes |-> {}, baseline |-> None]
    BY <1>1 DEF NoReplica
<1>3. All = {} /\ \A w \in Writers : Own(w) = {}
    BY <1>1, <1>2 DEF All, Own
<1>4. Shaped
    <2>1. replica = [w \in Writers |-> [changes |-> replica[w].changes, baseline |-> replica[w].baseline]]
        BY <1>1, <1>2
    <2>2. base = [w \in Writers |-> base[w]]
        BY <1>1
    <2> QED BY <1>1, <1>2, <2>1, <2>2, BoundsAssumption DEF Shaped
<1>5. Named /\ Apart /\ Chained /\ Written
    BY <1>3 DEF Named, Apart, Chained, Written
<1>6. Held
    <2>1. IsFiniteSet({}) /\ Cardinality({}) = 0 /\ \A n \in Nat : ~(n < 0)
        BY FS_EmptySet
    <2> QED BY <1>2, <1>3, <2>1 DEF Held
<1>7. Whole
    BY <1>1, <1>2 DEF Whole, Closed, OneRoot
<1> QED BY <1>3, <1>4, <1>5, <1>6, <1>7 DEF IInv

\* No change comes to be that leaves out what is required.
Spreads ==
    \/ All' \subseteq All
    \/ \E c : All' = All \cup {c} /\ (MustsStored => Provides(c))

LEMMA StepInv == IInv /\ [Next]_vars => IInv' /\ Spreads
<1> SUFFICES ASSUME IInv, [Next]_vars PROVE IInv' /\ Spreads
    OBVIOUS
<1>1. ASSUME NEW w \in Writers, NEW c, NEW doc, Makes(w, c, doc) PROVE IInv' /\ Spreads
    <2>1. All' = All \cup {c} /\ (MustsStored => Provides(c))
        BY <1>1, MakesAdds DEF Makes
    <2> QED BY <1>1, <2>1, MakesKept DEF Spreads
<1>2. ASSUME NEW w \in Writers, NewDocument(w) PROVE IInv' /\ Spreads
    BY <1>1, <1>2, NewKind
<1>3. ASSUME NEW w \in Writers, ReplaceDocument(w) PROVE IInv' /\ Spreads
    <2>1. ASSUME NEW doc, Settles(w, doc) PROVE IInv' /\ Spreads
        <3>1. /\ replica'[w].changes = replica[w].changes
              /\ \A v \in Writers \ {w} : replica'[v] = replica[v]
            BY <2>1, ReplacesReplica DEF Settles, Replaces, IInv
        <3>2. UNCHANGED <<accepted, prepared>>
            BY <2>1 DEF Settles
        <3>3. All' = All
            BY <3>1, <3>2 DEF All
        <3> QED BY <2>1, <3>3, SettlesKept DEF Spreads
    <2> QED BY <1>1, <1>3, <2>1, ReplaceKinds
<1>4. ASSUME NEW w \in Writers, NEW doc, Shares(w, doc) PROVE IInv' /\ Spreads
    BY <1>4, SharesAll, SharesKept DEF Spreads
<1>5. ASSUME NEW w \in Writers, Accept(w) PROVE IInv' /\ Spreads
    BY <1>4, <1>5, AcceptKind
<1>6. ASSUME NEW w \in Writers, Follow(w) PROVE IInv' /\ Spreads
    BY <1>4, <1>6, FollowKind
<1>7. ASSUME NEW w \in Writers, Refuse(w) PROVE IInv' /\ Spreads
    <2>1. PICK doc : Drops(w, doc)
        BY <1>7, RefuseKind
    <2>2. /\ replica'[w].changes = accepted
          /\ \A v \in Writers \ {w} : replica'[v] = replica[v]
        BY <2>1, ReplacesReplica DEF Drops, Replaces, IInv
    <2>3. UNCHANGED <<accepted, prepared>>
        BY <2>1 DEF Drops
    <2>4. All' \subseteq All
        BY <2>2, <2>3 DEF All
    <2> QED BY <2>1, <2>4, DropsKept DEF Spreads
<1>8. ASSUME NEW w \in Writers, PrepareText(w) PROVE IInv' /\ Spreads
    <2>1. PICK c : Prepares(w, c)
        BY <1>8, PrepareKind
    <2>2. /\ UNCHANGED <<accepted, replica>> /\ prepared' = prepared \cup {c}
          /\ c.sets = <<>> /\ c.deps # {}
        BY <2>1 DEF Prepares
    <2>3. All' = All \cup {c}
        BY <2>2 DEF All
    <2>4. Provides(c)
        <3>1. DOMAIN <<>> = {}
            OBVIOUS
        <3> QED BY <2>2, <3>1 DEF Provides
    <2> QED BY <2>1, <2>3, <2>4, PreparesKept DEF Spreads
<1>9. ASSUME PublishText PROVE IInv' /\ Spreads
    BY <1>9, PublishKept DEF Spreads
<1>10. ASSUME UNCHANGED vars PROVE IInv' /\ Spreads
    <2>1. UNCHANGED <<accepted, replica, base, peer, edits, prepared, published>>
        BY <1>10 DEF vars
    <2>2. All' = All /\ \A w \in Writers : Own(w)' = Own(w)
        BY <2>1 DEF All, Own
    <2>3. Shaped' /\ Named'
        BY <2>1, <2>2 DEF IInv, Shaped, Named
    <2>4. Apart' /\ Chained' /\ Written'
        BY <2>2 DEF IInv, Apart, Chained, Written
    <2>5. Held' /\ Whole'
        BY <2>1, <2>2 DEF IInv, Held, Whole
    <2> QED BY <2>2, <2>3, <2>4, <2>5 DEF Spreads, IInv
<1> QED BY <1>2, <1>3, <1>5, <1>6, <1>7, <1>8, <1>9, <1>10 DEF Next

LEMMA Invariance == Spec => []IInv
<1>1. Init => IInv
    BY InitInv
<1>2. IInv /\ [Next]_vars => IInv'
    BY StepInv
<1> QED BY <1>1, <1>2, PTL DEF Spec

(* What the store and each replica hold has the shape the code keeps: a    *)
(* replica without changes has no document to write against, and the names *)
(* NextId counts out for a peer (write_document_changes commits one change *)
(* each) are given once, though replicas are dropped by a refusal and      *)
(* adopt the changes of others in between.                                 *)
THEOREM TypeCorrect == Spec => []TypeOK
<1>1. IInv => TypeOK
    <2> SUFFICES ASSUME IInv PROVE TypeOK
        OBVIOUS
    <2>1. \A w \in Writers :
            /\ base[w] \subseteq IdsOf(accepted)
            /\ replica[w].changes = {} => replica[w].baseline = None
            /\ replica[w].baseline # None => DOMAIN replica[w].baseline \subseteq Slots
        BY DEF IInv, Shaped, Whole, DocOK
    <2>2. \A c, d \in accepted : c.id = d.id => c = d
        BY DEF IInv, Apart, All
    <2>3. IsInjective([c \in accepted |-> c.id])
        BY <2>2 DEF IsInjective
    <2> QED BY <2>1, <2>3 DEF TypeOK, IInv, Shaped
<1> QED BY <1>1, Invariance, PTL

LEMMA HistoryIsOne == IInv => OneHistory
<1> SUFFICES ASSUME IInv PROVE OneHistory
    OBVIOUS
<1> DEFINE roots == {c \in accepted : c.deps = {}}
<1>1. \A c, d \in roots : c = d
    BY DEF IInv, Whole, OneRoot
<1>2. Cardinality(roots) <= 1
    <2>1. CASE roots = {}
        <3>1. Cardinality({}) = 0
            BY FS_EmptySet
        <3> HIDE DEF roots
        <3> QED BY <2>1, <3>1
    <2>2. CASE roots # {}
        <3>1. PICK c \in roots : TRUE
            BY <2>2
        <3>2. roots = {c}
            BY <1>1
        <3>3. Cardinality({c}) = 1
            BY FS_Singleton
        <3> HIDE DEF roots
        <3> QED BY <3>2, <3>3
    <2> QED BY <2>1, <2>2
<1> QED BY <1>2 DEF OneHistory, IInv, Whole

LEMMA ProvidedStep == MustsStored /\ Provided /\ Spreads => Provided'
BY DEF Provided, Spreads, Provides, Musts

(* A whole set of changes reads as a document with every required value.   *)
LEMMA WholeIsValid ==
    ASSUME IInv, Provided, NoneApart, NEW C, C \subseteq All, Closed(C), C # {}, NEW s \in Musts
    PROVE  At(Materialized(C), s) # None
<1>1. ASSUME Kind(s) = "scalar" PROVE Register(C, <<s, "value">>) # None
    <2>1. PICK r \in C : r.deps = {}
        BY BeginsSomewhere
    <2>2. <<s, "value">> \in DOMAIN r.sets
        BY <1>1, <2>1 DEF Provided, Provides
    <2>3. PICK last \in C : /\ <<s, "value">> \in DOMAIN last.sets
                            /\ Register(C, <<s, "value">>) = last.sets[<<s, "value">>]
        BY <2>2, RegisterIsLast DEF IInv
    <2>4. last.sets[<<s, "value">>] # None
        BY <1>1, <2>3 DEF Provided, Provides
    <2> QED BY <2>3, <2>4
<1> QED BY <1>1, MustReads DEF IInv

(* However the updates of forks, of writers that were refused and started  *)
(* over and of adopted changes are merged, an accepted document is whole:  *)
(* require_related_history keeps its history one and without gaps, and it  *)
(* has every value validate_document required of each edit.                *)
THEOREM AcceptedIsWhole == NoneApart /\ MustsStored => (Spec => []AcceptedWhole)
<1> SUFFICES ASSUME NoneApart, MustsStored PROVE Spec => []AcceptedWhole
    OBVIOUS
<1>1. Init => IInv /\ Provided
    BY InitInv DEF Provided
<1>2. (IInv /\ Provided) /\ [Next]_vars => (IInv /\ Provided)'
    BY StepInv, ProvidedStep
<1>3. IInv /\ Provided => AcceptedWhole
    <2> SUFFICES ASSUME IInv, Provided PROVE OneHistory /\ AcceptedValid
        BY DEF AcceptedWhole
    <2>1. accepted \subseteq All /\ Closed(accepted)
        BY DEF All, IInv, Whole
    <2>2. AcceptedValid
        BY <2>1, WholeIsValid DEF AcceptedValid, Musts
    <2> QED BY <2>2, HistoryIsOne
<1> QED BY <1>1, <1>2, <1>3, PTL DEF Spec

(* A character nobody had seen is never removed: what takes it out of the  *)
(* text is a change of a writer that held it, for the elements a writing,  *)
(* or a text operation prepared at a captured frontier (PrepareText, then  *)
(* PublishText), removes are of changes it follows.                        *)
THEOREM TextIsKept == Spec => []TextKept
<1>1. IInv => TextKept
    <2> SUFFICES ASSUME IInv, NEW c \in accepted, NEW a \in c.adds, Kind(a[1]) = "text",
                        [by |-> c.id, slot |-> a[1], entry |-> ""] \notin Elements(accepted, a[1])
                 PROVE  \E d \in accepted :
                            /\ [by |-> c.id, slot |-> a[1], entry |-> ""] \in d.dels
                            /\ c.id \in d.deps
        BY DEF TextKept
    <2> DEFINE e == [by |-> c.id, slot |-> a[1], entry |-> ""]
    <2>1. accepted \subseteq All
        BY DEF All
    <2>2. a[2] = ""
        BY <2>1 DEF IInv, Written, Writing
    <2>3. PICK d \in accepted : e \in d.dels
        <3>1. e \in {[by |-> c.id, slot |-> a[1], entry |-> b[2]] : b \in {x \in c.adds : x[1] = a[1]}}
            BY <2>2
        <3>2. e \in UNION {{[by |-> d.id, slot |-> a[1], entry |-> b[2]] :
                              b \in {x \in d.adds : x[1] = a[1]}} : d \in accepted}
            BY <3>1
        <3> HIDE DEF e
        <3> QED BY <3>2 DEF Elements, e
    <2>4. e.by \in d.deps
        BY <2>1, <2>3 DEF IInv, Written, Writing
    <2> QED BY <2>3, <2>4
<1> QED BY <1>1, Invariance, PTL

=============================================================================
