----------------------- MODULE AuthoringRuntimeProofs -----------------------
(***************************************************************************)
(* For any edits, any entity and any number of saves and histories: the    *)
(* session of an authored resource agrees with the replica behind it, with *)
(* the operations recorded to restore it, and with the calls in flight.    *)
(* For entities whose controllers take no documents, no edit is lost, of   *)
(* this author or another, and none is written twice.                      *)
(***************************************************************************)
EXTENDS AuthoringRuntime, FiniteSetTheorems, WellFoundedInduction, TLAPS

--------------------------------------------------------------------------
(* Counting copies.                                                       *)

AnyOperation == [edit: Edits, copy: Nat \ {0}, removes: BOOLEAN]
Bounded(ops) ==
    /\ ops \subseteq AnyOperation
    /\ \A e \in Edits : \E n \in Nat : \A x \in ops : x.edit = e => x.copy <= n

(* The first `n` copies of an edit after number `from`.                    *)
Copies(e, from, n) == {[edit |-> e, copy |-> from + m, removes |-> FALSE] : m \in 1..n}
LiveOf(ops, e) == {x \in Live(ops) : x.edit = e}

LEMMA LeastIsThere ==
    ASSUME NEW S, S \subseteq Nat, S # {}
    PROVE  \E m \in S : \A x \in S : m <= x
<1> DEFINE Less == {pair \in Nat \X Nat : pair[1] < pair[2]}
<1>1. IsWellFoundedOn(Less, Nat)
    BY NatLessThanWellFounded DEF OpToRel
<1>2. \A x, y \in Nat : y < x => <<y, x>> \in Less
    OBVIOUS
<1> HIDE DEF Less
<1>3. PICK m \in S : \A y \in S : ~(<<y, m>> \in Less)
    BY <1>1, WFMin
<1>4. ASSUME NEW x \in S PROVE m <= x
    <2>1. m \in Nat /\ x \in Nat
        OBVIOUS
    <2>2. ~(x < m)
        BY <1>2, <1>3, <2>1
    <2> QED BY <2>1, <2>2
<1> QED BY <1>4

LEMMA GreatestIsThere ==
    ASSUME NEW S, S \subseteq Nat, S # {}, NEW b \in Nat, \A x \in S : x <= b
    PROVE  \E m \in S : \A x \in S : x <= m
<1> DEFINE Above == {n \in Nat : \A x \in S : x <= n}
<1>1. Above \subseteq Nat /\ b \in Above
    OBVIOUS
<1>2. PICK m \in Above : \A n \in Above : m <= n
    BY <1>1, LeastIsThere
<1>3. CASE m \in S
    BY <1>2, <1>3
<1>4. CASE m \notin S
    <2>1. PICK x \in S : TRUE
        OBVIOUS
    <2>2. m \in Nat /\ \A y \in S : y \in Nat /\ y <= m /\ y # m
        BY <1>4
    <2>3. m # 0
        BY <2>1, <2>2
    <2>4. m - 1 \in Above
        BY <2>2, <2>3
    <2> QED BY <1>2, <2>2, <2>4
<1> QED BY <1>3, <1>4

LEMMA CopiesCount ==
    ASSUME NEW e, NEW from \in Nat, NEW n \in Nat
    PROVE  IsFiniteSet(Copies(e, from, n)) /\ Cardinality(Copies(e, from, n)) = n
<1> DEFINE copy(m) == [edit |-> e, copy |-> from + m, removes |-> FALSE]
           f == [m \in 1..n |-> copy(m)]
<1>1. f \in Bijection(1..n, Copies(e, from, n))
    <2>1. \A a, b \in 1..n : f[a] = f[b] => a = b
        <3>1. \A a : copy(a).copy = from + a
            OBVIOUS
        <3>2. \A a, b \in 1..n : from + a = from + b => a = b
            OBVIOUS
        <3> QED BY <3>1, <3>2
    <2>2. \A y \in Copies(e, from, n) : \E m \in 1..n : f[m] = y
        BY DEF Copies
    <2>3. f \in [1..n -> Copies(e, from, n)]
        BY DEF Copies
    <2> HIDE DEF f
    <2> QED BY <2>1, <2>2, <2>3 DEF Bijection, Injection, Surjection, IsInjective
<1>2. ExistsBijection(1..n, Copies(e, from, n))
    BY <1>1 DEF ExistsBijection
<1>3. IsFiniteSet(Copies(e, from, n))
    BY <1>2, FS_NatBijection
<1> QED BY <1>2, <1>3, FS_CountingElements

LEMMA LiveCount ==
    ASSUME NEW ops, Bounded(ops), NEW e \in Edits
    PROVE  /\ Document(ops)[e] = Cardinality(LiveOf(ops, e))
           /\ IsFiniteSet(LiveOf(ops, e)) /\ Document(ops)[e] \in Nat
           /\ \A n \in Nat : (\A x \in ops : x.edit = e => x.copy <= n) =>
                  LiveOf(ops, e) \subseteq Copies(e, 0, n) /\ Document(ops)[e] <= n
<1>1. Document(ops)[e] = Cardinality(LiveOf(ops, e))
    BY DEF Document, LiveOf
<1>2. ASSUME NEW n \in Nat, \A x \in ops : x.edit = e => x.copy <= n
      PROVE  LiveOf(ops, e) \subseteq Copies(e, 0, n)
    <2> SUFFICES ASSUME NEW x \in LiveOf(ops, e) PROVE x \in Copies(e, 0, n)
        OBVIOUS
    <2>1. x \in AnyOperation /\ x.edit = e /\ ~x.removes /\ x \in ops
        BY DEF LiveOf, Live, Bounded
    <2>2. x.removes = FALSE /\ x.copy \in 1..n
        BY <1>2, <2>1 DEF AnyOperation
    <2>3. x = [edit |-> e, copy |-> 0 + x.copy, removes |-> FALSE]
        BY <2>1, <2>2 DEF AnyOperation
    <2> QED BY <2>2, <2>3 DEF Copies
<1>3. ASSUME NEW n \in Nat, \A x \in ops : x.edit = e => x.copy <= n
      PROVE  IsFiniteSet(LiveOf(ops, e)) /\ Cardinality(LiveOf(ops, e)) <= n
    BY <1>2, <1>3, CopiesCount, FS_Subset
<1>4. PICK n \in Nat : \A x \in ops : x.edit = e => x.copy <= n
    BY DEF Bounded
<1>5. IsFiniteSet(LiveOf(ops, e))
    BY <1>3, <1>4
<1>6. Cardinality(LiveOf(ops, e)) \in Nat
    BY <1>5, FS_CardinalityType
<1> QED BY <1>1, <1>2, <1>3, <1>5, <1>6

LEMMA DocumentType ==
    ASSUME NEW ops, Bounded(ops)
    PROVE  Document(ops) \in [Edits -> Nat]
<1>1. Document(ops) = [e \in Edits |-> Document(ops)[e]]
    BY DEF Document
<1> QED BY <1>1, LiveCount

(* Of the copies of an edit, the ranks are the numbers to their count.     *)
LEMMA RankedCount ==
    ASSUME NEW e, NEW n \in Nat, NEW S, S \subseteq Copies(e, 0, n), NEW d \in Nat
    PROVE  LET over == {x \in S : Cardinality({y \in S : y.copy <= x.copy}) > d}
           IN  /\ IsFiniteSet(over) /\ IsFiniteSet(S) /\ Cardinality(S) \in Nat
               /\ Cardinality(over) = IF Cardinality(S) > d THEN Cardinality(S) - d ELSE 0
<1> DEFINE Upto(x) == {y \in S : y.copy <= x.copy}
           r == [x \in S |-> Cardinality(Upto(x))]
           N == Cardinality(S)
           over == {x \in S : r[x] > d}
<1>1. IsFiniteSet(S) /\ N \in Nat
    BY CopiesCount, FS_Subset, FS_CardinalityType
<1>2. \A x \in S : x.copy \in Nat
    BY DEF Copies
<1>3. \A x, y \in S : x.copy = y.copy => x = y
    <2>1. \A x \in S : x = [edit |-> e, copy |-> x.copy, removes |-> FALSE]
        BY DEF Copies
    <2> QED BY <2>1
<1>4. ASSUME NEW x \in S
      PROVE  /\ IsFiniteSet(Upto(x)) /\ r[x] = Cardinality(Upto(x)) /\ r[x] \in 1..N /\ x \in Upto(x)
    <2>1. x \in Upto(x) /\ Upto(x) \subseteq S
        BY <1>2
    <2>2. IsFiniteSet(Upto(x)) /\ Cardinality(Upto(x)) <= N
        BY <1>1, <2>1, FS_Subset
    <2>3. Cardinality(Upto(x)) \in Nat /\ Cardinality(Upto(x)) # 0
        BY <2>1, <2>2, FS_CardinalityType, FS_EmptySet
    <2> QED BY <1>1, <2>1, <2>2, <2>3
<1>5. ASSUME NEW x \in S, NEW z \in S, x.copy < z.copy PROVE r[x] < r[z]
    <2>1. Upto(x) \subseteq Upto(z) /\ z \notin Upto(x) /\ z \in Upto(z)
        BY <1>2, <1>5
    <2>2. Cardinality(Upto(x)) <= Cardinality(Upto(z)) /\ Cardinality(Upto(x)) # Cardinality(Upto(z))
        <3>1. IsFiniteSet(Upto(z)) /\ Upto(x) \in SUBSET Upto(z) /\ Upto(x) # Upto(z)
            BY <1>4, <2>1
        <3> HIDE DEF Upto
        <3> QED BY <3>1, FS_Subset
    <2>3. r[x] = Cardinality(Upto(x)) /\ r[z] = Cardinality(Upto(z)) /\ r[x] \in 1..N /\ r[z] \in 1..N
        BY <1>4
    <2>4. r[x] \in Nat /\ r[z] \in Nat
        <3> HIDE DEF r, N
        <3> QED BY <1>1, <2>3
    <2> HIDE DEF r, Upto
    <2> QED BY <2>2, <2>3, <2>4
<1>6. r \in Bijection(S, 1..N)
    <2>1. \A x, z \in S : r[x] = r[z] => x = z
        <3> SUFFICES ASSUME NEW x \in S, NEW z \in S, r[x] = r[z], x # z PROVE FALSE
            OBVIOUS
        <3>1. x.copy < z.copy \/ z.copy < x.copy
            BY <1>2, <1>3
        <3>2. r[x] \in Nat
            BY <1>4
        <3> HIDE DEF r
        <3> QED BY <1>5, <3>1, <3>2
    <2>2. r \in [S -> 1..N]
        BY <1>4
    <2>3. r \in Injection(S, 1..N)
        <3> HIDE DEF r
        <3> QED BY <2>1, <2>2 DEF Injection, IsInjective
    <2>4. IsFiniteSet(1..N) /\ Cardinality(1..N) = N
        <3>1. Cardinality(1..N) = IF 1 > N THEN 0 ELSE N - 1 + 1
            BY <1>1, FS_Interval
        <3> HIDE DEF N
        <3> QED BY <1>1, <3>1, FS_Interval
    <2>5. r \in Surjection(S, 1..N)
        <3> HIDE DEF r
        <3> QED BY <2>3, <2>4, FS_Injection
    <2> QED BY <2>3, <2>5 DEF Bijection
<1>7. IsFiniteSet(over)
    BY <1>1, FS_Subset
<1>8. CASE N > d
    <2> DEFINE g == [x \in over |-> r[x]]
    <2>1. g \in Bijection(over, (d + 1)..N)
        <3>1. \A x \in over : r[x] \in (d + 1)..N
            <4> TAKE x \in over
            <4>1. r[x] \in 1..N /\ r[x] > d
                BY <1>4
            <4> HIDE DEF r, N
            <4> QED BY <1>1, <4>1
        <3>2. \A m \in (d + 1)..N : \E x \in over : r[x] = m
            <4> TAKE m \in (d + 1)..N
            <4>1. m \in 1..N /\ m > d
                BY <1>1
            <4>2. PICK x \in S : r[x] = m
                <5> HIDE DEF r
                <5> QED BY <1>6, <4>1 DEF Bijection, Surjection
            <4> HIDE DEF r
            <4> QED BY <4>1, <4>2
        <3>3. \A x, z \in over : r[x] = r[z] => x = z
            <4>1. DOMAIN r = S
                OBVIOUS
            <4> HIDE DEF r
            <4> QED BY <1>6, <4>1 DEF Bijection, Injection, IsInjective
        <3> HIDE DEF r, over, N
        <3> QED BY <3>1, <3>2, <3>3 DEF Bijection, Injection, Surjection, IsInjective
    <2>2. Cardinality((d + 1)..N) = Cardinality(over)
        <3> HIDE DEF over, g, N
        <3> QED BY <1>7, <2>1, FS_Bijection DEF ExistsBijection
    <2>3. Cardinality((d + 1)..N) = N - d
        <3>1. Cardinality((d + 1)..N) = IF d + 1 > N THEN 0 ELSE N - (d + 1) + 1
            <4>1. d + 1 \in Int /\ N \in Int
                BY <1>1
            <4> HIDE DEF N
            <4> QED BY <4>1, FS_Interval
        <3> HIDE DEF N
        <3> QED BY <1>1, <1>8, <3>1
    <2> QED BY <1>1, <1>7, <1>8, <2>2, <2>3
<1>9. CASE ~(N > d)
    <2>1. over = {}
        <3> SUFFICES ASSUME NEW x \in over PROVE FALSE
            OBVIOUS
        <3>1. r[x] \in 1..N /\ r[x] > d
            BY <1>4
        <3> HIDE DEF r, N
        <3> QED BY <1>1, <1>9, <3>1
    <2> QED BY <1>1, <1>7, <1>9, <2>1, FS_EmptySet
<1>10. over = {x \in S : Cardinality({y \in S : y.copy <= x.copy}) > d}
    OBVIOUS
<1> HIDE DEF over, N
<1> QED BY <1>1, <1>7, <1>8, <1>9, <1>10 DEF N

--------------------------------------------------------------------------
(* Writing a document into a replica.                                     *)

Removal(x) == [x EXCEPT !.removes = TRUE]

LEMMA RemovalIs ==
    ASSUME NEW x \in AnyOperation
    PROVE  /\ Removal(x) \in AnyOperation /\ Removal(x).removes = TRUE
           /\ Removal(x).edit = x.edit /\ Removal(x).copy = x.copy
           /\ \A y \in AnyOperation : Removal(x) = Removal(y) /\ x.removes = y.removes => x = y
<1>1. /\ Removal(x) \in AnyOperation /\ Removal(x).removes = TRUE
      /\ Removal(x).edit = x.edit /\ Removal(x).copy = x.copy
    BY DEF Removal, AnyOperation
<1>2. ASSUME NEW y \in AnyOperation, Removal(x) = Removal(y), x.removes = y.removes
      PROVE  x = y
    <2>1. Removal(y).edit = y.edit /\ Removal(y).copy = y.copy
        BY DEF Removal, AnyOperation
    <2>2. x.edit = y.edit /\ x.copy = y.copy
        BY <1>1, <1>2, <2>1
    <2> QED BY <1>2, <2>2 DEF AnyOperation
<1> QED BY <1>1, <1>2

(* The copies an edit shows too many of, and the ones it lacks.            *)
SurplusOf(ops, document, e) ==
    {x \in LiveOf(ops, e) : Cardinality({y \in LiveOf(ops, e) : y.copy <= x.copy}) > document[e]}
LackingOf(ops, document, e) == Copies(e, copies[e], document[e] - Document(ops)[e])

LEMMA SurplusIs ==
    ASSUME NEW ops, NEW document, NEW x
    PROVE  x \in Surplus(ops, document) <=> x \in SurplusOf(ops, document, x.edit)
<1>1. {y \in Live(ops) : y.edit = x.edit /\ y.copy <= x.copy}
          = {y \in LiveOf(ops, x.edit) : y.copy <= x.copy}
    BY DEF LiveOf
<1> QED BY <1>1 DEF Surplus, SurplusOf, LiveOf

LEMMA LackingIs ==
    ASSUME NEW ops, NEW document, NEW x
    PROVE  x \in Lacking(ops, document) <=>
               \E e \in Edits : x.edit = e /\ x \in LackingOf(ops, document, e)
<1>1. Lacking(ops, document) = UNION {LackingOf(ops, document, e) : e \in Edits}
    BY DEF Lacking, LackingOf, Copies
<1>2. \A e \in Edits : \A y \in LackingOf(ops, document, e) : y.edit = e
    BY DEF LackingOf, Copies
<1> QED BY <1>1, <1>2

(* What is live of an edit once a document is written.                     *)
LEMMA WrittenLive ==
    ASSUME copies \in [Edits -> Nat], NEW ops, ops \subseteq AnyOperation,
           \A x \in ops : x.copy <= copies[x.edit],
           NEW document \in [Edits -> Nat], Bounded(ops), NEW e \in Edits
    PROVE  LiveOf(ReplaceDraft(ops, document), e)
               = (LiveOf(ops, e) \ SurplusOf(ops, document, e)) \cup LackingOf(ops, document, e)
<1> DEFINE R == ReplaceDraft(ops, document)
           removals == {Removal(x) : x \in Surplus(ops, document)}
           lacking == Lacking(ops, document)
<1>1. R = ops \cup removals \cup lacking
    BY DEF ReplaceDraft, Removal
<1>2. \A x \in Surplus(ops, document) : x \in Live(ops)
    BY DEF Surplus
<1>3. \A x \in Live(ops) : x \in ops /\ x \in AnyOperation /\ x.removes = FALSE /\ Removal(x) \notin ops
    <2>1. \A x \in Live(ops) : x \in ops /\ ~x.removes /\ Removal(x) \notin ops
        BY DEF Live, Removal
    <2> QED BY <2>1 DEF AnyOperation
<1>4. \A f \in Edits : \A x \in LackingOf(ops, document, f) :
          x \in AnyOperation /\ x.edit = f /\ x.removes = FALSE /\ x.copy > copies[f]
    <2> TAKE f \in Edits
    <2> TAKE x \in LackingOf(ops, document, f)
    <2>1. PICK m \in 1..(document[f] - Document(ops)[f]) :
              x = [edit |-> f, copy |-> copies[f] + m, removes |-> FALSE]
        BY DEF LackingOf, Copies
    <2>2. Document(ops)[f] \in Nat /\ document[f] \in Nat /\ copies[f] \in Nat
        BY LiveCount
    <2>3. copies[f] + m \in Nat \ {0} /\ copies[f] + m > copies[f]
        BY <2>1, <2>2
    <2> QED BY <2>1, <2>3 DEF AnyOperation
<1>5. \A x \in lacking : x \in AnyOperation /\ x.removes = FALSE /\ x.edit \in Edits /\ x.copy > copies[x.edit]
    BY <1>4, LackingIs
<1>6. \A y \in removals : y.removes = TRUE
    BY <1>2, <1>3, RemovalIs
<1>7. ASSUME NEW x \in LiveOf(R, e)
      PROVE  x \in (LiveOf(ops, e) \ SurplusOf(ops, document, e)) \cup LackingOf(ops, document, e)
    <2>1. x \in R /\ ~x.removes /\ Removal(x) \notin R /\ x.edit = e
        BY DEF LiveOf, Live, Removal
    <2>2. CASE x \in lacking
        BY <2>1, <2>2, LackingIs
    <2>3. CASE x \in ops
        <3>1. x \in LiveOf(ops, e)
            BY <1>1, <2>1, <2>3 DEF LiveOf, Live, Removal
        <3>2. x \notin Surplus(ops, document)
            BY <1>1, <2>1
        <3> QED BY <2>1, <3>1, <3>2, SurplusIs
    <2> QED BY <1>1, <1>6, <2>1, <2>2, <2>3
<1>8. ASSUME NEW x \in LiveOf(ops, e), x \notin SurplusOf(ops, document, e) PROVE x \in LiveOf(R, e)
    <2>1. x \in Live(ops) /\ x.edit = e /\ x \notin Surplus(ops, document)
        BY <1>8, SurplusIs DEF LiveOf
    <2>2. x \in ops /\ x \in AnyOperation /\ x.removes = FALSE /\ Removal(x) \notin ops
        BY <1>3, <2>1
    <2>3. Removal(x) \notin removals
        <3> SUFFICES ASSUME NEW y \in Surplus(ops, document), Removal(x) = Removal(y) PROVE FALSE
            OBVIOUS
        <3>1. y \in AnyOperation /\ y.removes = FALSE
            BY <1>2, <1>3
        <3>2. x = y
            <4>1. \A z \in AnyOperation : Removal(x) = Removal(z) /\ x.removes = z.removes => x = z
                BY <2>2, RemovalIs
            <4> QED BY <2>2, <3>1, <4>1
        <3> QED BY <2>1, <3>2
    <2>4. Removal(x) \notin lacking
        BY <1>5, <2>2, RemovalIs
    <2>5. x \in R /\ Removal(x) \notin R
        BY <1>1, <2>2, <2>3, <2>4
    <2> QED BY <2>1, <2>2, <2>5 DEF LiveOf, Live, Removal
<1>9. ASSUME NEW x \in LackingOf(ops, document, e) PROVE x \in LiveOf(R, e)
    <2>1. x \in AnyOperation /\ x.edit = e /\ x.removes = FALSE /\ x.copy > copies[e] /\ x \in lacking
        BY <1>4, LackingIs
    <2>2. copies[e] \in Nat /\ x.copy \in Nat
        BY <2>1 DEF AnyOperation
    <2>3. Removal(x) \notin ops
        <3>1. Removal(x).edit = e /\ Removal(x).copy = x.copy
            BY <2>1, RemovalIs
        <3> QED BY <2>1, <2>2, <3>1
    <2>4. Removal(x) \notin removals
        <3> SUFFICES ASSUME NEW y \in Surplus(ops, document), Removal(x) = Removal(y) PROVE FALSE
            OBVIOUS
        <3>1. y \in AnyOperation /\ y \in ops
            BY <1>2, <1>3
        <3>2. y.edit = e /\ y.copy = x.copy
            <4>1. Removal(y).edit = y.edit /\ Removal(y).copy = y.copy
                BY <3>1, RemovalIs
            <4>2. Removal(x).edit = x.edit /\ Removal(x).copy = x.copy
                BY <2>1, RemovalIs
            <4> QED BY <2>1, <4>1, <4>2
        <3>3. y.copy <= copies[e]
            BY <3>1, <3>2
        <3> QED BY <2>1, <2>2, <3>2, <3>3
    <2>5. Removal(x) \notin lacking
        BY <1>5, <2>1, RemovalIs
    <2>6. x \in R /\ Removal(x) \notin R
        BY <1>1, <2>1, <2>3, <2>4, <2>5
    <2> QED BY <2>1, <2>6 DEF LiveOf, Live, Removal
<1> QED BY <1>7, <1>8, <1>9

LEMMA WrittenDocument ==
    ASSUME copies \in [Edits -> Nat], NEW ops, ops \subseteq AnyOperation,
           \A x \in ops : x.copy <= copies[x.edit],
           NEW document \in [Edits -> Nat], Bounded(ops)
    PROVE  /\ Document(ReplaceDraft(ops, document)) = document
           /\ Bounded(ReplaceDraft(ops, document)) /\ ops \subseteq ReplaceDraft(ops, document)
<1> DEFINE R == ReplaceDraft(ops, document)
<1>1. ASSUME NEW e \in Edits PROVE Cardinality(LiveOf(R, e)) = document[e]
    <2> DEFINE L == LiveOf(ops, e)
               S == SurplusOf(ops, document, e)
               K == LackingOf(ops, document, e)
               n == Document(ops)[e]
               d == document[e]
    <2>1. LiveOf(R, e) = (L \ S) \cup K
        BY WrittenLive
    <2>2. n = Cardinality(L) /\ n \in Nat /\ d \in Nat /\ copies[e] \in Nat /\ IsFiniteSet(L)
        BY LiveCount
    <2>3. L \subseteq Copies(e, 0, copies[e])
        BY LiveCount, <2>2
    <2>4. IsFiniteSet(S) /\ Cardinality(S) = IF n > d THEN n - d ELSE 0
        BY <2>2, <2>3, RankedCount DEF SurplusOf
    <2>5. S \subseteq L
        BY DEF SurplusOf
    <2>6. K = Copies(e, copies[e], d - n)
        BY DEF LackingOf
    <2> HIDE DEF L, S, K, n, d
    <2>7. IsFiniteSet(L \ S) /\ Cardinality(L \ S) = n - Cardinality(S)
        <3>1. L \cap S = S
            BY <2>5
        <3> QED BY <2>2, <3>1, FS_Difference
    <2>8. CASE n > d
        <3>1. K = {}
            <4>1. 1..(d - n) = {}
                BY <2>2, <2>8
            <4> QED BY <2>6, <4>1 DEF Copies
        <3>2. LiveOf(R, e) = L \ S
            BY <2>1, <3>1
        <3> QED BY <2>2, <2>4, <2>7, <2>8, <3>2 DEF d
    <2>9. CASE ~(n > d)
        <3>1. S = {}
            BY <2>4, <2>9, FS_EmptySet
        <3>2. d - n \in Nat
            BY <2>2, <2>9
        <3>3. IsFiniteSet(K) /\ Cardinality(K) = d - n
            BY <2>2, <2>6, <3>2, CopiesCount
        <3>4. L \cap K = {}
            <4> SUFFICES ASSUME NEW x \in L, x \in K PROVE FALSE
                OBVIOUS
            <4>1. \E i \in 1..copies[e] : x.copy = 0 + i
                BY <2>3 DEF Copies
            <4>2. \E i \in 1..(d - n) : x.copy = copies[e] + i
                BY <2>6 DEF Copies
            <4> QED BY <2>2, <3>2, <4>1, <4>2
        <3>5. Cardinality(L \cup K) = n + (d - n)
            <4>1. Cardinality(L \cup K) = Cardinality(L) + Cardinality(K) - Cardinality(L \cap K)
                BY <2>2, <3>3, FS_Union
            <4>2. Cardinality(L \cap K) = 0
                BY <3>4, FS_EmptySet
            <4> QED BY <2>2, <3>2, <3>3, <4>1, <4>2
        <3>6. LiveOf(R, e) = L \cup K
            BY <2>1, <3>1
        <3> QED BY <2>2, <3>5, <3>6 DEF d
    <2> QED BY <2>8, <2>9
<1>2. ops \subseteq R
    BY DEF ReplaceDraft
<1>3. Bounded(R)
    <2>1. \A x \in R : /\ x \in AnyOperation
                       /\ x.copy <= copies[x.edit] + document[x.edit]
        <3> SUFFICES ASSUME NEW x \in R
                     PROVE  x \in AnyOperation /\ x.copy <= copies[x.edit] + document[x.edit]
            OBVIOUS
        <3>1. ASSUME NEW y \in ops PROVE y.copy <= copies[y.edit] + document[y.edit] /\ y \in AnyOperation
            <4>1. y \in AnyOperation /\ y.copy <= copies[y.edit] /\ y.edit \in Edits /\ y.copy \in Nat
                BY DEF AnyOperation
            <4>2. copies[y.edit] \in Nat /\ document[y.edit] \in Nat
                BY <4>1
            <4> QED BY <4>1, <4>2
        <3>2. CASE x \in ops
            BY <3>1, <3>2
        <3>3. CASE x \in {Removal(y) : y \in Surplus(ops, document)}
            <4>1. PICK y \in ops : x = Removal(y)
                BY <3>3 DEF Surplus, Live
            <4> QED BY <3>1, <4>1, RemovalIs
        <3>4. CASE x \in Lacking(ops, document)
            <4>1. PICK e \in Edits : x \in LackingOf(ops, document, e)
                BY <3>4, LackingIs
            <4>2. PICK m \in 1..(document[e] - Document(ops)[e]) :
                      x = [edit |-> e, copy |-> copies[e] + m, removes |-> FALSE]
                BY <4>1 DEF LackingOf, Copies
            <4>3. Document(ops)[e] \in Nat /\ document[e] \in Nat /\ copies[e] \in Nat
                BY LiveCount
            <4>4. copies[e] + m \in Nat \ {0} /\ copies[e] + m <= copies[e] + document[e]
                BY <4>2, <4>3
            <4> QED BY <4>2, <4>4 DEF AnyOperation
        <3> QED BY <3>2, <3>3, <3>4 DEF ReplaceDraft, Removal
    <2>2. \A e \in Edits : copies[e] + document[e] \in Nat
        OBVIOUS
    <2> HIDE DEF R
    <2> QED BY <2>1, <2>2 DEF Bounded
<1>4. Document(R) = [e \in Edits |-> document[e]]
    BY <1>1, <1>3, LiveCount DEF Document, LiveOf
<1> QED BY <1>2, <1>3, <1>4

(* A document that is shown already is written by no operation.            *)
LEMMA ShownAlready ==
    ASSUME NEW ops, Bounded(ops)
    PROVE  ReplaceDraft(ops, Document(ops)) = ops
<1> DEFINE document == Document(ops)
<1>1. Surplus(ops, document) = {}
    <2> SUFFICES ASSUME NEW x \in Surplus(ops, document) PROVE FALSE
        OBVIOUS
    <2>1. x \in SurplusOf(ops, document, x.edit) /\ x.edit \in Edits
        BY SurplusIs DEF Surplus, Live, Bounded, AnyOperation
    <2> DEFINE L == LiveOf(ops, x.edit)
               upto == {y \in L : y.copy <= x.copy}
    <2>2. IsFiniteSet(L) /\ document[x.edit] = Cardinality(L) /\ document[x.edit] \in Nat
        BY <2>1, LiveCount
    <2>3. Cardinality(upto) <= Cardinality(L) /\ Cardinality(upto) \in Nat
        BY <2>2, FS_Subset, FS_CardinalityType
    <2>4. Cardinality(upto) > document[x.edit]
        BY <2>1 DEF SurplusOf
    <2> QED BY <2>2, <2>3, <2>4
<1>2. Lacking(ops, document) = {}
    <2>1. \A e \in Edits : document[e] \in Nat
        BY LiveCount
    <2>2. \A e \in Edits : 1..(document[e] - document[e]) = {}
        BY <2>1
    <2> QED BY <2>2 DEF Lacking
<1> QED BY <1>1, <1>2 DEF ReplaceDraft

--------------------------------------------------------------------------
(* The types, over the operations, histories and operation ids there are. *)

Shown == [Edits -> Nat]
FrontierType(K, H) == [history: H, ops: SUBSET K]
EntryType(K, H, N) ==
    [id: N, base: FrontierType(K, H), update: SUBSET K, state: {"queued", "sending", "blocked"}]
RecordedType(K, H) == [history: H, base: SUBSET K, update: SUBSET K]
SessionType(K, H, N) ==
    [takes: BOOLEAN, status: BlockedStatuses \cup ModifiableStatuses, revision: FrontierType(K, H),
     baseline: Shown, draft: Shown, queue: SUBSET EntryType(K, H, N),
     recorded: {None} \cup RecordedType(K, H)]
ControllerType(K, H) ==
    [history: H, ops: SUBSET K, base: SUBSET K, untaken: BOOLEAN, syncing: BOOLEAN]
CallType(K, H, N) ==
    [id: N, stage: {"request", "accepted", "contended", "refused", "resync"},
     base: FrontierType(K, H), update: SUBSET K, awaited: BOOLEAN]

(* An absent session or replica is told from any there is.                 *)
NoneApart == None \notin SessionType(AnyOperation, Nat, Nat) \cup ControllerType(AnyOperation, Nat)

(* The operations whose copies are counted, and the histories of the store. *)
Known == {x \in AnyOperation : x.copy <= copies[x.edit]}
Past == 1..store.history

LEMMA Wider ==
    ASSUME NEW K, NEW L, K \subseteq L, NEW G, NEW H, G \subseteq H, NEW M, NEW N, M \subseteq N
    PROVE  /\ FrontierType(K, G) \subseteq FrontierType(L, H)
           /\ SessionType(K, G, M) \subseteq SessionType(L, H, N)
           /\ ControllerType(K, G) \subseteq ControllerType(L, H)
           /\ CallType(K, G, M) \subseteq CallType(L, H, N)
<1>1. SUBSET K \subseteq SUBSET L
    OBVIOUS
<1>2. FrontierType(K, G) \subseteq FrontierType(L, H)
    BY DEF FrontierType
<1>3. EntryType(K, G, M) \subseteq EntryType(L, H, N)
    BY <1>1, <1>2 DEF EntryType
<1>4. SUBSET EntryType(K, G, M) \subseteq SUBSET EntryType(L, H, N)
    BY <1>3
<1>5. RecordedType(K, G) \subseteq RecordedType(L, H)
    BY <1>1 DEF RecordedType
<1>6. SessionType(K, G, M) \subseteq SessionType(L, H, N)
    BY <1>2, <1>4, <1>5 DEF SessionType
<1>7. ControllerType(K, G) \subseteq ControllerType(L, H)
    BY <1>1 DEF ControllerType
<1>8. CallType(K, G, M) \subseteq CallType(L, H, N)
    BY <1>1, <1>2 DEF CallType
<1> QED BY <1>2, <1>6, <1>7, <1>8

(* A session has one queued operation of an id, and what it records shows  *)
(* its draft.                                                              *)
Whole(s) ==
    /\ \A q, r \in s.queue : q.id = r.id => q = r
    /\ s.recorded # None /\ AcceptsDraft(s) =>
           Document(s.recorded.base \cup s.recorded.update) = s.draft

(* A session and the replica attached to it.                               *)
Sending(s) == \E q \in s.queue : q.state = "sending"
Shows(c, s) == AcceptsDraft(s) \/ (~s.takes /\ Sending(s)) => s.draft = Document(c.ops)
Untaken(c, s) == ~s.takes /\ ~AcceptsDraft(s) /\ c.ops = c.base
Agree(c, s) ==
    /\ c.base \subseteq c.ops
    /\ c.untaken => Untaken(c, s)
    /\ c.syncing => AcceptsDraft(s)
    /\ ~c.syncing => Shows(c, s)
    /\ \A q \in s.queue : q.base.history <= c.history

Typed ==
    /\ copies \in Shown /\ saves \in Nat
    /\ store \in FrontierType(Known, Past) /\ store.history \in Nat \ {0}
    /\ calls \subseteq CallType(Known, Past, 1..saves)
    /\ {session, disk} \ {None} \subseteq SessionType(Known, Past, 1..saves)
    /\ controller # None => controller \in ControllerType(Known, Past)

Paired ==
    /\ \A s \in {session, disk} \ {None} : Whole(s)
    /\ controller # None => session # None /\ Agree(controller, session)

(* The calls that are waited for, and the operations being sent.           *)
Waited(k, q) ==
    /\ q.state = "sending"
    /\ k.stage = "request" => k.base.history <= controller.history
    /\ k.stage = "accepted" => k.base.history = controller.history
Calling ==
    /\ \A k, l \in calls : k.awaited /\ l.awaited /\ k.id = l.id => k = l
    /\ session # None =>
        /\ \A q \in session.queue : q.state = "sending" =>
              controller # None /\ ~controller.untaken /\ \E k \in calls : k.id = q.id /\ k.awaited
        /\ \A k \in calls, q \in session.queue : k.awaited /\ k.id = q.id => Waited(k, q)

(* The inductive invariant.                                                *)
IInv == Typed /\ Paired /\ Calling

--------------------------------------------------------------------------
(* A session and a replica between two turns.                             *)

(* The operations there are once those of `c` are counted.                 *)
Over(c) == Known \cup c.ops

Fits(c, s, H, N) ==
    /\ c \in ControllerType(Over(c), H) /\ Bounded(c.ops) /\ c.base \subseteq c.ops
    /\ s \in SessionType(Over(c), H, N)
    /\ \A q, r \in s.queue : q.id = r.id => q = r
    /\ \A q \in s.queue : q.base.history <= c.history

(* What is published: as it fits, the replica and the session agree.       *)
Fine(c, s, H, N) == Fits(c, s, H, N) /\ Whole(s) /\ Agree(c, s)

(* All but the recorded operations of two sessions are the same.           *)
Same(s, t) ==
    /\ t.takes = s.takes /\ t.status = s.status /\ t.revision = s.revision
    /\ t.baseline = s.baseline /\ t.draft = s.draft /\ t.queue = s.queue

LEMMA BoundedUnion ==
    ASSUME NEW K, NEW L, Bounded(K), Bounded(L)
    PROVE  Bounded(K \cup L)
<1> SUFFICES ASSUME NEW e \in Edits
             PROVE  \E n \in Nat : \A x \in K \cup L : x.edit = e => x.copy <= n
    BY DEF Bounded
<1>1. PICK m \in Nat : \A x \in K : x.edit = e => x.copy <= m
    BY DEF Bounded
<1>2. PICK n \in Nat : \A x \in L : x.edit = e => x.copy <= n
    BY DEF Bounded
<1>3. m + n \in Nat
    OBVIOUS
<1>4. ASSUME NEW x \in K \cup L, x.edit = e PROVE x.copy <= m + n
    <2>1. x.copy \in Nat
        BY DEF Bounded, AnyOperation
    <2>2. x.copy <= m \/ x.copy <= n
        BY <1>1, <1>2, <1>4
    <2> QED BY <2>1, <2>2
<1> QED BY <1>3, <1>4

LEMMA BoundedPart ==
    ASSUME NEW K, NEW L, Bounded(L), K \subseteq L
    PROVE  Bounded(K)
BY DEF Bounded

LEMMA BoundedKnown ==
    ASSUME copies \in Shown
    PROVE  Bounded(Known)
<1>1. \A e \in Edits : copies[e] \in Nat
    BY DEF Shown
<1> QED BY <1>1 DEF Bounded, Known

LEMMA FitsIs ==
    ASSUME NoneApart, copies \in Shown, NEW H, H \subseteq Nat, NEW N, N \subseteq Nat,
           NEW c, NEW s, Fits(c, s, H, N)
    PROVE  /\ Over(c) \subseteq AnyOperation /\ Bounded(Over(c))
           /\ c # None /\ s # None
           /\ Document(c.ops) \in Shown
<1>1. Bounded(Over(c)) /\ Bounded(c.ops)
    BY BoundedKnown, BoundedUnion DEF Fits, Over
<1>2. Over(c) \subseteq AnyOperation
    BY <1>1 DEF Bounded
<1>3. /\ SessionType(Over(c), H, N) \subseteq SessionType(AnyOperation, Nat, Nat)
      /\ ControllerType(Over(c), H) \subseteq ControllerType(AnyOperation, Nat)
    BY <1>2, Wider
<1>4. c # None /\ s # None
    BY <1>3 DEF Fits, NoneApart
<1> QED BY <1>1, <1>2, <1>4, DocumentType DEF Shown

LEMMA RecordIs ==
    ASSUME NEW K, NEW H, NEW N, NEW c \in ControllerType(K, H), NEW s \in SessionType(K, H, N),
           c.base \subseteq c.ops, \A q, r \in s.queue : q.id = r.id => q = r,
           c.untaken => ~AcceptsDraft(s),
           ~c.untaken /\ AcceptsDraft(s) => s.draft = Document(c.ops)
    PROVE  /\ Record(c, s) \in SessionType(K, H, N)
           /\ Whole(Record(c, s)) /\ Same(s, Record(c, s))
<1> DEFINE with(r) == [s EXCEPT !.recorded = r]
<1>1. ASSUME NEW r \in {None} \cup RecordedType(K, H),
             r # None /\ AcceptsDraft(s) => Document(r.base \cup r.update) = s.draft
      PROVE  with(r) \in SessionType(K, H, N) /\ Whole(with(r)) /\ Same(s, with(r))
    <2>1. with(r) \in SessionType(K, H, N)
        BY DEF SessionType
    <2>2. Same(s, with(r)) /\ with(r).recorded = r
        BY DEF Same, SessionType
    <2> HIDE DEF with
    <2> QED BY <1>1, <2>1, <2>2 DEF Whole, Same, AcceptsDraft
<1>2. CASE ~Durable(s)
    <2>1. Record(c, s) = with(None)
        BY <1>2 DEF Record
    <2> QED BY <1>1, <2>1
<1>3. CASE Durable(s) /\ c.untaken
    <2>1. Record(c, s) = s
        BY <1>3 DEF Record
    <2> QED BY <1>3, <2>1 DEF Whole, Same
<1>4. CASE Durable(s) /\ ~c.untaken
    <2> DEFINE r == [history |-> c.history, base |-> c.base, update |-> c.ops \ c.base]
    <2>1. Record(c, s) = with(r)
        BY <1>4 DEF Record
    <2>2. r \in RecordedType(K, H)
        BY DEF RecordedType, ControllerType
    <2>3. r.base \cup r.update = c.ops
        OBVIOUS
    <2> HIDE DEF r, with
    <2> QED BY <1>1, <1>4, <2>1, <2>2, <2>3
<1> QED BY <1>2, <1>3, <1>4

(* What a session and a replica are set from.                              *)
Ready(c, s, aligns) ==
    /\ ~c.syncing
    /\ c.untaken /\ Durable(s) => Untaken(c, s)
    /\ IF aligns /\ s.takes THEN c.ops \subseteq Known ELSE Shows(c, s)

(* What #setSession makes of them.                                         *)
SetTo(c, s, p, H, N) ==
    /\ Fine(p.c, p.s, H, N) /\ Same(s, p.s) /\ c.ops \subseteq p.c.ops
    /\ p.c.history = c.history /\ p.c.base = c.base
    /\ p.c.untaken = (c.untaken /\ Durable(s)) /\ ~p.c.syncing
    /\ p = [c |-> p.c, s |-> p.s]

LEMMA SetFine ==
    ASSUME NoneApart, copies \in Shown, NEW H, H \subseteq Nat, NEW N, N \subseteq Nat,
           NEW c, NEW s, NEW aligns, Fits(c, s, H, N), Ready(c, s, aligns)
    PROVE  SetTo(c, s, Set(c, s, aligns), H, N)
<1> DEFINE ops == IF aligns /\ s.takes THEN ReplaceDraft(c.ops, s.draft) ELSE c.ops
           untaken == c.untaken /\ Durable(s)
           set == [c EXCEPT !.ops = ops, !.untaken = @ /\ Durable(s)]
           t == Record(set, s)
<1>1. c # None /\ c \in ControllerType(Over(c), H) /\ s \in SessionType(Over(c), H, N)
    BY FitsIs DEF Fits
<1>2. Set(c, s, aligns) = [c |-> set, s |-> t]
    BY <1>1 DEF Set
<1>3. c.ops \subseteq ops /\ Bounded(ops) /\ (aligns /\ s.takes => Document(ops) = s.draft)
    <2>1. CASE ~(aligns /\ s.takes)
        BY <2>1 DEF Fits
    <2>2. CASE aligns /\ s.takes
        <3>1. c.ops \subseteq Known /\ copies \in [Edits -> Nat]
            BY <2>2 DEF Ready, Shown
        <3>2. c.ops \subseteq AnyOperation /\ \A x \in c.ops : x.copy <= copies[x.edit]
            BY <3>1 DEF Known
        <3>3. s.draft \in [Edits -> Nat] /\ Bounded(c.ops)
            BY <1>1 DEF SessionType, Shown, Fits
        <3> QED BY <2>2, <3>1, <3>2, <3>3, WrittenDocument
    <2> QED BY <2>1, <2>2
<1>4. /\ set.ops = ops /\ set.history = c.history /\ set.base = c.base
      /\ set.untaken = untaken /\ set.syncing = c.syncing
    BY <1>1 DEF ControllerType
<1>5. set \in ControllerType(Over(set), H) /\ s \in SessionType(Over(set), H, N)
    <2> HIDE DEF set, ops, untaken
    <2>1. Over(c) \subseteq Over(set)
        BY <1>3, <1>4 DEF Over
    <2>2. s \in SessionType(Over(set), H, N) /\ c \in ControllerType(Over(set), H)
        BY <1>1, <2>1, Wider
    <2>3. ops \subseteq Over(set)
        BY <1>4 DEF Over
    <2>4. set \in ControllerType(Over(set), H)
        BY <2>2, <2>3 DEF ControllerType, set
    <2> QED BY <2>2, <2>4
<1>6. /\ untaken => Untaken(set, s)
      /\ Shows(set, s)
    <2> HIDE DEF set
    <2>1. untaken => ops = c.ops
        BY DEF Ready, Untaken
    <2>2. untaken => Untaken(set, s)
        <3> HIDE DEF ops
        <3> QED BY <1>4, <2>1 DEF Ready, Untaken
    <2>3. CASE aligns /\ s.takes
        <3> HIDE DEF ops
        <3> QED BY <1>3, <1>4, <2>2, <2>3 DEF Shows
    <2>4. CASE ~(aligns /\ s.takes)
        BY <1>4, <2>2, <2>4 DEF Shows, Ready
    <2> QED BY <2>2, <2>3, <2>4
<1> HIDE DEF set, ops, untaken
<1>7. t \in SessionType(Over(set), H, N) /\ Whole(t) /\ Same(s, t)
    <2>1. set.base \subseteq set.ops /\ (\A q, r \in s.queue : q.id = r.id => q = r)
        BY <1>3, <1>4 DEF Fits
    <2>2. set.untaken => ~AcceptsDraft(s)
        BY <1>4, <1>6 DEF Untaken
    <2>3. AcceptsDraft(s) => s.draft = Document(set.ops)
        BY <1>6 DEF Shows
    <2> QED BY <1>5, <2>1, <2>2, <2>3, RecordIs
<1> HIDE DEF t
<1>8. Agree(set, t)
    <2>1. Shows(set, t) /\ (set.untaken => Untaken(set, t))
        BY <1>4, <1>6, <1>7 DEF Same, Shows, Untaken, AcceptsDraft, Sending
    <2>2. ~set.syncing
        BY <1>4 DEF Ready
    <2> QED BY <1>3, <1>4, <1>7, <2>1, <2>2 DEF Agree, Same, Fits
<1>9. Fits(set, t, H, N)
    BY <1>3, <1>4, <1>5, <1>7 DEF Fits, Same
<1>10. Fine(set, t, H, N)
    BY <1>7, <1>8, <1>9 DEF Fine
<1>11. set.untaken = (c.untaken /\ Durable(s)) /\ ~set.syncing
    BY <1>4 DEF Ready, untaken
<1> QED BY <1>2, <1>3, <1>4, <1>7, <1>10, <1>11 DEF SetTo

LEMMA ModifyIs ==
    ASSUME NEW K, NEW H, NEW N, NEW s \in SessionType(K, H, N), NEW draft \in Shown
    PROVE  /\ Modify(s, draft) \in SessionType(K, H, N) /\ AcceptsDraft(Modify(s, draft))
           /\ Modify(s, draft).draft = draft /\ Modify(s, draft).queue = s.queue
           /\ Modify(s, draft).takes = s.takes
<1> DEFINE status == IF s.status \in {"disconnectedReadable", "offlineModified"}
                     THEN IF s.queue # {} \/ s.baseline # draft THEN "offlineModified"
                          ELSE "disconnectedReadable"
                     ELSE IF s.queue # {} THEN "commitPending" ELSE Settled(s, s.baseline, draft)
<1>1. Modify(s, draft) = [s EXCEPT !.status = status, !.draft = draft]
    BY DEF Modify
<1>2. status \in ModifiableStatuses
    BY DEF Settled, ModifiableStatuses
<1> HIDE DEF status
<1> QED BY <1>1, <1>2 DEF SessionType, AcceptsDraft

SyncedTo(c, s, p, H, N) ==
    /\ Fine(p.c, p.s, H, N) /\ c.ops \subseteq p.c.ops
    /\ p.c.history = c.history /\ p.c.base = c.base
    /\ p.c.untaken = c.untaken /\ ~p.c.syncing
    /\ p.s.queue = s.queue /\ p.s.takes = s.takes
    /\ p = [c |-> p.c, s |-> p.s]

LEMMA SyncFine ==
    ASSUME NoneApart, copies \in Shown, NEW H, H \subseteq Nat, NEW N, N \subseteq Nat,
           NEW c, NEW s, Fits(c, s, H, N), Whole(s), ~c.syncing, c.untaken => Untaken(c, s),
           ~AcceptsDraft(s) => Shows(c, s)
    PROVE  SyncedTo(c, s, Sync(c, s), H, N)
<1>1. CASE c.untaken \/ ~AcceptsDraft(s) \/ s.draft = Document(c.ops)
    <2>1. Sync(c, s) = [c |-> c, s |-> s]
        BY <1>1 DEF Sync
    <2>2. Shows(c, s)
        BY <1>1 DEF Shows, Untaken
    <2>3. Agree(c, s)
        BY <2>2 DEF Agree, Fits
    <2> QED BY <2>1, <2>3 DEF Fine, SyncedTo
<1>2. CASE ~c.untaken /\ AcceptsDraft(s) /\ s.draft # Document(c.ops)
    <2> DEFINE m == Modify(s, Document(c.ops))
    <2>1. Sync(c, s) = Set(c, m, FALSE)
        BY <1>2 DEF Sync
    <2>2. s \in SessionType(Over(c), H, N) /\ Document(c.ops) \in Shown
        BY FitsIs DEF Fits
    <2>3. /\ m \in SessionType(Over(c), H, N) /\ AcceptsDraft(m) /\ m.draft = Document(c.ops)
          /\ m.queue = s.queue /\ m.takes = s.takes
        BY <2>2, ModifyIs
    <2> HIDE DEF m
    <2>4. Fits(c, m, H, N)
        BY <2>3 DEF Fits
    <2>5. Ready(c, m, FALSE)
        BY <1>2, <2>3 DEF Ready, Shows
    <2> DEFINE p == Set(c, m, FALSE)
    <2>6. SetTo(c, m, p, H, N)
        BY <2>4, <2>5, SetFine
    <2> HIDE DEF p
    <2>7. p.c.untaken = c.untaken
        <3>1. c.untaken = FALSE
            BY <1>2 DEF Fits, ControllerType
        <3> QED BY <2>6, <3>1 DEF SetTo
    <2>8. p.s.queue = s.queue /\ p.s.takes = s.takes
        BY <2>3, <2>6 DEF Same, SetTo
    <2>9. SyncedTo(c, s, p, H, N)
        BY <2>6, <2>7, <2>8 DEF SetTo, SyncedTo
    <2> QED BY <2>1, <2>9 DEF p
<1> QED BY <1>1, <1>2

(* What a replica created of the accepted state takes of a session.        *)
TakenTo(s, created, c, H) ==
    /\ c \in ControllerType(Over(c), H) /\ Bounded(c.ops) /\ created.ops \subseteq c.ops
    /\ c.base = created.base /\ c.history = created.history /\ ~c.syncing
    /\ c.untaken => ~s.takes /\ c.ops = c.base

LEMMA TakenIs ==
    ASSUME copies \in Shown, NEW H, NEW N, NEW s \in SessionType(Known, H, N),
           NEW created \in ControllerType(Known, H), created.base = created.ops,
           created.untaken = FALSE, created.syncing = FALSE
    PROVE  TakenTo(s, created, Taken(s, created), H)
<1> DEFINE wider(ops) == [created EXCEPT !.ops = ops]
<1>1. created.ops \subseteq Known /\ Bounded(created.ops)
    BY BoundedKnown, BoundedPart DEF ControllerType
<1>2. ASSUME NEW ops, created.ops \subseteq ops, Bounded(ops)
      PROVE  TakenTo(s, created, wider(ops), H)
    <2> DEFINE c == wider(ops)
    <2>1. /\ c.ops = ops /\ c.base = created.base /\ c.history = created.history
          /\ c.untaken = FALSE /\ c.syncing = FALSE
        BY DEF ControllerType
    <2>2. c \in ControllerType(Over(c), H)
        <3>1. created \in ControllerType(Over(c), H) /\ ops \subseteq Over(c)
            <4> HIDE DEF c
            <4>1. Known \subseteq Over(c) /\ ops \subseteq Over(c)
                BY <2>1 DEF Over
            <4>2. ControllerType(Known, H) \subseteq ControllerType(Over(c), H)
                BY <4>1, Wider
            <4> QED BY <4>1, <4>2
        <3>2. \A K : created \in ControllerType(K, H) /\ ops \subseteq K => c \in ControllerType(K, H)
            BY DEF ControllerType
        <3> HIDE DEF c
        <3> QED BY <3>1, <3>2
    <2> HIDE DEF c
    <2> QED BY <1>2, <2>1, <2>2 DEF TakenTo, c
<1>3. CASE s.recorded # None /\ Taken(s, created) = wider(created.ops \cup s.recorded.update)
    <2>1. s.recorded.update \subseteq Known
        BY <1>3 DEF SessionType, RecordedType
    <2>2. Bounded(created.ops \cup s.recorded.update)
        BY <1>1, <2>1, BoundedKnown, BoundedPart
    <2> QED BY <1>2, <1>3, <2>2
<1>4. CASE Taken(s, created) = wider(ReplaceDraft(created.ops, s.draft))
    <2>1. copies \in [Edits -> Nat] /\ created.ops \subseteq AnyOperation
          /\ (\A x \in created.ops : x.copy <= copies[x.edit]) /\ s.draft \in [Edits -> Nat]
        BY <1>1 DEF Known, Shown, SessionType
    <2>2. LET ops == ReplaceDraft(created.ops, s.draft) IN Bounded(ops) /\ created.ops \subseteq ops
        BY <1>1, <2>1, WrittenDocument
    <2> QED BY <1>2, <1>4, <2>2
<1>5. CASE ~s.takes /\ Taken(s, created) = [created EXCEPT !.untaken = Durable(s)]
    <2> DEFINE c == [created EXCEPT !.untaken = Durable(s)]
    <2>1. /\ c.ops = created.ops /\ c.base = created.base /\ c.history = created.history
          /\ c.syncing = FALSE
        BY DEF ControllerType
    <2>2. c \in ControllerType(Known, H)
        <3>1. CASE Durable(s)
            <4>1. c = [created EXCEPT !.untaken = TRUE]
                BY <3>1
            <4> HIDE DEF c
            <4> QED BY <4>1 DEF ControllerType
        <3>2. CASE ~Durable(s)
            <4>1. Durable(s) = FALSE
                BY <3>2 DEF Durable
            <4>2. c = [created EXCEPT !.untaken = FALSE]
                BY <4>1
            <4> HIDE DEF c
            <4> QED BY <4>2 DEF ControllerType
        <3> QED BY <3>1, <3>2
    <2> HIDE DEF c
    <2>3. c \in ControllerType(Over(c), H)
        <3>1. Known \subseteq Over(c)
            BY DEF Over
        <3>2. ControllerType(Known, H) \subseteq ControllerType(Over(c), H)
            BY <3>1, Wider
        <3> QED BY <2>2, <3>2
    <2> QED BY <1>1, <1>5, <2>1, <2>3 DEF TakenTo, c
<1> QED BY <1>3, <1>4, <1>5 DEF Taken

(* What a replica attached to a session makes of it.                       *)
EnsuredTo(s, p, N) ==
    /\ Fine(p.c, p.s, Past, N) /\ ~p.c.syncing
    /\ p.c.history = store.history /\ p.s.queue = s.queue
    /\ p = [c |-> p.c, s |-> p.s]

LEMMA EnsureFine ==
    ASSUME NoneApart, copies \in Shown, store \in FrontierType(Known, Past), store.history \in Nat,
           NEW N, N \subseteq Nat, NEW s \in SessionType(Known, Past, N), Whole(s), ~Sending(s)
    PROVE  EnsuredTo(s, EnsureController(s), N)
<1> DEFINE created == [history |-> store.history, ops |-> store.ops, base |-> store.ops,
                       untaken |-> FALSE, syncing |-> FALSE]
           c == Taken(s, created)
           blocks == c.untaken /\ AcceptsDraft(s)
           blocked == Block(s, "recoveryRequired")
           held == IF blocks THEN Set(c, blocked, FALSE) ELSE [c |-> c, s |-> s]
           synced == Sync(held.c, held.s)
           t == Record(synced.c, synced.s)
<1>1. EnsureController(s) = [c |-> synced.c, s |-> t]
    BY DEF EnsureController
<1>2. TakenTo(s, created, c, Past)
    <2>1. created \in ControllerType(Known, Past)
        BY DEF ControllerType, FrontierType
    <2>2. created.base = created.ops /\ created.untaken = FALSE /\ created.syncing = FALSE
        OBVIOUS
    <2> HIDE DEF created
    <2> QED BY <2>1, <2>2, TakenIs
<1>3. created.history = store.history /\ created.ops = store.ops /\ created.base = store.ops
    OBVIOUS
<1> HIDE DEF created, c
<1>4. Past \subseteq Nat
    BY DEF Past
<1>5. Fits(c, s, Past, N)
    <2>1. s \in SessionType(Over(c), Past, N)
        BY Wider DEF Over
    <2>2. ASSUME NEW q \in s.queue PROVE q.base.history <= c.history
        <3>1. q.base.history \in Past
            BY DEF SessionType, EntryType, FrontierType
        <3> QED BY <1>2, <1>3, <3>1 DEF TakenTo, Past
    <2> QED BY <1>2, <1>3, <2>1, <2>2 DEF Fits, TakenTo, Whole
<1>6. /\ Fits(held.c, held.s, Past, N) /\ Whole(held.s) /\ ~held.c.syncing
      /\ held.c.untaken => Untaken(held.c, held.s)
      /\ ~AcceptsDraft(held.s) => Shows(held.c, held.s)
      /\ held.s.queue = s.queue /\ held.c.history = store.history
    <2>1. CASE blocks
        <3>1. /\ blocked \in SessionType(Over(c), Past, N) /\ blocked.queue = s.queue
              /\ blocked.takes = s.takes /\ blocked.status = "recoveryRequired"
            BY <1>5 DEF Fits, SessionType, Block, BlockedStatuses
        <3> HIDE DEF blocked
        <3>2. ~AcceptsDraft(blocked)
            BY <3>1 DEF AcceptsDraft, ModifiableStatuses
        <3>3. Fits(c, blocked, Past, N)
            BY <1>5, <3>1 DEF Fits
        <3>4. Untaken(c, blocked) /\ Shows(c, blocked)
            BY <1>2, <2>1, <3>1, <3>2 DEF Untaken, Shows, Sending, TakenTo
        <3>5. Ready(c, blocked, FALSE)
            BY <1>2, <3>4 DEF Ready, TakenTo
        <3>6. SetTo(c, blocked, Set(c, blocked, FALSE), Past, N)
            BY <1>4, <3>3, <3>5, SetFine
        <3>7. held = Set(c, blocked, FALSE)
            BY <2>1
        <3> HIDE DEF held
        <3>8. SetTo(c, blocked, held, Past, N)
            BY <3>6, <3>7
        <3>9. held.s.queue = s.queue /\ held.c.history = store.history
            BY <1>2, <1>3, <3>1, <3>8 DEF SetTo, Same, TakenTo
        <3> QED BY <3>8, <3>9 DEF SetTo, Fine, Agree
    <2>2. CASE ~blocks
        <3>1. held = [c |-> c, s |-> s]
            BY <2>2
        <3> HIDE DEF held
        <3>2. held.c = c /\ held.s = s
            BY <3>1
        <3>3. c.untaken => Untaken(c, s)
            BY <1>2, <2>2 DEF Untaken, TakenTo
        <3>4. ~AcceptsDraft(s) => Shows(c, s)
            BY DEF Shows
        <3> QED BY <1>2, <1>3, <1>5, <3>2, <3>3, <3>4 DEF TakenTo
    <2> QED BY <2>1, <2>2
<1> HIDE DEF held
<1>7. SyncedTo(held.c, held.s, synced, Past, N)
    BY <1>4, <1>6, SyncFine
<1> HIDE DEF synced
<1>8. t \in SessionType(Over(synced.c), Past, N) /\ Whole(t) /\ Same(synced.s, t)
    <2>1. /\ synced.c \in ControllerType(Over(synced.c), Past)
          /\ synced.s \in SessionType(Over(synced.c), Past, N)
          /\ synced.c.base \subseteq synced.c.ops
          /\ \A q, r \in synced.s.queue : q.id = r.id => q = r
        BY <1>7 DEF SyncedTo, Fine, Fits
    <2>2. synced.c.untaken => ~AcceptsDraft(synced.s)
        BY <1>7 DEF SyncedTo, Fine, Agree, Untaken
    <2>3. AcceptsDraft(synced.s) => synced.s.draft = Document(synced.c.ops)
        BY <1>7 DEF SyncedTo, Fine, Agree, Shows
    <2> QED BY <2>1, <2>2, <2>3, RecordIs
<1> HIDE DEF t
<1>9. Fine(synced.c, t, Past, N)
    <2>1. Fits(synced.c, t, Past, N)
        BY <1>7, <1>8 DEF SyncedTo, Fine, Fits, Same
    <2>2. Agree(synced.c, t)
        BY <1>7, <1>8 DEF SyncedTo, Fine, Agree, Same, Untaken, Shows, AcceptsDraft, Sending
    <2> QED BY <1>8, <2>1, <2>2 DEF Fine
<1> QED BY <1>1, <1>6, <1>7, <1>8, <1>9 DEF EnsuredTo, SyncedTo, Same

--------------------------------------------------------------------------
(* Publishing.                                                            *)

LEMMA KnownGrows ==
    ASSUME copies \in Shown, copies' \in Shown, \A e \in Edits : copies[e] <= copies'[e]
    PROVE  Known \subseteq Known'
<1> SUFFICES ASSUME NEW x \in Known PROVE x \in Known'
    OBVIOUS
<1>1. x \in AnyOperation /\ x.copy <= copies[x.edit]
    BY DEF Known
<1>2. x.edit \in Edits /\ x.copy \in Nat
    BY <1>1 DEF AnyOperation
<1>3. copies[x.edit] \in Nat /\ copies'[x.edit] \in Nat /\ copies[x.edit] <= copies'[x.edit]
    BY <1>2 DEF Shown
<1>4. x.copy <= copies'[x.edit]
    BY <1>1, <1>2, <1>3
<1> QED BY <1>1, <1>4 DEF Known

LEMMA CountGrows ==
    ASSUME copies \in Shown, NEW c, c # None, Bounded(c.ops), Count(c)
    PROVE  copies' \in Shown /\ Known \subseteq Known' /\ Over(c) \subseteq Known'
<1>1. ASSUME NEW e \in Edits
      PROVE  /\ copies'[e] \in Nat /\ copies[e] <= copies'[e]
             /\ \A x \in c.ops : x.edit = e => x.copy <= copies'[e]
    <2> DEFINE S == Highest(e, c)
    <2>1. copies[e] \in Nat /\ copies[e] \in S
        BY DEF Shown, Highest
    <2>2. PICK n \in Nat : \A x \in c.ops : x.edit = e => x.copy <= n
        BY DEF Bounded
    <2>3. \A x \in c.ops : x.copy \in Nat
        BY DEF Bounded, AnyOperation
    <2>4. S \subseteq Nat /\ \A m \in S : m <= n + copies[e]
        <3> SUFFICES ASSUME NEW m \in S PROVE m \in Nat /\ m <= n + copies[e]
            OBVIOUS
        <3>1. CASE m = copies[e]
            BY <2>1, <3>1
        <3>2. CASE m # copies[e]
            <4>1. PICK x \in c.ops : x.edit = e /\ m = x.copy
                BY <3>2 DEF Highest
            <4>2. x.copy \in Nat /\ x.copy <= n
                BY <2>2, <2>3, <4>1
            <4> QED BY <2>1, <4>1, <4>2
        <3> QED BY <3>1, <3>2
    <2>5. \A x \in c.ops : x.edit = e => x.copy \in S
        BY DEF Highest
    <2>6. copies'[e] = CHOOSE n_1 \in S : \A m \in S : m <= n_1
        BY DEF Count, Counted
    <2> HIDE DEF S
    <2>7. \E g \in S : \A m \in S : m <= g
        <3>1. n + copies[e] \in Nat /\ S # {}
            BY <2>1
        <3> QED BY <2>4, <3>1, GreatestIsThere
    <2>8. copies'[e] \in S /\ \A m \in S : m <= copies'[e]
        BY <2>6, <2>7
    <2> QED BY <2>1, <2>4, <2>5, <2>8
<1>2. copies' \in Shown
    <2>1. copies' = [e \in Edits |-> copies'[e]]
        BY DEF Count, Counted
    <2> QED BY <1>1, <2>1 DEF Shown
<1>3. Known \subseteq Known'
    BY <1>1, <1>2, KnownGrows
<1>4. c.ops \subseteq Known'
    <2>1. \A x \in c.ops : x \in AnyOperation /\ x.edit \in Edits
        BY DEF Bounded, AnyOperation
    <2> QED BY <1>1, <2>1 DEF Known
<1> QED BY <1>2, <1>3, <1>4 DEF Over

LEMMA PublishFine ==
    ASSUME NoneApart, Typed, Paired, NEW p, Fine(p.c, p.s, Past, 1..saves'), Count(p.c),
           controller' = p.c, session' = p.s, disk' \in {p.s, None, disk},
           store' = store, saves' \in Nat, saves <= saves',
           calls' \subseteq CallType(Known, Past, 1..saves')
    PROVE  Typed' /\ Paired'
<1>1. Past \subseteq Nat /\ 1..saves' \subseteq Nat /\ Past' = Past /\ copies \in Shown /\ saves \in Nat
    BY DEF Past, Typed
<1>2. p.c # None /\ p.s # None /\ Bounded(p.c.ops) /\ Fits(p.c, p.s, Past, 1..saves')
    BY <1>1, FitsIs DEF Fine, Fits
<1>3. copies' \in Shown /\ Known \subseteq Known' /\ Over(p.c) \subseteq Known'
    BY <1>1, <1>2, CountGrows
<1>4. disk # None => disk \in SessionType(Known', Past', 1..saves')
    <2>1. 1..saves \subseteq 1..saves'
        BY <1>1
    <2>2. SessionType(Known, Past, 1..saves) \subseteq SessionType(Known', Past, 1..saves')
        BY <1>3, <2>1, Wider
    <2> QED BY <1>1, <2>2 DEF Typed
<1>5. controller' \in ControllerType(Known', Past') /\ session' \in SessionType(Known', Past', 1..saves')
    <2>1. /\ ControllerType(Over(p.c), Past) \subseteq ControllerType(Known', Past)
          /\ SessionType(Over(p.c), Past, 1..saves') \subseteq SessionType(Known', Past, 1..saves')
        BY <1>3, Wider
    <2> QED BY <1>1, <1>2, <2>1 DEF Fits
<1>6. store' \in FrontierType(Known', Past') /\ store'.history \in Nat \ {0}
    <2>1. FrontierType(Known, Past) \subseteq FrontierType(Known', Past)
        BY <1>3, Wider
    <2> QED BY <1>1, <2>1 DEF Typed
<1>7. calls' \subseteq CallType(Known', Past', 1..saves')
    <2>1. CallType(Known, Past, 1..saves') \subseteq CallType(Known', Past, 1..saves')
        BY <1>3, Wider
    <2> QED BY <1>1, <2>1
<1>8. Typed'
    BY <1>3, <1>4, <1>5, <1>6, <1>7 DEF Typed
<1>9. Paired'
    BY <1>2 DEF Paired, Fine
<1> QED BY <1>8, <1>9

LEMMA Published ==
    ASSUME NEW p, Publish(p)
    PROVE  controller' = p.c /\ session' = p.s /\ disk' \in {p.s, None, disk} /\ Count(p.c)
BY DEF Publish, Persisted

(* A turn that leaves the replica, or has none.                            *)
LEMMA LeftFine ==
    ASSUME Typed, Paired, copies' = copies, store' = store, saves' = saves,
           calls' \subseteq CallType(Known, Past, 1..saves),
           \A s \in {session', disk'} \ {None} : s \in SessionType(Known, Past, 1..saves) /\ Whole(s),
           controller' \in {None, controller},
           controller' # None => session' # None /\ Agree(controller, session')
    PROVE  Typed' /\ Paired'
<1>1. Known' = Known /\ Past' = Past
    BY DEF Known, Past
<1>2. Typed'
    BY <1>1 DEF Typed
<1>3. Paired'
    BY DEF Paired
<1> QED BY <1>2, <1>3

LEMMA CallingKept ==
    ASSUME Calling, session # None,
           \A k \in calls' : k.awaited => k \in calls,
           \A q \in session'.queue :
               /\ q.state = "sending" => q \in session.queue
               /\ \A k \in calls' : k.awaited /\ k.id = q.id => q \in session.queue
               /\ q.state = "sending" =>
                      \A k \in calls : k.awaited /\ k.id = q.id => k \in calls',
           controller # None =>
               /\ controller' # None /\ controller'.history = controller.history
               /\ controller'.untaken => controller.untaken
    PROVE  Calling'
<1>1. \A k, l \in calls' : k.awaited /\ l.awaited /\ k.id = l.id => k = l
    BY DEF Calling
<1>2. ASSUME NEW q \in session'.queue, q.state = "sending"
      PROVE  controller' # None /\ ~controller'.untaken /\ \E k \in calls' : k.id = q.id /\ k.awaited
    BY <1>2 DEF Calling
<1>3. ASSUME NEW k \in calls', NEW q \in session'.queue, k.awaited /\ k.id = q.id
      PROVE  Waited(k, q)'
    <2>1. k \in calls /\ q \in session.queue /\ Waited(k, q)
        BY <1>3 DEF Calling
    <2>2. controller # None
        BY <2>1 DEF Calling, Waited
    <2> QED BY <2>1, <2>2 DEF Waited
<1> QED BY <1>1, <1>2, <1>3 DEF Calling

(* A session with its replica, between two turns.                          *)
LEMMA AttachedFine ==
    ASSUME Typed, Paired, Attached
    PROVE  /\ Fine(controller, session, Past, 1..saves)
           /\ controller.ops \subseteq Known /\ Over(controller) = Known
<1>1. controller \in ControllerType(Known, Past) /\ session \in SessionType(Known, Past, 1..saves)
    BY DEF Typed, Attached
<1>2. controller.ops \subseteq Known /\ Over(controller) = Known
    BY <1>1 DEF ControllerType, Over
<1>3. Bounded(controller.ops)
    BY <1>2, BoundedKnown, BoundedPart DEF Typed
<1>4. Whole(session) /\ Agree(controller, session)
    BY DEF Paired, Attached
<1>5. Fits(controller, session, Past, 1..saves)
    BY <1>1, <1>2, <1>3, <1>4 DEF Fits, Whole, Agree
<1> QED BY <1>2, <1>4, <1>5 DEF Fine

(* A transition that leaves a draft the replica shows.                     *)
LEMMA SetSame ==
    ASSUME NoneApart, copies \in Shown, NEW H, H \subseteq Nat, NEW N, N \subseteq Nat,
           NEW M, NEW c, NEW s, NEW t, Fine(c, s, H, M), c.ops \subseteq Known,
           ~c.syncing, ~c.untaken, AcceptsDraft(s) \/ Sending(s),
           Fits(c, t, H, N), t.draft = s.draft, t.takes = s.takes
    PROVE  SetTo(c, t, Set(c, t, TRUE), H, N)
<1>1. ~t.takes => Shows(c, t)
    BY DEF Fine, Agree, Shows
<1>2. Ready(c, t, TRUE)
    BY <1>1 DEF Ready
<1> QED BY <1>2, SetFine

LEMMA SetOps ==
    ASSUME NEW K, NEW H, NEW c \in ControllerType(K, H), c # None, Bounded(c.ops), NEW s, NEW aligns,
           s.draft = Document(c.ops)
    PROVE  Set(c, s, aligns).c.ops = c.ops
<1> DEFINE ops == IF aligns /\ s.takes THEN ReplaceDraft(c.ops, s.draft) ELSE c.ops
           set == [c EXCEPT !.ops = ops, !.untaken = @ /\ Durable(s)]
<1>1. Set(c, s, aligns) = [c |-> set, s |-> Record(set, s)]
    BY DEF Set
<1>2. ops = c.ops
    BY ShownAlready
<1>3. set.ops = ops
    <2> HIDE DEF ops
    <2> QED BY DEF ControllerType
<1> HIDE DEF set, ops
<1> QED BY <1>1, <1>2, <1>3

(* The accepted state a replica adopts.                                    *)
AdoptedTo(c, s, p, H, N) ==
    /\ Fine(p.c, p.s, H, N) /\ p.c.ops \subseteq Known
    /\ p.c.history = c.history /\ p.c.untaken = c.untaken /\ ~p.c.syncing
    /\ p.s.queue = s.queue /\ p.s.takes = s.takes /\ (AcceptsDraft(s) => AcceptsDraft(p.s))
    /\ p = [c |-> p.c, s |-> p.s]

LEMMA AdoptFine ==
    ASSUME NoneApart, copies \in Shown, NEW H, H \subseteq Nat, NEW N, N \subseteq Nat,
           NEW c, NEW s, Fine(c, s, H, N), c.ops \subseteq Known, ~c.syncing,
           NEW frontier \in FrontierType(Known, H)
    PROVE  AdoptedTo(c, s, AdoptAccepted(c, s, frontier), H, N)
<1> DEFINE ops == c.ops \cup frontier.ops
           taken == [c EXCEPT !.ops = ops, !.base = frontier.ops]
           draft == Document(taken.ops)
           adopted == Adopt(s, frontier, draft)
           modified == Modify(s, draft)
<1>1. CASE ~AcceptsDraft(s)
    <2>1. AdoptAccepted(c, s, frontier) = [c |-> c, s |-> s]
        BY <1>1 DEF AdoptAccepted
    <2> QED BY <2>1 DEF AdoptedTo
<1>2. CASE AcceptsDraft(s)
    <2>1. /\ c \in ControllerType(Over(c), H) /\ s \in SessionType(Over(c), H, N)
          /\ Over(c) = Known /\ c.untaken = FALSE /\ c.syncing = FALSE
        <3>1. c \in ControllerType(Over(c), H) /\ s \in SessionType(Over(c), H, N) /\ ~c.untaken
            BY <1>2 DEF Fine, Fits, Agree, Untaken
        <3> QED BY <3>1 DEF Over, ControllerType
    <2>2. /\ taken.ops = ops /\ taken.base = frontier.ops /\ taken.history = c.history
          /\ taken.untaken = FALSE /\ taken.syncing = FALSE
        BY <2>1 DEF ControllerType
    <2>3. ops \subseteq Known /\ frontier.ops \subseteq ops /\ frontier.ops \subseteq Known
        BY DEF FrontierType
    <2>4. taken \in ControllerType(Known, H)
        BY <2>1, <2>3 DEF ControllerType
    <2> HIDE DEF taken, ops
    <2>5. Over(taken) = Known /\ Bounded(taken.ops) /\ taken.ops \subseteq Known
        BY <2>2, <2>3, BoundedKnown, BoundedPart DEF Over
    <2>6. draft \in Shown /\ Document(frontier.ops) \in Shown
        BY <2>3, <2>5, BoundedKnown, BoundedPart, DocumentType DEF Shown
    <2>7. taken # None
        <3>1. ControllerType(Known, H) \subseteq ControllerType(AnyOperation, Nat)
            BY Wider DEF Known
        <3> QED BY <2>4, <3>1 DEF NoneApart
    <2>8. ASSUME NEW t \in SessionType(Known, H, N), NEW aligns, AcceptsDraft(t), t.draft = draft,
                 t.queue = s.queue, t.takes = s.takes
          PROVE  AdoptedTo(c, s, Set(taken, t, aligns), H, N)
        <3> DEFINE p == Set(taken, t, aligns)
        <3>1. Fits(taken, t, H, N)
            BY <2>2, <2>3, <2>4, <2>5, <2>8 DEF Fits, Fine
        <3>2. Ready(taken, t, aligns)
            BY <2>2, <2>5, <2>8 DEF Ready, Shows
        <3>3. SetTo(taken, t, p, H, N)
            BY <3>1, <3>2, SetFine
        <3>4. p.c.ops = taken.ops
            BY <2>4, <2>5, <2>7, <2>8, SetOps
        <3> HIDE DEF p
        <3>5. p.c.untaken = FALSE
            BY <2>2, <3>3 DEF SetTo
        <3>6. p.s.queue = s.queue /\ p.s.takes = s.takes /\ AcceptsDraft(p.s)
            BY <2>8, <3>3 DEF SetTo, Same, AcceptsDraft
        <3>7. AdoptedTo(c, s, p, H, N)
            BY <2>1, <2>2, <2>5, <3>3, <3>4, <3>5, <3>6 DEF AdoptedTo, SetTo
        <3> QED BY <3>7 DEF p
    <2> HIDE DEF draft
    <2>9. CASE s.queue # {}
        <3>1. AdoptAccepted(c, s, frontier) = Set(taken, modified, FALSE)
            BY <1>2, <2>9 DEF AdoptAccepted, taken, ops, draft
        <3>2. /\ modified \in SessionType(Known, H, N) /\ AcceptsDraft(modified)
              /\ modified.draft = draft /\ modified.queue = s.queue /\ modified.takes = s.takes
            BY <2>1, <2>6, ModifyIs
        <3> HIDE DEF modified
        <3> QED BY <2>8, <3>1, <3>2
    <2>10. CASE s.queue = {}
        <3>1. AdoptAccepted(c, s, frontier) = Set(taken, adopted, TRUE)
            BY <1>2, <2>10 DEF AdoptAccepted, taken, ops, draft
        <3>2. Settled(s, Document(frontier.ops), draft) \in {"clean", "modified"}
            BY DEF Settled
        <3>3. /\ adopted.draft = draft /\ adopted.queue = {} /\ adopted.takes = s.takes
              /\ adopted.status \in {"clean", "modified"}
            BY <2>1, <3>2 DEF SessionType, Adopt
        <3>4. adopted \in SessionType(Known, H, N)
            <4>1. frontier \in FrontierType(Known, H)
                OBVIOUS
            <4> QED BY <2>1, <2>6, <3>2 DEF SessionType, Adopt, ModifiableStatuses
        <3>5. AcceptsDraft(adopted)
            BY <3>3 DEF AcceptsDraft, ModifiableStatuses
        <3> HIDE DEF adopted
        <3> QED BY <2>8, <2>10, <3>1, <3>3, <3>4, <3>5
    <2> QED BY <2>9, <2>10
<1> QED BY <1>1, <1>2

--------------------------------------------------------------------------
(* Each action keeps the invariant.                                       *)

(* The application drives a session as the repository's tests do; a        *)
(* connection may be lost twice, and an answer overtake another.           *)
Usual == Liberties \subseteq {"disconnect", "overtakes"}

LEMMA TurnIs ==
    ASSUME Usual, Typed, Turn, controller # None
    PROVE  controller.syncing = FALSE
BY DEF Usual, Turn, Typed, ControllerType

LEMMA OpenKept ==
    ASSUME NoneApart, IInv, NEW takes \in Takes, Open(takes)
    PROVE  IInv'
<1> DEFINE s == Start(store, takes)
           p == EnsureController(s)
<1>1. /\ copies \in Shown /\ store \in FrontierType(Known, Past) /\ store.history \in Nat
      /\ saves \in Nat /\ calls \subseteq CallType(Known, Past, 1..saves)
    BY DEF IInv, Typed
<1>2. s \in SessionType(Known, Past, 1..saves) /\ s.queue = {} /\ s.recorded = None
    <2>1. Document(store.ops) \in Shown
        <3>1. store.ops \subseteq Known
            BY <1>1 DEF FrontierType
        <3> QED BY <1>1, <3>1, BoundedKnown, BoundedPart, DocumentType DEF Shown
    <2>2. takes \in BOOLEAN
        BY TakesAssumption
    <2> QED BY <1>1, <2>1, <2>2 DEF Start, SessionType, ModifiableStatuses
<1> HIDE DEF s
<1>3. Whole(s) /\ ~Sending(s)
    BY <1>2 DEF Whole, Sending
<1>4. EnsuredTo(s, p, 1..saves)
    BY <1>1, <1>2, <1>3, EnsureFine
<1>5. Publish(p) /\ store' = store /\ calls' = calls /\ saves' = saves
    BY DEF Open, s
<1> HIDE DEF p
<1>6. Typed' /\ Paired'
    BY <1>1, <1>4, <1>5, Published, PublishFine DEF EnsuredTo, IInv
<1>7. session'.queue = {}
    BY <1>2, <1>4, <1>5, Published DEF EnsuredTo
<1>8. Calling'
    BY <1>5, <1>7 DEF IInv, Calling
<1> QED BY <1>6, <1>8 DEF IInv

LEMMA AttachKept ==
    ASSUME NoneApart, IInv, Attach
    PROVE  IInv'
<1> DEFINE p == EnsureController(session)
<1>1. /\ copies \in Shown /\ store \in FrontierType(Known, Past) /\ store.history \in Nat
      /\ saves \in Nat /\ calls \subseteq CallType(Known, Past, 1..saves)
    BY DEF IInv, Typed
<1>2. session \in SessionType(Known, Past, 1..saves) /\ Whole(session)
    BY DEF IInv, Typed, Paired, Attach
<1>3. \A q \in session.queue : q.state # "sending"
    BY DEF IInv, Calling, Attach
<1>4. EnsuredTo(session, p, 1..saves)
    BY <1>1, <1>2, <1>3, EnsureFine DEF Sending
<1>5. Publish(p) /\ store' = store /\ calls' = calls /\ saves' = saves
    BY DEF Attach
<1> HIDE DEF p
<1>6. Typed' /\ Paired'
    BY <1>1, <1>4, <1>5, Published, PublishFine DEF EnsuredTo, IInv
<1>7. session'.queue = session.queue
    BY <1>4, <1>5, Published DEF EnsuredTo
<1>8. \A k \in calls, q \in session.queue : ~(k.awaited /\ k.id = q.id)
    BY <1>3 DEF IInv, Calling, Waited, Attach
<1>9. Calling'
    BY <1>3, <1>5, <1>7, <1>8 DEF IInv, Calling
<1> QED BY <1>6, <1>9 DEF IInv

(* Synchronising may come first, whatever waits in a microtask.            *)
LEMMA SyncTyped ==
    ASSUME Typed, Paired, Attached
    PROVE  Sync(controller, session).s \in SessionType(Known, Past, 1..saves)
<1> DEFINE draft == Document(controller.ops)
           m == Modify(session, draft)
           set == [controller EXCEPT !.ops = controller.ops, !.untaken = @ /\ Durable(m)]
<1>1. /\ Fits(controller, session, Past, 1..saves) /\ Whole(session) /\ Agree(controller, session)
      /\ Over(controller) = Known /\ Bounded(controller.ops)
    BY AttachedFine DEF Fine, Fits
<1>2. controller \in ControllerType(Known, Past) /\ session \in SessionType(Known, Past, 1..saves)
    BY <1>1 DEF Fits
<1>3. CASE Sync(controller, session) = [c |-> controller, s |-> session]
    BY <1>2, <1>3
<1>4. CASE Sync(controller, session) # [c |-> controller, s |-> session]
    <2>1. /\ ~controller.untaken /\ AcceptsDraft(session)
          /\ Sync(controller, session) = Set(controller, m, FALSE)
        BY <1>4 DEF Sync
    <2>2. Sync(controller, session) = [c |-> set, s |-> Record(set, m)]
        BY <2>1 DEF Set, Attached
    <2>3. draft \in Shown
        BY <1>1, DocumentType DEF Shown
    <2>4. m \in SessionType(Known, Past, 1..saves) /\ m.draft = draft /\ m.queue = session.queue
        BY <1>2, <2>3, ModifyIs
    <2>5. /\ set.ops = controller.ops /\ set.base = controller.base
          /\ set.history = controller.history /\ set.syncing = controller.syncing
          /\ ~set.untaken
        BY <1>2, <2>1 DEF ControllerType
    <2>6. set \in ControllerType(Known, Past)
        <3>1. controller.untaken = FALSE
            BY <1>2, <2>1 DEF ControllerType
        <3>2. set = [controller EXCEPT !.ops = controller.ops, !.untaken = FALSE]
            BY <2>1
        <3> HIDE DEF set
        <3> QED BY <1>2, <3>2 DEF ControllerType
    <2> HIDE DEF set, m
    <2>7. Record(set, m) \in SessionType(Known, Past, 1..saves)
        <3>1. set.base \subseteq set.ops /\ (\A q, r \in m.queue : q.id = r.id => q = r)
            BY <1>1, <2>4, <2>5 DEF Fits
        <3>2. ~set.untaken /\ m.draft = Document(set.ops)
            BY <2>4, <2>5
        <3>3. m \in SessionType(Known, Past, 1..saves)
            BY <2>4
        <3> QED BY <2>6, <3>1, <3>2, <3>3, RecordIs
    <2> QED BY <2>2, <2>7
<1> QED BY <1>3, <1>4

LEMMA ReplaceHistoryIs ==
    ASSUME NEW K, NEW H, NEW N, NEW s \in SessionType(K, H, N), NEW frontier \in FrontierType(K, H),
           Document(frontier.ops) \in Shown
    PROVE  LET t == ReplaceHistory(s, frontier)
           IN  t \in SessionType(K, H, N) /\ t.queue = {} /\ t.recorded = None
<1> DEFINE accepted == Document(frontier.ops)
           with(status, draft) ==
               [s EXCEPT !.revision = frontier, !.baseline = accepted, !.queue = {},
                         !.recorded = None, !.status = status, !.draft = draft]
           t == ReplaceHistory(s, frontier)
<1>1. \/ t = with("clean", accepted)
      \/ t = with(Settled(s, accepted, s.draft), s.draft)
      \/ t = with("recoveryRequired", s.draft)
    <2> DEFINE replaced == [s EXCEPT !.revision = frontier, !.baseline = accepted, !.queue = {},
                                     !.recorded = None]
               editable == AcceptsDraft(s) \/ s.status = "resyncRequired"
    <2>1. t = IF ~Durable(s) THEN [replaced EXCEPT !.status = "clean", !.draft = accepted]
              ELSE IF editable /\ s.baseline = accepted
              THEN [replaced EXCEPT !.status = Settled(s, accepted, s.draft)]
              ELSE [replaced EXCEPT !.status = "recoveryRequired"]
        BY DEF ReplaceHistory
    <2>2. [replaced EXCEPT !.status = "clean", !.draft = accepted] = with("clean", accepted)
        BY DEF SessionType
    <2>3. \A status : [replaced EXCEPT !.status = status] = with(status, s.draft)
        BY DEF SessionType
    <2> HIDE DEF replaced, with
    <2> QED BY <2>1, <2>2, <2>3
<1>2. Settled(s, accepted, s.draft) \in {"clean", "modified"}
    BY DEF Settled
<1>3. ASSUME NEW status \in {"clean", "modified", "recoveryRequired"}, NEW draft \in Shown
      PROVE  /\ with(status, draft) \in SessionType(K, H, N)
             /\ with(status, draft).queue = {} /\ with(status, draft).recorded = None
    BY DEF SessionType, BlockedStatuses, ModifiableStatuses
<1>4. s.draft \in Shown
    BY DEF SessionType
<1> HIDE DEF with, t, accepted
<1> QED BY <1>1, <1>2, <1>3, <1>4 DEF t, accepted

LEMMA ReplaceControllerKept ==
    ASSUME NoneApart, IInv, ReplaceController
    PROVE  IInv'
<1> DEFINE live == IF controller = None THEN session ELSE Sync(controller, session).s
           s == ReplaceHistory(live, store)
           p == EnsureController(s)
<1>1. /\ copies \in Shown /\ store \in FrontierType(Known, Past) /\ store.history \in Nat
      /\ saves \in Nat /\ calls \subseteq CallType(Known, Past, 1..saves)
    BY DEF IInv, Typed
<1>2. live \in SessionType(Known, Past, 1..saves)
    <2>1. session \in SessionType(Known, Past, 1..saves)
        BY DEF IInv, Typed, ReplaceController
    <2>2. CASE controller = None
        BY <2>1, <2>2
    <2>3. CASE controller # None
        BY <2>3, SyncTyped DEF IInv, Attached, ReplaceController
    <2> QED BY <2>2, <2>3
<1>3. Document(store.ops) \in Shown
    <2>1. store.ops \subseteq Known
        BY <1>1 DEF FrontierType
    <2> QED BY <1>1, <2>1, BoundedKnown, BoundedPart, DocumentType DEF Shown
<1>4. Publish(p) /\ store' = store /\ calls' = calls /\ saves' = saves
    BY DEF ReplaceController
<1> HIDE DEF live
<1>5. s \in SessionType(Known, Past, 1..saves) /\ s.queue = {} /\ s.recorded = None
    BY <1>1, <1>2, <1>3, ReplaceHistoryIs
<1> HIDE DEF s
<1>6. Whole(s) /\ ~Sending(s)
    BY <1>5 DEF Whole, Sending
<1>7. EnsuredTo(s, p, 1..saves)
    BY <1>1, <1>5, <1>6, EnsureFine
<1> HIDE DEF p
<1>8. Typed' /\ Paired'
    BY <1>1, <1>4, <1>7, Published, PublishFine DEF EnsuredTo, IInv
<1>9. session'.queue = {}
    BY <1>4, <1>5, <1>7, Published DEF EnsuredTo
<1>10. Calling'
    BY <1>4, <1>9 DEF IInv, Calling
<1> QED BY <1>8, <1>10 DEF IInv

LEMMA DetachKept ==
    ASSUME IInv, Detach
    PROVE  IInv'
<1>1. Typed' /\ Paired'
    BY LeftFine DEF IInv, Detach, Typed, Paired
<1>2. \A k \in calls, q \in session.queue : ~(k.awaited /\ k.id = q.id)
    BY DEF IInv, Calling, Waited, Detach, Attached
<1>3. Calling'
    BY <1>2 DEF IInv, Calling, Detach
<1> QED BY <1>1, <1>3 DEF IInv

LEMMA QueueKept ==
    ASSUME Calling, session # None, calls' = calls, session'.queue \subseteq session.queue,
           controller # None =>
               /\ controller' # None /\ controller'.history = controller.history
               /\ controller'.untaken => controller.untaken
    PROVE  Calling'
BY CallingKept

(* A replica that is written to.                                           *)
GrownTo(c, s, ops, syncing, g, H, N) ==
    /\ Fits(g, s, H, N)
    /\ g.ops = ops /\ g.base = c.base /\ g.history = c.history /\ g.untaken = c.untaken
    /\ g.syncing = syncing

LEMMA GrownFits ==
    ASSUME NEW H, NEW N, NEW c, NEW s, Fits(c, s, H, N), NEW ops, c.ops \subseteq ops, Bounded(ops)
    PROVE  /\ GrownTo(c, s, ops, c.syncing, [c EXCEPT !.ops = ops], H, N)
           /\ GrownTo(c, s, ops, TRUE, [c EXCEPT !.ops = ops, !.syncing = TRUE], H, N)
<1>1. c \in ControllerType(Over(c), H) /\ s \in SessionType(Over(c), H, N)
    BY DEF Fits
<1>2. ASSUME NEW g, g.ops = ops, g.base = c.base, g.history = c.history,
             \A K : c \in ControllerType(K, H) /\ ops \subseteq K => g \in ControllerType(K, H)
      PROVE  Fits(g, s, H, N)
    <2>1. Over(c) \subseteq Over(g) /\ ops \subseteq Over(g)
        BY <1>2 DEF Over
    <2>2. c \in ControllerType(Over(g), H) /\ s \in SessionType(Over(g), H, N)
        BY <1>1, <2>1, Wider
    <2>3. g \in ControllerType(Over(g), H)
        BY <1>2, <2>1, <2>2
    <2> QED BY <1>2, <2>2, <2>3 DEF Fits
<1>3. GrownTo(c, s, ops, c.syncing, [c EXCEPT !.ops = ops], H, N)
    <2> DEFINE g == [c EXCEPT !.ops = ops]
    <2>1. /\ g.ops = ops /\ g.base = c.base /\ g.history = c.history /\ g.untaken = c.untaken
          /\ g.syncing = c.syncing
        BY <1>1 DEF ControllerType
    <2>2. \A K : c \in ControllerType(K, H) /\ ops \subseteq K => g \in ControllerType(K, H)
        BY DEF ControllerType
    <2> HIDE DEF g
    <2>3. GrownTo(c, s, ops, c.syncing, g, H, N)
        BY <1>2, <2>1, <2>2 DEF GrownTo
    <2> QED BY <2>3 DEF g
<1>4. GrownTo(c, s, ops, TRUE, [c EXCEPT !.ops = ops, !.syncing = TRUE], H, N)
    <2> DEFINE g == [c EXCEPT !.ops = ops, !.syncing = TRUE]
    <2>1. /\ g.ops = ops /\ g.base = c.base /\ g.history = c.history /\ g.untaken = c.untaken
          /\ g.syncing = TRUE
        BY <1>1 DEF ControllerType
    <2>2. \A K : c \in ControllerType(K, H) /\ ops \subseteq K => g \in ControllerType(K, H)
        BY DEF ControllerType
    <2> HIDE DEF g
    <2>3. GrownTo(c, s, ops, TRUE, g, H, N)
        BY <1>2, <2>1, <2>2 DEF GrownTo
    <2> QED BY <2>3 DEF g
<1> QED BY <1>3, <1>4

LEMMA WriteBounded ==
    ASSUME copies \in Shown, NEW e \in Edits, NEW ops, Bounded(ops)
    PROVE  Bounded(ops \cup {Write(e)})
<1>1. copies[e] + 1 \in Nat \ {0}
    BY DEF Shown
<1>2. Write(e) \in AnyOperation /\ Write(e).copy \in Nat
    BY <1>1 DEF Write, AnyOperation
<1>3. Bounded({Write(e)})
    BY <1>2 DEF Bounded
<1> QED BY <1>3, BoundedUnion

LEMMA EditKept ==
    ASSUME NoneApart, Usual, IInv, NEW e \in Own, Edit(e)
    PROVE  IInv'
<1> DEFINE document == [Document(controller.ops) EXCEPT ![e] = 1]
           ops == ReplaceDraft(controller.ops, document)
           edited == [controller EXCEPT !.ops = ops]
           m == Modify(session, Document(ops))
           p == Set(edited, m, FALSE)
<1>1. /\ copies \in Shown /\ saves \in Nat /\ calls \subseteq CallType(Known, Past, 1..saves)
      /\ Typed /\ Paired /\ Calling /\ Attached /\ session # None /\ controller # None
      /\ Past \subseteq Nat /\ 1..saves \subseteq Nat
    BY DEF IInv, Typed, Edit, Attached, Past
<1>2. /\ store' = store /\ calls' = calls /\ saves' = saves /\ session.takes
      /\ \/ AcceptsDraft(session) /\ Publish(p)
         \/ /\ ~AcceptsDraft(session) /\ controller' = edited /\ Count(edited)
            /\ session' = session /\ disk' = disk
    BY DEF Edit
<1>3. /\ Fine(controller, session, Past, 1..saves) /\ controller.ops \subseteq Known
      /\ controller.syncing = FALSE
    BY <1>1, AttachedFine, TurnIs DEF Edit
<1>4. /\ Fits(controller, session, Past, 1..saves) /\ Whole(session) /\ ~controller.untaken
      /\ Bounded(controller.ops)
    BY <1>2, <1>3 DEF Fine, Agree, Untaken, Fits
<1>5. Bounded(ops) /\ controller.ops \subseteq ops
    <2>1. document \in [Edits -> Nat]
        BY <1>4, DocumentType
    <2>2. copies \in [Edits -> Nat] /\ controller.ops \subseteq AnyOperation
          /\ \A x \in controller.ops : x.copy <= copies[x.edit]
        BY <1>1, <1>3 DEF Known, Shown
    <2> HIDE DEF document
    <2> QED BY <1>4, <2>1, <2>2, WrittenDocument
<1> HIDE DEF ops
<1>6. /\ Fits(edited, session, Past, 1..saves) /\ edited.ops = ops /\ edited.base = controller.base
      /\ edited.history = controller.history /\ ~edited.untaken /\ ~edited.syncing
    <2>1. GrownTo(controller, session, ops, controller.syncing, edited, Past, 1..saves)
        BY <1>4, <1>5, GrownFits
    <2> HIDE DEF edited
    <2> QED BY <1>3, <1>4, <2>1 DEF GrownTo
<1> HIDE DEF edited
<1>7. CASE AcceptsDraft(session) /\ Publish(p)
    <2>1. session \in SessionType(Over(edited), Past, 1..saves) /\ Document(ops) \in Shown
        BY <1>5, <1>6, DocumentType DEF Fits, Shown
    <2>2. /\ m \in SessionType(Over(edited), Past, 1..saves) /\ m.draft = Document(ops)
          /\ m.queue = session.queue /\ m.takes = session.takes
        BY <2>1, ModifyIs
    <2> HIDE DEF m
    <2>3. Fits(edited, m, Past, 1..saves)
        BY <1>6, <2>2 DEF Fits
    <2>4. Ready(edited, m, FALSE)
        BY <1>6, <2>2 DEF Ready, Shows
    <2>5. SetTo(edited, m, p, Past, 1..saves)
        BY <1>1, <2>3, <2>4, SetFine
    <2> HIDE DEF p
    <2>6. Typed' /\ Paired'
        BY <1>1, <1>2, <1>7, <2>5, Published, PublishFine DEF SetTo
    <2>7. /\ session'.queue = session.queue /\ controller'.history = controller.history
          /\ ~controller'.untaken
        BY <1>6, <1>7, <2>2, <2>5, Published DEF SetTo, Same
    <2>8. controller' # None
        BY <1>1, <1>7, <2>5, Published, FitsIs DEF SetTo, Fine
    <2>9. Calling'
        BY <1>1, <1>2, <2>7, <2>8, QueueKept
    <2> QED BY <2>6, <2>9 DEF IInv
<1>8. CASE /\ ~AcceptsDraft(session) /\ controller' = edited /\ Count(edited)
           /\ session' = session /\ disk' = disk
    <2> DEFINE pair == [c |-> edited, s |-> session]
    <2>1. Agree(edited, session)
        BY <1>2, <1>4, <1>6, <1>8 DEF Agree, Shows, Fits
    <2>2. Fine(pair.c, pair.s, Past, 1..saves)
        BY <1>4, <1>6, <2>1 DEF Fine
    <2>3. pair.c = edited /\ pair.s = session
        OBVIOUS
    <2> HIDE DEF pair
    <2>4. Typed' /\ Paired'
        BY <1>1, <1>2, <1>8, <2>2, <2>3, PublishFine
    <2>5. edited # None
        BY <1>1, <1>6, FitsIs
    <2>6. Calling'
        BY <1>1, <1>2, <1>6, <1>8, <2>5, QueueKept
    <2> QED BY <2>4, <2>6 DEF IInv
<1> QED BY <1>2, <1>7, <1>8

LEMMA TypeKept ==
    ASSUME NoneApart, IInv, NEW e \in Own, Type(e)
    PROVE  IInv'
<1> DEFINE ops == controller.ops \cup {Write(e)}
           typing == [controller EXCEPT !.ops = ops, !.syncing = TRUE]
           pair == [c |-> typing, s |-> session]
<1>1. /\ copies \in Shown /\ saves \in Nat /\ calls \subseteq CallType(Known, Past, 1..saves)
      /\ Typed /\ Paired /\ Calling /\ Attached /\ session # None /\ controller # None
      /\ Past \subseteq Nat /\ 1..saves \subseteq Nat
    BY DEF IInv, Typed, Type, Attached, Past
<1>2. /\ store' = store /\ calls' = calls /\ saves' = saves /\ session' = session /\ disk' = disk
      /\ AcceptsDraft(session) /\ ~controller.untaken
      /\ controller' = typing /\ Count(typing)
    BY DEF Type
<1>3. Fine(controller, session, Past, 1..saves) /\ Bounded(controller.ops)
    BY <1>1, AttachedFine DEF Fine, Fits
<1>4. Bounded(ops)
    <2>1. e \in Edits
        BY DEF Edits
    <2> QED BY <1>1, <1>3, <2>1, WriteBounded
<1>5. controller.ops \subseteq ops
    OBVIOUS
<1> HIDE DEF ops
<1>6. /\ Fits(typing, session, Past, 1..saves) /\ typing.ops = ops /\ typing.base = controller.base
      /\ typing.history = controller.history /\ ~typing.untaken /\ typing.syncing = TRUE
    <2>1. Fits(controller, session, Past, 1..saves)
        BY <1>3 DEF Fine
    <2>2. GrownTo(controller, session, ops, TRUE, typing, Past, 1..saves)
        BY <1>4, <1>5, <2>1, GrownFits
    <2> HIDE DEF typing
    <2> QED BY <1>2, <2>2 DEF GrownTo
<1> HIDE DEF typing
<1>7. Agree(typing, session)
    BY <1>2, <1>3, <1>6 DEF Agree, Fine, Fits
<1>8. pair.c = typing /\ pair.s = session /\ Fine(pair.c, pair.s, Past, 1..saves)
    BY <1>3, <1>6, <1>7 DEF Fine
<1> HIDE DEF pair
<1>9. Typed' /\ Paired'
    BY <1>1, <1>2, <1>8, PublishFine
<1>10. typing # None
    BY <1>1, <1>6, FitsIs
<1>11. Calling'
    BY <1>1, <1>2, <1>6, <1>10, QueueKept
<1> QED BY <1>9, <1>11 DEF IInv

(* What a published pair leaves of the calls.                              *)
Follows(s) ==
    /\ Typed' /\ Paired' /\ session'.queue = s.queue
    /\ controller' # None /\ controller'.history = controller.history
    /\ controller'.untaken => controller.untaken

LEMMA FineFollows ==
    ASSUME NoneApart, IInv, NEW p, Publish(p), Fine(p.c, p.s, Past, 1..saves'), NEW s,
           p.s.queue = s.queue, p.c.history = controller.history,
           p.c.untaken => controller.untaken,
           store' = store, saves' \in Nat, saves <= saves',
           calls' \subseteq CallType(Known, Past, 1..saves')
    PROVE  Follows(s)
<1>1. Typed /\ Paired /\ copies \in Shown /\ Past \subseteq Nat /\ 1..saves' \subseteq Nat
    BY DEF IInv, Typed, Past
<1>2. Typed' /\ Paired'
    BY <1>1, Published, PublishFine
<1>3. p.c # None
    BY <1>1, FitsIs DEF Fine
<1> QED BY <1>2, <1>3, Published DEF Follows

LEMMA FollowsKept ==
    ASSUME IInv, session # None, NEW s, Follows(s), s.queue \subseteq session.queue, calls' = calls
    PROVE  IInv'
<1>1. Calling'
    BY QueueKept DEF Follows, IInv
<1> QED BY <1>1 DEF Follows, IInv

(* What there is to a turn with a replica attached.                        *)
Standing ==
    /\ copies \in Shown /\ saves \in Nat /\ saves <= saves
    /\ calls \subseteq CallType(Known, Past, 1..saves)
    /\ session # None /\ controller # None /\ Whole(session) /\ Calling
    /\ Past \subseteq Nat /\ 1..saves \subseteq Nat
    /\ Fine(controller, session, Past, 1..saves) /\ Fits(controller, session, Past, 1..saves)
    /\ Agree(controller, session)
    /\ Bounded(controller.ops) /\ controller.ops \subseteq Known /\ Over(controller) = Known
    /\ controller \in ControllerType(Known, Past) /\ session \in SessionType(Known, Past, 1..saves)

LEMMA StandingIs ==
    ASSUME IInv, Attached
    PROVE  Standing
<1>1. Typed /\ Paired /\ Calling /\ Past \subseteq Nat /\ 1..saves \subseteq Nat
    BY DEF IInv, Past
<1>2. copies \in Shown /\ saves \in Nat /\ saves <= saves
      /\ calls \subseteq CallType(Known, Past, 1..saves)
      /\ session # None /\ controller # None
    BY <1>1 DEF Typed, Attached
<1>3. /\ Fine(controller, session, Past, 1..saves) /\ controller.ops \subseteq Known
      /\ Over(controller) = Known
    BY <1>1, AttachedFine
<1> QED BY <1>1, <1>2, <1>3 DEF Standing, Fine, Fits

LEMMA SyncDraftKept ==
    ASSUME NoneApart, IInv, SyncDraft
    PROVE  IInv'
<1> DEFINE c == [controller EXCEPT !.syncing = FALSE]
           p == Sync(c, session)
<1>1. /\ Standing /\ controller.syncing /\ Publish(p)
      /\ store' = store /\ calls' = calls /\ saves' = saves
    BY StandingIs DEF SyncDraft
<1>2. /\ c.ops = controller.ops /\ c.base = controller.base /\ c.history = controller.history
      /\ c.untaken = controller.untaken /\ c.syncing = FALSE /\ c \in ControllerType(Known, Past)
    BY <1>1 DEF Standing, ControllerType
<1> HIDE DEF c
<1>3. Fits(c, session, Past, 1..saves)
    BY <1>1, <1>2 DEF Standing, Fits, Over
<1>4. (c.untaken => Untaken(c, session)) /\ AcceptsDraft(session)
    BY <1>1, <1>2 DEF Standing, Agree, Untaken
<1>5. SyncedTo(c, session, p, Past, 1..saves)
    BY <1>1, <1>2, <1>3, <1>4, SyncFine DEF Standing
<1> HIDE DEF p
<1>6. Follows(session)
    BY <1>1, <1>2, <1>5, FineFollows DEF Standing, SyncedTo
<1> QED BY <1>1, <1>6, FollowsKept DEF Standing

LEMMA ConfirmStageKept ==
    ASSUME NoneApart, Usual, IInv, NEW e \in Own, ConfirmStage(e)
    PROVE  IInv'
<1> DEFINE ops == controller.ops \cup {Write(e)}
           c == [controller EXCEPT !.ops = ops]
           p == Sync(c, session)
<1>1. /\ Standing /\ AcceptsDraft(session) /\ ~controller.untaken /\ Publish(p)
      /\ store' = store /\ calls' = calls /\ saves' = saves
    BY StandingIs DEF ConfirmStage
<1>2. controller.syncing = FALSE
    BY <1>1, TurnIs DEF ConfirmStage, IInv, Standing
<1>3. Bounded(ops)
    <2>1. e \in Edits
        BY DEF Edits
    <2> QED BY <1>1, <2>1, WriteBounded DEF Standing
<1>4. controller.ops \subseteq ops
    OBVIOUS
<1> HIDE DEF ops
<1>5. GrownTo(controller, session, ops, controller.syncing, c, Past, 1..saves)
    BY <1>1, <1>3, <1>4, GrownFits DEF Standing
<1> HIDE DEF c
<1>6. /\ Fits(c, session, Past, 1..saves) /\ ~c.syncing /\ ~c.untaken
      /\ c.history = controller.history
    BY <1>1, <1>2, <1>5 DEF GrownTo
<1>7. SyncedTo(c, session, p, Past, 1..saves)
    BY <1>1, <1>6, SyncFine DEF Standing
<1> HIDE DEF p
<1>8. Follows(session)
    BY <1>1, <1>6, <1>7, FineFollows DEF Standing, SyncedTo
<1> QED BY <1>1, <1>8, FollowsKept DEF Standing

LEMMA DiscardKept ==
    ASSUME NoneApart, Usual, IInv, DiscardChanges
    PROVE  IInv'
<1> DEFINE s == Discard(session)
           p == Set(controller, s, TRUE)
<1>1. /\ Standing /\ Publish(p) /\ store' = store /\ calls' = calls /\ saves' = saves
      /\ (session.takes \/ controller.untaken) /\ session.baseline = Document(controller.base)
    BY StandingIs DEF DiscardChanges, AtAccepted, Usual
<1>2. controller.syncing = FALSE
    BY <1>1, TurnIs DEF DiscardChanges, IInv, Standing
<1>3. /\ s \in SessionType(Known, Past, 1..saves) /\ s.queue = {} /\ s.takes = session.takes
      /\ s.status = "clean" /\ s.draft = session.baseline
    BY <1>1 DEF Standing, Discard, SessionType, ModifiableStatuses
<1> HIDE DEF s
<1>4. Fits(controller, s, Past, 1..saves)
    BY <1>1, <1>3 DEF Standing, Fits
<1>5. Ready(controller, s, TRUE)
    <2>1. ~Durable(s)
        BY <1>3 DEF Durable
    <2>2. ~s.takes => s.draft = Document(controller.ops)
        BY <1>1, <1>3 DEF Standing, Agree, Untaken
    <2> QED BY <1>1, <1>2, <2>1, <2>2 DEF Ready, Shows, Standing
<1>6. SetTo(controller, s, p, Past, 1..saves)
    BY <1>1, <1>4, <1>5, SetFine DEF Standing
<1> HIDE DEF p
<1>7. p.s.queue = s.queue /\ p.c.history = controller.history /\ (p.c.untaken => controller.untaken)
    BY <1>6 DEF SetTo, Same
<1>8. Follows(s)
    BY <1>1, <1>6, <1>7, FineFollows DEF Standing, SetTo
<1> QED BY <1>1, <1>3, <1>8, FollowsKept DEF Standing

LEMMA RemoveKept ==
    ASSUME NoneApart, IInv, Remove
    PROVE  IInv'
<1>1. session' = None /\ controller' = None /\ disk' = None
      /\ store' = store /\ calls' = calls /\ copies' = copies /\ saves' = saves
    BY DEF Remove
<1>2. Typed' /\ Paired'
    BY <1>1, LeftFine DEF IInv, Typed
<1>3. Calling'
    BY <1>1 DEF IInv, Calling
<1> QED BY <1>2, <1>3 DEF IInv

(* A session that accepts a draft is set with that draft.                  *)
LEMMA AcceptingSet ==
    ASSUME NoneApart, Usual, IInv, Turn, session # None, AcceptsDraft(session),
           NEW s \in SessionType(Known, Past, 1..saves), s.draft = session.draft,
           s.takes = session.takes, s.recorded = session.recorded, s.queue \subseteq session.queue,
           Publish(Set(controller, s, TRUE)), store' = store, calls' = calls, saves' = saves
    PROVE  IInv'
<1> DEFINE p == Set(controller, s, TRUE)
<1>1. CASE controller # None
    <2>1. Standing
        BY <1>1, StandingIs DEF Attached
    <2>2. ~controller.syncing /\ ~controller.untaken
        BY <1>1, <2>1, TurnIs DEF IInv, Standing, Agree, Untaken
    <2>3. Fits(controller, s, Past, 1..saves)
        BY <2>1 DEF Standing, Fits
    <2>4. SetTo(controller, s, p, Past, 1..saves)
        BY <2>1, <2>2, <2>3, SetSame DEF Standing
    <2>5. Publish(p)
        OBVIOUS
    <2> HIDE DEF p
    <2>6. p.s.queue = s.queue /\ p.c.history = controller.history /\ (p.c.untaken => controller.untaken)
        BY <2>4 DEF SetTo, Same
    <2>7. Follows(s)
        BY <2>1, <2>4, <2>5, <2>6, FineFollows DEF Standing, SetTo
    <2> QED BY <2>7, FollowsKept
<1>2. CASE controller = None
    <2> DEFINE t == WithoutStale(session, s)
    <2>1. Publish([c |-> None, s |-> t])
        BY <1>2 DEF Set
    <2>2. /\ copies \in Shown /\ calls \subseteq CallType(Known, Past, 1..saves)
          /\ Whole(session) /\ Typed /\ Paired /\ Calling
        BY DEF IInv, Typed, Paired
    <2>3. t \in SessionType(Known, Past, 1..saves) /\ t.queue = s.queue /\ Whole(t)
        <3>1. CASE t = s
            BY <2>2, <3>1 DEF Whole
        <3>2. CASE t = [s EXCEPT !.recorded = None]
            <4>1. t \in SessionType(Known, Past, 1..saves) /\ t.queue = s.queue /\ t.recorded = None
                BY <3>2 DEF SessionType
            <4> HIDE DEF t
            <4> QED BY <2>2, <4>1 DEF Whole
        <3> QED BY <3>1, <3>2 DEF WithoutStale
    <2> HIDE DEF t
    <2>4. controller' = None /\ session' = t /\ disk' \in {t, None} /\ Count(None)
        BY <2>1 DEF Publish, Persisted
    <2>5. copies' = copies
        <3>1. copies' = [e \in Edits |-> copies[e]]
            BY <2>4 DEF Count, Counted
        <3> QED BY <2>2, <3>1 DEF Shown
    <2>6. Typed' /\ Paired'
        BY <2>2, <2>3, <2>4, <2>5, LeftFine
    <2>7. Calling'
        BY <1>2, <2>2, <2>3, <2>4, QueueKept
    <2> QED BY <2>6, <2>7 DEF IInv
<1> QED BY <1>1, <1>2

LEMMA SupersedeKept ==
    ASSUME NoneApart, Usual, IInv, Supersede
    PROVE  IInv'
<1> DEFINE s == SupersedeBlocked(session)
           remaining == {q \in session.queue : q.state # "blocked"}
           status == IF remaining # {} THEN "commitPending"
                     ELSE Settled(session, session.baseline, session.draft)
<1>1. /\ session # None /\ AcceptsDraft(session) /\ Turn
      /\ Publish(Set(controller, s, TRUE)) /\ store' = store /\ calls' = calls /\ saves' = saves
    BY DEF Supersede, Usual
<1>2. session \in SessionType(Known, Past, 1..saves)
    BY <1>1 DEF IInv, Typed
<1>3. s = session \/ s = [session EXCEPT !.status = status, !.queue = remaining]
    BY DEF SupersedeBlocked
<1>4. status \in ModifiableStatuses /\ remaining \subseteq session.queue
    BY DEF Settled, ModifiableStatuses
<1> HIDE DEF s, status, remaining
<1>5. /\ s \in SessionType(Known, Past, 1..saves) /\ s.draft = session.draft
      /\ s.takes = session.takes /\ s.recorded = session.recorded /\ s.queue \subseteq session.queue
    BY <1>2, <1>3, <1>4 DEF SessionType
<1> QED BY <1>1, <1>5, AcceptingSet

LEMMA BlockSessionKept ==
    ASSUME NoneApart, Usual, IInv, NEW status \in Blocks, BlockSession(status)
    PROVE  IInv'
<1> DEFINE s == Block(session, status)
<1>1. /\ session # None /\ session.status \notin BlockedStatuses /\ Turn
      /\ Publish(Set(controller, s, TRUE)) /\ store' = store /\ calls' = calls /\ saves' = saves
    BY DEF BlockSession
<1>2. session \in SessionType(Known, Past, 1..saves)
    BY <1>1 DEF IInv, Typed
<1>3. AcceptsDraft(session)
    BY <1>1, <1>2 DEF SessionType, AcceptsDraft
<1>4. /\ s \in SessionType(Known, Past, 1..saves) /\ s.draft = session.draft
      /\ s.takes = session.takes /\ s.recorded = session.recorded /\ s.queue \subseteq session.queue
    BY <1>2, BlocksAssumption DEF SessionType, Block
<1> HIDE DEF s
<1> QED BY <1>1, <1>3, <1>4, AcceptingSet

LEMMA QueueSaveKept ==
    ASSUME NoneApart, Usual, IInv, QueueSave
    PROVE  IInv'
<1> DEFINE q == [id |-> saves', base |-> session.revision, state |-> "queued",
                 update |-> controller.ops \ session.revision.ops]
           s == Queue(session, q)
           p == Set(controller, s, TRUE)
<1>1. /\ Standing /\ MayQueue(session) /\ saves' = saves + 1
      /\ session.revision.history = controller.history
      /\ Publish(p) /\ store' = store /\ calls' = calls
    BY StandingIs DEF QueueSave
<1>2. AcceptsDraft(session)
    BY <1>1 DEF MayQueue, AcceptsDraft, ModifiableStatuses
<1>3. ~controller.syncing /\ ~controller.untaken
    BY <1>1, <1>2, TurnIs DEF QueueSave, IInv, Standing, Agree, Untaken
<1>4. saves' \in Nat /\ saves <= saves' /\ 1..saves \subseteq 1..saves' /\ 1..saves' \subseteq Nat
      /\ saves' \in 1..saves' /\ saves' \notin 1..saves
    BY <1>1 DEF Standing
<1>5. session \in SessionType(Known, Past, 1..saves')
    BY <1>1, <1>4, Wider DEF Standing
<1>6. q \in EntryType(Known, Past, 1..saves') /\ q.id = saves' /\ q.state = "queued"
      /\ q.base = session.revision
    BY <1>1, <1>4, <1>5 DEF EntryType, SessionType, Standing
<1> HIDE DEF q
<1>7. /\ s \in SessionType(Known, Past, 1..saves') /\ s.queue = session.queue \cup {q}
      /\ s.draft = session.draft /\ s.takes = session.takes
    BY <1>5, <1>6 DEF Queue, SessionType, ModifiableStatuses
<1> HIDE DEF s
<1>8. ASSUME NEW r \in session.queue PROVE r.id \in 1..saves
    BY <1>1 DEF Standing, SessionType, EntryType
<1>9. Fits(controller, s, Past, 1..saves')
    <2>1. \A r, t \in s.queue : r.id = t.id => r = t
        BY <1>1, <1>4, <1>6, <1>7, <1>8 DEF Standing, Whole
    <2>2. \A r \in s.queue : r.base.history <= controller.history
        <3>1. controller.history \in Nat
            BY <1>1 DEF Standing, ControllerType
        <3>2. q.base.history <= controller.history
            BY <1>1, <1>6, <3>1
        <3> QED BY <1>1, <1>7, <3>2 DEF Standing, Agree
    <2> QED BY <1>1, <1>7, <2>1, <2>2 DEF Standing, Fits
<1>10. SetTo(controller, s, p, Past, 1..saves')
    BY <1>1, <1>2, <1>3, <1>4, <1>7, <1>9, SetSame DEF Standing
<1> HIDE DEF p
<1>11. Follows(s)
    <2>1. calls' \subseteq CallType(Known, Past, 1..saves')
        BY <1>1, <1>4, Wider DEF Standing
    <2>2. p.s.queue = s.queue /\ p.c.history = controller.history /\ (p.c.untaken => controller.untaken)
        BY <1>10 DEF SetTo, Same
    <2> QED BY <1>1, <1>4, <1>10, <2>1, <2>2, FineFollows DEF SetTo
<1>12. Calling'
    <2>1. \A k \in calls : k.id # q.id
        BY <1>1, <1>4, <1>6 DEF Standing, CallType
    <2>2. \A r \in session'.queue : r \in session.queue \/ r = q
        BY <1>7, <1>11 DEF Follows
    <2> QED BY <1>1, <1>6, <1>11, <2>1, <2>2, CallingKept DEF Standing, Follows
<1> QED BY <1>11, <1>12 DEF Follows, IInv

LEMMA SendKept ==
    ASSUME NoneApart, Usual, IInv, session # None, NEW q \in session.queue, Send(q)
    PROVE  IInv'
<1> DEFINE sent == [q EXCEPT !.state = "sending"]
           call == [id |-> q.id, stage |-> "request", base |-> q.base, update |-> q.update,
                    awaited |-> TRUE]
           s == BeginReplay(session, q)
           p == Set(controller, s, TRUE)
<1>1. /\ Standing /\ MayReplay(session, q) /\ calls' = calls \cup {call}
      /\ Publish(p) /\ store' = store /\ saves' = saves
    BY StandingIs DEF Send
<1>2. AcceptsDraft(session) /\ q.state = "queued"
    BY <1>1 DEF MayReplay, AcceptsDraft, ModifiableStatuses
<1>3. ~controller.syncing /\ ~controller.untaken
    BY <1>1, <1>2, TurnIs DEF Send, IInv, Standing, Agree, Untaken
<1>4. session \in SessionType(Known, Past, 1..saves) /\ q \in EntryType(Known, Past, 1..saves)
    BY <1>1 DEF Standing, SessionType
<1>5. /\ sent \in EntryType(Known, Past, 1..saves)
      /\ sent.id = q.id /\ sent.base = q.base /\ sent.state = "sending"
    BY <1>4 DEF EntryType
<1>6. /\ call \in CallType(Known, Past, 1..saves) /\ call.id = q.id /\ call.base = q.base
      /\ call.stage = "request" /\ call.awaited
    BY <1>4 DEF EntryType, CallType
<1> HIDE DEF call
<1>7. /\ s \in SessionType(Known, Past, 1..saves) /\ s.queue = (session.queue \ {q}) \cup {sent}
      /\ s.draft = session.draft /\ s.takes = session.takes
    BY <1>4, <1>5 DEF BeginReplay, SessionType, ModifiableStatuses
<1> HIDE DEF s, sent
<1>8. \A r \in session.queue : r.id = q.id => r = q
    BY <1>1 DEF Standing, Whole
<1>9. Fits(controller, s, Past, 1..saves)
    <2>1. \A r, t \in s.queue : r.id = t.id => r = t
        BY <1>1, <1>5, <1>7, <1>8 DEF Standing, Whole
    <2>2. \A r \in s.queue : r.base.history <= controller.history
        BY <1>1, <1>5, <1>7 DEF Standing, Agree
    <2> QED BY <1>1, <1>7, <2>1, <2>2 DEF Standing, Fits
<1>10. SetTo(controller, s, p, Past, 1..saves)
    BY <1>1, <1>2, <1>3, <1>7, <1>9, SetSame DEF Standing
<1> HIDE DEF p
<1>11. Follows(s)
    <2>1. calls' \subseteq CallType(Known, Past, 1..saves)
        BY <1>1, <1>6 DEF Standing
    <2>2. p.s.queue = s.queue /\ p.c.history = controller.history /\ (p.c.untaken => controller.untaken)
        BY <1>10 DEF SetTo, Same
    <2> QED BY <1>1, <1>10, <2>1, <2>2, FineFollows DEF SetTo, Standing
<1>12. \A k \in calls : ~(k.awaited /\ k.id = q.id)
    BY <1>1, <1>2 DEF Standing, Calling, Waited
<1>13. Calling'
    <2>1. ASSUME NEW k \in calls', NEW l \in calls', k.awaited, l.awaited, k.id = l.id PROVE k = l
        BY <1>1, <1>6, <1>12, <2>1 DEF Standing, Calling
    <2>2. ASSUME NEW r \in session'.queue, r.state = "sending"
          PROVE  /\ controller' # None /\ ~controller'.untaken
                 /\ \E k \in calls' : k.id = r.id /\ k.awaited
        <3>1. controller' # None /\ ~controller'.untaken
            BY <1>3, <1>11 DEF Follows
        <3>2. CASE r = sent
            BY <1>1, <1>5, <1>6, <3>1, <3>2
        <3>3. CASE r # sent
            <4>1. r \in session.queue
                BY <1>7, <1>11, <3>3 DEF Follows
            <4> QED BY <1>1, <2>2, <3>1, <4>1 DEF Standing, Calling
        <3> QED BY <3>2, <3>3
    <2>3. ASSUME NEW k \in calls', NEW r \in session'.queue, k.awaited /\ k.id = r.id
          PROVE  Waited(k, r)'
        <3>1. controller'.history = controller.history
            BY <1>11 DEF Follows
        <3>2. r = sent \/ (r \in session.queue /\ r # q)
            BY <1>7, <1>11 DEF Follows
        <3>3. CASE k = call
            <4>1. r = sent
                BY <1>6, <1>8, <2>3, <3>2, <3>3
            <4>2. q.base.history <= controller.history
                BY <1>1 DEF Standing, Agree
            <4> QED BY <1>5, <1>6, <3>1, <3>3, <4>1, <4>2 DEF Waited
        <3>4. CASE k # call
            <4>1. k \in calls
                BY <1>1, <3>4
            <4>2. r \in session.queue
                BY <1>5, <1>12, <2>3, <3>2, <4>1
            <4>3. Waited(k, r)
                BY <1>1, <2>3, <4>1, <4>2 DEF Standing, Calling
            <4> QED BY <3>1, <4>3 DEF Waited
        <3> QED BY <3>3, <3>4
    <2> QED BY <2>1, <2>2, <2>3 DEF Calling
<1> QED BY <1>11, <1>13 DEF Follows, IInv

(* The store answers a call.                                               *)
LEMMA AnswerKept ==
    ASSUME IInv, NEW k \in calls, k.stage = "request",
           NEW stage \in {"accepted", "contended", "refused", "resync"}, Answer(k, stage),
           stage = "accepted" => k.base.history = store.history,
           store' \in FrontierType(Known, Past), store'.history = store.history,
           UNCHANGED <<session, controller, disk, copies, saves>>
    PROVE  IInv'
<1> DEFINE a == [k EXCEPT !.stage = stage, !.base = store', !.update = {}]
<1>1. Known' = Known /\ Past' = Past /\ Typed /\ Paired /\ Calling
    BY DEF Known, Past, IInv
<1>2. k \in CallType(Known, Past, 1..saves)
    BY <1>1 DEF Typed
<1>3. /\ a \in CallType(Known, Past, 1..saves) /\ a.id = k.id /\ a.awaited = k.awaited
      /\ a.stage = stage /\ a.base = store'
    BY <1>2 DEF CallType
<1>4. \A l \in calls' : (l \in calls /\ l # k) \/ (l = a /\ k.awaited)
    BY DEF Answer
<1>5. (\A l \in calls : l # k => l \in calls') /\ (k.awaited => a \in calls')
    BY DEF Answer
<1> HIDE DEF a
<1>6. Typed'
    BY <1>1, <1>3, <1>4 DEF Typed
<1>7. Paired'
    BY <1>1 DEF Paired
<1>8. Calling'
    <2>1. ASSUME NEW l \in calls', NEW m \in calls', l.awaited, m.awaited, l.id = m.id PROVE l = m
        <3>1. \A j \in calls : j.awaited /\ k.awaited /\ j.id = k.id => j = k
            BY <1>1 DEF Calling
        <3> QED BY <1>1, <1>3, <1>4, <2>1, <3>1 DEF Calling
    <2>2. ASSUME session # None, NEW q \in session.queue, q.state = "sending"
          PROVE  controller # None /\ ~controller.untaken /\ \E l \in calls' : l.id = q.id /\ l.awaited
        <3>1. controller # None /\ ~controller.untaken
            BY <1>1, <2>2 DEF Calling
        <3>2. PICK l \in calls : l.id = q.id /\ l.awaited
            BY <1>1, <2>2 DEF Calling
        <3>3. CASE l = k
            BY <1>3, <1>5, <3>1, <3>2, <3>3
        <3>4. CASE l # k
            BY <1>5, <3>1, <3>2, <3>4
        <3> QED BY <3>3, <3>4
    <2>3. ASSUME session # None, NEW l \in calls', NEW q \in session.queue, l.awaited /\ l.id = q.id
          PROVE  Waited(l, q)
        <3>1. CASE l \in calls /\ l # k
            BY <1>1, <2>3, <3>1 DEF Calling
        <3>2. CASE l = a /\ k.awaited
            <4>1. Waited(k, q)
                BY <1>1, <1>3, <2>3, <3>2 DEF Calling
            <4>2. controller # None
                BY <1>1, <2>3, <4>1 DEF Calling, Waited
            <4>3. controller.history \in Past /\ store.history \in Nat
                BY <1>1, <4>2 DEF Typed, ControllerType
            <4>4. stage = "accepted" => store.history = controller.history
                BY <4>1, <4>3 DEF Waited, Past
            <4> QED BY <1>3, <3>2, <4>1, <4>4 DEF Waited
        <3> QED BY <1>4, <3>1, <3>2
    <2> QED BY <2>1, <2>2, <2>3 DEF Calling, Waited
<1> QED BY <1>6, <1>7, <1>8 DEF IInv

LEMMA StoreAcceptsKept ==
    ASSUME IInv, NEW k \in calls, StoreAccepts(k)
    PROVE  IInv'
<1>1. store \in FrontierType(Known, Past) /\ k \in CallType(Known, Past, 1..saves)
    BY DEF IInv, Typed
<1>2. store' \in FrontierType(Known, Past) /\ store'.history = store.history
    BY <1>1 DEF StoreAccepts, FrontierType, CallType
<1> QED BY <1>2, AnswerKept DEF StoreAccepts

LEMMA StoreRefusesKept ==
    ASSUME IInv, NEW k \in calls, StoreRefuses(k)
    PROVE  IInv'
<1>1. store \in FrontierType(Known, Past) /\ store' = store /\ k.stage = "request"
    BY DEF IInv, Typed, StoreRefuses
<1>2. \E stage \in {"contended", "refused", "resync"} : Answer(k, stage)
    BY DEF StoreRefuses
<1> QED BY <1>1, <1>2, AnswerKept DEF StoreRefuses

(* An operation whose call is waited for is being sent.                    *)
LEMMA QueuedIsSending ==
    ASSUME IInv, session # None, NEW k \in calls, k.awaited, Queued(session, k.id)
    PROVE  /\ Attached /\ Sending(session) /\ ~controller.untaken
           /\ k.stage = "accepted" => k.base.history = controller.history
<1>1. PICK q \in session.queue : q.id = k.id
    BY DEF Queued
<1>2. Waited(k, q) /\ q.state = "sending"
    BY <1>1 DEF IInv, Calling, Waited
<1> QED BY <1>1, <1>2 DEF IInv, Calling, Waited, Sending, Attached

LEMMA AcknowledgeIs ==
    ASSUME NEW K, NEW H, NEW N, NEW s \in SessionType(K, H, N), NEW id,
           NEW frontier \in FrontierType(K, H), Document(frontier.ops) \in Shown
    PROVE  LET t == Acknowledge(s, id, frontier)
           IN  /\ t \in SessionType(K, H, N) /\ t.queue = {q \in s.queue : q.id # id}
               /\ t.draft = s.draft /\ t.takes = s.takes
<1> DEFINE document == Document(frontier.ops)
           remaining == {q \in s.queue : q.id # id}
           status == IF remaining # {}
                     THEN IF \E q \in remaining : q.state # "blocked" THEN "commitPending"
                          ELSE "commitRejected"
                     ELSE Settled(s, document, s.draft)
           t == Acknowledge(s, id, frontier)
<1>1. t = [s EXCEPT !.status = status, !.revision = frontier, !.baseline = document,
                    !.queue = remaining]
    BY DEF Acknowledge
<1>2. status \in ModifiableStatuses /\ remaining \subseteq s.queue
    BY DEF Settled, ModifiableStatuses
<1> HIDE DEF status, remaining, t, document
<1>3. t \in SessionType(K, H, N) /\ t.queue = remaining /\ t.draft = s.draft /\ t.takes = s.takes
    BY <1>1, <1>2 DEF SessionType, document
<1> QED BY <1>3 DEF remaining, t

LEMMA AcceptedKept ==
    ASSUME NoneApart, Usual, IInv, NEW k \in calls, Accepted(k)
    PROVE  IInv'
<1>1. /\ session # None /\ k.stage = "accepted" /\ k.awaited /\ calls' = calls \ {k}
      /\ store' = store /\ saves' = saves /\ Turn
    BY DEF Accepted
<1>2. /\ Typed /\ Paired /\ Calling /\ calls' \subseteq CallType(Known, Past, 1..saves)
      /\ k \in CallType(Known, Past, 1..saves) /\ k.base \in FrontierType(Known, Past)
      /\ copies \in Shown
    BY <1>1 DEF IInv, Typed, CallType
<1>3. \A l \in calls : l.awaited /\ l.id = k.id => l = k
    BY <1>1, <1>2 DEF Calling
<1>4. CASE controller # None /\ controller.history # k.base.history
    <2>1. UNCHANGED <<session, controller, disk, copies>>
        BY <1>4 DEF Accepted
    <2>2. ~Queued(session, k.id)
        BY <1>1, <1>4, QueuedIsSending
    <2>3. Typed' /\ Paired'
        BY <1>1, <1>2, <2>1, LeftFine DEF Typed, Paired
    <2>4. Calling'
        BY <1>1, <1>2, <2>1, <2>2, CallingKept DEF Queued
    <2> QED BY <2>3, <2>4 DEF IInv
<1>5. CASE controller = None
    <2>1. ~Queued(session, k.id)
        BY <1>1, <1>5, QueuedIsSending DEF Attached
    <2>2. Publish([c |-> None, s |-> session])
        BY <1>5, <2>1 DEF Accepted
    <2>3. controller' = None /\ session' = session /\ disk' \in {session, None} /\ Count(None)
        BY <2>2 DEF Publish, Persisted
    <2>4. copies' = copies
        <3>1. copies' = [e \in Edits |-> copies[e]]
            BY <2>3 DEF Count, Counted
        <3> QED BY <1>2, <3>1 DEF Shown
    <2>5. Typed' /\ Paired'
        BY <1>1, <1>2, <2>3, <2>4, LeftFine DEF Typed, Paired
    <2>6. Calling'
        BY <1>1, <1>2, <1>5, <2>1, <2>3, CallingKept DEF Queued
    <2> QED BY <2>5, <2>6 DEF IInv
<1>6. CASE controller # None /\ controller.history = k.base.history
    <2> DEFINE adopted == AdoptAccepted(controller, session, k.base)
               t == Acknowledge(adopted.s, k.id, k.base)
               p == Set(adopted.c, t, TRUE)
    <2>1. Standing
        BY <1>1, <1>6, StandingIs DEF Attached
    <2>2. controller.syncing = FALSE
        BY <1>1, <1>2, <1>6, TurnIs
    <2>3. Publish(IF Queued(adopted.s, k.id) THEN p ELSE adopted)
        BY <1>6 DEF Accepted
    <2>4. AdoptedTo(controller, session, adopted, Past, 1..saves)
        BY <1>2, <2>1, <2>2, AdoptFine DEF Standing
    <2> HIDE DEF adopted
    <2>5. Queued(adopted.s, k.id) <=> Queued(session, k.id)
        BY <2>4 DEF AdoptedTo, Queued
    <2>6. CASE Queued(session, k.id)
        <3>1. Sending(session) /\ ~controller.untaken
            BY <1>1, <2>6, QueuedIsSending
        <3>2. /\ Over(adopted.c) = Known /\ adopted.s \in SessionType(Known, Past, 1..saves)
              /\ adopted.s.queue = session.queue
            BY <2>4 DEF AdoptedTo, Fine, Fits, Over
        <3>3. Document(k.base.ops) \in Shown
            <4>1. k.base.ops \subseteq Known
                BY <1>2 DEF FrontierType
            <4> QED BY <1>2, <4>1, BoundedKnown, BoundedPart, DocumentType DEF Shown
        <3>4. /\ t \in SessionType(Known, Past, 1..saves)
              /\ t.queue = {q \in session.queue : q.id # k.id}
              /\ t.draft = adopted.s.draft /\ t.takes = adopted.s.takes
            BY <1>2, <3>2, <3>3, AcknowledgeIs
        <3> HIDE DEF t
        <3>5. Fits(adopted.c, t, Past, 1..saves)
            BY <2>4, <3>2, <3>4 DEF AdoptedTo, Fine, Fits
        <3>6. /\ Fine(adopted.c, adopted.s, Past, 1..saves) /\ adopted.c.ops \subseteq Known
              /\ ~adopted.c.syncing /\ ~adopted.c.untaken /\ Sending(adopted.s)
            BY <2>4, <3>1 DEF AdoptedTo, Sending
        <3>7. SetTo(adopted.c, t, p, Past, 1..saves)
            BY <2>1, <3>4, <3>5, <3>6, SetSame DEF Standing
        <3>8. Publish(p)
            BY <2>3, <2>5, <2>6
        <3> HIDE DEF p
        <3>9. /\ p.s.queue = t.queue /\ p.c.history = controller.history
              /\ p.c.untaken => controller.untaken
            BY <2>4, <3>6, <3>7 DEF SetTo, Same, AdoptedTo
        <3>10. Follows(t)
            BY <1>1, <1>2, <2>1, <3>7, <3>8, <3>9, FineFollows DEF SetTo, Standing
        <3>11. Calling'
            BY <1>1, <1>2, <1>3, <3>4, <3>10, CallingKept DEF Follows
        <3> QED BY <3>10, <3>11 DEF Follows, IInv
    <2>7. CASE ~Queued(session, k.id)
        <3>1. Publish(adopted)
            BY <2>3, <2>5, <2>7
        <3>2. Follows(session)
            BY <1>1, <1>2, <2>1, <2>4, <3>1, FineFollows DEF AdoptedTo, Standing
        <3>3. Calling'
            BY <1>1, <1>2, <2>7, <3>2, CallingKept DEF Follows, Queued
        <3> QED BY <3>2, <3>3 DEF Follows, IInv
    <2> QED BY <2>6, <2>7
<1> QED BY <1>4, <1>5, <1>6

(* Of a session whose operation is rejected, only it and the status change. *)
RejectedTo(s, id, t, N) ==
    /\ t \in SessionType(Known, Past, N) /\ t.draft = s.draft /\ t.takes = s.takes
    /\ \E state \in {"queued", "blocked"} :
           t.queue = {IF q.id = id THEN [q EXCEPT !.state = state] ELSE q : q \in s.queue}

LEMMA RejectIs ==
    ASSUME NEW N, NEW s \in SessionType(Known, Past, N), NEW id, NEW resyncs, NEW retryable
    PROVE  RejectedTo(s, id, Reject(s, id, resyncs, retryable), N)
<1> DEFINE resync == resyncs \/ s.status = "resyncRequired"
           state == IF retryable /\ ~resync THEN "queued" ELSE "blocked"
           status == IF resync THEN "resyncRequired" ELSE "commitRejected"
           queue == {IF q.id = id THEN [q EXCEPT !.state = state] ELSE q : q \in s.queue}
           t == Reject(s, id, resyncs, retryable)
<1>1. t = [s EXCEPT !.status = status, !.queue = queue]
    BY DEF Reject
<1>2. state \in {"queued", "blocked"} /\ status \in BlockedStatuses \cup ModifiableStatuses
    BY DEF BlockedStatuses, ModifiableStatuses
<1> HIDE DEF state, status, t
<1>3. queue \subseteq EntryType(Known, Past, N)
    <2>1. \A q \in s.queue : q \in EntryType(Known, Past, N)
        BY DEF SessionType
    <2>2. \A q \in s.queue : [q EXCEPT !.state = state] \in EntryType(Known, Past, N)
        BY <1>2, <2>1 DEF EntryType
    <2> QED BY <2>1, <2>2
<1> HIDE DEF queue
<1>4. /\ t \in SessionType(Known, Past, N) /\ t.draft = s.draft /\ t.takes = s.takes
      /\ t.queue = queue
    BY <1>1, <1>2, <1>3 DEF SessionType
<1> QED BY <1>2, <1>4 DEF RejectedTo, queue, t

(* A call that fails or is refused, `k`, is waited for no longer.          *)
LEMMA RejectKept ==
    ASSUME NoneApart, Usual, IInv, Turn, session # None, NEW k \in calls, k.awaited,
           NEW t, RejectedTo(session, k.id, t, 1..saves),
           IF Queued(session, k.id) THEN Publish(Set(controller, t, TRUE))
           ELSE UNCHANGED <<session, controller, disk, copies>>,
           calls' \subseteq CallType(Known, Past, 1..saves),
           \A l \in calls' : l.awaited => l \in calls /\ l # k,
           \A l \in calls : l # k => l \in calls',
           store' = store, saves' = saves
    PROVE  IInv'
<1>1. Typed /\ Paired /\ Calling
    BY DEF IInv
<1>2. \A l \in calls : l.awaited /\ l.id = k.id => l = k
    BY <1>1 DEF Calling
<1>3. CASE ~Queued(session, k.id)
    <2>1. UNCHANGED <<session, controller, disk, copies>>
        BY <1>3
    <2>2. Typed' /\ Paired'
        BY <1>1, <2>1, LeftFine DEF Typed, Paired
    <2>3. Calling'
        BY <1>1, <1>3, <2>1, CallingKept DEF Queued
    <2> QED BY <2>2, <2>3 DEF IInv
<1>4. CASE Queued(session, k.id)
    <2> DEFINE p == Set(controller, t, TRUE)
    <2>1. Attached /\ Sending(session) /\ ~controller.untaken
        BY <1>4, QueuedIsSending
    <2>2. Standing
        BY <2>1, StandingIs
    <2>3. ~controller.syncing
        BY <1>1, <2>1, TurnIs DEF Attached
    <2>4. PICK state \in {"queued", "blocked"} :
              t.queue = {IF q.id = k.id THEN [q EXCEPT !.state = state] ELSE q : q \in session.queue}
        BY DEF RejectedTo
    <2>5. /\ t \in SessionType(Known, Past, 1..saves) /\ t.draft = session.draft
          /\ t.takes = session.takes
        BY DEF RejectedTo
    <2>6. \A r \in t.queue : \E q \in session.queue :
              /\ r.id = q.id /\ r.base = q.base
              /\ IF q.id = k.id THEN r = [q EXCEPT !.state = state] /\ r.state = state ELSE r = q
        <3>1. \A q \in session.queue :
                  /\ [q EXCEPT !.state = state].id = q.id /\ [q EXCEPT !.state = state].base = q.base
                  /\ [q EXCEPT !.state = state].state = state
            BY <2>2 DEF Standing, SessionType, EntryType
        <3> SUFFICES ASSUME NEW r \in t.queue
                     PROVE  \E q \in session.queue :
                                /\ r.id = q.id /\ r.base = q.base
                                /\ IF q.id = k.id
                                   THEN r = [q EXCEPT !.state = state] /\ r.state = state
                                   ELSE r = q
            OBVIOUS
        <3>2. PICK q \in session.queue :
                  r = IF q.id = k.id THEN [q EXCEPT !.state = state] ELSE q
            BY <2>4
        <3>3. /\ r.id = q.id /\ r.base = q.base
              /\ IF q.id = k.id THEN r = [q EXCEPT !.state = state] /\ r.state = state ELSE r = q
            <4>1. CASE q.id = k.id
                <5>1. r = [q EXCEPT !.state = state]
                    BY <3>2, <4>1
                <5>2. r.id = q.id /\ r.base = q.base /\ r.state = state
                    BY <3>1, <5>1
                <5> QED BY <4>1, <5>1, <5>2
            <4>2. CASE q.id # k.id
                BY <3>2, <4>2
            <4> QED BY <4>1, <4>2
        <3> QED BY <3>3
    <2>7. Fits(controller, t, Past, 1..saves)
        <3>1. \A r, u \in t.queue : r.id = u.id => r = u
            <4> SUFFICES ASSUME NEW r \in t.queue, NEW u \in t.queue, r.id = u.id PROVE r = u
                OBVIOUS
            <4>1. PICK q \in session.queue :
                      /\ r.id = q.id
                      /\ IF q.id = k.id THEN r = [q EXCEPT !.state = state] ELSE r = q
                BY <2>6
            <4>2. PICK v \in session.queue :
                      /\ u.id = v.id
                      /\ IF v.id = k.id THEN u = [v EXCEPT !.state = state] ELSE u = v
                BY <2>6
            <4>3. q = v
                BY <2>2, <4>1, <4>2 DEF Standing, Whole
            <4> QED BY <4>1, <4>2, <4>3
        <3>2. \A r \in t.queue : r.base.history <= controller.history
            BY <2>2, <2>6 DEF Standing, Agree
        <3> QED BY <2>2, <2>5, <3>1, <3>2 DEF Standing, Fits
    <2>8. SetTo(controller, t, p, Past, 1..saves)
        BY <2>1, <2>2, <2>3, <2>5, <2>7, SetSame DEF Standing
    <2>9. Publish(p)
        BY <1>4
    <2> HIDE DEF p
    <2>10. p.s.queue = t.queue /\ p.c.history = controller.history /\ (p.c.untaken => controller.untaken)
        BY <2>8 DEF SetTo, Same
    <2>11. Follows(t)
        BY <2>2, <2>8, <2>9, <2>10, FineFollows DEF SetTo, Standing
    <2>12. ASSUME NEW r \in t.queue
           PROVE  /\ r.state = "sending" => r \in session.queue
                  /\ \A l \in calls' : l.awaited /\ l.id = r.id => r \in session.queue
                  /\ r.state = "sending" => \A l \in calls : l.awaited /\ l.id = r.id => l \in calls'
        <3>1. PICK q \in session.queue :
                  /\ r.id = q.id
                  /\ IF q.id = k.id THEN r.state = state ELSE r = q
            BY <2>6
        <3>2. CASE q.id = k.id
            BY <1>2, <2>4, <3>1, <3>2
        <3>3. CASE q.id # k.id
            BY <3>1, <3>3
        <3> QED BY <3>2, <3>3
    <2>13. Calling'
        BY <1>1, <2>11, <2>12, CallingKept DEF Follows
    <2> QED BY <2>11, <2>13 DEF Follows, IInv
<1> QED BY <1>3, <1>4

LEMMA RejectedKept ==
    ASSUME NoneApart, Usual, IInv, NEW k \in calls, Rejected(k)
    PROVE  IInv'
<1> DEFINE t == Reject(session, k.id, k.stage = "resync", k.stage = "contended")
<1>1. /\ Turn /\ session # None /\ k.awaited /\ calls' = calls \ {k}
      /\ store' = store /\ saves' = saves
    BY DEF Rejected
<1>2. calls' \subseteq CallType(Known, Past, 1..saves) /\ session \in SessionType(Known, Past, 1..saves)
    BY <1>1 DEF IInv, Typed
<1>3. RejectedTo(session, k.id, t, 1..saves)
    BY <1>2, RejectIs
<1>4. IF Queued(session, k.id) THEN Publish(Set(controller, t, TRUE))
      ELSE UNCHANGED <<session, controller, disk, copies>>
    BY DEF Rejected, RejectIfQueued
<1> HIDE DEF t
<1> QED BY <1>1, <1>2, <1>3, <1>4, RejectKept

LEMMA CallFailsKept ==
    ASSUME NoneApart, Usual, IInv, NEW k \in calls, CallFails(k)
    PROVE  IInv'
<1> DEFINE t == Reject(session, k.id, FALSE, TRUE)
           dropped == [k EXCEPT !.awaited = FALSE]
<1>1. /\ Turn /\ session # None /\ k.awaited /\ store' = store /\ saves' = saves
      /\ calls' = (calls \ {k}) \cup {r \in {dropped} : r.stage = "request"}
    BY DEF CallFails
<1>2. /\ calls \subseteq CallType(Known, Past, 1..saves)
      /\ session \in SessionType(Known, Past, 1..saves)
    BY <1>1 DEF IInv, Typed
<1>3. dropped \in CallType(Known, Past, 1..saves) /\ dropped.awaited = FALSE
    BY <1>2 DEF CallType
<1> HIDE DEF dropped
<1>4. /\ calls' \subseteq CallType(Known, Past, 1..saves)
      /\ \A l \in calls' : l.awaited => l \in calls /\ l # k
      /\ \A l \in calls : l # k => l \in calls'
    BY <1>1, <1>2, <1>3
<1>5. RejectedTo(session, k.id, t, 1..saves)
    BY <1>2, RejectIs
<1>6. IF Queued(session, k.id) THEN Publish(Set(controller, t, TRUE))
      ELSE UNCHANGED <<session, controller, disk, copies>>
    BY DEF CallFails, RejectIfQueued
<1> HIDE DEF t
<1> QED BY <1>1, <1>4, <1>5, <1>6, RejectKept

LEMMA ArrivesKept ==
    ASSUME NoneApart, Usual, IInv, Arrives
    PROVE  IInv'
<1> DEFINE p == AdoptAccepted(controller, session, store)
<1>1. Standing /\ Publish(p) /\ store' = store /\ calls' = calls /\ saves' = saves
    BY StandingIs DEF Arrives
<1>2. controller.syncing = FALSE /\ store \in FrontierType(Known, Past)
    BY <1>1, TurnIs DEF Arrives, IInv, Standing, Typed
<1>3. AdoptedTo(controller, session, p, Past, 1..saves)
    BY <1>1, <1>2, AdoptFine DEF Standing
<1> HIDE DEF p
<1>4. Follows(session)
    BY <1>1, <1>3, FineFollows DEF AdoptedTo, Standing
<1> QED BY <1>1, <1>4, FollowsKept DEF Standing

(* A transition of the session alone.                                      *)
LEMMA MappedKept ==
    ASSUME NoneApart, IInv, session # None, NEW s \in SessionType(Known, Past, 1..saves),
           s.draft = session.draft, s.takes = session.takes, s.recorded = session.recorded,
           s.queue = session.queue, AcceptsDraft(s) <=> AcceptsDraft(session), Mapped(s)
    PROVE  IInv'
<1>1. /\ Typed /\ Paired /\ Calling /\ calls \subseteq CallType(Known, Past, 1..saves)
      /\ Whole(session)
    BY DEF IInv, Typed, Paired
<1>2. /\ session' = s /\ disk' \in {s, None} /\ controller' = controller
      /\ copies' = copies /\ store' = store /\ saves' = saves /\ calls' = calls
    BY DEF Mapped, Persisted
<1>3. s # None
    <2>1. Known \subseteq AnyOperation /\ Past \subseteq Nat /\ 1..saves \subseteq Nat
        BY DEF Known, Past
    <2>2. SessionType(Known, Past, 1..saves) \subseteq SessionType(AnyOperation, Nat, Nat)
        BY <2>1, Wider
    <2> QED BY <2>2 DEF NoneApart
<1>4. Whole(s)
    BY <1>1 DEF Whole
<1>5. controller # None => Agree(controller, s)
    BY <1>1 DEF Paired, Agree, Untaken, Shows, Sending
<1>6. Typed' /\ Paired'
    BY <1>1, <1>2, <1>3, <1>4, <1>5, LeftFine
<1>7. Calling'
    BY <1>1, <1>2, QueueKept
<1> QED BY <1>6, <1>7 DEF IInv

LEMMA DisconnectKept ==
    ASSUME NoneApart, IInv, Disconnect
    PROVE  IInv'
<1> DEFINE s == Disconnected(session)
           status == IF session.status \in {"modified", "commitPending", "commitRejected", "replaying"}
                     THEN "offlineModified" ELSE "disconnectedReadable"
<1>1. session # None /\ Mapped(s) /\ session \in SessionType(Known, Past, 1..saves)
    BY DEF Disconnect, IInv, Typed
<1>2. CASE session.status \in BlockedStatuses
    <2>1. s = session
        BY <1>2 DEF Disconnected
    <2> QED BY <1>1, <2>1, MappedKept
<1>3. CASE session.status \notin BlockedStatuses
    <2>1. s = [session EXCEPT !.status = status]
        BY <1>3 DEF Disconnected
    <2>2. session.status \in ModifiableStatuses
        BY <1>1, <1>3 DEF SessionType
    <2>3. status \in ModifiableStatuses
        BY DEF ModifiableStatuses
    <2> HIDE DEF s, status
    <2>4. /\ s \in SessionType(Known, Past, 1..saves) /\ s.draft = session.draft
          /\ s.takes = session.takes /\ s.recorded = session.recorded
          /\ s.queue = session.queue /\ s.status = status
        BY <1>1, <2>1, <2>3 DEF SessionType
    <2>5. AcceptsDraft(s) <=> AcceptsDraft(session)
        BY <2>2, <2>3, <2>4 DEF AcceptsDraft
    <2> QED BY <1>1, <2>4, <2>5, MappedKept
<1> QED BY <1>2, <1>3

LEMMA ReconnectKept ==
    ASSUME NoneApart, IInv, Reconnect
    PROVE  IInv'
<1> DEFINE s == Reconnected(session)
           status == IF \E q \in session.queue : q.state = "queued" THEN "replaying"
                     ELSE IF \E q \in session.queue : q.state = "blocked" THEN "commitRejected"
                     ELSE Settled(session, session.baseline, session.draft)
<1>1. /\ session # None /\ Mapped(s) /\ session \in SessionType(Known, Past, 1..saves)
      /\ session.status \in ModifiableStatuses
    BY DEF Reconnect, IInv, Typed, ModifiableStatuses
<1>2. s = [session EXCEPT !.status = status] /\ status \in ModifiableStatuses
    BY DEF Reconnected, Settled, ModifiableStatuses
<1> HIDE DEF s, status
<1>3. /\ s \in SessionType(Known, Past, 1..saves) /\ s.draft = session.draft
      /\ s.takes = session.takes /\ s.recorded = session.recorded
      /\ s.queue = session.queue /\ s.status = status
    BY <1>1, <1>2 DEF SessionType
<1>4. AcceptsDraft(s) <=> AcceptsDraft(session)
    BY <1>1, <1>2, <1>3 DEF AcceptsDraft
<1> QED BY <1>1, <1>3, <1>4, MappedKept

LEMMA RecoveredIs ==
    ASSUME NEW K, NEW H, NEW N, NEW s \in SessionType(K, H, N), Whole(s)
    PROVE  /\ Recovered(s) \in SessionType(K, H, N) /\ Whole(Recovered(s))
           /\ \A q \in Recovered(s).queue : q.state # "sending"
<1> DEFINE again(q) == [q EXCEPT !.state = IF @ = "sending" THEN "queued" ELSE @]
           status == IF s.status = "replaying" THEN "offlineModified" ELSE s.status
           queue == {again(q) : q \in s.queue}
           t == Recovered(s)
<1>1. t = [s EXCEPT !.status = status, !.queue = queue]
    BY DEF Recovered, SessionType
<1>2. /\ status \in BlockedStatuses \cup ModifiableStatuses
      /\ status \in ModifiableStatuses <=> s.status \in ModifiableStatuses
    BY DEF SessionType, ModifiableStatuses
<1>3. \A q \in s.queue :
          again(q) \in EntryType(K, H, N) /\ again(q).id = q.id /\ again(q).state # "sending"
    <2>1. \A q \in s.queue : q \in EntryType(K, H, N)
        BY DEF SessionType
    <2> QED BY <2>1 DEF EntryType
<1> HIDE DEF again, status
<1>4. queue \subseteq EntryType(K, H, N)
    BY <1>3
<1>5. \A q, r \in queue : q.id = r.id => q = r
    BY <1>3 DEF Whole
<1>6. \A q \in queue : q.state # "sending"
    BY <1>3
<1> HIDE DEF queue, t
<1>7. /\ t \in SessionType(K, H, N) /\ t.status = status /\ t.queue = queue
      /\ t.recorded = s.recorded /\ t.draft = s.draft
    BY <1>1, <1>2, <1>4 DEF SessionType
<1>8. Whole(t)
    BY <1>2, <1>5, <1>7 DEF Whole, AcceptsDraft
<1> QED BY <1>6, <1>7, <1>8 DEF t

LEMMA RestartKept ==
    ASSUME IInv, Restart
    PROVE  IInv'
<1> DEFINE forgotten(k) == [k EXCEPT !.awaited = FALSE]
<1>1. /\ session' = IF disk = None THEN None ELSE Recovered(disk)
      /\ controller' = None /\ disk' = disk /\ store' = store /\ copies' = copies /\ saves' = saves
      /\ calls' = {forgotten(k) : k \in {r \in calls : r.stage = "request"}}
    BY DEF Restart
<1>2. /\ Typed /\ Paired /\ calls \subseteq CallType(Known, Past, 1..saves)
      /\ disk # None => disk \in SessionType(Known, Past, 1..saves) /\ Whole(disk)
    BY DEF IInv, Typed, Paired
<1>3. \A k \in calls :
          forgotten(k) \in CallType(Known, Past, 1..saves) /\ forgotten(k).awaited = FALSE
    BY <1>2 DEF CallType
<1> HIDE DEF forgotten
<1>4. calls' \subseteq CallType(Known, Past, 1..saves) /\ \A k \in calls' : k.awaited = FALSE
    BY <1>1, <1>3
<1>5. session' # None =>
          /\ session' \in SessionType(Known, Past, 1..saves) /\ Whole(session')
          /\ \A q \in session'.queue : q.state # "sending"
    BY <1>1, <1>2, RecoveredIs
<1>6. Typed' /\ Paired'
    <2>1. \A s \in {session', disk'} \ {None} : s \in SessionType(Known, Past, 1..saves) /\ Whole(s)
        BY <1>1, <1>2, <1>5
    <2> QED BY <1>1, <1>2, <1>4, <2>1, LeftFine
<1>7. Calling'
    BY <1>4, <1>5 DEF Calling
<1> QED BY <1>6, <1>7 DEF IInv

(* The store takes what is written to it, or is seeded again.              *)
LEMMA StoreGrows ==
    ASSUME IInv, copies' \in Shown, \A e \in Edits : copies[e] <= copies'[e],
           NEW h \in Nat, store.history <= h, NEW ops, ops \subseteq Known',
           store' = [history |-> h, ops |-> ops],
           UNCHANGED <<calls, session, controller, disk, saves>>
    PROVE  IInv'
<1>1. Typed /\ Paired /\ Calling /\ copies \in Shown /\ store.history \in Nat \ {0}
    BY DEF IInv, Typed
<1>2. Known \subseteq Known'
    BY <1>1, KnownGrows
<1>3. store'.history = h /\ store'.ops = ops
    OBVIOUS
<1>4. Past \subseteq Past' /\ h \in Past' /\ h # 0
    BY <1>1, <1>3 DEF Past
<1>5. /\ SessionType(Known, Past, 1..saves) \subseteq SessionType(Known', Past', 1..saves)
      /\ ControllerType(Known, Past) \subseteq ControllerType(Known', Past')
      /\ CallType(Known, Past, 1..saves) \subseteq CallType(Known', Past', 1..saves)
    BY <1>2, <1>4, Wider
<1>6. store' \in FrontierType(Known', Past')
    BY <1>4 DEF FrontierType
<1>7. Typed'
    BY <1>1, <1>3, <1>4, <1>5, <1>6 DEF Typed
<1>8. Paired' /\ Calling'
    BY <1>1 DEF Paired, Calling, Waited
<1> QED BY <1>7, <1>8 DEF IInv

LEMMA RemoteEditKept ==
    ASSUME IInv, NEW e \in Others, RemoteEdit(e)
    PROVE  IInv'
<1> DEFINE ops == store.ops \cup {Write(e)}
<1>1. /\ copies \in Shown /\ store \in FrontierType(Known, Past) /\ store.history \in Nat
      /\ e \in Edits /\ copies[e] = 0 /\ copies' = [copies EXCEPT ![e] = 1]
    BY DEF IInv, Typed, RemoteEdit, Fresh, Edits
<1>2. copies' \in Shown /\ \A d \in Edits : copies[d] <= copies'[d]
    BY <1>1 DEF Shown
<1>3. store' = [history |-> store.history, ops |-> ops]
    BY <1>1 DEF RemoteEdit, FrontierType
<1>4. ops \subseteq Known'
    <2>1. Known \subseteq Known'
        BY <1>1, <1>2, KnownGrows
    <2>2. Write(e) \in AnyOperation /\ Write(e).copy = 1 /\ Write(e).edit = e
        BY <1>1 DEF Write, AnyOperation
    <2>3. copies'[e] = 1
        BY <1>1 DEF Shown
    <2>4. Write(e) \in Known'
        BY <2>2, <2>3 DEF Known
    <2> QED BY <1>1, <2>1, <2>4 DEF FrontierType
<1>5. store.history <= store.history
    BY <1>1
<1> HIDE DEF ops
<1> QED BY <1>1, <1>2, <1>3, <1>4, <1>5, StoreGrows DEF RemoteEdit

LEMMA ReseedKept ==
    ASSUME IInv, NEW document \in {Document(store.ops), Document({})}, Reseed(document)
    PROVE  IInv'
<1> DEFINE ops == Lacking({}, document)
<1>1. /\ copies \in Shown /\ store \in FrontierType(Known, Past) /\ store.history \in Nat \ {0}
      /\ store' = [history |-> store.history + 1, ops |-> ops]
      /\ copies' = [e \in Edits |-> copies[e] + document[e]]
      /\ UNCHANGED <<calls, session, controller, disk, saves>>
    BY DEF IInv, Typed, Reseed
<1>2. Bounded({}) /\ Bounded(store.ops)
    <2>1. store.ops \subseteq Known
        BY <1>1 DEF FrontierType
    <2> QED BY <1>1, <2>1, BoundedKnown, BoundedPart
<1>3. document \in [Edits -> Nat] /\ \A e \in Edits : Document({})[e] \in Nat
    BY <1>2, DocumentType, LiveCount
<1>4. copies' \in Shown /\ \A e \in Edits : copies[e] <= copies'[e]
    BY <1>1, <1>3 DEF Shown
<1>5. ops \subseteq Known'
    <2> SUFFICES ASSUME NEW x \in ops PROVE x \in Known'
        OBVIOUS
    <2>1. PICK e \in Edits : x \in LackingOf({}, document, e)
        BY LackingIs
    <2>2. PICK m \in 1..(document[e] - Document({})[e]) :
              x = [edit |-> e, copy |-> copies[e] + m, removes |-> FALSE]
        BY <2>1 DEF LackingOf, Copies
    <2>3. copies[e] \in Nat /\ document[e] \in Nat /\ Document({})[e] \in Nat
          /\ copies'[e] = copies[e] + document[e]
        BY <1>1, <1>3 DEF Shown
    <2>4. copies[e] + m \in Nat \ {0} /\ copies[e] + m <= copies'[e]
        BY <2>2, <2>3
    <2> QED BY <2>2, <2>4 DEF Known, AnyOperation
<1> HIDE DEF ops
<1>6. store.history + 1 \in Nat /\ store.history <= store.history + 1
    BY <1>1
<1> QED BY <1>1, <1>4, <1>5, <1>6, StoreGrows

--------------------------------------------------------------------------

LEMMA InitFine ==
    ASSUME Init
    PROVE  IInv
<1>1. copies \in Shown /\ saves \in Nat /\ store.history = 1 /\ store.ops = {}
    BY DEF Init, Shown
<1>2. store \in FrontierType(Known, Past)
    <2>1. 1 \in Past
        BY <1>1 DEF Past
    <2> QED BY <2>1 DEF Init, FrontierType
<1>3. Typed
    BY <1>1, <1>2 DEF Init, Typed
<1>4. Paired /\ Calling
    BY DEF Init, Paired, Calling
<1> QED BY <1>3, <1>4 DEF IInv

LEMMA NextKept ==
    ASSUME NoneApart, Usual, IInv, [Next]_vars
    PROVE  IInv'
<1>1. CASE AuthorNext
    <2>1. ASSUME NEW e \in Own, Edit(e) \/ Type(e) \/ ConfirmStage(e) PROVE IInv'
        BY <2>1, EditKept, TypeKept, ConfirmStageKept
    <2>2. ASSUME session # None, NEW q \in session.queue, Send(q) PROVE IInv'
        BY <2>2, SendKept
    <2> QED BY <1>1, <2>1, <2>2, OpenKept, AttachKept, ReplaceControllerKept, DetachKept,
               SyncDraftKept, DiscardKept, RemoveKept, QueueSaveKept, SupersedeKept,
               BlockSessionKept DEF AuthorNext
<1>2. CASE StoreNext
    BY <1>2, StoreAcceptsKept, StoreRefusesKept, RemoteEditKept, ReseedKept DEF StoreNext
<1>3. CASE \E k \in calls : AnswerNext(k)
    BY <1>3, AcceptedKept, RejectedKept, CallFailsKept DEF AnswerNext
<1>4. CASE Arrives \/ Disconnect \/ Reconnect \/ Restart
    BY <1>4, ArrivesKept, DisconnectKept, ReconnectKept, RestartKept
<1>5. CASE UNCHANGED vars
    <2>1. Known' = Known /\ Past' = Past
        BY <1>5 DEF vars, Known, Past
    <2> QED BY <1>5, <2>1 DEF vars, IInv, Typed, Paired, Calling, Waited
<1> QED BY <1>1, <1>2, <1>3, <1>4, <1>5 DEF Next

LEMMA Agrees ==
    ASSUME IInv
    PROVE  SessionAgrees
<1>1. DraftIsReplicas
    BY DEF IInv, Paired, Agree, Shows, DraftIsReplicas, Attached
<1>2. RecordedIsDraft
    BY DEF IInv, Paired, Whole, RecordedIsDraft
<1>3. SendingAwaited
    BY DEF IInv, Calling, SendingAwaited
<1> QED BY <1>1, <1>2, <1>3 DEF SessionAgrees

(* The draft of a session is what its replica holds, what is recorded of   *)
(* it is the draft, and an operation being sent is waited for: after any   *)
(* order of edits, saves, answers, lost calls and connections, replaced    *)
(* histories and restarts, if the application discards to the newest       *)
(* accepted state and blocks no session that has an operation on its way.  *)
THEOREM SessionAgreesAlways ==
    NoneApart /\ Usual => (Spec => []SessionAgrees)
<1> SUFFICES ASSUME NoneApart, Usual PROVE Spec => []SessionAgrees
    OBVIOUS
<1>1. Init => IInv
    BY InitFine
<1>2. IInv /\ [Next]_vars => IInv'
    BY NextKept
<1>3. IInv => SessionAgrees
    BY Agrees
<1> QED BY <1>1, <1>2, <1>3, PTL DEF Spec

--------------------------------------------------------------------------
(* Entities whose controllers take no documents.  Their sessions write     *)
(* each edit once and remove none, so that every operation there is, of    *)
(* the history it belongs to, is one of a set `T` with a copy of each      *)
(* edit, and every accepted state a part of `F`, of which the store has    *)
(* all that is owed.                                                       *)

(* Such entities, and an application that disconnects a session once.      *)
TextOnly == Takes \subseteq {FALSE} /\ Liberties \subseteq {"overtakes"}

Has(ops, e) == \E x \in ops : x.edit = e
In(T, h, ops) == \A x \in ops : <<h, x>> \in T
One(T) ==
    \A p, r \in T : p[2].removes = FALSE /\ (p[1] = r[1] /\ p[2].edit = r[2].edit => p = r)

(* A session that need not be kept has nothing to keep.                    *)
Quiet(s) == s.status \in {"clean", "live", "disconnectedReadable"} => s.draft = s.baseline

EntryIn(q, T, F) == In(F, q.base.history, q.base.ops) /\ In(T, q.base.history, q.update)
RecordedIn(r, T, F) == In(F, r.history, r.base) /\ In(T, r.history, r.update)
SessionIn(s, T, F) ==
    /\ s.takes = FALSE /\ s.baseline = Document(s.revision.ops) /\ Quiet(s)
    /\ In(F, s.revision.history, s.revision.ops)
    /\ \A q \in s.queue : EntryIn(q, T, F)
    /\ s.recorded # None => RecordedIn(s.recorded, T, F)
ControllerIn(c, T, F) == In(F, c.history, c.base) /\ In(T, c.history, c.ops)

Within(T, F) ==
    /\ F \subseteq T /\ One(T)
    /\ In(F, store.history, store.ops)
    /\ \A k \in calls : EntryIn(k, T, F)
    /\ \A s \in {session, disk} \ {None} : SessionIn(s, T, F)
    /\ controller # None => ControllerIn(controller, T, F)
Offered(F) == \A p \in F : p[2].edit \in owed => Has(store.ops, p[2].edit)
Placed(T, F) == Within(T, F) /\ T \subseteq Past \X Known /\ Offered(F)

(* What is typed joins what the draft shows.                               *)
Drawn ==
    controller # None /\ controller.syncing =>
        \A e \in Edits : session.draft[e] > 0 => Has(controller.ops, e)

(* What is persisted is the draft; else the draft is an accepted state.    *)
Persists ==
    /\ session = None => disk = None
    /\ session # None => IF disk = None THEN session.draft = session.baseline
                         ELSE disk.draft = session.draft

Stored ==
    /\ \A e \in owed \cap Others : Has(store.ops, e)
    /\ \A e \in owed \cap Own :
           \/ Has(store.ops, e)
           \/ session # None /\ session.draft[e] > 0
           \/ controller # None /\ controller.syncing /\ Has(controller.ops, e)

TextInv == (\E T, F : Placed(T, F)) /\ Drawn /\ Persists /\ Stored /\ owed \subseteq Edits

LEMMA HasShown ==
    ASSUME NEW T, One(T), NEW h, NEW ops, In(T, h, ops), Bounded(ops), NEW e \in Edits
    PROVE  /\ Document(ops)[e] \in Nat /\ Document(ops)[e] <= 1
           /\ Document(ops)[e] > 0 <=> Has(ops, e)
<1> DEFINE L == LiveOf(ops, e)
<1>1. Document(ops)[e] = Cardinality(L) /\ IsFiniteSet(L)
    BY LiveCount
<1>2. \A x \in ops : x \in AnyOperation /\ x.removes = FALSE
    <2>1. \A x \in ops : <<h, x>>[2].removes = FALSE
        BY DEF In, One
    <2> QED BY <2>1 DEF Bounded
<1>3. L = {x \in ops : x.edit = e}
    <2>1. ASSUME NEW x \in ops PROVE [x EXCEPT !.removes = TRUE] \notin ops
        <3>1. [x EXCEPT !.removes = TRUE].removes = TRUE
            BY <1>2 DEF AnyOperation
        <3> QED BY <1>2, <3>1
    <2>2. Live(ops) = ops
        BY <1>2, <2>1 DEF Live
    <2> QED BY <2>2 DEF LiveOf
<1>4. \A x, y \in L : x = y
    <2> SUFFICES ASSUME NEW x \in L, NEW y \in L PROVE x = y
        OBVIOUS
    <2>1. <<h, x>> \in T /\ <<h, y>> \in T /\ x.edit = e /\ y.edit = e
        BY <1>3 DEF In
    <2>2. <<h, x>> = <<h, y>>
        BY <2>1 DEF One
    <2> QED BY <2>2
<1>5. CASE L = {}
    <2>1. Cardinality(L) = 0
        BY <1>5, FS_EmptySet
    <2> QED BY <1>1, <1>3, <1>5, <2>1 DEF Has
<1>6. CASE L # {}
    <2>1. PICK x \in L : TRUE
        BY <1>6
    <2>2. L = {x}
        BY <1>4, <2>1
    <2>3. Cardinality(L) = 1
        BY <2>2, FS_Singleton
    <2> QED BY <1>1, <1>3, <2>1, <2>3 DEF Has
<1> QED BY <1>5, <1>6

LEMMA InGrows ==
    ASSUME NEW T, NEW U, T \subseteq U, NEW F, NEW G, F \subseteq G
    PROVE  /\ \A h, ops : In(T, h, ops) => In(U, h, ops)
           /\ \A q : EntryIn(q, T, F) => EntryIn(q, U, G)
           /\ \A s : SessionIn(s, T, F) => SessionIn(s, U, G)
           /\ \A c : ControllerIn(c, T, F) => ControllerIn(c, U, G)
<1>1. \A h, ops : (In(T, h, ops) => In(U, h, ops)) /\ (In(F, h, ops) => In(G, h, ops))
    BY DEF In
<1>2. \A q : EntryIn(q, T, F) => EntryIn(q, U, G)
    BY <1>1 DEF EntryIn
<1>3. \A r : RecordedIn(r, T, F) => RecordedIn(r, U, G)
    BY <1>1 DEF RecordedIn
<1>4. \A s : SessionIn(s, T, F) => SessionIn(s, U, G)
    BY <1>1, <1>2, <1>3 DEF SessionIn
<1>5. \A c : ControllerIn(c, T, F) => ControllerIn(c, U, G)
    BY <1>1 DEF ControllerIn
<1> QED BY <1>1, <1>2, <1>4, <1>5

(* The transitions of a session.                                           *)
Turned(s, t, status, queue) ==
    /\ t.takes = s.takes /\ t.status = status /\ t.revision = s.revision
    /\ t.baseline = s.baseline /\ t.draft = s.draft /\ t.queue = queue /\ t.recorded = s.recorded

LEMMA TurnedIn ==
    ASSUME NEW s, NEW T, NEW F, SessionIn(s, T, F), NEW t, NEW status, NEW queue,
           Turned(s, t, status, queue), \A q \in queue : EntryIn(q, T, F),
           status \in {"clean", "live", "disconnectedReadable"} => s.draft = s.baseline
    PROVE  SessionIn(t, T, F) /\ t.draft = s.draft
BY DEF Turned, SessionIn, Quiet

LEMMA StatusIn ==
    ASSUME NEW K, NEW H, NEW N, NEW s \in SessionType(K, H, N), NEW T, NEW F, SessionIn(s, T, F),
           NEW status,
           status \in {"clean", "live", "disconnectedReadable"} => s.draft = s.baseline
    PROVE  /\ SessionIn([s EXCEPT !.status = status], T, F)
           /\ [s EXCEPT !.status = status].draft = s.draft
<1> DEFINE t == [s EXCEPT !.status = status]
<1>1. Turned(s, t, status, s.queue)
    BY DEF SessionType, Turned
<1>2. \A q \in s.queue : EntryIn(q, T, F)
    BY DEF SessionIn
<1> HIDE DEF t
<1>3. SessionIn(t, T, F) /\ t.draft = s.draft
    BY <1>1, <1>2, TurnedIn
<1> QED BY <1>3 DEF t

LEMMA SettledIs ==
    ASSUME NEW s, NEW baseline, NEW draft
    PROVE  Settled(s, baseline, draft) \in {"clean", "live", "disconnectedReadable"} => draft = baseline
BY DEF Settled

(* What the session of an entry differs in only by its state.              *)
LEMMA StateIn ==
    ASSUME NEW K, NEW H, NEW N, NEW q \in EntryType(K, H, N), NEW state, NEW T, NEW F, EntryIn(q, T, F)
    PROVE  EntryIn([q EXCEPT !.state = state], T, F)
BY DEF EntryType, EntryIn

LEMMA SupersedeIn ==
    ASSUME NEW K, NEW H, NEW N, NEW s \in SessionType(K, H, N), NEW T, NEW F, SessionIn(s, T, F)
    PROVE  SessionIn(SupersedeBlocked(s), T, F) /\ SupersedeBlocked(s).draft = s.draft
<1> DEFINE remaining == {q \in s.queue : q.state # "blocked"}
           status == IF remaining # {} THEN "commitPending" ELSE Settled(s, s.baseline, s.draft)
<1>1. SupersedeBlocked(s) \in {s, [s EXCEPT !.status = status, !.queue = remaining]}
    BY DEF SupersedeBlocked
<1>2. status \in {"clean", "live", "disconnectedReadable"} => s.draft = s.baseline
    BY SettledIs
<1>3. \A q \in remaining : EntryIn(q, T, F)
    BY DEF SessionIn
<1> HIDE DEF status, remaining
<1>4. CASE SupersedeBlocked(s) = s
    BY <1>4
<1>5. CASE SupersedeBlocked(s) = [s EXCEPT !.status = status, !.queue = remaining]
    <2>1. Turned(s, SupersedeBlocked(s), status, remaining)
        BY <1>5 DEF SessionType, Turned
    <2> QED BY <1>2, <1>3, <2>1, TurnedIn
<1> QED BY <1>1, <1>4, <1>5

LEMMA AcknowledgeIn ==
    ASSUME NEW K, NEW H, NEW N, NEW s \in SessionType(K, H, N), NEW T, NEW F, SessionIn(s, T, F),
           NEW id, NEW frontier, In(F, frontier.history, frontier.ops)
    PROVE  /\ SessionIn(Acknowledge(s, id, frontier), T, F)
           /\ Acknowledge(s, id, frontier).draft = s.draft
<1> DEFINE document == Document(frontier.ops)
           remaining == {q \in s.queue : q.id # id}
           status == IF remaining # {}
                     THEN IF \E q \in remaining : q.state # "blocked" THEN "commitPending"
                          ELSE "commitRejected"
                     ELSE Settled(s, document, s.draft)
           t == Acknowledge(s, id, frontier)
<1>1. t = [s EXCEPT !.status = status, !.revision = frontier, !.baseline = document,
                    !.queue = remaining]
    BY DEF Acknowledge
<1>2. status \in {"clean", "live", "disconnectedReadable"} => s.draft = document
    BY SettledIs
<1>3. \A q \in remaining : EntryIn(q, T, F)
    BY DEF SessionIn
<1> HIDE DEF status, remaining, t
<1>4. /\ t.takes = s.takes /\ t.status = status /\ t.revision = frontier
      /\ t.baseline = document /\ t.draft = s.draft /\ t.queue = remaining /\ t.recorded = s.recorded
    BY <1>1 DEF SessionType
<1>5. SessionIn(t, T, F)
    BY <1>2, <1>3, <1>4 DEF SessionIn, Quiet
<1> QED BY <1>4, <1>5 DEF t

LEMMA RejectIn ==
    ASSUME NEW K, NEW H, NEW N, NEW s \in SessionType(K, H, N), NEW T, NEW F, SessionIn(s, T, F),
           NEW id, NEW resyncs, NEW retryable
    PROVE  /\ SessionIn(Reject(s, id, resyncs, retryable), T, F)
           /\ Reject(s, id, resyncs, retryable).draft = s.draft
<1> DEFINE resync == resyncs \/ s.status = "resyncRequired"
           state == IF retryable /\ ~resync THEN "queued" ELSE "blocked"
           status == IF resync THEN "resyncRequired" ELSE "commitRejected"
           queue == {IF q.id = id THEN [q EXCEPT !.state = state] ELSE q : q \in s.queue}
           t == Reject(s, id, resyncs, retryable)
<1>1. t = [s EXCEPT !.status = status, !.queue = queue]
    BY DEF Reject
<1>2. status \notin {"clean", "live", "disconnectedReadable"}
    OBVIOUS
<1> HIDE DEF state, status, t
<1>3. \A q \in queue : EntryIn(q, T, F)
    <2>1. \A q \in s.queue : q \in EntryType(K, H, N) /\ EntryIn(q, T, F)
        BY DEF SessionType, SessionIn
    <2>2. \A q \in s.queue : EntryIn([q EXCEPT !.state = state], T, F)
        BY <2>1, StateIn
    <2> QED BY <2>1, <2>2
<1> HIDE DEF queue
<1>4. Turned(s, t, status, queue)
    BY <1>1 DEF SessionType, Turned
<1>5. SessionIn(t, T, F) /\ t.draft = s.draft
    BY <1>2, <1>3, <1>4, TurnedIn
<1> QED BY <1>5 DEF t

LEMMA ModifyIn ==
    ASSUME NEW K, NEW H, NEW N, NEW s \in SessionType(K, H, N), NEW T, NEW F, SessionIn(s, T, F),
           NEW draft
    PROVE  SessionIn(Modify(s, draft), T, F) /\ Modify(s, draft).draft = draft
<1> DEFINE status == IF s.status \in {"disconnectedReadable", "offlineModified"}
                     THEN IF s.queue # {} \/ s.baseline # draft THEN "offlineModified"
                          ELSE "disconnectedReadable"
                     ELSE IF s.queue # {} THEN "commitPending"
                          ELSE Settled(s, s.baseline, draft)
           t == Modify(s, draft)
<1>1. t = [s EXCEPT !.status = status, !.draft = draft]
    BY DEF Modify
<1>2. status \in {"clean", "live", "disconnectedReadable"} => draft = s.baseline
    BY SettledIs
<1> HIDE DEF status, t
<1>3. /\ t.takes = s.takes /\ t.status = status /\ t.revision = s.revision
      /\ t.baseline = s.baseline /\ t.draft = draft /\ t.queue = s.queue /\ t.recorded = s.recorded
    BY <1>1 DEF SessionType
<1>4. SessionIn(t, T, F)
    BY <1>2, <1>3 DEF SessionIn, Quiet
<1> QED BY <1>3, <1>4 DEF t

LEMMA AdoptBaselineIn ==
    ASSUME NEW K, NEW H, NEW N, NEW s \in SessionType(K, H, N), NEW T, NEW F, SessionIn(s, T, F),
           NEW frontier, In(F, frontier.history, frontier.ops), NEW draft
    PROVE  SessionIn(Adopt(s, frontier, draft), T, F) /\ Adopt(s, frontier, draft).draft = draft
<1> DEFINE baseline == Document(frontier.ops)
           status == Settled(s, baseline, draft)
           t == Adopt(s, frontier, draft)
<1>1. t = [s EXCEPT !.status = status, !.revision = frontier, !.baseline = baseline,
                    !.draft = draft, !.queue = {}]
    BY DEF Adopt
<1>2. status \in {"clean", "live", "disconnectedReadable"} => draft = baseline
    BY SettledIs
<1> HIDE DEF status, t
<1>3. /\ t.takes = s.takes /\ t.status = status /\ t.revision = frontier
      /\ t.baseline = baseline /\ t.draft = draft /\ t.queue = {} /\ t.recorded = s.recorded
    BY <1>1 DEF SessionType
<1>4. SessionIn(t, T, F)
    BY <1>2, <1>3 DEF SessionIn, Quiet
<1> QED BY <1>3, <1>4 DEF t

LEMMA BlockIn ==
    ASSUME NEW K, NEW H, NEW N, NEW s \in SessionType(K, H, N), NEW T, NEW F, SessionIn(s, T, F),
           NEW status \in BlockedStatuses
    PROVE  SessionIn(Block(s, status), T, F) /\ Block(s, status).draft = s.draft
<1>1. status \notin {"clean", "live", "disconnectedReadable"}
    BY DEF BlockedStatuses
<1> QED BY <1>1, StatusIn DEF Block

LEMMA DisconnectedIn ==
    ASSUME NEW K, NEW H, NEW N, NEW s \in SessionType(K, H, N), NEW T, NEW F, SessionIn(s, T, F),
           s.status # "offlineModified"
    PROVE  SessionIn(Disconnected(s), T, F) /\ Disconnected(s).draft = s.draft
<1> DEFINE status == IF s.status \in {"modified", "commitPending", "commitRejected", "replaying"}
                     THEN "offlineModified" ELSE "disconnectedReadable"
<1>1. CASE s.status \in BlockedStatuses
    BY <1>1 DEF Disconnected
<1>2. CASE s.status \notin BlockedStatuses
    <2>1. Disconnected(s) = [s EXCEPT !.status = status]
        BY <1>2 DEF Disconnected
    <2>2. s.status \in ModifiableStatuses \ BlockedStatuses
        BY <1>2 DEF SessionType
    <2>3. status = "disconnectedReadable" => s.status \in {"clean", "live", "disconnectedReadable"}
        BY <2>2 DEF ModifiableStatuses, BlockedStatuses
    <2>4. status \in {"clean", "live", "disconnectedReadable"} => s.draft = s.baseline
        BY <2>3 DEF SessionIn, Quiet
    <2> HIDE DEF status
    <2> QED BY <2>1, <2>4, StatusIn
<1> QED BY <1>1, <1>2

LEMMA ReconnectedIn ==
    ASSUME NEW K, NEW H, NEW N, NEW s \in SessionType(K, H, N), NEW T, NEW F, SessionIn(s, T, F)
    PROVE  SessionIn(Reconnected(s), T, F) /\ Reconnected(s).draft = s.draft
<1> DEFINE status == IF \E q \in s.queue : q.state = "queued" THEN "replaying"
                     ELSE IF \E q \in s.queue : q.state = "blocked" THEN "commitRejected"
                     ELSE Settled(s, s.baseline, s.draft)
<1>1. Reconnected(s) = [s EXCEPT !.status = status]
    BY DEF Reconnected
<1>2. status \in {"clean", "live", "disconnectedReadable"} => s.draft = s.baseline
    BY SettledIs
<1> HIDE DEF status
<1> QED BY <1>1, <1>2, StatusIn

LEMMA QueueIn ==
    ASSUME NEW K, NEW H, NEW N, NEW s \in SessionType(K, H, N), NEW T, NEW F, SessionIn(s, T, F),
           NEW operation, EntryIn(operation, T, F)
    PROVE  SessionIn(Queue(s, operation), T, F) /\ Queue(s, operation).draft = s.draft
<1> DEFINE status == IF s.status = "offlineModified" THEN "offlineModified" ELSE "commitPending"
           queue == s.queue \cup {operation}
<1>1. Turned(s, Queue(s, operation), status, queue)
    BY DEF Queue, SessionType, Turned
<1>2. status \notin {"clean", "live", "disconnectedReadable"}
    OBVIOUS
<1>3. \A q \in queue : EntryIn(q, T, F)
    BY DEF SessionIn
<1> HIDE DEF status, queue
<1> QED BY <1>1, <1>2, <1>3, TurnedIn

LEMMA BeginReplayIn ==
    ASSUME NEW K, NEW H, NEW N, NEW s \in SessionType(K, H, N), NEW T, NEW F, SessionIn(s, T, F),
           NEW q \in s.queue
    PROVE  SessionIn(BeginReplay(s, q), T, F) /\ BeginReplay(s, q).draft = s.draft
<1> DEFINE queue == (s.queue \ {q}) \cup {[q EXCEPT !.state = "sending"]}
<1>1. Turned(s, BeginReplay(s, q), "replaying", queue)
    BY DEF BeginReplay, SessionType, Turned
<1>2. \A r \in s.queue : r \in EntryType(K, H, N) /\ EntryIn(r, T, F)
    BY DEF SessionType, SessionIn
<1>3. EntryIn([q EXCEPT !.state = "sending"], T, F)
    BY <1>2, StateIn
<1>4. \A r \in queue : EntryIn(r, T, F)
    BY <1>2, <1>3
<1> HIDE DEF queue
<1> QED BY <1>1, <1>4, TurnedIn

LEMMA RecoveredIn ==
    ASSUME NEW K, NEW H, NEW N, NEW s \in SessionType(K, H, N), NEW T, NEW F, SessionIn(s, T, F)
    PROVE  SessionIn(Recovered(s), T, F) /\ Recovered(s).draft = s.draft
<1> DEFINE status == IF s.status = "replaying" THEN "offlineModified" ELSE s.status
           queue == {[q EXCEPT !.state = IF @ = "sending" THEN "queued" ELSE @] : q \in s.queue}
<1>1. Turned(s, Recovered(s), status, queue)
    BY DEF Recovered, SessionType, Turned
<1>2. status \in {"clean", "live", "disconnectedReadable"} => s.draft = s.baseline
    BY DEF SessionIn, Quiet
<1>3. \A r \in queue : EntryIn(r, T, F)
    <2>1. \A r \in s.queue : r \in EntryType(K, H, N) /\ EntryIn(r, T, F)
        BY DEF SessionType, SessionIn
    <2>2. ASSUME NEW r \in s.queue
          PROVE  EntryIn([r EXCEPT !.state = IF @ = "sending" THEN "queued" ELSE @], T, F)
        BY <2>1, StateIn
    <2> QED BY <2>2
<1> HIDE DEF status, queue
<1> QED BY <1>1, <1>2, <1>3, TurnedIn

LEMMA DiscardIn ==
    ASSUME NEW K, NEW H, NEW N, NEW s \in SessionType(K, H, N), NEW T, NEW F, SessionIn(s, T, F)
    PROVE  SessionIn(Discard(s), T, F) /\ Discard(s).draft = s.baseline
<1> DEFINE t == Discard(s)
<1>1. /\ t.takes = s.takes /\ t.status = "clean" /\ t.revision = s.revision
      /\ t.baseline = s.baseline /\ t.draft = s.baseline /\ t.queue = {} /\ t.recorded = s.recorded
    BY DEF Discard, SessionType
<1> HIDE DEF t
<1>2. SessionIn(t, T, F)
    BY <1>1 DEF SessionIn, Quiet
<1> QED BY <1>1, <1>2 DEF t

(* A session on a new history has its draft still, or takes what the store *)
(* has, if nothing was pending.                                            *)
ReplacedIn(s, t, frontier, T, F) ==
    /\ SessionIn(t, T, F)
    /\ IF Durable(s) THEN t.draft = s.draft ELSE t.draft = Document(frontier.ops)
    /\ Durable(t) \/ t.draft = Document(frontier.ops)

LEMMA ReplaceHistoryIn ==
    ASSUME NEW K, NEW H, NEW N, NEW s \in SessionType(K, H, N), NEW T, NEW F, SessionIn(s, T, F),
           NEW frontier, In(F, frontier.history, frontier.ops)
    PROVE  ReplacedIn(s, ReplaceHistory(s, frontier), frontier, T, F)
<1> DEFINE accepted == Document(frontier.ops)
           replaced == [s EXCEPT !.revision = frontier, !.baseline = accepted, !.queue = {},
                                 !.recorded = None]
           editable == AcceptsDraft(s) \/ s.status = "resyncRequired"
           t == ReplaceHistory(s, frontier)
           Is(status, draft) ==
               /\ t.takes = s.takes /\ t.status = status /\ t.revision = frontier
               /\ t.baseline = accepted /\ t.draft = draft /\ t.queue = {} /\ t.recorded = None
<1>1. CASE ~Durable(s)
    <2>1. Is("clean", accepted)
        BY <1>1 DEF ReplaceHistory, SessionType
    <2> HIDE DEF t
    <2>2. SessionIn(t, T, F) /\ t.draft = accepted
        BY <2>1 DEF SessionIn, Quiet
    <2> QED BY <1>1, <2>2 DEF t, ReplacedIn
<1>2. CASE Durable(s) /\ editable /\ s.baseline = accepted
    <2> DEFINE status == Settled(s, accepted, s.draft)
    <2>1. Is(status, s.draft)
        BY <1>2 DEF ReplaceHistory, SessionType
    <2>2. status \in {"clean", "modified"} /\ (status = "clean" => s.draft = accepted)
        BY DEF Settled
    <2> HIDE DEF t, status
    <2>3. SessionIn(t, T, F) /\ t.draft = s.draft
        BY <2>1, <2>2 DEF SessionIn, Quiet
    <2>4. Durable(t) \/ t.draft = accepted
        BY <2>1, <2>2 DEF Durable
    <2> QED BY <1>2, <2>3, <2>4 DEF t, ReplacedIn
<1>3. CASE Durable(s) /\ ~(editable /\ s.baseline = accepted)
    <2>1. Is("recoveryRequired", s.draft)
        BY <1>3 DEF ReplaceHistory, SessionType
    <2> HIDE DEF t
    <2>2. SessionIn(t, T, F) /\ t.draft = s.draft
        BY <2>1 DEF SessionIn, Quiet
    <2>3. Durable(t)
        BY <2>1 DEF Durable
    <2> QED BY <1>3, <2>2, <2>3 DEF t, ReplacedIn
<1> QED BY <1>1, <1>2, <1>3

(* What the runtime does with a session and its replica.                   *)
LEMMA RecordIn ==
    ASSUME NEW K, NEW H, NEW N, NEW s \in SessionType(K, H, N), NEW c \in ControllerType(K, H),
           NEW T, NEW F, SessionIn(s, T, F), ControllerIn(c, T, F)
    PROVE  /\ SessionIn(Record(c, s), T, F) /\ Record(c, s).draft = s.draft
           /\ Record(c, s) \in SessionType(K, H, N)
<1> DEFINE r == [history |-> c.history, base |-> c.base, update |-> c.ops \ c.base]
           Is(t, recorded) ==
               /\ t.takes = s.takes /\ t.status = s.status /\ t.revision = s.revision
               /\ t.baseline = s.baseline /\ t.draft = s.draft /\ t.queue = s.queue
               /\ t.recorded = recorded
<1>1. RecordedIn(r, T, F) /\ r \in RecordedType(K, H)
    BY DEF RecordedIn, ControllerIn, In, RecordedType, ControllerType
<1>2. \A recorded : Is([s EXCEPT !.recorded = recorded], recorded)
    BY DEF SessionType
<1> HIDE DEF r
<1>3. ASSUME NEW t, NEW recorded \in {None, r}, Is(t, recorded)
      PROVE  SessionIn(t, T, F) /\ t.draft = s.draft
    BY <1>1, <1>3 DEF SessionIn, Quiet
<1> HIDE DEF Is
<1>4. \A recorded \in {None, r} : [s EXCEPT !.recorded = recorded] \in SessionType(K, H, N)
    BY <1>1 DEF SessionType
<1>5. CASE ~Durable(s)
    <2>1. Record(c, s) = [s EXCEPT !.recorded = None]
        BY <1>5 DEF Record
    <2> QED BY <1>2, <1>3, <1>4, <2>1
<1>6. CASE Durable(s) /\ c.untaken
    BY <1>6 DEF Record
<1>7. CASE Durable(s) /\ ~c.untaken
    <2>1. Record(c, s) = [s EXCEPT !.recorded = r]
        BY <1>7 DEF Record, r
    <2> QED BY <1>2, <1>3, <1>4, <2>1
<1> QED BY <1>5, <1>6, <1>7

(* Nothing of the replica but whether it took the draft.                   *)
SameReplica(c, d) ==
    /\ d # None /\ d.history = c.history /\ d.ops = c.ops /\ d.base = c.base
    /\ d.syncing = c.syncing

SetWithin(c, s, p, K, H, N, T, F) ==
    /\ SameReplica(c, p.c) /\ p.c \in ControllerType(K, H) /\ ControllerIn(p.c, T, F)
    /\ p.s \in SessionType(K, H, N) /\ SessionIn(p.s, T, F) /\ p.s.draft = s.draft
    /\ p.c.untaken <=> c.untaken /\ Durable(s)

LEMMA SetIn ==
    ASSUME NoneApart, NEW K, K \subseteq AnyOperation, NEW H, H \subseteq Nat, NEW N,
           NEW s \in SessionType(K, H, N), NEW c \in ControllerType(K, H),
           NEW T, NEW F, SessionIn(s, T, F), ControllerIn(c, T, F), NEW aligns
    PROVE  SetWithin(c, s, Set(c, s, aligns), K, H, N, T, F)
<1> DEFINE set == [c EXCEPT !.untaken = @ /\ Durable(s)]
           p == Set(c, s, aligns)
<1>1. ControllerType(K, H) \subseteq ControllerType(AnyOperation, Nat)
    BY DEF ControllerType
<1>2. c # None /\ s.takes = FALSE
    BY <1>1 DEF NoneApart, SessionIn
<1>3. p = [c |-> set, s |-> Record(set, s)]
    <2>1. [c EXCEPT !.ops = c.ops, !.untaken = @ /\ Durable(s)] = set
        BY DEF ControllerType
    <2> QED BY <1>2, <2>1 DEF Set
<1>4. /\ set \in ControllerType(K, H) /\ set.history = c.history /\ set.ops = c.ops
      /\ set.base = c.base /\ set.syncing = c.syncing /\ set.untaken = (c.untaken /\ Durable(s))
    <2>1. (c.untaken /\ Durable(s)) \in BOOLEAN
        BY DEF ControllerType
    <2> QED BY <2>1 DEF ControllerType
<1> HIDE DEF set
<1>5. ControllerIn(set, T, F)
    BY <1>4 DEF ControllerIn
<1>6. /\ SessionIn(Record(set, s), T, F) /\ Record(set, s).draft = s.draft
      /\ Record(set, s) \in SessionType(K, H, N)
    BY <1>4, <1>5, RecordIn
<1>7. set # None
    BY <1>1, <1>4 DEF NoneApart
<1>8. p.c = set /\ p.s = Record(set, s)
    BY <1>3
<1> HIDE DEF p
<1>9. SameReplica(c, p.c) /\ (p.c.untaken <=> c.untaken /\ Durable(s))
    BY <1>4, <1>7, <1>8 DEF SameReplica
<1>10. /\ p.c \in ControllerType(K, H) /\ ControllerIn(p.c, T, F)
       /\ p.s \in SessionType(K, H, N) /\ SessionIn(p.s, T, F) /\ p.s.draft = s.draft
    BY <1>4, <1>5, <1>6, <1>8
<1> QED BY <1>9, <1>10 DEF p, SetWithin

LEMMA UnattachedIn ==
    ASSUME NEW K, NEW H, NEW N, NEW s \in SessionType(K, H, N), NEW T, NEW F, SessionIn(s, T, F),
           NEW aligns
    PROVE  LET p == Set(None, s, aligns)
           IN  /\ p.c = None /\ p.s \in SessionType(K, H, N)
               /\ SessionIn(p.s, T, F) /\ p.s.draft = s.draft
<1> DEFINE t == WithoutStale(session, s)
<1>1. Set(None, s, aligns) = [c |-> None, s |-> t]
    BY DEF Set
<1>2. t \in {s, [s EXCEPT !.recorded = None]}
    BY DEF WithoutStale
<1>3. CASE t = [s EXCEPT !.recorded = None]
    <2>1. /\ t.takes = s.takes /\ t.status = s.status /\ t.revision = s.revision
          /\ t.baseline = s.baseline /\ t.draft = s.draft /\ t.queue = s.queue
          /\ t.recorded = None /\ t \in SessionType(K, H, N)
        BY <1>3 DEF SessionType
    <2> HIDE DEF t
    <2>2. SessionIn(t, T, F) /\ t.draft = s.draft
        BY <2>1 DEF SessionIn, Quiet
    <2> QED BY <1>1, <2>1, <2>2 DEF t
<1> HIDE DEF t
<1> QED BY <1>1, <1>2, <1>3

SyncedIn(c, s, p, K, H, N, T, F) ==
    /\ SameReplica(c, p.c) /\ p.c \in ControllerType(K, H) /\ ControllerIn(p.c, T, F)
    /\ p.s \in SessionType(K, H, N) /\ SessionIn(p.s, T, F)
    /\ p.s.draft = IF c.untaken \/ ~AcceptsDraft(s) THEN s.draft ELSE Document(c.ops)

LEMMA SyncIn ==
    ASSUME NoneApart, NEW K, K \subseteq AnyOperation, NEW H, H \subseteq Nat, NEW N,
           NEW s \in SessionType(K, H, N), NEW c \in ControllerType(K, H), Document(c.ops) \in Shown,
           NEW T, NEW F, SessionIn(s, T, F), ControllerIn(c, T, F)
    PROVE  SyncedIn(c, s, Sync(c, s), K, H, N, T, F)
<1> DEFINE p == Sync(c, s)
           m == Modify(s, Document(c.ops))
<1>1. ControllerType(K, H) \subseteq ControllerType(AnyOperation, Nat)
    BY DEF ControllerType
<1>2. c # None
    BY <1>1 DEF NoneApart
<1>3. CASE c.untaken \/ ~AcceptsDraft(s) \/ s.draft = Document(c.ops)
    <2>1. p.c = c /\ p.s = s
        BY <1>3 DEF Sync
    <2> HIDE DEF p
    <2>2. SameReplica(c, p.c)
        BY <1>2, <2>1 DEF SameReplica
    <2> QED BY <1>3, <2>1, <2>2 DEF p, SyncedIn
<1>4. CASE ~(c.untaken \/ ~AcceptsDraft(s) \/ s.draft = Document(c.ops))
    <2>1. p = Set(c, m, FALSE)
        BY <1>4 DEF Sync
    <2>2. m \in SessionType(K, H, N)
        BY ModifyIs
    <2>3. SessionIn(m, T, F) /\ m.draft = Document(c.ops)
        BY ModifyIn
    <2> HIDE DEF p, m
    <2>4. SetWithin(c, m, p, K, H, N, T, F)
        BY <2>1, <2>2, <2>3, SetIn
    <2> QED BY <1>4, <2>3, <2>4 DEF p, SetWithin, SyncedIn
<1> QED BY <1>3, <1>4

(* An accepted state is taken in, and what the draft shows stays.          *)
AdoptedIn(c, s, p, K, H, N, T, F) ==
    /\ p.c # None /\ p.c.syncing = c.syncing /\ ControllerIn(p.c, T, F)
    /\ p.c \in ControllerType(K, H) /\ p.s \in SessionType(K, H, N) /\ SessionIn(p.s, T, F)
    /\ \A e \in Edits : s.draft[e] > 0 => p.s.draft[e] > 0

LEMMA AdoptIn ==
    ASSUME NoneApart, NEW K, K \subseteq AnyOperation, Bounded(K), NEW H, H \subseteq Nat, NEW N,
           NEW s \in SessionType(K, H, N), NEW c \in ControllerType(K, H),
           NEW T, NEW F, F \subseteq T, One(T), SessionIn(s, T, F), ControllerIn(c, T, F),
           NEW frontier \in FrontierType(K, H), In(F, frontier.history, frontier.ops),
           frontier.history = c.history,
           AcceptsDraft(s) => \A e \in Edits : s.draft[e] > 0 => Has(c.ops, e)
    PROVE  AdoptedIn(c, s, AdoptAccepted(c, s, frontier), K, H, N, T, F)
<1> DEFINE taken == [c EXCEPT !.ops = @ \cup frontier.ops, !.base = frontier.ops]
           draft == Document(taken.ops)
           m == Modify(s, draft)
           a == Adopt(s, frontier, draft)
           p == AdoptAccepted(c, s, frontier)
<1>1. CASE ~AcceptsDraft(s)
    <2>1. p = [c |-> c, s |-> s]
        BY <1>1 DEF AdoptAccepted
    <2>2. ControllerType(K, H) \subseteq ControllerType(AnyOperation, Nat)
        BY DEF ControllerType
    <2>3. c # None
        BY <2>2 DEF NoneApart
    <2> QED BY <2>1, <2>3 DEF AdoptedIn
<1>2. CASE AcceptsDraft(s)
    <2>1. /\ taken \in ControllerType(K, H) /\ taken.history = c.history /\ taken.base = frontier.ops
          /\ taken.ops = c.ops \cup frontier.ops /\ taken.syncing = c.syncing
        BY DEF ControllerType, FrontierType
    <2> HIDE DEF taken
    <2>2. ControllerIn(taken, T, F)
        BY <2>1 DEF ControllerIn, In
    <2>3. Bounded(taken.ops)
        BY <2>1, BoundedPart DEF ControllerType
    <2>4. draft \in Shown
        BY <2>3, DocumentType DEF Shown
    <2>5. \A e \in Edits : s.draft[e] > 0 => draft[e] > 0
        <3> SUFFICES ASSUME NEW e \in Edits, s.draft[e] > 0 PROVE draft[e] > 0
            OBVIOUS
        <3>1. Has(taken.ops, e)
            BY <1>2, <2>1 DEF Has
        <3>2. In(T, taken.history, taken.ops)
            BY <2>2 DEF ControllerIn
        <3> QED BY <2>3, <3>1, <3>2, HasShown
    <2> HIDE DEF draft
    <2>6. CASE s.queue # {}
        <3>1. p = Set(taken, m, FALSE)
            BY <1>2, <2>6 DEF AdoptAccepted, taken, draft
        <3>2. m \in SessionType(K, H, N) /\ SessionIn(m, T, F) /\ m.draft = draft
            BY <2>4, ModifyIs, ModifyIn
        <3> HIDE DEF m, p
        <3>3. SetWithin(taken, m, p, K, H, N, T, F)
            BY <2>1, <2>2, <3>1, <3>2, SetIn
        <3> QED BY <2>1, <2>5, <3>2, <3>3 DEF SetWithin, SameReplica, p, AdoptedIn
    <2>7. CASE s.queue = {}
        <3>1. p = Set(taken, a, TRUE)
            BY <1>2, <2>7 DEF AdoptAccepted, taken, draft
        <3>2. a \in SessionType(K, H, N)
            <4>1. Document(frontier.ops) \in Shown
                BY BoundedPart, DocumentType DEF Shown, FrontierType
            <4> QED BY <2>4, <4>1 DEF Adopt, Settled, SessionType, ModifiableStatuses
        <3>3. SessionIn(a, T, F) /\ a.draft = draft
            BY AdoptBaselineIn
        <3> HIDE DEF a, p
        <3>4. SetWithin(taken, a, p, K, H, N, T, F)
            BY <2>1, <2>2, <3>1, <3>2, <3>3, SetIn
        <3> QED BY <2>1, <2>5, <3>3, <3>4 DEF SetWithin, SameReplica, p, AdoptedIn
    <2> QED BY <2>6, <2>7
<1> QED BY <1>1, <1>2


(* A replica attached to a session takes what it has recorded, if it can,  *)
(* and leaves what its draft shows.                                        *)
EnsuredIn(s, p, T, F) ==
    /\ p.c # None /\ ControllerIn(p.c, T, F) /\ ~p.c.syncing
    /\ p.s \in SessionType(Known, Past, 1..saves) /\ SessionIn(p.s, T, F)
    /\ \A e \in Edits : s.draft[e] > 0 => p.s.draft[e] > 0

LEMMA EnsureIn ==
    ASSUME NoneApart, copies \in Shown, saves \in Nat, store \in FrontierType(Known, Past),
           NEW T, NEW F, F \subseteq T, One(T), In(F, store.history, store.ops),
           NEW s \in SessionType(Known, Past, 1..saves), SessionIn(s, T, F),
           s.recorded # None => Document(s.recorded.base \cup s.recorded.update) = s.draft
                                \/ ~AcceptsDraft(s),
           Durable(s) \/ s.draft = Document(store.ops)
    PROVE  EnsuredIn(s, EnsureController(s), T, F)
<1> DEFINE created == [history |-> store.history, ops |-> store.ops, base |-> store.ops,
                       untaken |-> FALSE, syncing |-> FALSE]
           c == Taken(s, created)
           blocked == Block(s, "recoveryRequired")
           held == IF c.untaken /\ AcceptsDraft(s) THEN Set(c, blocked, FALSE) ELSE [c |-> c, s |-> s]
           synced == Sync(held.c, held.s)
           p == EnsureController(s)
           matches == /\ s.recorded # None
                      /\ s.recorded.history = store.history /\ s.recorded.base \subseteq store.ops
<1>1. p = [c |-> synced.c, s |-> Record(synced.c, synced.s)]
    BY DEF EnsureController
<1>2. Known \subseteq AnyOperation /\ Past \subseteq Nat /\ Bounded(Known)
    BY BoundedKnown DEF Known, Past
<1>3. ASSUME NEW d \in ControllerType(Known, Past)
      PROVE  d # None /\ Document(d.ops) \in Shown /\ Bounded(d.ops)
    <2>1. ControllerType(Known, Past) \subseteq ControllerType(AnyOperation, Nat)
        BY <1>2, Wider
    <2>2. Bounded(d.ops)
        BY <1>2, BoundedPart DEF ControllerType
    <2> QED BY <2>1, <2>2, DocumentType DEF NoneApart, Shown
<1>4. s.takes = FALSE
    BY DEF SessionIn
<1>5. /\ c \in ControllerType(Known, Past) /\ ControllerIn(c, T, F) /\ c.syncing = FALSE
      /\ c.history = store.history
      /\ IF matches THEN c.untaken = FALSE /\ c.ops = store.ops \cup s.recorded.update
         ELSE c.untaken = Durable(s) /\ c.ops = store.ops
    <2>1. store.ops \subseteq Known /\ store.history \in Past
        BY DEF FrontierType
    <2>2. CASE matches
        <3>1. c = [history |-> store.history, ops |-> store.ops \cup s.recorded.update,
                   base |-> store.ops, untaken |-> FALSE, syncing |-> FALSE]
            BY <1>4, <2>2 DEF Taken
        <3>2. s.recorded.update \subseteq Known /\ In(T, store.history, s.recorded.update)
            BY <2>2 DEF SessionType, RecordedType, SessionIn, RecordedIn
        <3> HIDE DEF c
        <3>3. c \in ControllerType(Known, Past)
            BY <2>1, <3>1, <3>2 DEF ControllerType
        <3>4. ControllerIn(c, T, F)
            BY <3>1, <3>2 DEF ControllerIn, In
        <3> QED BY <2>2, <3>1, <3>3, <3>4
    <2>3. CASE ~matches
        <3>1. c = [history |-> store.history, ops |-> store.ops,
                   base |-> store.ops, untaken |-> Durable(s), syncing |-> FALSE]
            BY <1>4, <2>3 DEF Taken
        <3>2. Durable(s) \in BOOLEAN
            BY DEF Durable
        <3> HIDE DEF c
        <3>3. c \in ControllerType(Known, Past)
            BY <2>1, <3>1, <3>2 DEF ControllerType
        <3>4. ControllerIn(c, T, F)
            BY <3>1 DEF ControllerIn, In
        <3> QED BY <2>3, <3>1, <3>3, <3>4
    <2> QED BY <2>2, <2>3
<1>6. ASSUME AcceptsDraft(s), ~c.untaken, NEW e \in Edits, s.draft[e] > 0
      PROVE  Document(c.ops)[e] > 0
    <2>1. CASE matches
        <3>1. Document(s.recorded.base \cup s.recorded.update) = s.draft
            BY <1>6, <2>1
        <3>2. In(T, store.history, c.ops)
            BY <1>5 DEF ControllerIn
        <3>3. s.recorded.base \cup s.recorded.update \subseteq c.ops
            BY <1>5, <2>1
        <3> HIDE DEF c
        <3>4. In(T, store.history, s.recorded.base \cup s.recorded.update)
            BY <3>2, <3>3 DEF In
        <3>5. Bounded(c.ops) /\ Bounded(s.recorded.base \cup s.recorded.update)
            BY <1>3, <1>5, <3>3, BoundedPart
        <3>6. Has(s.recorded.base \cup s.recorded.update, e)
            BY <1>6, <3>1, <3>4, <3>5, HasShown
        <3>7. Has(c.ops, e)
            BY <3>3, <3>6 DEF Has
        <3> QED BY <3>2, <3>5, <3>7, HasShown
    <2>2. CASE ~matches
        <3>1. s.draft = Document(store.ops) /\ c.ops = store.ops
            BY <1>5, <1>6, <2>2
        <3> QED BY <1>6, <3>1
    <2> QED BY <2>1, <2>2
<1> HIDE DEF c, created
<1>7. /\ held.c \in ControllerType(Known, Past) /\ ControllerIn(held.c, T, F) /\ ~held.c.syncing
      /\ held.s \in SessionType(Known, Past, 1..saves) /\ SessionIn(held.s, T, F)
      /\ held.s.draft = s.draft
      /\ ~held.c.untaken /\ AcceptsDraft(held.s) =>
             \A e \in Edits : s.draft[e] > 0 => Document(held.c.ops)[e] > 0
    <2>1. CASE c.untaken /\ AcceptsDraft(s)
        <3>1. /\ blocked \in SessionType(Known, Past, 1..saves)
              /\ SessionIn(blocked, T, F) /\ blocked.draft = s.draft
              /\ blocked.status = "recoveryRequired"
            <4>1. "recoveryRequired" \in BlockedStatuses
                BY DEF BlockedStatuses
            <4> QED BY <4>1, BlockIn DEF Block, SessionType
        <3>2. Durable(blocked)
            BY <3>1 DEF Durable
        <3>3. held = Set(c, blocked, FALSE)
            BY <2>1
        <3> HIDE DEF held, blocked
        <3>4. SetWithin(c, blocked, held, Known, Past, 1..saves, T, F)
            BY <1>2, <1>5, <3>1, <3>3, SetIn
        <3>5. held.c.untaken
            BY <2>1, <3>2, <3>4 DEF SetWithin
        <3> QED BY <1>5, <3>1, <3>4, <3>5 DEF SetWithin, SameReplica
    <2>2. CASE ~(c.untaken /\ AcceptsDraft(s))
        <3>1. held = [c |-> c, s |-> s]
            BY <2>2
        <3> HIDE DEF held
        <3>2. held.c = c /\ held.s = s
            BY <3>1
        <3> QED BY <1>5, <1>6, <3>2
    <2> QED BY <2>1, <2>2
<1> HIDE DEF held
<1>8. SyncedIn(held.c, held.s, synced, Known, Past, 1..saves, T, F)
    BY <1>2, <1>3, <1>7, SyncIn
<1>9. /\ synced.c \in ControllerType(Known, Past) /\ ControllerIn(synced.c, T, F)
      /\ ~synced.c.syncing
      /\ synced.s \in SessionType(Known, Past, 1..saves) /\ SessionIn(synced.s, T, F)
      /\ synced.s.draft = IF held.c.untaken \/ ~AcceptsDraft(held.s) THEN held.s.draft
                          ELSE Document(held.c.ops)
    BY <1>7, <1>8 DEF SyncedIn, SameReplica
<1> HIDE DEF synced
<1>10. /\ SessionIn(p.s, T, F) /\ p.s.draft = synced.s.draft
      /\ p.s \in SessionType(Known, Past, 1..saves) /\ p.c = synced.c
    BY <1>1, <1>9, RecordIn
<1>11. \A e \in Edits : s.draft[e] > 0 => synced.s.draft[e] > 0
    BY <1>7, <1>9
<1> HIDE DEF p
<1> QED BY <1>3, <1>9, <1>10, <1>11 DEF EnsuredIn, p


LEMMA KnownCounted ==
    ASSUME IInv, IInv', Count(controller') \/ copies' = copies
    PROVE  Known \subseteq Known'
<1>1. copies \in Shown /\ copies' \in Shown
    BY DEF IInv, Typed
<1>2. CASE controller' # None /\ Count(controller')
    <2>1. controller'.ops \subseteq Known'
        BY <1>2 DEF IInv, Typed, ControllerType
    <2>2. Bounded(controller'.ops)
        <3>1. \A e \in Edits : copies'[e] \in Nat
            BY <1>1 DEF Shown
        <3>2. Bounded(Known')
            BY <3>1 DEF Bounded, Known
        <3> QED BY <2>1, <3>2, BoundedPart
    <2> QED BY <1>1, <1>2, <2>2, CountGrows
<1>3. CASE copies' = copies
    BY <1>3 DEF Known
<1>4. CASE controller' = None /\ Count(controller')
    <2>1. copies' = [e \in Edits |-> copies[e]]
        BY <1>4 DEF Count, Counted
    <2> QED BY <1>1, <1>3, <2>1 DEF Shown
<1> QED BY <1>2, <1>3, <1>4

(* What a draft that is edited shows is written in its replica.            *)
LEMMA DrawnIs ==
    ASSUME IInv, NEW T, NEW F, Placed(T, F), Drawn, Attached, AcceptsDraft(session)
    PROVE  \A e \in Edits : session.draft[e] > 0 => Has(controller.ops, e)
<1>1. Standing /\ controller.syncing \in BOOLEAN
    BY StandingIs DEF Standing, ControllerType
<1>2. In(T, controller.history, controller.ops) /\ One(T)
    BY DEF Placed, Within, ControllerIn, Attached
<1>3. CASE controller.syncing
    BY <1>3 DEF Drawn, Attached
<1>4. CASE ~controller.syncing
    <2>1. session.draft = Document(controller.ops)
        BY <1>1, <1>4 DEF Standing, Agree, Shows
    <2> QED BY <1>1, <1>2, <2>1, HasShown DEF Standing
<1> QED BY <1>1, <1>3, <1>4

(* A turn after which no text waits to be drawn.                           *)
LEMMA TurnIn ==
    ASSUME NEW T, NEW F, F \subseteq T, One(T), T \subseteq Past' \X Known',
           In(F, store'.history, store'.ops), Offered(F)', \A k \in calls' : EntryIn(k, T, F),
           session' # None, disk' = Persisted(session'), SessionIn(session', T, F),
           controller' # None => ControllerIn(controller', T, F) /\ ~controller'.syncing,
           owed' \subseteq Edits, \A e \in owed' \cap Others : Has(store'.ops, e),
           \A e \in owed' \cap Own : Has(store'.ops, e) \/ session'.draft[e] > 0
    PROVE  TextInv'
<1>1. disk' \in {session', None}
    BY DEF Persisted
<1>2. Placed(T, F)'
    BY <1>1 DEF Placed, Within
<1>3. Drawn' /\ Stored'
    BY DEF Drawn, Stored
<1>4. Persists'
    <2>1. CASE disk' = session'
        BY <2>1 DEF Persists
    <2>2. CASE disk' = None
        <3>1. ~Durable(session')
            BY <2>2 DEF Persisted
        <3>2. session'.draft = session'.baseline
            BY <3>1 DEF Durable, SessionIn, Quiet
        <3> QED BY <2>2, <3>2 DEF Persists
    <2> QED BY <1>1, <2>1, <2>2
<1> QED BY <1>2, <1>3, <1>4 DEF TextInv

(* Such a turn, which neither makes nor discards an edit, and leaves what  *)
(* the draft shows.                                                        *)
LEMMA QuietTurnIn ==
    ASSUME IInv, IInv', NEW T, NEW F, Placed(T, F), Stored, owed \subseteq Edits,
           store' = store, owed' = owed, Known \subseteq Known',
           \A k \in calls' : EntryIn(k, T, F),
           session' # None, disk' = Persisted(session'), SessionIn(session', T, F),
           controller' # None => ControllerIn(controller', T, F) /\ ~controller'.syncing,
           controller # None => ~controller.syncing,
           session # None => \A e \in Edits : session.draft[e] > 0 => session'.draft[e] > 0
    PROVE  TextInv'
<1>1. Past' = Past
    BY DEF Past
<1>2. /\ F \subseteq T /\ One(T) /\ T \subseteq Past' \X Known'
      /\ In(F, store'.history, store'.ops) /\ Offered(F)'
    BY <1>1 DEF Placed, Within, Offered
<1>3. \A e \in owed' \cap Own : Has(store'.ops, e) \/ session'.draft[e] > 0
    BY DEF Stored
<1>4. owed' \subseteq Edits /\ \A e \in owed' \cap Others : Has(store'.ops, e)
    BY DEF Stored
<1> QED BY <1>2, <1>3, <1>4, TurnIn


(* What is published of a session, whether a replica is attached or not.   *)
PublishedIn(s, p, T, F) ==
    /\ p.c # None => ControllerIn(p.c, T, F) /\ ~p.c.syncing
    /\ p.s # None /\ SessionIn(p.s, T, F) /\ p.s.draft = s.draft

LEMMA SetAnyIn ==
    ASSUME NoneApart, Usual, IInv, NEW T, NEW F, Placed(T, F), Turn,
           NEW N, N \subseteq Nat, NEW s \in SessionType(Known, Past, N), SessionIn(s, T, F),
           NEW aligns
    PROVE  PublishedIn(s, Set(controller, s, aligns), T, F)
<1> DEFINE p == Set(controller, s, aligns)
<1>1. Known \subseteq AnyOperation /\ Past \subseteq Nat /\ Typed
    BY DEF Known, Past, IInv
<1>2. \A t \in SessionType(Known, Past, N) : t # None
    <2>1. SessionType(Known, Past, N) \subseteq SessionType(AnyOperation, Nat, Nat)
        BY <1>1, Wider
    <2> QED BY <2>1 DEF NoneApart
<1>3. CASE controller # None
    <2>1. controller \in ControllerType(Known, Past) /\ ControllerIn(controller, T, F)
        BY <1>1, <1>3 DEF Typed, Placed, Within
    <2>2. controller.syncing = FALSE
        BY <1>1, <1>3, TurnIs
    <2> HIDE DEF p
    <2>3. SetWithin(controller, s, p, Known, Past, N, T, F)
        BY <1>1, <2>1, SetIn DEF p
    <2> QED BY <1>2, <2>2, <2>3 DEF SetWithin, SameReplica, PublishedIn, p
<1>4. CASE controller = None
    <2>1. p.c = None /\ p.s \in SessionType(Known, Past, N) /\ SessionIn(p.s, T, F) /\ p.s.draft = s.draft
        BY <1>4, UnattachedIn
    <2> HIDE DEF p
    <2> QED BY <1>2, <2>1 DEF PublishedIn, p
<1> QED BY <1>3, <1>4

LEMMA SetTurnIn ==
    ASSUME NoneApart, Usual, IInv, IInv', NEW T, NEW F, Placed(T, F), Stored, owed \subseteq Edits,
           Turn, session # None, NEW N, N \subseteq Nat, NEW s \in SessionType(Known, Past, N),
           SessionIn(s, T, F), s.draft = session.draft, Publish(Set(controller, s, TRUE)),
           store' = store, owed' = owed, \A k \in calls' : EntryIn(k, T, F)
    PROVE  TextInv'
<1> DEFINE p == Set(controller, s, TRUE)
<1>1. PublishedIn(s, p, T, F) /\ Publish(p)
    BY SetAnyIn
<1> HIDE DEF p
<1>2. controller' = p.c /\ session' = p.s /\ disk' = Persisted(session') /\ Count(controller')
    BY <1>1 DEF Publish
<1>3. Known \subseteq Known'
    BY <1>2, KnownCounted
<1>4. controller # None => controller.syncing = FALSE
    BY TurnIs DEF IInv
<1> QED BY <1>1, <1>2, <1>3, <1>4, QuietTurnIn DEF PublishedIn

(* The text of the two invariants before an action, and after it.          *)
Before(T, F) ==
    /\ NoneApart /\ Usual /\ IInv /\ IInv' /\ Placed(T, F)
    /\ Drawn /\ Persists /\ Stored /\ owed \subseteq Edits

LEMMA BeforeIs ==
    ASSUME NEW T, NEW F, Before(T, F), session # None
    PROVE  /\ session \in SessionType(Known, Past, 1..saves) /\ SessionIn(session, T, F)
           /\ saves \in Nat /\ 1..saves \subseteq Nat
           /\ \A k \in calls : EntryIn(k, T, F)
BY DEF Before, IInv, Typed, Placed, Within

LEMMA SupersedeText ==
    ASSUME NEW T, NEW F, Before(T, F), Supersede
    PROVE  TextInv'
<1> DEFINE s == SupersedeBlocked(session)
<1>1. /\ Turn /\ session # None /\ Publish(Set(controller, s, TRUE))
      /\ store' = store /\ calls' = calls /\ owed' = owed
    BY DEF Supersede
<1>2. SessionIn(s, T, F) /\ s.draft = session.draft
    BY <1>1, BeforeIs, SupersedeIn
<1>3. s \in SessionType(Known, Past, 1..saves)
    <2> DEFINE remaining == {q \in session.queue : q.state # "blocked"}
               status == IF remaining # {} THEN "commitPending"
                         ELSE Settled(session, session.baseline, session.draft)
    <2>1. s = session \/ s = [session EXCEPT !.status = status, !.queue = remaining]
        BY DEF SupersedeBlocked
    <2>2. status \in ModifiableStatuses /\ remaining \subseteq session.queue
        BY DEF Settled, ModifiableStatuses
    <2> HIDE DEF s, status, remaining
    <2> QED BY <1>1, <2>1, <2>2, BeforeIs DEF SessionType
<1> HIDE DEF s
<1> QED BY <1>1, <1>2, <1>3, BeforeIs, SetTurnIn DEF Before

LEMMA BlockSessionText ==
    ASSUME NEW T, NEW F, Before(T, F), NEW status \in Blocks, BlockSession(status)
    PROVE  TextInv'
<1> DEFINE s == Block(session, status)
<1>1. /\ Turn /\ session # None /\ Publish(Set(controller, s, TRUE))
      /\ store' = store /\ calls' = calls /\ owed' = owed
    BY DEF BlockSession
<1>2. status \in BlockedStatuses
    BY BlocksAssumption
<1>3. SessionIn(s, T, F) /\ s.draft = session.draft
    BY <1>1, <1>2, BeforeIs, BlockIn
<1>4. s \in SessionType(Known, Past, 1..saves)
    BY <1>1, <1>2, BeforeIs DEF SessionType, Block
<1> HIDE DEF s
<1> QED BY <1>1, <1>3, <1>4, BeforeIs, SetTurnIn DEF Before

LEMMA QueueSaveText ==
    ASSUME NEW T, NEW F, Before(T, F), QueueSave
    PROVE  TextInv'
<1> DEFINE q == [id |-> saves', base |-> session.revision, state |-> "queued",
                 update |-> controller.ops \ session.revision.ops]
           s == Queue(session, q)
<1>1. /\ Turn /\ Attached /\ session # None /\ Publish(Set(controller, s, TRUE))
      /\ saves' = saves + 1 /\ session.revision.history = controller.history
      /\ store' = store /\ calls' = calls /\ owed' = owed
    BY DEF QueueSave, Attached
<1>2. Standing /\ ControllerIn(controller, T, F)
    BY <1>1, StandingIs DEF Before, Placed, Within, Attached
<1>3. saves' \in Nat /\ 1..saves \subseteq 1..saves' /\ 1..saves' \subseteq Nat /\ saves' \in 1..saves'
    BY <1>1, <1>2 DEF Standing
<1>4. session \in SessionType(Known, Past, 1..saves')
    BY <1>2, <1>3, Wider DEF Standing
<1>5. /\ q \in EntryType(Known, Past, 1..saves') /\ q.base = session.revision
      /\ q.update = controller.ops \ session.revision.ops
    BY <1>2, <1>3, <1>4 DEF EntryType, SessionType, Standing
<1>6. EntryIn(q, T, F)
    <2> HIDE DEF q
    <2>1. In(F, session.revision.history, session.revision.ops)
        BY <1>1, BeforeIs DEF SessionIn
    <2> QED BY <1>1, <1>2, <1>5, <2>1 DEF EntryIn, ControllerIn, In
<1> HIDE DEF q
<1>7. SessionIn(s, T, F) /\ s.draft = session.draft
    BY <1>1, <1>4, <1>6, BeforeIs, QueueIn
<1>8. s \in SessionType(Known, Past, 1..saves')
    BY <1>4, <1>5 DEF Queue, SessionType, ModifiableStatuses
<1> HIDE DEF s
<1> QED BY <1>1, <1>3, <1>7, <1>8, BeforeIs, SetTurnIn DEF Before

LEMMA SendText ==
    ASSUME NEW T, NEW F, Before(T, F), session # None, NEW q \in session.queue, Send(q)
    PROVE  TextInv'
<1> DEFINE call == [id |-> q.id, stage |-> "request", base |-> q.base, update |-> q.update,
                    awaited |-> TRUE]
           sent == [q EXCEPT !.state = "sending"]
           s == BeginReplay(session, q)
<1>1. /\ Turn /\ Publish(Set(controller, s, TRUE))
      /\ store' = store /\ calls' = calls \cup {call} /\ owed' = owed
    BY DEF Send
<1>2. EntryIn(q, T, F) /\ q \in EntryType(Known, Past, 1..saves)
    BY BeforeIs DEF SessionIn, SessionType
<1>3. EntryIn(call, T, F)
    BY <1>2 DEF EntryIn
<1>4. SessionIn(s, T, F) /\ s.draft = session.draft
    BY BeforeIs, BeginReplayIn
<1>5. s \in SessionType(Known, Past, 1..saves)
    <2>1. sent \in EntryType(Known, Past, 1..saves)
        BY <1>2 DEF EntryType
    <2> HIDE DEF sent
    <2>2. s = [session EXCEPT !.status = "replaying", !.queue = (session.queue \ {q}) \cup {sent}]
        BY BeforeIs DEF BeginReplay, SessionType, sent
    <2> HIDE DEF s
    <2> QED BY <2>1, <2>2, BeforeIs DEF SessionType, ModifiableStatuses
<1> HIDE DEF s, call
<1>6. \A k \in calls' : EntryIn(k, T, F)
    BY <1>1, <1>3, BeforeIs
<1> QED BY <1>1, <1>4, <1>5, <1>6, BeforeIs, SetTurnIn DEF Before


LEMMA MappedText ==
    ASSUME NEW T, NEW F, Before(T, F), Turn, session # None, NEW s, s # None,
           SessionIn(s, T, F), s.draft = session.draft, Mapped(s)
    PROVE  TextInv'
<1>1. /\ session' = s /\ disk' = Persisted(session') /\ controller' = controller
      /\ store' = store /\ calls' = calls /\ owed' = owed /\ copies' = copies
    BY DEF Mapped
<1>2. controller # None => controller.syncing = FALSE /\ ControllerIn(controller, T, F)
    BY TurnIs DEF Before, IInv, Placed, Within
<1>3. Known \subseteq Known'
    BY <1>1, KnownCounted DEF Before
<1> QED BY <1>1, <1>2, <1>3, BeforeIs, QuietTurnIn DEF Before

LEMMA TypedThere ==
    ASSUME NoneApart, NEW N, N \subseteq Nat, NEW s \in SessionType(Known, Past, N)
    PROVE  s # None
<1>1. Known \subseteq AnyOperation /\ Past \subseteq Nat
    BY DEF Known, Past
<1>2. SessionType(Known, Past, N) \subseteq SessionType(AnyOperation, Nat, Nat)
    BY <1>1, Wider
<1> QED BY <1>2 DEF NoneApart

LEMMA DisconnectText ==
    ASSUME NEW T, NEW F, Before(T, F), "disconnect" \notin Liberties, Disconnect
    PROVE  TextInv'
<1> DEFINE s == Disconnected(session)
<1>1. Turn /\ session # None /\ session.status # "offlineModified" /\ Mapped(s)
    BY DEF Disconnect
<1>2. SessionIn(s, T, F) /\ s.draft = session.draft
    BY <1>1, BeforeIs, DisconnectedIn
<1>3. session' = s /\ controller' = controller
    BY <1>1 DEF Mapped
<1>4. s # None
    <2> DEFINE status == IF session.status \in {"modified", "commitPending", "commitRejected", "replaying"}
                         THEN "offlineModified" ELSE "disconnectedReadable"
    <2>1. s = session \/ s = [session EXCEPT !.status = status]
        BY DEF Disconnected
    <2>2. status \in ModifiableStatuses
        BY DEF ModifiableStatuses
    <2> HIDE DEF s, status
    <2>3. s \in SessionType(Known, Past, 1..saves)
        BY <1>1, <2>1, <2>2, BeforeIs DEF SessionType
    <2> QED BY <1>1, <2>3, BeforeIs, TypedThere DEF Before
<1> HIDE DEF s
<1> QED BY <1>1, <1>2, <1>4, MappedText

LEMMA ReconnectText ==
    ASSUME NEW T, NEW F, Before(T, F), Reconnect
    PROVE  TextInv'
<1> DEFINE s == Reconnected(session)
<1>1. Turn /\ session # None /\ Mapped(s)
    BY DEF Reconnect
<1>2. SessionIn(s, T, F) /\ s.draft = session.draft
    BY <1>1, BeforeIs, ReconnectedIn
<1>3. s # None
    <2> DEFINE status == IF \E q \in session.queue : q.state = "queued" THEN "replaying"
                         ELSE IF \E q \in session.queue : q.state = "blocked" THEN "commitRejected"
                         ELSE Settled(session, session.baseline, session.draft)
    <2>1. s = [session EXCEPT !.status = status] /\ status \in ModifiableStatuses
        BY DEF Reconnected, Settled, ModifiableStatuses
    <2> HIDE DEF s, status
    <2>2. s \in SessionType(Known, Past, 1..saves)
        BY <1>1, <2>1, BeforeIs DEF SessionType
    <2> QED BY <1>1, <2>2, BeforeIs, TypedThere DEF Before
<1> HIDE DEF s
<1> QED BY <1>1, <1>2, <1>3, MappedText

(* The session, its replica and what is persisted stand as they are.       *)
LEMMA StandsIn ==
    ASSUME NEW T, NEW F, Before(T, F), NEW U, NEW G, G \subseteq U, F \subseteq G, T \subseteq U,
           One(U), U \subseteq Past' \X Known', In(G, store'.history, store'.ops), Offered(G)',
           \A k \in calls' : EntryIn(k, U, G), UNCHANGED <<session, controller, disk>>,
           owed' \subseteq Edits, \A e \in owed' \cap Others : Has(store'.ops, e),
           \A e \in owed' \cap Own : e \in owed /\ (Has(store.ops, e) => Has(store'.ops, e))
    PROVE  TextInv'
<1>1. \A s \in {session', disk'} \ {None} : SessionIn(s, U, G)
    BY InGrows DEF Before, Placed, Within
<1>2. controller' # None => ControllerIn(controller', U, G)
    BY InGrows DEF Before, Placed, Within
<1>3. Placed(U, G)'
    BY <1>1, <1>2 DEF Placed, Within
<1>4. Drawn' /\ Persists'
    BY DEF Before, Drawn, Persists
<1>5. Stored'
    BY DEF Before, Stored
<1> QED BY <1>3, <1>4, <1>5 DEF TextInv

(* Only the calls change.                                                  *)
LEMMA CallsText ==
    ASSUME NEW T, NEW F, Before(T, F), \A k \in calls' : EntryIn(k, T, F),
           UNCHANGED <<session, controller, disk, copies, store, owed>>
    PROVE  TextInv'
<1>1. Past' = Past /\ Known' = Known
    BY DEF Past, Known
<1>2. /\ F \subseteq T /\ One(T) /\ T \subseteq Past' \X Known'
      /\ In(F, store'.history, store'.ops) /\ Offered(F)'
    BY <1>1 DEF Before, Placed, Within, Offered
<1>3. owed' \subseteq Edits /\ \A e \in owed' \cap Others : Has(store'.ops, e)
    BY DEF Before, Stored
<1> QED BY <1>2, <1>3, StandsIn

LEMMA RejectText ==
    ASSUME NEW T, NEW F, Before(T, F), Turn, session # None, NEW k, NEW resyncs, NEW retryable,
           RejectIfQueued(k, resyncs, retryable), store' = store, owed' = owed,
           \A l \in calls' : EntryIn(l, T, F)
    PROVE  TextInv'
<1> DEFINE s == Reject(session, k.id, resyncs, retryable)
<1>1. CASE ~Queued(session, k.id)
    BY <1>1, CallsText DEF RejectIfQueued
<1>2. CASE Queued(session, k.id)
    <2>1. Publish(Set(controller, s, TRUE))
        BY <1>2 DEF RejectIfQueued
    <2>2. SessionIn(s, T, F) /\ s.draft = session.draft
        BY BeforeIs, RejectIn
    <2>3. s \in SessionType(Known, Past, 1..saves)
        BY BeforeIs, RejectIs DEF RejectedTo
    <2> HIDE DEF s
    <2> QED BY <2>1, <2>2, <2>3, BeforeIs, SetTurnIn DEF Before
<1> QED BY <1>1, <1>2

LEMMA RejectedText ==
    ASSUME NEW T, NEW F, Before(T, F), NEW k \in calls, Rejected(k)
    PROVE  TextInv'
<1>1. /\ Turn /\ session # None /\ calls' = calls \ {k} /\ store' = store /\ owed' = owed
      /\ RejectIfQueued(k, k.stage = "resync", k.stage = "contended")
    BY DEF Rejected
<1>2. \A l \in calls' : EntryIn(l, T, F)
    BY <1>1, BeforeIs
<1> QED BY <1>1, <1>2, RejectText

LEMMA CallFailsText ==
    ASSUME NEW T, NEW F, Before(T, F), NEW k \in calls, CallFails(k)
    PROVE  TextInv'
<1> DEFINE dropped == [k EXCEPT !.awaited = FALSE]
<1>1. /\ Turn /\ session # None /\ RejectIfQueued(k, FALSE, TRUE)
      /\ calls' = (calls \ {k}) \cup {r \in {dropped} : r.stage = "request"}
      /\ store' = store /\ owed' = owed
    BY DEF CallFails
<1>2. EntryIn(dropped, T, F)
    <2>1. k \in CallType(Known, Past, 1..saves) /\ EntryIn(k, T, F)
        BY <1>1, BeforeIs DEF Before, IInv, Typed
    <2> QED BY <2>1 DEF CallType, EntryIn
<1> HIDE DEF dropped
<1>3. \A l \in calls' : EntryIn(l, T, F)
    BY <1>1, <1>2, BeforeIs
<1> QED BY <1>1, <1>3, RejectText


LEMMA AdoptText ==
    ASSUME NEW T, NEW F, Before(T, F), Attached, NEW frontier \in FrontierType(Known, Past),
           In(F, frontier.history, frontier.ops), frontier.history = controller.history
    PROVE  AdoptedIn(controller, session, AdoptAccepted(controller, session, frontier),
                     Known, Past, 1..saves, T, F)
<1>1. Known \subseteq AnyOperation /\ Past \subseteq Nat /\ Bounded(Known)
    BY BoundedKnown DEF Known, Past, Before, IInv, Typed
<1>2. Standing /\ ControllerIn(controller, T, F) /\ F \subseteq T /\ One(T)
    BY StandingIs DEF Before, Placed, Within, Attached
<1>3. AcceptsDraft(session) =>
          \A e \in Edits : session.draft[e] > 0 => Has(controller.ops, e)
    BY DrawnIs DEF Before
<1>4. SessionIn(session, T, F)
    BY <1>2, BeforeIs DEF Standing
<1> QED BY <1>1, <1>2, <1>3, <1>4, AdoptIn DEF Before, Standing

LEMMA ArrivesText ==
    ASSUME NEW T, NEW F, Before(T, F), Arrives
    PROVE  TextInv'
<1> DEFINE p == AdoptAccepted(controller, session, store)
<1>1. /\ Turn /\ Attached /\ Publish(p) /\ controller.history = store.history
      /\ store' = store /\ calls' = calls /\ owed' = owed
    BY DEF Arrives
<1>2. store \in FrontierType(Known, Past) /\ In(F, store.history, store.ops)
    BY DEF Before, IInv, Typed, Placed, Within
<1>3. AdoptedIn(controller, session, p, Known, Past, 1..saves, T, F)
    BY <1>1, <1>2, AdoptText
<1> HIDE DEF p
<1>4. controller' = p.c /\ session' = p.s /\ disk' = Persisted(session') /\ Count(controller')
    BY <1>1 DEF Publish
<1>5. Known \subseteq Known'
    BY <1>4, KnownCounted DEF Before
<1>6. controller.syncing = FALSE /\ session # None
    BY <1>1, TurnIs DEF Before, IInv, Attached
<1>7. p.s # None
    BY <1>3, <1>6, BeforeIs, TypedThere DEF AdoptedIn, Before
<1> QED BY <1>1, <1>3, <1>4, <1>5, <1>6, <1>7, BeforeIs, QuietTurnIn DEF AdoptedIn, Before

LEMMA AcceptedText ==
    ASSUME NEW T, NEW F, Before(T, F), NEW k \in calls, Accepted(k)
    PROVE  TextInv'
<1>1. /\ Turn /\ session # None /\ calls' = calls \ {k} /\ store' = store /\ owed' = owed
      /\ k.stage = "accepted" /\ k.awaited
    BY DEF Accepted
<1>2. \A l \in calls' : EntryIn(l, T, F)
    BY <1>1, BeforeIs
<1>3. k.base \in FrontierType(Known, Past) /\ In(F, k.base.history, k.base.ops)
    BY <1>1, BeforeIs DEF Before, IInv, Typed, CallType, EntryIn
<1>4. CASE controller # None /\ controller.history # k.base.history
    BY <1>1, <1>2, <1>4, CallsText DEF Accepted
<1>5. CASE controller = None
    <2>1. ~Queued(session, k.id)
        BY <1>1, <1>5, QueuedIsSending DEF Attached, Before
    <2>2. Publish([c |-> None, s |-> session])
        BY <1>5, <2>1 DEF Accepted
    <2>3. controller' = None /\ session' = session /\ disk' = Persisted(session') /\ Count(controller')
        BY <2>2 DEF Publish
    <2>4. Known \subseteq Known'
        BY <2>3, KnownCounted DEF Before
    <2> QED BY <1>1, <1>2, <1>5, <2>3, <2>4, BeforeIs, QuietTurnIn DEF Before
<1>6. CASE controller # None /\ controller.history = k.base.history
    <2> DEFINE adopted == AdoptAccepted(controller, session, k.base)
               t == Acknowledge(adopted.s, k.id, k.base)
               set == Set(adopted.c, t, TRUE)
               p == IF Queued(adopted.s, k.id) THEN set ELSE adopted
    <2>1. Publish(p) /\ Attached
        BY <1>1, <1>6 DEF Accepted, Attached
    <2>2. AdoptedIn(controller, session, adopted, Known, Past, 1..saves, T, F)
        BY <1>3, <1>6, <2>1, AdoptText
    <2>3. controller.syncing = FALSE /\ 1..saves \subseteq Nat
        BY <1>1, <1>6, TurnIs, BeforeIs DEF Before, IInv
    <2> HIDE DEF adopted
    <2>4. /\ p.c # None /\ ControllerIn(p.c, T, F) /\ ~p.c.syncing
          /\ p.s # None /\ SessionIn(p.s, T, F) /\ p.s.draft = adopted.s.draft
        <3>1. CASE ~Queued(adopted.s, k.id)
            <4>1. p = adopted
                BY <3>1
            <4> HIDE DEF p
            <4>2. adopted.s # None
                BY <2>2, <2>3, TypedThere DEF AdoptedIn, Before
            <4> QED BY <2>2, <2>3, <4>1, <4>2 DEF AdoptedIn
        <3>2. CASE Queued(adopted.s, k.id)
            <4>1. SessionIn(t, T, F) /\ t.draft = adopted.s.draft
                BY <1>3, <2>2, AcknowledgeIn DEF AdoptedIn
            <4>2. Document(k.base.ops) \in Shown
                <5>1. k.base.ops \subseteq Known /\ copies \in Shown
                    BY <1>3 DEF FrontierType, Before, IInv, Typed
                <5> QED BY <5>1, BoundedKnown, BoundedPart, DocumentType DEF Shown
            <4>3. t \in SessionType(Known, Past, 1..saves)
                BY <1>3, <2>2, <4>2, AcknowledgeIs DEF AdoptedIn
            <4>4. Known \subseteq AnyOperation /\ Past \subseteq Nat
                BY DEF Known, Past
            <4>5. p = set
                BY <3>2
            <4> HIDE DEF t, p, set
            <4>6. SetWithin(adopted.c, t, set, Known, Past, 1..saves, T, F)
                BY <2>2, <4>1, <4>3, <4>4, SetIn DEF AdoptedIn, Before, set
            <4>7. set.s # None
                BY <2>3, <4>6, TypedThere DEF SetWithin, Before
            <4> QED BY <2>2, <2>3, <4>1, <4>5, <4>6, <4>7 DEF SetWithin, SameReplica, AdoptedIn
        <3> QED BY <3>1, <3>2
    <2> HIDE DEF p
    <2>5. controller' = p.c /\ session' = p.s /\ disk' = Persisted(session') /\ Count(controller')
        BY <2>1 DEF Publish
    <2>6. Known \subseteq Known'
        BY <2>5, KnownCounted DEF Before
    <2>7. \A e \in Edits : session.draft[e] > 0 => session'.draft[e] > 0
        BY <2>2, <2>4, <2>5 DEF AdoptedIn
    <2> QED BY <1>1, <1>2, <2>3, <2>4, <2>5, <2>6, <2>7, QuietTurnIn DEF Before
<1> QED BY <1>4, <1>5, <1>6


(* What the baseline of a session shows is in the store, if it is owed.    *)
LEMMA BaselineOffered ==
    ASSUME NEW T, NEW F, Before(T, F), NEW s \in SessionType(Known, Past, 1..saves),
           SessionIn(s, T, F), NEW e \in owed, s.baseline[e] > 0
    PROVE  Has(store.ops, e)
<1>1. e \in Edits /\ F \subseteq T /\ One(T) /\ Offered(F) /\ Bounded(Known)
    BY BoundedKnown DEF Before, Placed, Within, IInv, Typed
<1>2. s.revision.ops \subseteq Known
    BY DEF SessionType, FrontierType
<1>3. Bounded(s.revision.ops)
    BY <1>1, <1>2, BoundedPart
<1>4. In(F, s.revision.history, s.revision.ops) /\ s.baseline = Document(s.revision.ops)
    BY DEF SessionIn
<1>5. In(T, s.revision.history, s.revision.ops)
    BY <1>1, <1>4 DEF In
<1>6. Has(s.revision.ops, e)
    BY <1>1, <1>3, <1>4, <1>5, HasShown
<1>7. PICK x \in s.revision.ops : x.edit = e
    BY <1>6 DEF Has
<1>8. <<s.revision.history, x>> \in F
    BY <1>4 DEF In
<1> QED BY <1>1, <1>7, <1>8 DEF Offered

(* Synchronised, the draft shows all that is written.                      *)
LEMMA SyncText ==
    ASSUME NEW T, NEW F, Before(T, F), Attached, NEW c \in ControllerType(Known, Past),
           c.ops = controller.ops, c.untaken = controller.untaken, ControllerIn(c, T, F)
    PROVE  /\ SyncedIn(c, session, Sync(c, session), Known, Past, 1..saves, T, F)
           /\ \A e \in Edits :
                  session.draft[e] > 0 \/ (controller.syncing /\ Has(controller.ops, e)) =>
                      Sync(c, session).s.draft[e] > 0
<1> DEFINE p == Sync(c, session)
<1>1. Known \subseteq AnyOperation /\ Past \subseteq Nat /\ Standing
    BY StandingIs DEF Known, Past, Before
<1>2. SessionIn(session, T, F) /\ One(T)
    BY BeforeIs DEF Before, Attached, Placed, Within
<1>3. Bounded(c.ops) /\ Document(c.ops) \in Shown
    BY <1>1, DocumentType DEF Standing, Shown
<1> HIDE DEF p
<1>4. SyncedIn(c, session, p, Known, Past, 1..saves, T, F)
    BY <1>1, <1>2, <1>3, SyncIn DEF Before, Standing, p
<1>5. CASE c.untaken \/ ~AcceptsDraft(session)
    <2>1. ~controller.syncing /\ p.s.draft = session.draft
        BY <1>1, <1>4, <1>5 DEF Standing, Agree, Untaken, SyncedIn
    <2> QED BY <1>4, <2>1 DEF p
<1>6. CASE ~(c.untaken \/ ~AcceptsDraft(session))
    <2>1. p.s.draft = Document(c.ops)
        BY <1>4, <1>6 DEF SyncedIn
    <2>2. \A e \in Edits : session.draft[e] > 0 => Has(controller.ops, e)
        BY <1>6, DrawnIs DEF Before
    <2>3. In(T, c.history, c.ops)
        BY DEF ControllerIn
    <2>4. \A e \in Edits : Has(c.ops, e) => Document(c.ops)[e] > 0
        BY <1>2, <1>3, <2>3, HasShown
    <2> QED BY <1>4, <2>1, <2>2, <2>4 DEF p
<1> QED BY <1>5, <1>6

LEMMA OpenText ==
    ASSUME NEW T, NEW F, Before(T, F), NEW takes \in Takes, takes = FALSE, Open(takes)
    PROVE  TextInv'
<1> DEFINE s == Start(store, takes)
           p == EnsureController(s)
<1>1. /\ session = None /\ controller = None /\ Publish(p)
      /\ store' = store /\ calls' = calls /\ owed' = owed
    BY DEF Open, Before, IInv, Paired
<1>2. /\ copies \in Shown /\ saves \in Nat /\ store \in FrontierType(Known, Past)
      /\ F \subseteq T /\ One(T) /\ In(F, store.history, store.ops)
      /\ \A k \in calls : EntryIn(k, T, F)
    BY DEF Before, IInv, Typed, Placed, Within
<1>3. Document(store.ops) \in Shown
    BY <1>2, BoundedKnown, BoundedPart, DocumentType DEF Shown, FrontierType
<1>4. /\ s \in SessionType(Known, Past, 1..saves) /\ s.takes = FALSE /\ s.revision = store
      /\ s.baseline = Document(store.ops) /\ s.draft = Document(store.ops) /\ s.queue = {}
      /\ s.recorded = None
    BY <1>2, <1>3 DEF Start, SessionType, ModifiableStatuses
<1> HIDE DEF s
<1>5. SessionIn(s, T, F)
    BY <1>2, <1>4 DEF SessionIn, Quiet
<1>6. EnsuredIn(s, p, T, F)
    BY <1>2, <1>4, <1>5, EnsureIn DEF Before
<1> HIDE DEF p
<1>7. p.s # None
    <2>1. 1..saves \subseteq Nat
        BY <1>2
    <2> QED BY <1>6, <2>1, TypedThere DEF EnsuredIn, Before
<1>8. controller' = p.c /\ session' = p.s /\ disk' = Persisted(session') /\ Count(controller')
    BY <1>1 DEF Publish
<1>9. Known \subseteq Known'
    BY <1>8, KnownCounted DEF Before
<1> QED BY <1>1, <1>2, <1>6, <1>7, <1>8, <1>9, QuietTurnIn DEF EnsuredIn, Before

LEMMA AttachText ==
    ASSUME NEW T, NEW F, Before(T, F), Attach
    PROVE  TextInv'
<1> DEFINE p == EnsureController(session)
<1>1. /\ session # None /\ controller = None /\ Publish(p) /\ Durable(session)
      /\ store' = store /\ calls' = calls /\ owed' = owed
    BY DEF Attach
<1>2. /\ copies \in Shown /\ saves \in Nat /\ store \in FrontierType(Known, Past)
      /\ F \subseteq T /\ One(T) /\ In(F, store.history, store.ops) /\ Whole(session)
    BY <1>1 DEF Before, IInv, Typed, Placed, Within, Paired
<1>3. EnsuredIn(session, p, T, F)
    BY <1>1, <1>2, BeforeIs, EnsureIn DEF Before, Whole
<1> HIDE DEF p
<1>4. p.s # None
    BY <1>1, <1>3, BeforeIs, TypedThere DEF EnsuredIn, Before
<1>5. controller' = p.c /\ session' = p.s /\ disk' = Persisted(session') /\ Count(controller')
    BY <1>1 DEF Publish
<1>6. Known \subseteq Known'
    BY <1>5, KnownCounted DEF Before
<1> QED BY <1>1, <1>3, <1>4, <1>5, <1>6, BeforeIs, QuietTurnIn DEF EnsuredIn, Before

LEMMA ReplaceControllerText ==
    ASSUME NEW T, NEW F, Before(T, F), ReplaceController
    PROVE  TextInv'
<1> DEFINE live == IF controller = None THEN session ELSE Sync(controller, session).s
           s == ReplaceHistory(live, store)
           p == EnsureController(s)
<1>1. /\ session # None /\ Publish(p) /\ store' = store /\ calls' = calls /\ owed' = owed
    BY DEF ReplaceController
<1>2. /\ copies \in Shown /\ saves \in Nat /\ store \in FrontierType(Known, Past)
      /\ F \subseteq T /\ One(T) /\ In(F, store.history, store.ops) /\ Offered(F)
      /\ T \subseteq Past \X Known
    BY DEF Before, IInv, Typed, Placed, Within
<1>3. /\ live \in SessionType(Known, Past, 1..saves) /\ SessionIn(live, T, F)
      /\ \A e \in Edits :
             \/ session.draft[e] > 0
             \/ controller # None /\ controller.syncing /\ Has(controller.ops, e)
             => live.draft[e] > 0
    <2>1. CASE controller = None
        BY <1>1, <2>1, BeforeIs
    <2>2. CASE controller # None
        <3> DEFINE q == Sync(controller, session)
        <3>1. controller \in ControllerType(Known, Past) /\ ControllerIn(controller, T, F) /\ Attached
            BY <1>1, <2>2 DEF Before, IInv, Typed, Placed, Within, Attached
        <3>2. /\ SyncedIn(controller, session, q, Known, Past, 1..saves, T, F)
              /\ \A e \in Edits :
                     session.draft[e] > 0 \/ (controller.syncing /\ Has(controller.ops, e)) =>
                         q.s.draft[e] > 0
            BY <3>1, SyncText
        <3>3. live = q.s
            BY <2>2
        <3> HIDE DEF live, q
        <3> QED BY <3>2, <3>3 DEF SyncedIn
    <2> QED BY <2>1, <2>2
<1> HIDE DEF live
<1>4. Document(store.ops) \in Shown
    BY <1>2, BoundedKnown, BoundedPart, DocumentType DEF Shown, FrontierType
<1>5. s \in SessionType(Known, Past, 1..saves) /\ s.recorded = None
    BY <1>2, <1>3, <1>4, ReplaceHistoryIs
<1>6. ReplacedIn(live, s, store, T, F)
    BY <1>2, <1>3, ReplaceHistoryIn
<1> HIDE DEF s
<1>7. EnsuredIn(s, p, T, F)
    BY <1>2, <1>5, <1>6, EnsureIn DEF Before, ReplacedIn
<1> HIDE DEF p
<1>8. \A e \in owed \cap Own : Has(store.ops, e) \/ p.s.draft[e] > 0
    <2> SUFFICES ASSUME NEW e \in owed \cap Own, ~Has(store.ops, e) PROVE p.s.draft[e] > 0
        OBVIOUS
    <2>1. live.draft[e] > 0 /\ e \in Edits
        BY <1>3 DEF Before, Stored
    <2>2. CASE Durable(live)
        BY <1>6, <1>7, <2>1, <2>2 DEF ReplacedIn, EnsuredIn
    <2>3. CASE ~Durable(live)
        <3>1. live.draft = live.baseline
            BY <1>3, <2>3 DEF Durable, SessionIn, Quiet
        <3> QED BY <1>3, <2>1, <3>1, BaselineOffered
    <2> QED BY <2>2, <2>3
<1>9. p.s # None
    BY <1>1, <1>7, BeforeIs, TypedThere DEF EnsuredIn, Before
<1>10. controller' = p.c /\ session' = p.s /\ disk' = Persisted(session') /\ Count(controller')
    BY <1>1 DEF Publish
<1>11. Known \subseteq Known' /\ Past' = Past
    BY <1>1, <1>10, KnownCounted DEF Before, Past
<1>12. Offered(F)' /\ T \subseteq Past' \X Known'
    BY <1>1, <1>2, <1>11 DEF Offered
<1> QED BY <1>1, <1>2, <1>7, <1>8, <1>9, <1>10, <1>12, BeforeIs, TurnIn DEF EnsuredIn, Before, Stored


LEMMA SyncDraftText ==
    ASSUME NEW T, NEW F, Before(T, F), SyncDraft
    PROVE  TextInv'
<1> DEFINE c == [controller EXCEPT !.syncing = FALSE]
           p == Sync(c, session)
<1>1. /\ Attached /\ session # None /\ controller.syncing /\ Publish(p)
      /\ store' = store /\ calls' = calls /\ owed' = owed
    BY DEF SyncDraft, Attached
<1>2. /\ F \subseteq T /\ One(T) /\ In(F, store.history, store.ops) /\ Offered(F)
      /\ T \subseteq Past \X Known /\ ControllerIn(controller, T, F)
      /\ controller \in ControllerType(Known, Past)
    BY <1>1 DEF Before, IInv, Typed, Placed, Within, Attached
<1>3. /\ c \in ControllerType(Known, Past) /\ c.ops = controller.ops /\ c.base = controller.base
      /\ c.history = controller.history /\ c.untaken = controller.untaken /\ c.syncing = FALSE
    BY <1>2 DEF ControllerType
<1> HIDE DEF c
<1>4. ControllerIn(c, T, F)
    BY <1>2, <1>3 DEF ControllerIn
<1>5. /\ SyncedIn(c, session, p, Known, Past, 1..saves, T, F)
      /\ \A e \in Edits :
             session.draft[e] > 0 \/ (controller.syncing /\ Has(controller.ops, e)) =>
                 p.s.draft[e] > 0
    BY <1>1, <1>3, <1>4, SyncText
<1> HIDE DEF p
<1>6. \A e \in owed \cap Own : Has(store.ops, e) \/ p.s.draft[e] > 0
    BY <1>5 DEF Before, Stored
<1>7. p.s # None
    BY <1>1, <1>5, BeforeIs, TypedThere DEF SyncedIn, Before
<1>8. controller' = p.c /\ session' = p.s /\ disk' = Persisted(session') /\ Count(controller')
    BY <1>1 DEF Publish
<1>9. Known \subseteq Known' /\ Past' = Past
    BY <1>1, <1>8, KnownCounted DEF Before, Past
<1>10. Offered(F)' /\ T \subseteq Past' \X Known'
    BY <1>1, <1>2, <1>9 DEF Offered
<1>11. ControllerIn(controller', T, F) /\ ~controller'.syncing /\ SessionIn(session', T, F)
    BY <1>3, <1>5, <1>8 DEF SyncedIn, SameReplica
<1> QED BY <1>1, <1>2, <1>6, <1>7, <1>8, <1>10, <1>11, BeforeIs, TurnIn DEF Before, Stored

LEMMA DetachText ==
    ASSUME NEW T, NEW F, Before(T, F), Detach
    PROVE  TextInv'
<1>1. /\ Turn /\ Attached /\ controller' = None
      /\ UNCHANGED <<store, calls, session, disk, copies, owed>>
    BY DEF Detach
<1>2. controller.syncing = FALSE
    BY <1>1, TurnIs DEF Before, IInv, Attached
<1>3. Past' = Past /\ Known' = Known
    BY <1>1 DEF Past, Known
<1>4. Placed(T, F)'
    BY <1>1, <1>3 DEF Before, Placed, Within, Offered
<1>5. Drawn' /\ Persists' /\ Stored'
    BY <1>1, <1>2 DEF Before, Drawn, Persists, Stored
<1> QED BY <1>1, <1>4, <1>5 DEF TextInv, Before

LEMMA RemoveText ==
    ASSUME NEW T, NEW F, Before(T, F), Remove
    PROVE  TextInv'
<1>1. /\ Turn /\ session # None /\ ~Durable(session)
      /\ session' = None /\ controller' = None /\ disk' = None
      /\ UNCHANGED <<store, calls, copies, owed>>
    BY DEF Remove
<1>2. controller # None => controller.syncing = FALSE
    BY <1>1, TurnIs DEF Before, IInv
<1>3. Past' = Past /\ Known' = Known
    BY <1>1 DEF Past, Known
<1>4. Placed(T, F)'
    BY <1>1, <1>3 DEF Before, Placed, Within, Offered
<1>5. session.draft = session.baseline
    BY <1>1, BeforeIs DEF Durable, SessionIn, Quiet
<1>6. \A e \in owed \cap Own : Has(store.ops, e)
    <2>1. \A e \in owed \cap Own : Has(store.ops, e) \/ session.draft[e] > 0
        BY <1>2 DEF Before, Stored
    <2> QED BY <1>1, <1>5, <2>1, BeforeIs, BaselineOffered
<1>7. Drawn' /\ Persists' /\ Stored'
    BY <1>1, <1>6 DEF Before, Drawn, Persists, Stored
<1> QED BY <1>1, <1>4, <1>7 DEF TextInv, Before

LEMMA DiscardText ==
    ASSUME NEW T, NEW F, Before(T, F), DiscardChanges
    PROVE  TextInv'
<1> DEFINE s == Discard(session)
           p == Set(controller, s, TRUE)
<1>1. /\ Turn /\ session # None /\ Publish(p) /\ store' = store /\ calls' = calls
      /\ owed' = owed \ {e \in Own : session.baseline[e] = 0}
    BY DEF DiscardChanges, Attached
<1>2. SessionIn(s, T, F) /\ s.draft = session.baseline
    BY <1>1, BeforeIs, DiscardIn
<1>3. s \in SessionType(Known, Past, 1..saves)
    BY <1>1, BeforeIs DEF Discard, SessionType, ModifiableStatuses
<1> HIDE DEF s
<1>4. PublishedIn(s, p, T, F)
    BY <1>1, <1>2, <1>3, BeforeIs, SetAnyIn DEF Before
<1> HIDE DEF p
<1>5. controller' = p.c /\ session' = p.s /\ disk' = Persisted(session') /\ Count(controller')
    BY <1>1 DEF Publish
<1>6. \A e \in owed' \cap Own : Has(store.ops, e)
    <2> SUFFICES ASSUME NEW e \in owed' \cap Own PROVE Has(store.ops, e)
        OBVIOUS
    <2>1. e \in owed /\ session.baseline[e] # 0 /\ e \in Edits
        BY <1>1 DEF Before
    <2>2. session.baseline[e] \in Nat
        BY <1>1, <2>1, BeforeIs DEF SessionType, Shown
    <2> QED BY <1>1, <2>1, <2>2, BeforeIs, BaselineOffered
<1>7. /\ F \subseteq T /\ One(T) /\ In(F, store.history, store.ops) /\ Offered(F)
      /\ T \subseteq Past \X Known /\ owed \subseteq Edits /\ owed' \subseteq owed
      /\ \A e \in owed \cap Others : Has(store.ops, e)
    BY <1>1 DEF Before, Placed, Within, Stored
<1>8. Known \subseteq Known' /\ Past' = Past
    BY <1>1, <1>5, KnownCounted DEF Before, Past
<1>9. Offered(F)' /\ T \subseteq Past' \X Known'
    BY <1>1, <1>7, <1>8 DEF Offered
<1> QED BY <1>1, <1>4, <1>5, <1>6, <1>7, <1>9, BeforeIs, TurnIn DEF PublishedIn

LEMMA RestartText ==
    ASSUME NEW T, NEW F, Before(T, F), Restart
    PROVE  TextInv'
<1> DEFINE forgotten(k) == [k EXCEPT !.awaited = FALSE]
<1>1. /\ session # None /\ controller' = None
      /\ session' = IF disk = None THEN None ELSE Recovered(disk)
      /\ calls' = {forgotten(k) : k \in {r \in calls : r.stage = "request"}}
      /\ owed' = {e \in owed : controller # None /\ controller.syncing => session.draft[e] > 0}
      /\ UNCHANGED <<store, disk, copies>>
    BY DEF Restart
<1>2. /\ disk # None => disk \in SessionType(Known, Past, 1..saves) /\ SessionIn(disk, T, F)
      /\ calls \subseteq CallType(Known, Past, 1..saves) /\ owed' \subseteq owed /\ owed \subseteq Edits
    BY <1>1 DEF Before, IInv, Typed, Placed, Within
<1>3. \A k \in calls' : EntryIn(k, T, F)
    <2>1. \A k \in calls : k \in CallType(Known, Past, 1..saves) /\ EntryIn(k, T, F)
        BY <1>1, <1>2, BeforeIs
    <2>2. \A k \in calls : EntryIn(forgotten(k), T, F)
        BY <2>1 DEF CallType, EntryIn
    <2> HIDE DEF forgotten
    <2> QED BY <1>1, <2>2
<1>4. disk # None => SessionIn(Recovered(disk), T, F) /\ Recovered(disk).draft = disk.draft
    BY <1>2, RecoveredIn
<1>5. Past' = Past /\ Known' = Known
    BY <1>1 DEF Past, Known
<1> HIDE DEF forgotten
<1>6. Placed(T, F)'
    <2>1. \A s \in {session', disk'} \ {None} : SessionIn(s, T, F)
        BY <1>1, <1>2, <1>4
    <2>2. Within(T, F)'
        BY <1>1, <1>3, <2>1 DEF Before, Placed, Within
    <2>3. Offered(F)'
        BY <1>1, <1>2 DEF Before, Placed, Offered
    <2> QED BY <1>5, <2>2, <2>3 DEF Before, Placed
<1>7. Drawn' /\ Persists'
    <2>1. disk # None => Recovered(disk) # None
        <3>1. disk # None => Recovered(disk) \in SessionType(Known, Past, 1..saves)
            BY <1>2, RecoveredIs DEF Before, IInv, Paired
        <3> QED BY <1>1, <3>1, BeforeIs, TypedThere DEF Before
    <2> QED BY <1>1, <1>4, <2>1 DEF Drawn, Persists
<1>8. Stored'
    <2>1. ASSUME NEW e \in owed' \cap Own, ~Has(store.ops, e) PROVE session' # None /\ session'.draft[e] > 0
        <3>1. session.draft[e] > 0
            BY <1>1, <1>2, <2>1 DEF Before, Stored
        <3>2. CASE disk = None
            <4>1. session.baseline[e] > 0
                BY <1>1, <3>1, <3>2 DEF Before, Persists
            <4> QED BY <1>1, <1>2, <2>1, <4>1, BeforeIs, BaselineOffered
        <3>3. CASE disk # None
            <4>1. session' # None
                <5>1. Recovered(disk) \in SessionType(Known, Past, 1..saves)
                    BY <1>2, <3>3, RecoveredIs DEF Before, IInv, Paired
                <5> QED BY <1>1, <3>3, <5>1, BeforeIs, TypedThere DEF Before
            <4> QED BY <1>1, <1>4, <3>1, <3>3, <4>1 DEF Before, Persists
        <3> QED BY <3>2, <3>3
    <2> QED BY <1>1, <1>2, <2>1 DEF Before, Stored
<1> QED BY <1>2, <1>6, <1>7, <1>8 DEF TextInv


(* A fresh edit is one no operation there is has written.                  *)
LEMMA FreshIn ==
    ASSUME NEW T, NEW F, Before(T, F), NEW e \in Edits, Fresh(e), NEW h
    PROVE  /\ \A p \in T : p[2].edit # e
           /\ One(T \cup {<<h, Write(e)>>}) /\ Write(e).edit = e
<1>1. /\ T \subseteq Past \X Known /\ copies \in Shown /\ One(T)
      /\ copies[e] = 0
    BY DEF Before, Placed, Within, IInv, Typed, Fresh
<1>2. \A x \in Known : x.edit # e
    <2> SUFFICES ASSUME NEW x \in Known, x.edit = e PROVE FALSE
        OBVIOUS
    <2>1. x.copy \in Nat \ {0} /\ x.copy <= copies[x.edit]
        BY DEF Known, AnyOperation
    <2> QED BY <1>1, <2>1
<1>3. \A p \in T : p[2].edit # e
    BY <1>1, <1>2
<1>4. Write(e).edit = e /\ Write(e).removes = FALSE
    BY DEF Write
<1>5. One(T \cup {<<h, Write(e)>>})
    <2> DEFINE w == <<h, Write(e)>>
    <2>1. w[2].edit = e /\ w[2].removes = FALSE
        BY <1>4
    <2> HIDE DEF w
    <2> QED BY <1>1, <1>3, <2>1 DEF One, w
<1> QED BY <1>3, <1>4, <1>5

(* The operations there are with one more.                                 *)
Wrote(e) == Known \cup {Write(e)}

LEMMA WroteIs ==
    ASSUME NoneApart, copies \in Shown, NEW e \in Edits
    PROVE  /\ Wrote(e) \subseteq AnyOperation /\ Bounded(Wrote(e)) /\ Past \subseteq Nat
           /\ \A c \in ControllerType(Wrote(e), Past) : c # None
<1>1. Bounded(Wrote(e))
    BY BoundedKnown, WriteBounded DEF Wrote
<1>2. Wrote(e) \subseteq AnyOperation /\ Past \subseteq Nat
    BY <1>1 DEF Bounded, Past
<1>3. ControllerType(Wrote(e), Past) \subseteq ControllerType(AnyOperation, Nat)
    BY <1>2, Wider
<1> QED BY <1>1, <1>2, <1>3 DEF NoneApart

LEMMA TypeText ==
    ASSUME NEW T, NEW F, Before(T, F), NEW e \in Own, Type(e)
    PROVE  TextInv'
<1> DEFINE w == Write(e)
           typing == [controller EXCEPT !.ops = @ \cup {w}, !.syncing = TRUE]
<1>1. /\ Attached /\ session # None /\ controller # None /\ ~controller.syncing
      /\ AcceptsDraft(session) /\ Fresh(e) /\ e \in Edits
      /\ controller' = typing /\ Count(controller') /\ owed' = owed \cup {e}
      /\ UNCHANGED <<store, calls, session, disk>>
    BY DEF Type, Attached, Edits
<1>2. /\ F \subseteq T /\ One(T) /\ In(F, store.history, store.ops) /\ Offered(F)
      /\ T \subseteq Past \X Known /\ ControllerIn(controller, T, F)
      /\ controller \in ControllerType(Known, Past) /\ owed \subseteq Edits
      /\ \A k \in calls : EntryIn(k, T, F)
      /\ \A s \in {session, disk} \ {None} : SessionIn(s, T, F)
    BY <1>1 DEF Before, IInv, Typed, Placed, Within, Attached
<1> PICK U : U = T \cup {<<controller.history, w>>}
    OBVIOUS
<1>3. (\A p \in T : p[2].edit # e) /\ One(U) /\ w.edit = e
    BY <1>1, FreshIn
<1>4. /\ typing.ops = controller.ops \cup {w} /\ typing.base = controller.base
      /\ typing.history = controller.history /\ typing.syncing = TRUE
      /\ typing \in ControllerType(Wrote(e), Past)
    BY <1>2 DEF ControllerType, Wrote
<1> HIDE DEF typing
<1>5. Known \subseteq Known' /\ Past' = Past
    BY <1>1, KnownCounted DEF Before, Past
<1>6. U \subseteq Past' \X Known'
    <2>1. controller' # None
        BY <1>1, <1>4, WroteIs DEF Before, IInv, Typed
    <2>2. controller'.ops \subseteq Known' /\ controller.history \in Past
        BY <1>1, <1>2, <2>1 DEF Before, IInv, Typed, ControllerType
    <2>3. w \in Known'
        BY <1>1, <1>4, <2>2
    <2> QED BY <1>2, <1>5, <2>2, <2>3
<1> HIDE DEF w
<1>7. T \subseteq U /\ F \subseteq U
    BY <1>2
<1>8. ControllerIn(typing, U, F)
    BY <1>2, <1>4 DEF ControllerIn, In
<1>9. /\ \A k \in calls : EntryIn(k, U, F)
      /\ \A s \in {session, disk} \ {None} : SessionIn(s, U, F)
    BY <1>2, <1>7, InGrows
<1>10. Offered(F)'
    BY <1>1, <1>2, <1>3 DEF Offered
<1>11. Placed(U, F)'
    BY <1>1, <1>2, <1>3, <1>6, <1>7, <1>8, <1>9, <1>10 DEF Placed, Within
<1>12. Drawn' /\ Persists'
    <2>1. \A d \in Edits : session.draft[d] > 0 => Has(controller.ops, d)
        BY <1>1, DrawnIs DEF Before
    <2>2. \A d \in Edits : session.draft[d] > 0 => Has(typing.ops, d)
        BY <1>4, <2>1 DEF Has
    <2> QED BY <1>1, <2>2 DEF Before, Drawn, Persists
<1>13. Stored'
    <2>1. Has(typing.ops, e)
        BY <1>3, <1>4 DEF Has
    <2>2. e \notin Others
        BY EditsAssumption
    <2>3. controller' # None
        BY <1>1, <1>4, WroteIs DEF Before, IInv, Typed
    <2> QED BY <1>1, <1>4, <2>1, <2>2, <2>3 DEF Before, Stored
<1> QED BY <1>1, <1>2, <1>11, <1>12, <1>13 DEF TextInv


LEMMA ConfirmStageText ==
    ASSUME NEW T, NEW F, Before(T, F), NEW e \in Own, ConfirmStage(e)
    PROVE  TextInv'
<1> DEFINE c == [controller EXCEPT !.ops = @ \cup {Write(e)}]
           p == Sync(c, session)
<1> PICK U : U = T \cup {<<controller.history, Write(e)>>}
    OBVIOUS
<1>1. /\ Turn /\ Attached /\ session # None /\ controller # None
      /\ AcceptsDraft(session) /\ ~controller.untaken /\ Fresh(e) /\ e \in Edits /\ e \notin Others
      /\ Publish(p) /\ owed' = owed \cup {e} /\ store' = store /\ calls' = calls
    BY EditsAssumption DEF ConfirmStage, Attached, Edits
<1>2. /\ F \subseteq T /\ In(F, store.history, store.ops) /\ Offered(F)
      /\ T \subseteq Past \X Known /\ ControllerIn(controller, T, F)
      /\ controller \in ControllerType(Known, Past) /\ owed \subseteq Edits /\ copies \in Shown
    BY <1>1 DEF Before, IInv, Typed, Placed, Within, Attached
<1>3. (\A q \in T : q[2].edit # e) /\ One(U) /\ Write(e).edit = e
    BY <1>1, FreshIn
<1>4. /\ c \in ControllerType(Wrote(e), Past) /\ c.ops = controller.ops \cup {Write(e)}
      /\ c.base = controller.base /\ c.history = controller.history
      /\ c.untaken = controller.untaken /\ c.syncing = controller.syncing
    BY <1>2 DEF ControllerType, Wrote
<1> HIDE DEF c
<1>5. ControllerIn(c, U, F)
    BY <1>2, <1>4 DEF ControllerIn, In
<1>6. SessionIn(session, U, F) /\ \A k \in calls : EntryIn(k, U, F)
    <2>1. T \subseteq U /\ F \subseteq F
        OBVIOUS
    <2>2. SessionIn(session, T, F) /\ \A k \in calls : EntryIn(k, T, F)
        BY <1>1, BeforeIs
    <2> QED BY <2>1, <2>2, InGrows
<1>7. session \in SessionType(Wrote(e), Past, 1..saves) /\ 1..saves \subseteq Nat
    BY <1>1, BeforeIs, Wider DEF Wrote
<1>8. /\ Wrote(e) \subseteq AnyOperation /\ Bounded(Wrote(e)) /\ Past \subseteq Nat
      /\ c # None
    BY <1>1, <1>2, <1>4, WroteIs DEF Before
<1>9. Bounded(c.ops) /\ Document(c.ops) \in Shown
    <2>1. Bounded(c.ops)
        BY <1>4, <1>8, BoundedPart DEF ControllerType
    <2> QED BY <2>1, DocumentType DEF Shown
<1>10. SyncedIn(c, session, p, Wrote(e), Past, 1..saves, U, F)
    BY <1>4, <1>5, <1>6, <1>7, <1>8, <1>9, SyncIn DEF Before
<1> HIDE DEF p
<1>11. controller' = p.c /\ session' = p.s /\ disk' = Persisted(session') /\ Count(controller')
    BY <1>1 DEF Publish
<1>12. /\ controller' # None /\ controller'.ops = c.ops /\ ControllerIn(controller', U, F)
       /\ SessionIn(session', U, F) /\ session'.draft = Document(c.ops)
    BY <1>1, <1>4, <1>10, <1>11 DEF SyncedIn, SameReplica
<1>13. controller'.syncing = FALSE
    <2>1. controller.syncing = FALSE
        BY <1>1, TurnIs DEF Before, IInv
    <2> QED BY <1>4, <1>10, <1>11, <2>1 DEF SyncedIn, SameReplica
<1>14. session' # None
    <2>1. SessionType(Wrote(e), Past, 1..saves) \subseteq SessionType(AnyOperation, Nat, Nat)
        BY <1>7, <1>8, Wider
    <2> QED BY <1>10, <1>11, <2>1 DEF SyncedIn, Before, NoneApart
<1>15. Known \subseteq Known' /\ Past' = Past
    BY <1>1, <1>11, KnownCounted DEF Before, Past
<1>16. U \subseteq Past' \X Known'
    <2>1. controller'.ops \subseteq Known' /\ controller.history \in Past
        BY <1>2, <1>12 DEF Before, IInv, Typed, ControllerType
    <2>2. Write(e) \in Known'
        BY <1>4, <1>12, <2>1
    <2> QED BY <1>2, <1>15, <2>1, <2>2
<1>17. Offered(F)'
    BY <1>1, <1>2, <1>3 DEF Offered
<1>18. \A d \in owed' \cap Own : Has(store.ops, d) \/ session'.draft[d] > 0
    <2> SUFFICES ASSUME NEW d \in owed' \cap Own, ~Has(store.ops, d) PROVE Document(c.ops)[d] > 0
        BY <1>12
    <2>1. d \in Edits /\ Has(c.ops, d)
        <3>1. CASE d = e
            BY <1>1, <1>3, <1>4, <3>1 DEF Has
        <3>2. CASE d # e
            <4>1. d \in owed /\ d \in Edits
                BY <1>1, <1>2, <3>2
            <4>2. session.draft[d] > 0 \/ Has(controller.ops, d)
                BY <4>1 DEF Before, Stored
            <4>3. Has(controller.ops, d)
                BY <1>1, <4>1, <4>2, DrawnIs DEF Before
            <4> QED BY <1>4, <4>1, <4>3 DEF Has
        <3> QED BY <3>1, <3>2
    <2>2. In(U, c.history, c.ops)
        BY <1>5 DEF ControllerIn
    <2> QED BY <1>3, <1>9, <2>1, <2>2, HasShown
<1>19. F \subseteq U /\ In(F, store'.history, store'.ops) /\ owed' \subseteq Edits
       /\ \A d \in owed' \cap Others : Has(store'.ops, d)
    BY <1>1, <1>2 DEF Before, Stored
<1>20. /\ \A k \in calls' : EntryIn(k, U, F)
       /\ \A d \in owed' \cap Own : Has(store'.ops, d) \/ session'.draft[d] > 0
    BY <1>1, <1>6, <1>18
<1> QED BY <1>3, <1>11, <1>12, <1>13, <1>14, <1>16, <1>17, <1>19, <1>20, TurnIn

LEMMA StoreAcceptsText ==
    ASSUME NEW T, NEW F, Before(T, F), NEW k \in calls, StoreAccepts(k)
    PROVE  TextInv'
<1> PICK G : G = F \cup {<<store.history, x>> : x \in k.update}
    OBVIOUS
<1>1. /\ store' = [store EXCEPT !.ops = @ \cup k.update] /\ k.base.history = store.history
      /\ Answer(k, "accepted") /\ UNCHANGED <<session, controller, disk, copies, owed>>
    BY DEF StoreAccepts
<1>2. /\ F \subseteq T /\ One(T) /\ T \subseteq Past \X Known /\ Offered(F)
      /\ In(F, store.history, store.ops) /\ store \in FrontierType(Known, Past)
      /\ owed \subseteq Edits /\ k \in CallType(Known, Past, 1..saves)
      /\ \A l \in calls : EntryIn(l, T, F)
    BY DEF Before, IInv, Typed, Placed, Within
<1>3. store'.history = store.history /\ store'.ops = store.ops \cup k.update
    BY <1>1, <1>2 DEF FrontierType
<1>4. Past' = Past /\ Known' = Known
    BY <1>1, <1>3 DEF Past, Known
<1>5. F \subseteq G /\ G \subseteq T
    <2>1. In(T, store.history, k.update)
        BY <1>1, <1>2 DEF EntryIn
    <2> QED BY <1>2, <2>1 DEF In
<1>6. In(G, store'.history, store'.ops)
    BY <1>2, <1>3, <1>5 DEF In
<1>7. \A e : Has(store.ops, e) => Has(store'.ops, e)
    BY <1>3 DEF Has
<1>8. Offered(G)'
    <2>1. \A p \in G : p \in F \/ Has(store'.ops, p[2].edit)
        BY <1>3 DEF Has
    <2> QED BY <1>1, <1>2, <1>7, <2>1 DEF Offered
<1>9. \A l \in calls' : EntryIn(l, T, G)
    <2> DEFINE a == [k EXCEPT !.stage = "accepted", !.base = store', !.update = {}]
    <2>1. a.base = store' /\ a.update = {}
        BY <1>2 DEF CallType
    <2>2. EntryIn(a, T, G)
        BY <1>6, <2>1 DEF EntryIn, In
    <2>3. \A l \in calls' : l \in calls \/ l = a
        BY <1>1 DEF Answer
    <2> HIDE DEF a
    <2>4. \A l \in calls : EntryIn(l, T, G)
        BY <1>2, <1>5, InGrows
    <2> QED BY <2>2, <2>3, <2>4
<1>10. /\ owed' \subseteq Edits /\ \A e \in owed' \cap Others : Has(store'.ops, e)
       /\ \A e \in owed' \cap Own : e \in owed /\ (Has(store.ops, e) => Has(store'.ops, e))
    BY <1>1, <1>2, <1>7 DEF Before, Stored
<1> QED BY <1>1, <1>2, <1>4, <1>5, <1>6, <1>8, <1>9, <1>10, StandsIn

LEMMA StoreRefusesText ==
    ASSUME NEW T, NEW F, Before(T, F), NEW k \in calls, StoreRefuses(k)
    PROVE  TextInv'
<1>1. store' = store /\ UNCHANGED <<session, controller, disk, copies, owed>>
    BY DEF StoreRefuses
<1>2. PICK stage : Answer(k, stage)
    BY DEF StoreRefuses
<1>3. /\ In(F, store.history, store.ops) /\ k \in CallType(Known, Past, 1..saves)
      /\ \A l \in calls : EntryIn(l, T, F)
    BY DEF Before, IInv, Typed, Placed, Within
<1>4. \A l \in calls' : EntryIn(l, T, F)
    <2> DEFINE a == [k EXCEPT !.stage = stage, !.base = store', !.update = {}]
    <2>1. a.base = store /\ a.update = {}
        BY <1>1, <1>3 DEF CallType
    <2>2. EntryIn(a, T, F)
        BY <1>3, <2>1 DEF EntryIn, In
    <2>3. \A l \in calls' : l \in calls \/ l = a
        BY <1>2 DEF Answer
    <2> HIDE DEF a
    <2> QED BY <1>3, <2>2, <2>3
<1> QED BY <1>1, <1>4, CallsText


LEMMA RemoteEditText ==
    ASSUME NEW T, NEW F, Before(T, F), NEW e \in Others, RemoteEdit(e)
    PROVE  TextInv'
<1> PICK w : w = <<store.history, Write(e)>>
    OBVIOUS
<1> DEFINE U == T \cup {w}
           G == F \cup {w}
<1>1. /\ store' = [store EXCEPT !.ops = @ \cup {Write(e)}] /\ copies' = [copies EXCEPT ![e] = 1]
      /\ owed' = owed \cup {e} /\ UNCHANGED <<calls, session, controller, disk>>
      /\ Fresh(e) /\ e \in Edits /\ e \notin Own
    BY EditsAssumption DEF RemoteEdit, Edits
<1>2. /\ F \subseteq T /\ T \subseteq Past \X Known /\ Offered(F)
      /\ In(F, store.history, store.ops) /\ store \in FrontierType(Known, Past)
      /\ owed \subseteq Edits /\ copies \in Shown /\ \A l \in calls : EntryIn(l, T, F)
    BY DEF Before, IInv, Typed, Placed, Within
<1>3. store'.history = store.history /\ store'.ops = store.ops \cup {Write(e)}
    BY <1>1, <1>2 DEF FrontierType
<1>4. One(U) /\ Write(e).edit = e
    BY <1>1, FreshIn
<1>5. U \subseteq Past' \X Known'
    <2>1. Past' = Past
        BY <1>3 DEF Past
    <2>2. copies' \in Shown /\ \A d \in Edits : copies[d] <= copies'[d]
        BY <1>1, <1>2 DEF Shown, Fresh
    <2>3. Known \subseteq Known'
        BY <1>2, <2>2, KnownGrows
    <2>4. store'.ops \subseteq Known' /\ store'.history \in Past'
        BY DEF Before, IInv, Typed, FrontierType
    <2>5. Write(e) \in Known'
        BY <1>3, <2>4
    <2> QED BY <1>2, <1>3, <2>1, <2>3, <2>4, <2>5
<1>6. In(G, store'.history, store'.ops)
    BY <1>2, <1>3 DEF In
<1>7. \A d : Has(store.ops, d) => Has(store'.ops, d)
    BY <1>3 DEF Has
<1>8. Has(store'.ops, e)
    BY <1>3, <1>4 DEF Has
<1>9. Offered(G)'
    <2>1. w[2].edit = e
        BY <1>4
    <2> QED BY <1>1, <1>2, <1>7, <1>8, <2>1 DEF Offered
<1>10. \A l \in calls' : EntryIn(l, U, G)
    BY <1>1, <1>2, InGrows
<1>11. /\ owed' \subseteq Edits /\ \A d \in owed' \cap Others : Has(store'.ops, d)
       /\ \A d \in owed' \cap Own : d \in owed /\ (Has(store.ops, d) => Has(store'.ops, d))
    BY <1>1, <1>2, <1>7, <1>8 DEF Before, Stored
<1>12. G \subseteq U /\ F \subseteq G /\ T \subseteq U
    BY <1>2
<1> HIDE DEF U, G
<1> QED BY <1>1, <1>4, <1>5, <1>6, <1>9, <1>10, <1>11, <1>12, StandsIn

LEMMA ReseedText ==
    ASSUME NEW T, NEW F, Before(T, F), NEW document \in {Document(store.ops), Document({})},
           Reseed(document)
    PROVE  TextInv'
<1> DEFINE h == store.history + 1
           ops == Lacking({}, document)
<1> PICK N : N = {<<h, x>> : x \in ops}
    OBVIOUS
<1> DEFINE U == T \cup N
           G == F \cup N
<1>1. /\ store' = [history |-> h, ops |-> ops]
      /\ copies' = [e \in Edits |-> copies[e] + document[e]]
      /\ owed' = {e \in owed : Document(store.ops)[e] = 0 \/ document[e] > 0}
      /\ UNCHANGED <<calls, session, controller, disk>>
    BY DEF Reseed
<1>2. /\ F \subseteq T /\ T \subseteq Past \X Known /\ One(T) /\ Offered(F)
      /\ In(F, store.history, store.ops) /\ store \in FrontierType(Known, Past)
      /\ store.history \in Nat /\ owed \subseteq Edits /\ copies \in Shown
      /\ \A l \in calls : EntryIn(l, T, F)
    BY DEF Before, IInv, Typed, Placed, Within
<1>3. store'.history = h /\ store'.ops = ops
    BY <1>1
<1>4. /\ Bounded(store.ops) /\ Bounded({})
      /\ In(T, store.history, store.ops) /\ In(T, store.history, {})
    BY <1>2, BoundedKnown, BoundedPart DEF FrontierType, In
<1>5. \A e \in Edits :
          /\ Document({})[e] = 0
          /\ document[e] \in Nat /\ document[e] <= 1
          /\ Document(store.ops)[e] \in Nat /\ (Has(store.ops, e) <=> Document(store.ops)[e] > 0)
    <2> SUFFICES ASSUME NEW e \in Edits
                 PROVE  /\ Document({})[e] = 0
                        /\ document[e] \in Nat /\ document[e] <= 1
                        /\ Document(store.ops)[e] \in Nat
                        /\ Has(store.ops, e) <=> Document(store.ops)[e] > 0
        OBVIOUS
    <2>1. /\ Document(store.ops)[e] \in Nat /\ Document(store.ops)[e] <= 1
          /\ Document(store.ops)[e] > 0 <=> Has(store.ops, e)
        BY <1>2, <1>4, HasShown
    <2>2. Document({})[e] \in Nat /\ (Document({})[e] > 0 <=> Has({}, e))
        BY <1>2, <1>4, HasShown
    <2>3. Document({})[e] = 0
        BY <2>2 DEF Has
    <2> QED BY <2>1, <2>3
<1>6. \A x : x \in ops <=>
          \E e \in Edits : document[e] = 1 /\ x = [edit |-> e, copy |-> copies[e] + 1, removes |-> FALSE]
    <2>1. ASSUME NEW e \in Edits, NEW x
          PROVE  x \in LackingOf({}, document, e)
                 <=> document[e] = 1 /\ x = [edit |-> e, copy |-> copies[e] + 1, removes |-> FALSE]
        <3>1. document[e] - Document({})[e] = document[e] /\ document[e] \in {0, 1}
            BY <1>5
        <3>2. LackingOf({}, document, e) = Copies(e, copies[e], document[e])
            BY <3>1 DEF LackingOf
        <3>3. \A m : m \in 1..document[e] <=> m = 1 /\ document[e] = 1
            BY <3>1
        <3>4. x \in Copies(e, copies[e], document[e])
              <=> \E m \in 1..document[e] : x = [edit |-> e, copy |-> copies[e] + m, removes |-> FALSE]
            BY DEF Copies
        <3> QED BY <3>2, <3>3, <3>4
    <2>2. \A x : x \in ops <=> \E e \in Edits : x.edit = e /\ x \in LackingOf({}, document, e)
        BY LackingIs
    <2> HIDE DEF ops
    <2> QED BY <2>1, <2>2
<1> HIDE DEF ops
<1>7. \A x \in ops : x.removes = FALSE /\ x.edit \in Edits
    BY <1>6
<1>8. \A x, y \in ops : x.edit = y.edit => x = y
    <2> SUFFICES ASSUME NEW x \in ops, NEW y \in ops, x.edit = y.edit
                 PROVE  x = y
        OBVIOUS
    <2>1. PICK e \in Edits : x = [edit |-> e, copy |-> copies[e] + 1, removes |-> FALSE]
        BY <1>6
    <2>2. PICK d \in Edits : y = [edit |-> d, copy |-> copies[d] + 1, removes |-> FALSE]
        BY <1>6
    <2>3. e = d
        BY <2>1, <2>2
    <2> QED BY <2>1, <2>2, <2>3
<1>9. \A e \in Edits : document[e] > 0 => Has(ops, e)
    <2> SUFFICES ASSUME NEW e \in Edits, document[e] > 0 PROVE Has(ops, e)
        OBVIOUS
    <2>1. document[e] = 1
        BY <1>5
    <2>2. [edit |-> e, copy |-> copies[e] + 1, removes |-> FALSE] \in ops
        BY <1>6, <2>1
    <2> QED BY <2>2 DEF Has
<1>10. \A p \in T : p[1] # h
    BY <1>2 DEF Past
<1> HIDE DEF h
<1>11. One(U)
    <2>1. \A p \in N : p[1] = h /\ p[2] \in ops /\ p = <<h, p[2]>>
        OBVIOUS
    <2>2. ASSUME NEW p \in U, NEW r \in U
          PROVE  p[2].removes = FALSE /\ (p[1] = r[1] /\ p[2].edit = r[2].edit => p = r)
        <3>1. CASE p \in T /\ r \in T
            BY <1>2, <3>1 DEF One
        <3>2. CASE p \in N /\ r \in N
            <4>1. p[2].edit = r[2].edit => p[2] = r[2]
                BY <1>8, <2>1, <3>2
            <4> QED BY <1>7, <2>1, <3>2, <4>1
        <3>3. CASE p \in T /\ r \in N
            BY <1>2, <1>10, <2>1, <3>3 DEF One
        <3>4. CASE p \in N /\ r \in T
            BY <1>7, <1>10, <2>1, <3>4
        <3> QED BY <3>1, <3>2, <3>3, <3>4
    <2> HIDE DEF U
    <2> QED BY <2>2 DEF One
<1>12. U \subseteq Past' \X Known'
    <2>1. copies' \in Shown /\ \A e \in Edits : copies[e] <= copies'[e]
        BY <1>1, <1>2, <1>5 DEF Shown
    <2>2. Known \subseteq Known'
        BY <1>2, <2>1, KnownGrows
    <2>3. store'.ops \subseteq Known' /\ store'.history \in Past'
        BY DEF Before, IInv, Typed, FrontierType
    <2>4. Past \subseteq Past'
        BY <1>2, <1>3 DEF Past, h
    <2> QED BY <1>2, <1>3, <2>2, <2>3, <2>4
<1>13. In(G, store'.history, store'.ops)
    BY <1>3 DEF In
<1>14. \A e \in owed' : e \in owed /\ e \in Edits /\ (Has(store.ops, e) => Has(store'.ops, e))
    BY <1>1, <1>2, <1>3, <1>5, <1>9
<1>15. Offered(G)'
    <2>1. ASSUME NEW p \in N PROVE Has(store'.ops, p[2].edit)
        BY <1>3 DEF Has
    <2>2. ASSUME NEW p \in F, p[2].edit \in owed' PROVE Has(store'.ops, p[2].edit)
        BY <1>2, <1>14, <2>2 DEF Offered
    <2> QED BY <2>1, <2>2 DEF Offered
<1>16. \A l \in calls' : EntryIn(l, U, G)
    <2>1. T \subseteq U /\ F \subseteq G
        OBVIOUS
    <2> HIDE DEF U, G
    <2> QED BY <1>1, <1>2, <2>1, InGrows
<1>17. /\ owed' \subseteq Edits /\ \A e \in owed' \cap Others : Has(store'.ops, e)
       /\ \A e \in owed' \cap Own : e \in owed /\ (Has(store.ops, e) => Has(store'.ops, e))
    BY <1>14 DEF Before, Stored
<1>18. G \subseteq U /\ F \subseteq G /\ T \subseteq U
    BY <1>2
<1> HIDE DEF U, G
<1> QED BY <1>1, <1>11, <1>12, <1>13, <1>15, <1>16, <1>17, <1>18, StandsIn


(* The initial state, and the step of `Next` from any such state.          *)
LEMMA TextInit ==
    ASSUME Init
    PROVE  TextInv
<1>1. Placed({}, {})
    <2>1. store.ops = {} /\ calls = {} /\ session = None /\ disk = None /\ controller = None
        BY DEF Init
    <2>2. Within({}, {})
        BY <2>1 DEF Within, One, In
    <2> QED BY <2>2 DEF Placed, Offered
<1>2. Drawn /\ Persists /\ Stored /\ owed \subseteq Edits
    BY DEF Init, Drawn, Persists, Stored
<1> QED BY <1>1, <1>2 DEF TextInv

LEMMA UnchangedText ==
    ASSUME NEW T, NEW F, Before(T, F), UNCHANGED vars
    PROVE  TextInv'
<1>1. Known' = Known /\ Past' = Past
    BY DEF vars, Known, Past
<1>2. Placed(T, F)'
    BY <1>1 DEF Before, vars, Placed, Within, Offered
<1>3. Drawn' /\ Persists' /\ Stored' /\ (owed \subseteq Edits)'
    BY DEF Before, vars, Drawn, Persists, Stored
<1> QED BY <1>2, <1>3 DEF TextInv

LEMMA TextNextKept ==
    ASSUME NoneApart, TextOnly, IInv, IInv', TextInv, [Next]_vars
    PROVE  TextInv'
<1>1. PICK T, F : Placed(T, F)
    BY DEF TextInv
<1>2. Before(T, F) /\ "disconnect" \notin Liberties
    BY <1>1 DEF Before, TextInv, TextOnly, Usual
<1>3. CASE AuthorNext
    <2>1. ASSUME NEW takes \in Takes, Open(takes) PROVE TextInv'
        <3>1. takes = FALSE
            BY DEF TextOnly
        <3> QED BY <1>2, <2>1, <3>1, OpenText
    <2>2. ASSUME NEW e \in Own, Edit(e) PROVE TextInv'
        <3>1. session # None /\ session.takes
            BY <2>2 DEF Edit, Attached
        <3>2. session.takes = FALSE
            BY <1>2, <3>1, BeforeIs DEF SessionIn
        <3> QED BY <3>1, <3>2
    <2>3. ASSUME NEW e \in Own, Type(e) PROVE TextInv'
        BY <1>2, <2>3, TypeText
    <2>4. ASSUME NEW e \in Own, ConfirmStage(e) PROVE TextInv'
        BY <1>2, <2>4, ConfirmStageText
    <2>5. ASSUME session # None, NEW q \in session.queue, Send(q) PROVE TextInv'
        BY <1>2, <2>5, SendText
    <2>6. ASSUME NEW status \in Blocks, BlockSession(status) PROVE TextInv'
        BY <1>2, <2>6, BlockSessionText
    <2>7. Attach \/ ReplaceController \/ Detach \/ SyncDraft => TextInv'
        BY <1>2, AttachText, ReplaceControllerText, DetachText, SyncDraftText
    <2>8. DiscardChanges \/ Remove \/ QueueSave \/ Supersede => TextInv'
        BY <1>2, DiscardText, RemoveText, QueueSaveText, SupersedeText
    <2> QED BY <1>3, <2>1, <2>2, <2>3, <2>4, <2>5, <2>6, <2>7, <2>8 DEF AuthorNext
<1>4. CASE StoreNext
    <2>1. ASSUME NEW k \in calls, StoreAccepts(k) \/ StoreRefuses(k) PROVE TextInv'
        BY <1>2, <2>1, StoreAcceptsText, StoreRefusesText
    <2>2. ASSUME NEW e \in Others, RemoteEdit(e) PROVE TextInv'
        BY <1>2, <2>2, RemoteEditText
    <2>3. ASSUME NEW d \in {Document(store.ops), Document({})}, Reseed(d) PROVE TextInv'
        BY <1>2, <2>3, ReseedText
    <2> QED BY <1>4, <2>1, <2>2, <2>3 DEF StoreNext
<1>5. ASSUME NEW k \in calls, AnswerNext(k) PROVE TextInv'
    BY <1>2, <1>5, AcceptedText, RejectedText, CallFailsText DEF AnswerNext
<1>6. CASE Arrives \/ Disconnect \/ Reconnect \/ Restart
    BY <1>2, <1>6, ArrivesText, DisconnectText, ReconnectText, RestartText
<1>7. CASE UNCHANGED vars
    BY <1>2, <1>7, UnchangedText
<1> QED BY <1>3, <1>4, <1>5, <1>6, <1>7 DEF Next

LEMMA TextIs ==
    ASSUME IInv, TextInv
    PROVE  EditsKept /\ OthersKept /\ EditedOnce
<1>1. PICK T, F : Placed(T, F)
    BY DEF TextInv
<1>2. Bounded(store.ops) /\ In(T, store.history, store.ops) /\ One(T)
    <2>1. store \in FrontierType(Known, Past) /\ copies \in Shown
        BY DEF IInv, Typed
    <2>2. store.ops \subseteq Known
        BY <2>1 DEF FrontierType
    <2> QED BY <1>1, <2>1, <2>2, BoundedKnown, BoundedPart DEF Placed, Within, In
<1>3. \A e \in Edits : /\ Document(store.ops)[e] <= 1
                       /\ Document(store.ops)[e] > 0 <=> Has(store.ops, e)
    BY <1>2, HasShown
<1>4. \A e \in Edits : controller # None =>
          (Document(controller.ops)[e] > 0 <=> Has(controller.ops, e))
    <2> SUFFICES ASSUME NEW e \in Edits, controller # None
                 PROVE  Document(controller.ops)[e] > 0 <=> Has(controller.ops, e)
        OBVIOUS
    <2>1. controller \in ControllerType(Known, Past) /\ copies \in Shown
        BY DEF IInv, Typed
    <2>2. controller.ops \subseteq Known
        BY <2>1 DEF ControllerType
    <2>3. Bounded(controller.ops)
        BY <2>1, <2>2, BoundedKnown, BoundedPart
    <2>4. In(T, controller.history, controller.ops)
        BY <1>1 DEF Placed, Within, ControllerIn
    <2> QED BY <1>2, <2>3, <2>4, HasShown
<1>5. EditsKept
    BY <1>3, <1>4 DEF EditsKept, TextInv, Stored
<1>6. OthersKept
    BY <1>3 DEF OthersKept, TextInv, Stored
<1> QED BY <1>3, <1>5, <1>6 DEF EditedOnce

LEMMA TextAlways ==
    NoneApart /\ TextOnly => (Spec => [](IInv /\ TextInv))
<1> SUFFICES ASSUME NoneApart, TextOnly PROVE Spec => [](IInv /\ TextInv)
    OBVIOUS
<1>1. Usual
    BY DEF TextOnly, Usual
<1>2. Init => IInv /\ TextInv
    BY InitFine, TextInit
<1>3. IInv /\ TextInv /\ [Next]_vars => IInv' /\ TextInv'
    BY <1>1, NextKept, TextNextKept
<1> QED BY <1>2, <1>3, PTL DEF Spec

(* An edit of this author is in the store or in the draft, or typed with   *)
(* the microtask of its commit to come: no order of saves, answers, lost   *)
(* calls, connections lost and restarts drops it, only a discard, a history*)
(* that is replaced without it, or a restart before that microtask.  For   *)
(* entities that take no documents, in an application that disconnects a   *)
(* session once before it reconnects it.                                   *)
THEOREM EditsAreKept ==
    NoneApart /\ TextOnly => (Spec => []EditsKept)
<1>1. IInv /\ TextInv => EditsKept
    BY TextIs
<1> QED BY <1>1, TextAlways, PTL

(* What another author had accepted stays in the store, whatever this      *)
(* author's client sends, sends again or restores, and though an answer    *)
(* overtakes an earlier one: the operations it queues and records remove   *)
(* none.  For the same entities and application.                           *)
THEOREM OthersAreKept ==
    NoneApart /\ TextOnly => (Spec => []OthersKept)
<1>1. IInv /\ TextInv => OthersKept
    BY TextIs
<1> QED BY <1>1, TextAlways, PTL

(* The store shows no edit twice: what is sent again after a lost answer   *)
(* or a restart is the operations sent before, and what was made on one    *)
(* history is not written into another.  For the same entities and         *)
(* application.                                                            *)
THEOREM EditsReachOnce ==
    NoneApart /\ TextOnly => (Spec => []EditedOnce)
<1>1. IInv /\ TextInv => EditedOnce
    BY TextIs
<1> QED BY <1>1, TextAlways, PTL

=============================================================================
