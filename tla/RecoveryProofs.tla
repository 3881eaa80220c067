--------------------------- MODULE RecoveryProofs ---------------------------
(***************************************************************************)
(* For every number of threads, documents, calls and faults: bytes a fault *)
(* left are kept until an operator disposes of them, what was committed    *)
(* stays through repairs, and what callers are told is true.               *)
(***************************************************************************)
EXTENDS Recovery, FiniteSetTheorems, SequenceTheorems, WellFoundedInduction, TLAPS

StoredBytes == Envelopes \cup {Torn, OtherFormat}

Phases == {"idle", "audit", "append", "sources", "each", "look_up", "insert", "read", "swap",
           "preserve", "remove"}

(* What a call collects: the envelope a commit read, and what it found of  *)
(* each source.                                                            *)
Findings ==
    Envelopes \cup [at: Docs]
      \cup {[at |-> d, is |-> Inspection(d, bytes)] : d \in Docs, bytes \in StoredBytes}

Jobs ==
    [phase: Phases, call: AllCalls \cup {None}, doc: Docs \cup {None}, number: Nat,
     service: Services \cup {None}, read: Versions \cup {None}, left: SUBSET Docs,
     found: SUBSET Findings, limit: Nat, since: Nat, at: Nat]

ChangesMade ==
    [doc: Docs, by: {"commit", "repair", "reset", "fault"}, number: Nat,
     before: StoredBytes \cup {None}, after: StoredBytes \cup {None}]

AuditRecords ==
    [number: Nat, at: Nat, action: Recoveries, doc: Docs \cup {None}, destructive: BOOLEAN]

Typed ==
    /\ kept \in [Docs -> Versions \cup {None}]
    /\ evidence \subseteq [number: Nat, doc: Docs, bytes: StoredBytes]
    /\ audit \in Seq(AuditRecords)
    /\ registered \in Services \cup {None}
    /\ held \in [Services -> [Docs -> Residents \cup {None}] \cup {None}]
    /\ job \in [Threads -> Jobs]
    /\ DOMAIN answer = Threads
    /\ begun \in Nat /\ discarded \in Nat
    /\ changes \in Seq(ChangesMade)

(***************************************************************************)
(* What a call has at each phase: the document it names, the service it    *)
(* holds and, once it read, what it read.  The envelope a commit goes on   *)
(* from is the one stored, and was whole when it was read.                 *)
(***************************************************************************)
Naming == AllCalls \ Wide

Placed(j) ==
    /\ j.phase # "idle" => j.call \in AllCalls /\ (j.call \in Naming => j.doc \in Docs)
    /\ j.phase \in {"audit", "append"} => j.call \in Recoveries
    /\ j.phase \in {"audit", "append", "sources"} => j.found = {}
    /\ j.phase \in {"sources", "each"} => j.call \in {"list", "inspect", "reindex"}
    /\ j.phase \in {"look_up", "insert"} => j.call = "store_or_register"
    /\ j.phase = "read" => j.call \in Naming
    /\ j.phase = "swap" => j.call \in {"commit", "repair"}
    /\ j.phase = "preserve" => j.call \in {"quarantine", "repair"} /\ j.read # None
    /\ j.phase = "remove" => j.call = "reset" /\ j.read # None
    /\ j.phase \in {"preserve", "swap"} /\ j.call = "repair" =>
          j.read # None /\ j.read.bytes \in Envelopes
    /\ j.phase = "swap" /\ j.call = "commit" =>
          \/ j.read = None /\ j.found = {}
          \/ /\ j.read # None /\ j.read.bytes \in Envelopes /\ Whole(j.read.bytes)
             /\ j.found = {j.read.bytes}
    /\ j.phase \notin {"idle", "look_up", "insert"} =>
          j.service \in Services /\ held[j.service] # None

(***************************************************************************)
(* Versions are not used again: what a service holds under the version     *)
(* that is stored is what is stored.                                       *)
(***************************************************************************)
HeldOK ==
    /\ \A d \in Docs : kept[d] # None => kept[d].version <= Len(changes)
    /\ \A s \in Services : held[s] # None => \A d \in Docs : held[s][d] # None =>
          /\ held[s][d].version <= Len(changes)
          /\ Whole(held[s][d].envelope)
          /\ kept[d] # None /\ kept[d].version = held[s][d].version
                => kept[d].bytes = held[s][d].envelope

Sound == Typed /\ (\A t \in Threads : Placed(job[t])) /\ HeldOK
         /\ (registered # None => held[registered] # None)

(***************************************************************************)
(* Calls are known apart by their numbers, and a call is answered once and *)
(* last.                                                                   *)
(***************************************************************************)
Numbered ==
    /\ \A t \in Threads : job[t].phase # "idle" =>
          /\ answer[t] = None
          /\ job[t].number \in 1..begun /\ job[t].since <= Len(changes)
          /\ \A i \in DOMAIN changes : changes[i].number # job[t].number
          /\ \A u \in Threads : job[u].phase # "idle" /\ u # t => job[u].number # job[t].number
          /\ \A u \in Threads : answer[u] # None => answer[u].number # job[t].number
    /\ \A t \in Threads : job[t].number <= begun
    /\ \A t \in Threads : answer[t] # None =>
          /\ answer[t].number \in 1..begun
          /\ answer[t].since \in Nat /\ answer[t].until \in Nat
          /\ answer[t].since <= answer[t].until /\ answer[t].until <= Len(changes)
    /\ \A i \in DOMAIN changes : changes[i].number <= begun
    /\ \A i \in DOMAIN audit : audit[i].number <= begun
    /\ \A v \in evidence : v.number <= begun
    /\ discarded <= begun /\ begun <= MaxCalls

(* What a call read is still stored, or was overtaken since it began.      *)
Overtaken ==
    \A t \in Threads : job[t].phase \in {"swap", "preserve", "remove"} =>
        \/ kept[job[t].doc] = job[t].read
        \/ \E i \in (job[t].since + 1)..Len(changes) : changes[i].doc = job[t].doc

(* A repair that is about to swap has preserved what it read.              *)
Preserving ==
    \A t \in Threads : job[t].phase = "swap" /\ job[t].call = "repair" =>
        [number |-> job[t].number, doc |-> job[t].doc, bytes |-> job[t].read.bytes] \in evidence

(***************************************************************************)
(* Bytes a repair could not mend are stored, or were read, only where a    *)
(* fault left such bytes.                                                  *)
(***************************************************************************)
Mendable(d, bytes) ==
    /\ Decodes(bytes) /\ bytes.of = d
    /\ bytes.sound /\ bytes.readable /\ bytes.minted /\ bytes.bound /\ bytes.schema # 0

Faulted(d) ==
    \E i \in DOMAIN changes :
        changes[i].doc = d /\ changes[i].by = "fault" /\ ~Mendable(d, changes[i].after)

Blamed ==
    /\ \A d \in Docs : kept[d] # None /\ ~Mendable(d, kept[d].bytes) => Faulted(d)
    /\ \A t \in Threads :
          /\ job[t].phase \in {"preserve", "swap"} /\ job[t].call = "repair"
          /\ ~Mendable(job[t].doc, job[t].read.bytes)
          => Faulted(job[t].doc)

(* A commit replaces whole envelopes, and a fault leaves none that is      *)
(* its document's.                                                         *)
Judged ==
    \A i \in DOMAIN changes :
        /\ changes[i].by = "fault" => ~(Decodes(changes[i].after) /\ Valid(changes[i].doc, changes[i].after))
        /\ changes[i].by = "commit" /\ changes[i].before # None =>
              Decodes(changes[i].before) /\ Whole(changes[i].before)

(***************************************************************************)
(* A listing under way has the sources that were stored all along, or will *)
(* come to them; one that was cut short leaves out one that was stored.    *)
(***************************************************************************)
AllAlong(d, since) == \A n \in since..Len(changes) : StoredAt(d, n)

LeftOut(since, left, found) ==
    \E d \in Docs : \E n \in since..Len(changes) :
        StoredAt(d, n) /\ d \notin left /\ \A f \in found : f.at # d

Listing ==
    \A t \in Threads : job[t].phase = "each" =>
        /\ job[t].limit = 1 => LeftOut(job[t].since, job[t].left, job[t].found)
        /\ job[t].limit # 1 => \A d \in Docs : AllAlong(d, job[t].since) =>
              d \in job[t].left \/ \E f \in job[t].found : f.at = d

(***************************************************************************)
(* A recovery is on record before it has an effect, under a moment when it *)
(* had begun.                                                              *)
(***************************************************************************)
Recorded(number, doc) ==
    \/ number < discarded
    \/ \E i \in DOMAIN audit :
          audit[i].number = number /\ audit[i].doc = doc /\ audit[i].at >= number

OnRecord ==
    /\ \A t \in Threads : job[t].phase = "append" => job[t].at >= job[t].number
    /\ \A t \in Threads :
          job[t].phase \in {"read", "preserve", "swap", "remove"} /\ job[t].call \in Recoveries
              => Recorded(job[t].number, job[t].doc)
    /\ \A i \in DOMAIN changes :
          changes[i].by \in {"repair", "reset"} => Recorded(changes[i].number, changes[i].doc)

-----------------------------------------------------------------------------
(* The operators on envelopes.                                             *)

LEMMA WindowOfOne ==
    ASSUME NEW w \in Seq(Operations), Len(w) = 1
    PROVE  w \in Windows
<1>1. Len(w) <= 1
    OBVIOUS
<1> QED BY <1>1 DEF Windows

(* One operation of the envelope's schema is a whole window.               *)
LEMMA EnvelopeOK ==
    ASSUME NEW d \in Docs, NEW schema \in Nat, NEW checkpoint \in SUBSET Nat,
           NEW sequence \in Nat \ {0}, NEW generation \in Nat
    PROVE  LET e == Envelope(d, schema, checkpoint, sequence, generation,
                             <<RetainedOperation(sequence, schema)>>)
           IN /\ e \in Envelopes
              /\ WindowIsWhole(e)
              /\ e.of = d /\ e.schema = schema /\ e.checkpoint = checkpoint
              /\ e.minted /\ e.bound /\ e.sound /\ e.readable
<1> DEFINE o == RetainedOperation(sequence, schema)
           window == <<o>>
           e == Envelope(d, schema, checkpoint, sequence, generation, window)
<1>1. o \in Operations /\ o.sequence = sequence /\ o.schema = schema /\ o.sound
    BY DEF RetainedOperation, Operations
<1>2. /\ window \in Seq(Operations) /\ window \in Windows
      /\ Len(window) = 1 /\ window[1] = o /\ DOMAIN window = {1}
    BY <1>1 DEF Windows
<1> HIDE DEF o, window
<1>3. e.compacted = sequence - 1 /\ e.retained = window /\ e.schema = schema /\ e.sequence = sequence
    BY <1>2 DEF Envelope
<1>4. e \in Envelopes
    BY <1>2 DEF Envelope, Envelopes
<1>5. WindowIsWhole(e)
  <2>1. \A i \in DOMAIN e.retained :
            /\ e.retained[i].sequence >
                  (IF i = 1 THEN e.compacted ELSE e.retained[i - 1].sequence)
            /\ e.retained[i].schema = e.schema
            /\ e.retained[i].sound
    BY <1>1, <1>2, <1>3
  <2>2. Len(e.retained) = 1 /\ e.retained[1].sequence = e.sequence
    BY <1>1, <1>2, <1>3
  <2> HIDE DEF e
  <2> QED BY <2>1, <2>2 DEF WindowIsWhole
<1> QED BY <1>4, <1>5 DEF Envelope, o, window

LEMMA CommittedOK ==
    ASSUME NEW d \in Docs, NEW e \in Envelopes \cup {None}, NEW n \in Nat
    PROVE  /\ Committed(d, e, n) \in Envelopes
           /\ Valid(d, Committed(d, e, n))
           /\ n \in Committed(d, e, n).checkpoint
           /\ e # None => e.checkpoint \subseteq Committed(d, e, n).checkpoint
<1>1. Plan \in Nat /\ Plan # 0
    BY DocsAssumption
<1>2. CASE e = None
    BY <1>1, <1>2, EnvelopeOK DEF Committed, Valid, Whole
<1>3. CASE e # None
  <2>1. /\ e.checkpoint \cup {n} \in SUBSET Nat /\ e.sequence + 1 \in Nat \ {0}
        /\ e.generation + 1 \in Nat
    BY <1>3 DEF Envelopes
  <2>2. Committed(d, e, n) =
            Envelope(d, Plan, e.checkpoint \cup {n}, e.sequence + 1, e.generation + 1,
                     <<RetainedOperation(e.sequence + 1, Plan)>>)
    BY <1>3 DEF Committed
  <2> QED BY <1>1, <2>1, <2>2, EnvelopeOK DEF Valid, Whole
<1> QED BY <1>2, <1>3

LEMMA RepairedOK ==
    ASSUME NEW e \in Envelopes
    PROVE  /\ Repaired(e) \in Envelopes
           /\ WindowIsWhole(Repaired(e))
           /\ Repaired(e).checkpoint = e.checkpoint
           /\ Repaired(e).of = e.of /\ Repaired(e).schema = e.schema
           /\ Repaired(e).minted = e.minted /\ Repaired(e).bound = e.bound
           /\ Repaired(e).sound = e.sound /\ Repaired(e).readable = e.readable
<1>1. /\ Repaired(e).retained = <<>> /\ Repaired(e).compacted = e.sequence
      /\ Repaired(e).sequence = e.sequence
    BY DEF Repaired, Envelopes
<1>2. WindowIsWhole(Repaired(e))
    BY <1>1 DEF WindowIsWhole
<1>3. <<>> \in Windows
    BY DEF Windows
<1>4. Repaired(e) \in Envelopes
  <2> DEFINE n == e.generation + 1
  <2>1. e.sequence \in Int /\ n \in Nat
    BY DEF Envelopes
  <2>2. Repaired(e) = [e EXCEPT !.retained = <<>>, !.compacted = e.sequence, !.generation = n]
    BY DEF Repaired, Envelopes
  <2> HIDE DEF n
  <2> QED BY <1>3, <2>1, <2>2 DEF Envelopes
<1> QED BY <1>2, <1>4 DEF Repaired, Envelopes

(* Damage leaves bytes that are not an envelope of the document's.         *)
LEMMA DamagedOK ==
    ASSUME NEW d \in Docs, NEW e \in Envelopes, Valid(d, e), NEW fault \in Faults,
           fault \in {"operation", "window"} => e.retained # <<>>
    PROVE  /\ Damaged(e, fault, d) \in StoredBytes
           /\ ~(Decodes(Damaged(e, fault, d)) /\ Valid(d, Damaged(e, fault, d)))
<1>1. fault \in AllFaults
    BY CallsAssumption
<1>2. CASE fault = "torn"
    BY <1>2 DEF Damaged, StoredBytes, Decodes
<1>3. CASE fault = "format"
    BY <1>3 DEF Damaged, StoredBytes, Decodes
<1>4. CASE fault = "misfiled"
  <2> DEFINE other == CHOOSE o \in Docs : o # d
  <2>1. other \in Docs /\ other # d
    BY <1>4, PlacesAssumption
  <2>2. Damaged(e, fault, d) = [e EXCEPT !.of = other]
    BY <1>4 DEF Damaged
  <2> HIDE DEF other
  <2> QED BY <2>1, <2>2 DEF StoredBytes, Envelopes, Valid
<1>5. CASE fault = "checkpoint"
    BY <1>5 DEF Damaged, StoredBytes, Envelopes, Valid, Whole
<1>6. CASE fault = "unreadable"
    BY <1>6 DEF Damaged, StoredBytes, Envelopes, Valid, Whole
<1>7. CASE fault = "unversioned"
    BY <1>7 DEF Damaged, StoredBytes, Envelopes, Valid, Whole
<1>8. CASE fault = "unminted"
    BY <1>8 DEF Damaged, StoredBytes, Envelopes, Valid, Whole
<1>9. CASE fault = "unbound"
    BY <1>9 DEF Damaged, StoredBytes, Envelopes, Valid, Whole
<1>10. CASE fault \in {"operation", "window"}
  <2>1. e.retained \in Seq(Operations) /\ Len(e.retained) = 1 /\ DOMAIN e.retained = {1}
    BY <1>10, EmptySeq DEF Envelopes, Windows
  <2>2. /\ e.retained[1] \in Operations
        /\ e.retained[1].sequence > e.compacted /\ e.retained[1].sequence = e.sequence
    BY <2>1 DEF Valid, Whole, WindowIsWhole
  <2>3. CASE fault = "operation"
    <3> DEFINE w == [e.retained EXCEPT ![1].sound = FALSE]
    <3>1. /\ w \in Seq(Operations) /\ w \in Windows
          /\ Len(w) = 1 /\ DOMAIN w = 1..1 /\ ~w[1].sound
      <4> DEFINE o == [e.retained[1] EXCEPT !.sound = FALSE]
      <4>0. 1 \in 1..Len(e.retained)
        BY <2>1
      <4>1. o \in Operations /\ ~o.sound
        BY <2>2 DEF Operations
      <4>2. w = [e.retained EXCEPT ![1] = o]
        BY <2>1
      <4> HIDE DEF o, w
      <4>3. /\ w \in Seq(Operations) /\ Len(w) = Len(e.retained)
            /\ \A j \in 1..Len(e.retained) : w[j] = IF j = 1 THEN o ELSE e.retained[j]
        BY <2>1, <4>0, <4>1, <4>2, ExceptSeq
      <4>4. Len(w) = 1
        BY <2>1, <4>3
      <4>6. w[1] = o
        BY <4>0, <4>3, Zenon
      <4>5. DOMAIN w = 1..1
        BY <4>3, <4>4, LenProperties
      <4>7. w \in Windows
        BY <4>3, <4>4, WindowOfOne
      <4>8. ~w[1].sound
        BY <4>1, <4>6, Zenon
      <4> QED BY <4>3, <4>4, <4>5, <4>7, <4>8, Zenon
    <3>2. Damaged(e, fault, d) = [e EXCEPT !.retained = w]
      BY <2>3 DEF Damaged, Envelopes
    <3> HIDE DEF w
    <3>3. Damaged(e, fault, d) \in Envelopes /\ Damaged(e, fault, d).retained = w
      BY <3>1, <3>2 DEF Envelopes
    <3> QED BY <3>1, <3>3 DEF StoredBytes, Valid, Whole, WindowIsWhole
  <2>4. CASE fault = "window"
    <3>1. Damaged(e, fault, d) = [e EXCEPT !.compacted = e.sequence]
      BY <2>4 DEF Damaged
    <3>2. /\ Damaged(e, fault, d) \in Envelopes
          /\ Damaged(e, fault, d).compacted = e.sequence
          /\ Damaged(e, fault, d).retained = e.retained
      BY <3>1 DEF Envelopes
    <3>3. ~WindowIsWhole(Damaged(e, fault, d))
      BY <2>1, <2>2, <3>2 DEF WindowIsWhole, Envelopes, Operations
    <3> QED BY <3>2, <3>3 DEF StoredBytes, Valid, Whole
  <2> QED BY <1>10, <2>3, <2>4
<1> QED BY <1>1, <1>2, <1>3, <1>4, <1>5, <1>6, <1>7, <1>8, <1>9, <1>10 DEF AllFaults

-----------------------------------------------------------------------------
(* What a service makes of what is stored is what is stored.               *)
LEMMA ResidentOK ==
    ASSUME Typed, HeldOK, NEW s \in Services, held[s] # None, NEW d \in Docs,
           NEW listed \in BOOLEAN, NEW r, r = Resident(s, d, listed)
    PROVE  /\ r \in Residents \cup {None, Torn}
           /\ r = None <=> kept[d] = None
           /\ r \notin {None, Torn} =>
                 /\ r \in Residents
                 /\ kept[d] \in Versions /\ r.version = kept[d].version
                 /\ kept[d].bytes \in Envelopes /\ Decodes(kept[d].bytes)
                 /\ r.envelope = kept[d].bytes /\ Whole(r.envelope)
<1>1. kept[d] \in Versions \cup {None} /\ held[s] \in [Docs -> Residents \cup {None}]
    BY DEF Typed
<1>2. held[s][d] \in Residents \cup {None}
    BY <1>1
<1>3. /\ None # Torn
      /\ None \notin Versions /\ None \notin Residents /\ Torn \notin Residents
      /\ None \notin Envelopes /\ Torn \notin Envelopes /\ OtherFormat \notin Envelopes
    BY MarksAssumption
<1>4. CASE kept[d] = None
    BY <1>4, <1>3 DEF Resident
<1>5. CASE kept[d] # None
  <2>1. kept[d] \in Versions /\ kept[d].version \in Nat
        /\ kept[d].bytes \in Envelopes \cup {Torn, OtherFormat}
    BY <1>1, <1>5 DEF Versions
  <2>2. CASE held[s][d] # None /\ held[s][d].version = kept[d].version
    <3>1. r = held[s][d]
      BY <1>5, <2>2 DEF Resident
    <3>2. /\ held[s][d] \in Residents /\ held[s][d].envelope = kept[d].bytes
          /\ Whole(held[s][d].envelope)
      BY <1>2, <1>5, <2>2 DEF HeldOK
    <3>3. held[s][d].envelope \in Envelopes
      BY <3>2 DEF Residents
    <3> QED BY <1>3, <1>5, <2>1, <2>2, <3>1, <3>2, <3>3 DEF Decodes
  <2>3. CASE ~(held[s][d] # None /\ held[s][d].version = kept[d].version)
    <3>1. CASE Decodes(kept[d].bytes) /\ (IF listed THEN Whole(kept[d].bytes)
                                                    ELSE Valid(d, kept[d].bytes))
      <4>1. r = [version |-> kept[d].version, envelope |-> kept[d].bytes]
        BY <1>5, <2>3, <3>1 DEF Resident
      <4>2. kept[d].bytes \in Envelopes /\ Whole(kept[d].bytes)
        BY <2>1, <3>1 DEF Decodes, Valid
      <4>3. r \in Residents /\ r.version = kept[d].version /\ r.envelope = kept[d].bytes
        BY <2>1, <4>1, <4>2 DEF Residents
      <4> QED BY <1>3, <1>5, <2>1, <3>1, <4>2, <4>3
    <3>2. CASE ~(Decodes(kept[d].bytes) /\ (IF listed THEN Whole(kept[d].bytes)
                                                      ELSE Valid(d, kept[d].bytes)))
      <4>1. r = Torn
        BY <1>5, <2>3, <3>2 DEF Resident
      <4> QED BY <1>3, <1>5, <4>1
    <3> QED BY <3>1, <3>2
  <2> QED BY <2>2, <2>3
<1> QED BY <1>4, <1>5

LEMMA IdleOK == Idle \in Jobs /\ Idle.phase = "idle" /\ Idle.found = {}
<1>1. "idle" \in Phases
    BY DEF Phases
<1> QED BY <1>1 DEF Idle, Jobs

(* Every service that is made is one of those there may be.                *)
LEMMA MakeOK ==
    ASSUME Typed, NEW s, Make(s)
    PROVE  /\ s \in Services /\ registered' = s
           /\ held' = [held EXCEPT ![s] = [d \in Docs |-> None]]
           /\ held' \in [Services -> [Docs -> Residents \cup {None}] \cup {None}]
           /\ held'[s] = [d \in Docs |-> None] /\ held'[s] # None
<1>1. s \in Services /\ registered' = s /\ held' = [held EXCEPT ![s] = [d \in Docs |-> None]]
    BY DEF Make
<1>2. [d \in Docs |-> None] \in [Docs -> Residents \cup {None}]
    OBVIOUS
<1>3. [d \in Docs |-> None] # None
    BY <1>2, MarksAssumption
<1> QED BY <1>1, <1>2, <1>3 DEF Typed

(* What is held of one document changes: the rest stays.                   *)
LEMMA HeldChange ==
    ASSUME Typed, NEW s \in Services, held[s] # None, NEW d \in Docs,
           NEW x \in Residents \cup {None}, held' = [held EXCEPT ![s][d] = x]
    PROVE  /\ held' \in [Services -> [Docs -> Residents \cup {None}] \cup {None}]
           /\ \A r \in Services : held[r] # None <=> held'[r] # None
           /\ \A r \in Services : r # s => held'[r] = held[r]
           /\ \A e \in Docs : held'[s][e] = IF e = d THEN x ELSE held[s][e]
<1>1. held[s] \in [Docs -> Residents \cup {None}]
    BY DEF Typed
<1> DEFINE h == [held[s] EXCEPT ![d] = x]
<1>2. h \in [Docs -> Residents \cup {None}] /\ \A e \in Docs : h[e] = IF e = d THEN x ELSE held[s][e]
    BY <1>1
<1>3. held' = [held EXCEPT ![s] = h]
    OBVIOUS
<1>4. h # None
    BY <1>2, MarksAssumption
<1> HIDE DEF h
<1> QED BY <1>2, <1>3, <1>4 DEF Typed

LEMMA HoldOK ==
    ASSUME Typed, HeldOK, NEW s \in Services, held[s] # None, NEW d \in Docs,
           NEW listed \in BOOLEAN, Hold(s, d, Resident(s, d, listed))
    PROVE  \E x \in Residents \cup {None} :
              /\ held' = [held EXCEPT ![s][d] = x]
              /\ \/ x = held[s][d]
                 \/ kept[d] = None /\ x = None
                 \/ /\ kept[d] # None /\ x # None /\ x.version = kept[d].version
                    /\ x.envelope = kept[d].bytes /\ Whole(x.envelope)
<1> DEFINE r == Resident(s, d, listed)
<1>1. /\ r \in Residents \cup {None, Torn}
      /\ r = None <=> kept[d] = None
      /\ r \notin {None, Torn} =>
            /\ r.version = kept[d].version /\ r.envelope = kept[d].bytes /\ Whole(r.envelope)
    BY ResidentOK
<1>2. held[s][d] \in Residents \cup {None} /\ DOMAIN held = Services /\ DOMAIN held[s] = Docs
    BY DEF Typed
<1>3. CASE r = Torn
  <2>1. held' = [held EXCEPT ![s][d] = held[s][d]]
    BY <1>2, <1>3 DEF Hold
  <2> QED BY <1>2, <2>1
<1>4. CASE r # Torn
  <2>1. held' = [held EXCEPT ![s][d] = r]
    BY <1>2, <1>4 DEF Hold
  <2> HIDE DEF r
  <2> QED BY <1>1, <1>4, <2>1
<1> QED BY <1>3, <1>4

(* The one change of a step: what is stored of a document, under a version *)
(* not used before.                                                        *)
ChangeRecord(d, by, number, bytes) ==
    [doc |-> d, by |-> by, number |-> number,
     before |-> IF kept[d] = None THEN None ELSE kept[d].bytes, after |-> bytes]

Changed(d, by, number, bytes) ==
    /\ kept' \in [Docs -> Versions \cup {None}]
    /\ kept'[d] = IF bytes = None THEN None
                  ELSE [version |-> Len(changes) + 1, bytes |-> bytes]
    /\ bytes # None => kept'[d] # None
    /\ \A e \in Docs : e # d => kept'[e] = kept[e]
    /\ changes' \in Seq(ChangesMade)
    /\ Len(changes) \in Nat /\ Len(changes') = Len(changes) + 1
    /\ \A i \in 1..Len(changes) : changes'[i] = changes[i]
    /\ changes'[Len(changes) + 1] = ChangeRecord(d, by, number, bytes)

LEMMA ChangeOK ==
    ASSUME Typed, NEW t, NEW d \in Docs, NEW by \in {"commit", "repair", "reset", "fault"},
           NEW bytes \in StoredBytes \cup {None}, NEW number \in Nat,
           number = (IF t = None THEN 0 ELSE job[t].number), Change(t, d, by, bytes)
    PROVE  Changed(d, by, number, bytes)
<1> DEFINE c == ChangeRecord(d, by, number, bytes)
           k == IF bytes = None THEN None ELSE [version |-> Len(changes) + 1, bytes |-> bytes]
<1>1. Len(changes) \in Nat
    BY LenProperties DEF Typed
<1>2. k \in Versions \cup {None} /\ (bytes # None => k \in Versions)
  <2>1. CASE bytes = None
    BY <2>1
  <2>2. CASE bytes # None
    BY <1>1, <2>2 DEF Versions, StoredBytes
  <2> QED BY <2>1, <2>2
<1>3. bytes # None => k # None
    BY <1>2, MarksAssumption
<1>4. kept[d] # None => kept[d].bytes \in StoredBytes
    BY DEF Typed, Versions, StoredBytes
<1>5. c \in ChangesMade
    BY <1>4 DEF ChangeRecord, ChangesMade
<1>6. kept' = [kept EXCEPT ![d] = k] /\ changes' = Append(changes, c)
    BY DEF Change, ChangeRecord
<1> HIDE DEF c, k
<1>7. /\ kept' \in [Docs -> Versions \cup {None}] /\ kept'[d] = k
      /\ \A e \in Docs : e # d => kept'[e] = kept[e]
    BY <1>2, <1>6 DEF Typed
<1>8. /\ changes' \in Seq(ChangesMade) /\ Len(changes') = Len(changes) + 1
      /\ \A i \in 1..Len(changes) : changes'[i] = changes[i]
      /\ changes'[Len(changes) + 1] = c
    BY <1>5, <1>6, AppendProperties DEF Typed
<1> QED BY <1>1, <1>3, <1>7, <1>8 DEF c, k, Changed

-----------------------------------------------------------------------------
(* What a step may do.  A thread's call arrives, goes on, or ends; all but *)
(* four kinds of step leave what is stored alone.                          *)

Quiet == UNCHANGED <<kept, changes>>

CommitStored(t) ==
    /\ SwapCommit(t) /\ kept[job[t].doc] = job[t].read
RepairStored(t) ==
    /\ SwapRepaired(t) /\ kept[job[t].doc] = job[t].read
    /\ Valid(job[t].doc, Repaired(job[t].read.bytes))
Removed(t) ==
    /\ Remove(t) /\ kept[job[t].doc] = job[t].read

(* A call arrives ...                                                      *)
Arrives(t) ==
    /\ job[t].phase = "idle"
    /\ \E j \in Jobs :
          /\ job' = [job EXCEPT ![t] = j]
          /\ j.phase \in {"audit", "sources", "look_up", "read"}
          /\ j.number = begun + 1 /\ j.since = Len(changes) /\ j.found = {}
          /\ j.call \in AllCalls /\ (j.call \in Naming => j.doc \in Docs)
          /\ j.phase = FirstPhase(j.call)
          /\ j.call # "store_or_register" => j.service = registered /\ registered # None
    /\ begun < MaxCalls /\ begun' = begun + 1
    /\ answer' = [answer EXCEPT ![t] = None]
    /\ UNCHANGED <<kept, evidence, audit, registered, held, changes, discarded>>

(* ... or is turned away, ...                                              *)
TurnedAway(t) == \E call \in Calls \ Wide, d \in Targets : Turned(t, call, d)

(* ... goes on as the call it is, ...                                      *)
GoesOn(t) ==
    /\ job[t].phase # "idle"
    /\ \E j \in Jobs :
          /\ job' = [job EXCEPT ![t] = j] /\ j.phase # "idle"
          /\ j.call = job[t].call /\ j.doc = job[t].doc /\ j.number = job[t].number
          /\ j.since = job[t].since /\ j.service = job[t].service
    /\ UNCHANGED <<kept, changes, answer, begun, registered, discarded>>

(* ... and ends, with an answer unless the storage port failed.            *)
Ends(t) ==
    /\ job[t].phase # "idle" /\ job' = [job EXCEPT ![t] = Idle]
    /\ \/ answer' = answer
       \/ \E code, dispatched, result :
             answer' = [answer EXCEPT ![t] = Answered(job[t], code, dispatched, result)]
    /\ UNCHANGED <<begun, audit, discarded>>

DamageDone == \E d \in Targets, fault \in Faults : Damage(d, fault)

LEMMA DoneEnds ==
    ASSUME NEW t, NEW result, job[t].phase # "idle", UNCHANGED <<begun, audit, discarded>>,
           Done(t, result)
    PROVE  Ends(t)
BY DEF Set, Done, Ends

LEMMA RefusalEnds ==
    ASSUME NEW t, NEW code, job[t].phase # "idle", UNCHANGED <<begun, audit, discarded>>,
           StoreRefuses(t, code)
    PROVE  Ends(t)
BY DEF Set, StoreRefuses, Ends

(* A job that goes to another phase, with what it read or collected.       *)
LEMMA MoveOK ==
    ASSUME Typed, NEW t \in Threads, job[t].phase # "idle", NEW j \in Jobs, Set(t, j),
           j.phase # "idle",
           j.call = job[t].call, j.doc = job[t].doc, j.number = job[t].number,
           j.since = job[t].since, j.service = job[t].service,
           UNCHANGED <<kept, changes, answer, begun, registered, discarded>>
    PROVE  GoesOn(t) /\ job'[t] = j
BY DEF Set, GoesOn, Typed

LEMMA MovesOK ==
    ASSUME Typed, NEW t \in Threads, NEW phase \in Phases,
           NEW read \in Versions \cup {None}, NEW found \in SUBSET Findings,
           NEW left \in SUBSET Docs, NEW limit \in Nat,
           NEW j, \/ j = [job[t] EXCEPT !.phase = phase]
                  \/ j = [job[t] EXCEPT !.phase = phase, !.read = read]
                  \/ j = [job[t] EXCEPT !.phase = phase, !.read = read, !.found = found]
                  \/ j = [job[t] EXCEPT !.phase = phase, !.left = left, !.limit = limit]
    PROVE  /\ j \in Jobs /\ j.phase = phase
           /\ j.call = job[t].call /\ j.doc = job[t].doc /\ j.number = job[t].number
           /\ j.since = job[t].since /\ j.service = job[t].service
<1>1. job[t] \in Jobs
    BY DEF Typed
<1> QED BY <1>1 DEF Jobs

LEMMA LeftOK ==
    ASSUME Typed, NEW t \in Threads, NEW found \in SUBSET Findings, NEW left \in SUBSET Docs,
           NEW j, j = [job[t] EXCEPT !.left = left, !.found = found]
    PROVE  /\ j \in Jobs /\ j.phase = job[t].phase
           /\ j.call = job[t].call /\ j.doc = job[t].doc /\ j.number = job[t].number
           /\ j.since = job[t].since /\ j.service = job[t].service
           /\ j.left = left /\ j.found = found /\ j.limit = job[t].limit
<1>1. job[t] \in Jobs
    BY DEF Typed
<1> QED BY <1>1 DEF Jobs

(* What a call is on arriving.                                             *)
LEMMA ArrivedOK ==
    ASSUME Sound, NEW t \in Threads, NEW call \in AllCalls, NEW d \in Docs \cup {None},
           NEW limit \in Nat, call \in Naming => d \in Docs, Begin(t, call, d, limit)
    PROVE  Arrives(t)
<1> DEFINE service == IF call = "store_or_register" THEN None ELSE registered
           j == [Arrived(t, call, d, limit) EXCEPT !.phase = FirstPhase(call),
                                                   !.service = service]
<1>1. /\ FirstPhase(call) \in {"audit", "sources", "look_up", "read"}
      /\ FirstPhase(call) \in Phases
    BY DEF FirstPhase, Phases, AllCalls
<1>2. service \in Services \cup {None} /\ Len(changes) \in Nat /\ begun + 1 \in Nat
    BY LenProperties DEF Sound, Typed
<1>3. Arrived(t, call, d, limit) \in Jobs
    BY <1>2, IdleOK DEF Arrived, Jobs
<1>4. /\ Arrived(t, call, d, limit).number = begun + 1
      /\ Arrived(t, call, d, limit).since = Len(changes)
      /\ Arrived(t, call, d, limit).call = call /\ Arrived(t, call, d, limit).doc = d
      /\ Arrived(t, call, d, limit).found = {}
    BY IdleOK DEF Arrived, Jobs
<1>5. j \in Jobs
    BY <1>1, <1>2, <1>3 DEF Jobs
<1>6. /\ j.phase = FirstPhase(call) /\ j.number = begun + 1 /\ j.since = Len(changes)
      /\ j.call = call /\ j.doc = d /\ j.service = service /\ j.found = {}
    BY <1>3, <1>4 DEF Jobs
<1>7. call # "store_or_register" => service = registered /\ registered # None
    BY DEF Begin
<1>8. job' = [job EXCEPT ![t] = j]
    BY DEF Begin, Set
<1>9. /\ job[t].phase = "idle" /\ begun < MaxCalls /\ begun' = begun + 1
      /\ answer' = [answer EXCEPT ![t] = None]
      /\ UNCHANGED <<kept, evidence, audit, registered, held, changes, discarded>>
    BY DEF Begin
<1> HIDE DEF j, service
<1> QED BY <1>1, <1>5, <1>6, <1>7, <1>8, <1>9 DEF Arrives

LEMMA BeginKind ==
    ASSUME Sound, NEW t \in Threads, BeginSome(t)
    PROVE  Arrives(t) \/ TurnedAway(t)
<1>1. Calls \subseteq AllCalls /\ Targets \subseteq Docs /\ Cardinality(Docs) \in Nat /\ begun \in Nat
    BY CallsAssumption, DocsAssumption, FS_CardinalityType DEF Sound, Typed
<1>2. CASE \E call \in Calls \ Wide, d \in Targets : Turned(t, call, d)
    BY <1>2 DEF TurnedAway
<1>3. CASE \E call \in Calls \ Wide, d \in Targets :
              \E from \in (IF call = "audit" THEN 0..begun ELSE {0}) : Begin(t, call, d, from)
  <2>1. PICK call \in Calls \ Wide, d \in Targets :
            \E from \in (IF call = "audit" THEN 0..begun ELSE {0}) : Begin(t, call, d, from)
    BY <1>3
  <2>2. PICK from \in (IF call = "audit" THEN 0..begun ELSE {0}) : Begin(t, call, d, from)
    BY <2>1
  <2>3. from \in Nat
    BY <1>1, <2>2
  <2> QED BY <1>1, <2>1, <2>2, <2>3, ArrivedOK
<1>4. CASE \E call \in (Calls \cap Wide) \ {"inspect"} : Begin(t, call, None, 0)
    BY <1>1, <1>4, ArrivedOK DEF Naming
<1>5. CASE \E limit \in 0..Cardinality(Docs) : Begin(t, "inspect", None, limit)
  <2>1. "inspect" \in AllCalls /\ "inspect" \notin Naming
    BY DEF AllCalls, Naming, Wide, Reads
  <2> QED BY <1>1, <1>5, <2>1, ArrivedOK
<1> QED BY <1>2, <1>3, <1>4, <1>5 DEF BeginSome

(* The threads' own steps after a call has arrived.                        *)
Works(t) ==
    \/ LookUp(t) \/ Insert(t)
    \/ Get(t) \/ ReadToCommit(t) \/ SwapCommit(t)
    \/ Sources(t) \/ ListNext(t) \/ InspectNext(t) \/ EndOfSources(t) \/ Verify(t)
    \/ Audit(t) \/ AppendAudit(t) \/ AuditQuery(t)
    \/ Export(t) \/ ReadToQuarantine(t) \/ ReadToRepair(t) \/ Preserve(t)
    \/ SwapRepaired(t) \/ ReadToReset(t) \/ Remove(t) \/ Fail(t)

LEMMA PhasesAre ==
    /\ {"audit", "append", "sources", "each", "look_up", "insert", "read", "swap", "preserve", "remove"}
          \subseteq Phases \ {"idle"}
    /\ {"idle"} \subseteq Phases
BY DEF Phases

LEMMA FindingsAre ==
    /\ Envelopes \subseteq Findings
    /\ \A d \in Docs : [at |-> d] \in Findings
    /\ \A d \in Docs, bytes \in StoredBytes :
          [at |-> d, is |-> Inspection(d, bytes)] \in Findings
<1>1. Envelopes \subseteq Findings /\ [at: Docs] \subseteq Findings
    BY DEF Findings
<1>2. \A d \in Docs, bytes \in StoredBytes :
          [at |-> d, is |-> Inspection(d, bytes)] \in Findings
    BY DEF Findings
<1>3. \A d \in Docs : [at |-> d] \in [at: Docs]
    OBVIOUS
<1> QED BY <1>1, <1>2, <1>3

(* A read for a commit ends, or goes on with what is stored.               *)
LEMMA ReadToCommitKind ==
    ASSUME Sound, NEW t \in Threads, ReadToCommit(t)
    PROVE  /\ Quiet /\ UNCHANGED <<evidence, audit, registered, begun, discarded>>
           /\ job[t].phase = "read" /\ job[t].call = "commit"
           /\ Hold(job[t].service, job[t].doc, Resident(job[t].service, job[t].doc, FALSE))
           /\ \/ Ends(t) /\ \E code : StoreRefuses(t, code)
              \/ /\ GoesOn(t) /\ job'[t].phase = "swap" /\ job'[t].read = kept[job[t].doc]
                 /\ \/ job'[t].read = None /\ job'[t].found = {}
                    \/ /\ job'[t].read # None /\ job'[t].read.bytes \in Envelopes
                       /\ Whole(job'[t].read.bytes) /\ job'[t].found = {job'[t].read.bytes}
<1> DEFINE d == job[t].doc
           s == job[t].service
           r == Resident(s, d, FALSE)
<1>1. /\ job[t].phase = "read" /\ job[t].call = "commit" /\ Hold(s, d, r)
      /\ Quiet /\ UNCHANGED <<evidence, audit, registered, begun, discarded>>
    BY DEF ReadToCommit, Quiet
<1>2. Typed /\ HeldOK /\ Placed(job[t]) /\ job[t] \in Jobs
    BY DEF Sound, Typed
<1>3. d \in Docs /\ s \in Services /\ held[s] # None
    BY <1>1, <1>2 DEF Placed, Naming, AllCalls, Wide
<1>4. /\ r \in Residents \cup {None, Torn}
      /\ r = None <=> kept[d] = None
      /\ r \notin {None, Torn} =>
            /\ r \in Residents
            /\ kept[d] \in Versions /\ r.version = kept[d].version
            /\ kept[d].bytes \in Envelopes /\ Decodes(kept[d].bytes)
            /\ r.envelope = kept[d].bytes /\ Whole(r.envelope)
    BY <1>2, <1>3, ResidentOK
<1>5. CASE \E code : StoreRefuses(t, code)
  <2>1. Ends(t)
    BY <1>1, <1>5 DEF StoreRefuses, Set, Ends
  <2> QED BY <1>1, <1>5, <2>1
<1>6. CASE /\ r # Torn
           /\ Set(t, [job[t] EXCEPT !.phase = "swap", !.read = kept[d],
                                    !.found = IF r = None THEN {} ELSE {r.envelope}])
           /\ UNCHANGED answer
  <2> DEFINE found == IF r = None THEN {} ELSE {r.envelope}
             j == [job[t] EXCEPT !.phase = "swap", !.read = kept[d], !.found = found]
  <2>0. r # None => r.envelope \in Envelopes
    BY <1>4, <1>6
  <2>1. found \in SUBSET Findings /\ kept[d] \in Versions \cup {None}
    BY <1>2, <1>3, <2>0, FindingsAre DEF Typed
  <2>2. /\ j \in Jobs /\ j.phase = "swap" /\ j.read = kept[d] /\ j.found = found
        /\ j.call = job[t].call /\ j.doc = job[t].doc /\ j.number = job[t].number
        /\ j.since = job[t].since /\ j.service = job[t].service
    BY <1>2, <2>1, PhasesAre DEF Jobs
  <2>3. Set(t, j)
    BY <1>6
  <2>4. UNCHANGED <<kept, changes, answer, begun, registered, discarded>>
    BY <1>1, <1>6 DEF Quiet
  <2>5. /\ kept[d] = None => found = {}
        /\ kept[d] # None => /\ kept[d].bytes \in Envelopes /\ Whole(kept[d].bytes)
                             /\ found = {kept[d].bytes}
    BY <1>4, <1>6
  <2> HIDE DEF j, found
  <2>6. GoesOn(t) /\ job'[t] = j
    BY <1>1, <1>2, <2>2, <2>3, <2>4, MoveOK
  <2> QED BY <1>1, <2>2, <2>5, <2>6
<1> HIDE DEF r
<1>7. \/ \E code : StoreRefuses(t, code)
      \/ /\ r # Torn
         /\ Set(t, [job[t] EXCEPT !.phase = "swap", !.read = kept[d],
                                  !.found = IF r = None THEN {} ELSE {r.envelope}])
         /\ UNCHANGED answer
    BY DEF ReadToCommit, r
<1> QED BY <1>5, <1>6, <1>7

(* The next of some sources is one of them: the least.                     *)
LEMMA NextIsLeast ==
    ASSUME NEW sources, sources \subseteq Nat, sources # {}
    PROVE  Next1(sources) \in sources /\ \A e \in sources : Next1(sources) <= e
<1> DEFINE Less == {pair \in Nat \X Nat : pair[1] < pair[2]}
<1>1. IsWellFoundedOn(Less, Nat)
    BY NatLessThanWellFounded DEF OpToRel
<1>2. \A x, y \in Nat : y < x => <<y, x>> \in Less
    OBVIOUS
<1> HIDE DEF Less
<1>3. PICK x \in sources : \A y \in sources : ~(<<y, x>> \in Less)
    BY <1>1, WFMin
<1>4. \A y \in sources : x <= y
  <2> TAKE y \in sources
  <2>1. x \in Nat /\ y \in Nat
    OBVIOUS
  <2>2. ~(y < x)
    BY <1>2, <1>3, <2>1
  <2> QED BY <2>1, <2>2
<1> QED BY <1>4 DEF Next1

(* The steps that only read, and leave everything but their job alone.     *)
StillBut == UNCHANGED <<kept, evidence, audit, begun, changes, discarded>>

LEMMA SourcesKind ==
    ASSUME Sound, NEW t \in Threads, Sources(t)
    PROVE  LET sources == {d \in Docs : kept[d] # None}
               limit == IF job[t].call = "inspect" THEN job[t].limit ELSE Cardinality(Docs)
           IN /\ GoesOn(t) /\ StillBut /\ UNCHANGED <<held, registered>>
              /\ job[t].phase = "sources" /\ job'[t].phase = "each"
              /\ job'[t].left = FirstOf(sources, limit)
              /\ job'[t].limit = IF Truncated(sources, limit) THEN 1 ELSE 0
              /\ job'[t].found = job[t].found
<1> DEFINE sources == {d \in Docs : kept[d] # None}
           limit == IF job[t].call = "inspect" THEN job[t].limit ELSE Cardinality(Docs)
           left == FirstOf(sources, limit)
           cut == IF Truncated(sources, limit) THEN 1 ELSE 0
           j == [job[t] EXCEPT !.phase = "each", !.left = left, !.limit = cut]
<1>1. /\ job[t].phase = "sources" /\ Set(t, j) /\ StillBut /\ UNCHANGED answer
      /\ UNCHANGED <<held, registered>>
    BY DEF Sources, StillBut
<1>2. Typed /\ job[t] \in Jobs
    BY DEF Sound, Typed
<1>3. left \in SUBSET Docs /\ cut \in Nat
    BY DEF FirstOf
<1>4. /\ j \in Jobs /\ j.phase = "each" /\ j.left = left /\ j.limit = cut /\ j.found = job[t].found
      /\ j.call = job[t].call /\ j.doc = job[t].doc /\ j.number = job[t].number
      /\ j.since = job[t].since /\ j.service = job[t].service
    BY <1>2, <1>3, PhasesAre DEF Jobs
<1>5. UNCHANGED <<kept, changes, answer, begun, registered, discarded>>
    BY <1>1 DEF StillBut
<1> HIDE DEF j, left, cut
<1>6. GoesOn(t) /\ job'[t] = j
    BY <1>1, <1>2, <1>4, <1>5, MoveOK
<1> QED BY <1>1, <1>4, <1>6 DEF left, cut

LEMMA NextSource ==
    ASSUME Sound, NEW t \in Threads, job[t].phase = "each", job[t].left # {}
    PROVE  /\ Next1(job[t].left) \in job[t].left /\ Next1(job[t].left) \in Docs
           /\ job[t].left \ {Next1(job[t].left)} \in SUBSET Docs
           /\ job[t].service \in Services /\ held[job[t].service] # None
<1>1. job[t].left \subseteq Docs /\ Docs \subseteq Nat
    BY DocsAssumption DEF Sound, Typed, Jobs
<1>2. job[t].service \in Services /\ held[job[t].service] # None
    BY DEF Sound, Placed
<1> QED BY <1>1, <1>2, NextIsLeast

LEMMA ListNextKind ==
    ASSUME Sound, NEW t \in Threads, ListNext(t)
    PROVE  /\ StillBut /\ UNCHANGED registered
           /\ job[t].phase = "each" /\ job[t].left # {}
           /\ Hold(job[t].service, Next1(job[t].left),
                   Resident(job[t].service, Next1(job[t].left), TRUE))
           /\ \/ Ends(t) /\ StoreRefuses(t, "internal_error")
              \/ /\ GoesOn(t) /\ job'[t].phase = "each"
                 /\ job'[t].limit = job[t].limit
                 /\ job'[t].left = job[t].left \ {Next1(job[t].left)}
                 /\ job[t].found \subseteq job'[t].found
                 /\ \A f \in job'[t].found : f \in job[t].found \/ f.at = Next1(job[t].left)
                 /\ kept[Next1(job[t].left)] = None
                       \/ \E f \in job'[t].found : f.at = Next1(job[t].left)
<1> DEFINE d == Next1(job[t].left)
           s == job[t].service
           r == Resident(s, d, TRUE)
<1>1. /\ StillBut /\ UNCHANGED registered /\ job[t].phase = "each" /\ job[t].left # {}
      /\ Hold(s, d, r)
    BY DEF ListNext, StillBut
<1>2. Typed /\ HeldOK /\ job[t] \in Jobs
    BY DEF Sound, Typed
<1>3. d \in Docs /\ s \in Services /\ held[s] # None /\ job[t].left \ {d} \in SUBSET Docs
    BY <1>1, NextSource
<1>4. r = None <=> kept[d] = None
  <2> HIDE DEF d, s
  <2>1. SUFFICES ASSUME NEW listed \in BOOLEAN, listed = TRUE
                 PROVE  Resident(s, d, listed) = None <=> kept[d] = None
    BY Zenon
  <2>2. PICK x : x = Resident(s, d, listed)
    OBVIOUS
  <2> QED BY <1>2, <1>3, <2>2, ResidentOK
<1> HIDE DEF r, d, s
<1>5. CASE StoreRefuses(t, "internal_error")
  <2>1. Ends(t)
    BY <1>1, <1>5 DEF StoreRefuses, Set, Ends, StillBut
  <2> QED BY <1>1, <1>5, <2>1 DEF r, d, s
<1>6. CASE /\ Set(t, [job[t] EXCEPT !.left = @ \ {d},
                          !.found = @ \cup (IF r = None THEN {} ELSE {[at |-> d]})])
           /\ UNCHANGED answer
  <2> DEFINE found == job[t].found \cup (IF r = None THEN {} ELSE {[at |-> d]})
             left == job[t].left \ {d}
             j == [job[t] EXCEPT !.left = left, !.found = found]
  <2>1. found \in SUBSET Findings
    BY <1>2, <1>3, FindingsAre DEF Jobs
  <2>2. Set(t, j)
    BY <1>6
  <2>3. UNCHANGED <<kept, changes, answer, begun, registered, discarded>>
    BY <1>1, <1>6 DEF StillBut
  <2>4. /\ kept[d] = None \/ [at |-> d] \in found
        /\ \A f \in found : f \in job[t].found \/ f.at = d
    BY <1>4
  <2>8. left \in SUBSET Docs
    BY <1>3
  <2> HIDE DEF found, left
  <2>5. /\ j \in Jobs /\ j.phase = "each"
        /\ j.call = job[t].call /\ j.doc = job[t].doc /\ j.number = job[t].number
        /\ j.since = job[t].since /\ j.service = job[t].service
        /\ j.left = left /\ j.found = found /\ j.limit = job[t].limit
    BY <1>1, <1>2, <2>1, <2>8 DEF Jobs
  <2> HIDE DEF j
  <2>6. GoesOn(t) /\ job'[t] = j
    BY <1>1, <1>2, <2>2, <2>3, <2>5, MoveOK
  <2>7. job[t].found \subseteq found
    BY DEF found
  <2> QED BY <1>1, <2>4, <2>5, <2>6, <2>7 DEF r, d, s, left
<1> QED BY <1>5, <1>6 DEF ListNext, r, d, s

LEMMA InspectNextKind ==
    ASSUME Sound, NEW t \in Threads, InspectNext(t)
    PROVE  /\ GoesOn(t) /\ StillBut /\ UNCHANGED <<registered, held>>
           /\ job[t].phase = "each" /\ job[t].left # {} /\ job'[t].phase = "each"
           /\ job'[t].limit = job[t].limit
           /\ job'[t].left = job[t].left \ {Next1(job[t].left)}
           /\ job[t].found \subseteq job'[t].found
           /\ \A f \in job'[t].found : f \in job[t].found \/ f.at = Next1(job[t].left)
           /\ kept[Next1(job[t].left)] = None
                 \/ \E f \in job'[t].found : f.at = Next1(job[t].left)
<1> DEFINE d == Next1(job[t].left)
           entry == [at |-> d, is |-> Inspection(d, kept[d].bytes)]
           found == job[t].found \cup (IF kept[d] = None THEN {} ELSE {entry})
           left == job[t].left \ {d}
           j == [job[t] EXCEPT !.left = left, !.found = found]
<1>1. /\ StillBut /\ UNCHANGED <<registered, held>> /\ UNCHANGED answer
      /\ job[t].phase = "each" /\ job[t].left # {}
    BY DEF InspectNext, StillBut
<1>2. Typed /\ job[t] \in Jobs
    BY DEF Sound, Typed
<1>3. d \in Docs /\ left \in SUBSET Docs
    BY <1>1, NextSource
<1>4. kept[d] # None => kept[d].bytes \in StoredBytes
    BY <1>2, <1>3 DEF Typed, Versions, StoredBytes
<1>5. kept[d] # None => entry \in Findings /\ entry.at = d
    BY <1>3, <1>4, FindingsAre
<1>6. Set(t, j)
  <2>1. Set(t, [job[t] EXCEPT !.left = @ \ {d},
                  !.found = @ \cup (IF kept[d] = None THEN {}
                                    ELSE {[at |-> d, is |-> Inspection(d, kept[d].bytes)]})])
    BY DEF InspectNext
  <2> QED BY <2>1
<1> HIDE DEF d, entry
<1>7. found \in SUBSET Findings /\ job[t].found \subseteq found
    BY <1>2, <1>5 DEF Jobs
<1>8. /\ kept[d] = None \/ \E f \in found : f.at = d
      /\ \A f \in found : f \in job[t].found \/ f.at = d
    BY <1>5
<1> HIDE DEF found, left
<1>9. /\ j \in Jobs /\ j.phase = "each"
      /\ j.call = job[t].call /\ j.doc = job[t].doc /\ j.number = job[t].number
      /\ j.since = job[t].since /\ j.service = job[t].service
      /\ j.left = left /\ j.found = found /\ j.limit = job[t].limit
    BY <1>1, <1>2, <1>3, <1>7 DEF Jobs
<1>10. UNCHANGED <<kept, changes, answer, begun, registered, discarded>>
    BY <1>1 DEF StillBut
<1> HIDE DEF j
<1>11. GoesOn(t) /\ job'[t] = j
    BY <1>1, <1>2, <1>6, <1>9, <1>10, MoveOK
<1> QED BY <1>1, <1>7, <1>8, <1>9, <1>11 DEF d, left

(* The steps that end their call and read at most.                         *)
LEMMA EndingKind ==
    ASSUME NEW t \in Threads,
           \/ EndOfSources(t) \/ Verify(t) \/ AuditQuery(t) \/ Export(t) \/ Fail(t)
    PROVE  Ends(t) /\ StillBut /\ UNCHANGED <<registered, held>>
<1>1. CASE EndOfSources(t)
    BY <1>1 DEF EndOfSources, Done, Set, Ends, StillBut
<1>2. CASE Verify(t)
    BY <1>2 DEF Verify, Done, Set, Ends, StillBut
<1>3. CASE AuditQuery(t)
    BY <1>3 DEF AuditQuery, Done, Set, Ends, StillBut
<1>4. CASE Export(t)
  <2>1. \/ StoreRefuses(t, "not_found")
        \/ Done(t, kept[job[t].doc].bytes)
    BY <1>4 DEF Export
  <2>2. StillBut /\ UNCHANGED <<registered, held>> /\ job[t].phase # "idle"
    BY <1>4 DEF Export, StillBut
  <2> QED BY <2>1, <2>2, DoneEnds, RefusalEnds DEF StillBut
<1>5. CASE Fail(t)
    BY <1>5 DEF Fail, Set, Ends, StillBut
<1> QED BY <1>1, <1>2, <1>3, <1>4, <1>5

LEMMA GetKind ==
    ASSUME Sound, NEW t \in Threads, Get(t)
    PROVE  /\ Ends(t) /\ StillBut /\ UNCHANGED registered
           /\ job[t].phase = "read" /\ job[t].call = "get"
           /\ job[t].doc \in Docs /\ job[t].service \in Services /\ held[job[t].service] # None
           /\ Hold(job[t].service, job[t].doc, Resident(job[t].service, job[t].doc, FALSE))
<1> DEFINE r == Resident(job[t].service, job[t].doc, FALSE)
<1>1. /\ StillBut /\ UNCHANGED registered
      /\ job[t].phase = "read" /\ job[t].call = "get"
      /\ Hold(job[t].service, job[t].doc, r)
    BY DEF Get, StillBut
<1>2. \/ \E code : StoreRefuses(t, code)
      \/ Done(t, r.envelope)
  <2> HIDE DEF r
  <2> QED BY DEF Get, r
<1>3. /\ job[t].doc \in Docs /\ job[t].service \in Services
      /\ held[job[t].service] # None
    BY <1>1 DEF Sound, Placed, Naming, AllCalls, Wide, Reads
<1>4. Ends(t)
    BY <1>1, <1>2, DoneEnds, RefusalEnds DEF StillBut
<1> QED BY <1>1, <1>3, <1>4

LEMMA LookUpKind ==
    ASSUME Sound, NEW t \in Threads, LookUp(t)
    PROVE  /\ StillBut /\ UNCHANGED <<registered, held>> /\ job[t].phase = "look_up"
           /\ \/ Ends(t) /\ Done(t, registered)
              \/ GoesOn(t) /\ job'[t].phase = "insert" /\ job'[t].read = job[t].read
<1>1. /\ StillBut /\ UNCHANGED <<registered, held>> /\ job[t].phase = "look_up"
    BY DEF LookUp, StillBut
<1>2. CASE Done(t, registered)
    BY <1>1, <1>2 DEF Done, Set, Ends, StillBut
<1>3. CASE Set(t, [job[t] EXCEPT !.phase = "insert"]) /\ UNCHANGED answer
  <2> DEFINE j == [job[t] EXCEPT !.phase = "insert"]
  <2>1. Typed /\ job[t] \in Jobs
    BY DEF Sound, Typed
  <2>2. /\ j \in Jobs /\ j.phase = "insert" /\ j.read = job[t].read
        /\ j.call = job[t].call /\ j.doc = job[t].doc /\ j.number = job[t].number
        /\ j.since = job[t].since /\ j.service = job[t].service
    BY <2>1, PhasesAre DEF Jobs
  <2>3. UNCHANGED <<kept, changes, answer, begun, registered, discarded>> /\ Set(t, j)
    BY <1>1, <1>3 DEF StillBut
  <2> HIDE DEF j
  <2>4. GoesOn(t) /\ job'[t] = j
    BY <1>1, <2>1, <2>2, <2>3, MoveOK
  <2> QED BY <1>1, <2>2, <2>4
<1> QED BY <1>2, <1>3 DEF LookUp

LEMMA InsertKind ==
    ASSUME NEW t \in Threads, Insert(t)
    PROVE  /\ Ends(t) /\ StillBut /\ job[t].phase = "insert"
           /\ \/ UNCHANGED <<registered, held>>
              \/ Make(NextService)
BY DEF Insert, Done, Set, Ends, StillBut

(* The record a recovery leaves before it does anything.                   *)
RecordOf(t) ==
    [number |-> job[t].number, at |-> job[t].at, action |-> job[t].call,
     doc |-> IF job[t].call = "reindex" THEN None ELSE job[t].doc,
     destructive |-> job[t].call = "reset"]

LEMMA AuditKind ==
    ASSUME Sound, NEW t \in Threads, Audit(t)
    PROVE  /\ GoesOn(t) /\ StillBut /\ UNCHANGED <<registered, held>>
           /\ job[t].phase = "audit" /\ job[t].call \in Recoveries
           /\ job'[t].phase = "append" /\ job'[t].at = begun /\ job'[t].found = job[t].found
<1> DEFINE j == [job[t] EXCEPT !.phase = "append", !.at = begun]
<1>1. /\ StillBut /\ UNCHANGED <<registered, held, answer>> /\ job[t].phase = "audit" /\ Set(t, j)
    BY DEF Audit, StillBut
<1>2. Typed /\ job[t] \in Jobs /\ begun \in Nat /\ job[t].call \in Recoveries
    BY <1>1 DEF Sound, Typed, Placed
<1>3. /\ j \in Jobs /\ j.phase = "append" /\ j.at = begun /\ j.found = job[t].found
      /\ j.call = job[t].call /\ j.doc = job[t].doc /\ j.number = job[t].number
      /\ j.since = job[t].since /\ j.service = job[t].service
    BY <1>2, PhasesAre DEF Jobs
<1> HIDE DEF j
<1>4. UNCHANGED <<kept, changes, answer, begun, registered, discarded>>
    BY <1>1 DEF StillBut
<1>5. GoesOn(t) /\ job'[t] = j
    BY <1>1, <1>2, <1>3, <1>4, MoveOK
<1> QED BY <1>1, <1>2, <1>3, <1>5

LEMMA AppendAuditKind ==
    ASSUME Sound, NEW t \in Threads, AppendAudit(t)
    PROVE  /\ GoesOn(t) /\ UNCHANGED <<kept, evidence, begun, changes, discarded, registered, held>>
           /\ job[t].phase = "append" /\ job[t].call \in Recoveries
           /\ job'[t].phase = IF job[t].call = "reindex" THEN "sources" ELSE "read"
           /\ job'[t].found = job[t].found
           /\ RecordOf(t) \in AuditRecords /\ audit' = Append(audit, RecordOf(t))
<1> DEFINE phase == IF job[t].call = "reindex" THEN "sources" ELSE "read"
           j == [job[t] EXCEPT !.phase = phase]
<1>1. /\ UNCHANGED <<kept, evidence, begun, changes, discarded, registered, held, answer>>
      /\ job[t].phase = "append" /\ audit' = Append(audit, RecordOf(t)) /\ Set(t, j)
    BY DEF AppendAudit, RecordOf
<1>2. /\ Typed /\ job[t] \in Jobs
      /\ job[t].call \in Recoveries /\ job[t].call \in AllCalls
      /\ job[t].call # "reindex" => job[t].doc \in Docs
    BY <1>1 DEF Sound, Typed, Placed, Recoveries, Naming, Wide
<1>3. RecordOf(t) \in AuditRecords
    BY <1>2 DEF RecordOf, AuditRecords, Jobs
<1>4. phase \in Phases \ {"idle"}
    BY PhasesAre
<1> HIDE DEF phase
<1>6. /\ j \in Jobs /\ j.phase = phase /\ j.found = job[t].found
      /\ j.call = job[t].call /\ j.doc = job[t].doc /\ j.number = job[t].number
      /\ j.since = job[t].since /\ j.service = job[t].service
    BY <1>2, <1>4 DEF Jobs
<1> HIDE DEF j
<1>7. UNCHANGED <<kept, changes, answer, begun, registered, discarded>>
    BY <1>1
<1>8. GoesOn(t) /\ job'[t] = j
    BY <1>1, <1>2, <1>4, <1>6, <1>7, MoveOK
<1> QED BY <1>1, <1>2, <1>3, <1>6, <1>8 DEF phase

(* A recovery that read something goes on to its next phase with it.       *)
LEMMA ReadOn ==
    ASSUME Sound, NEW t \in Threads, job[t].phase = "read", job[t].doc \in Docs,
           kept[job[t].doc] # None, NEW phase \in Phases \ {"idle"},
           Set(t, [job[t] EXCEPT !.phase = phase, !.read = kept[job[t].doc]]),
           UNCHANGED <<kept, changes, answer, begun, registered, discarded>>
    PROVE  /\ GoesOn(t) /\ job'[t].phase = phase
           /\ job'[t].read = kept[job[t].doc] /\ job'[t].read \in Versions
<1> DEFINE j == [job[t] EXCEPT !.phase = phase, !.read = kept[job[t].doc]]
<1>1. Typed /\ job[t] \in Jobs /\ kept[job[t].doc] \in Versions
    BY DEF Sound, Typed
<1>2. /\ j \in Jobs /\ j.phase = phase /\ j.read = kept[job[t].doc]
      /\ j.call = job[t].call /\ j.doc = job[t].doc /\ j.number = job[t].number
      /\ j.since = job[t].since /\ j.service = job[t].service
    BY <1>1 DEF Jobs
<1> HIDE DEF j
<1>3. Set(t, j)
    BY DEF j
<1>4. GoesOn(t) /\ job'[t] = j
    BY <1>1, <1>2, <1>3, MoveOK
<1> QED BY <1>1, <1>2, <1>4

LEMMA ReadDoc ==
    ASSUME Sound, NEW t \in Threads, job[t].phase = "read"
    PROVE  /\ job[t].doc \in Docs /\ job[t].call \in Naming
           /\ job[t].service \in Services /\ held[job[t].service] # None
BY DEF Sound, Placed

LEMMA ReadToQuarantineKind ==
    ASSUME Sound, NEW t \in Threads, ReadToQuarantine(t)
    PROVE  /\ StillBut /\ UNCHANGED <<registered, held>>
           /\ job[t].phase = "read" /\ job[t].call = "quarantine"
           /\ \/ Ends(t) /\ StoreRefuses(t, "not_found")
              \/ /\ GoesOn(t) /\ job'[t].phase = "preserve"
                 /\ job'[t].read = kept[job[t].doc] /\ job'[t].read \in Versions
<1>1. /\ StillBut /\ UNCHANGED <<registered, held>>
      /\ job[t].phase = "read" /\ job[t].call = "quarantine"
    BY DEF ReadToQuarantine, StillBut
<1>2. CASE kept[job[t].doc] = None
    BY <1>1, <1>2, RefusalEnds DEF ReadToQuarantine, StillBut
<1>3. CASE kept[job[t].doc] # None
  <2>1. /\ Set(t, [job[t] EXCEPT !.phase = "preserve", !.read = kept[job[t].doc]])
        /\ UNCHANGED answer
    BY <1>3 DEF ReadToQuarantine
  <2> QED BY <1>1, <1>3, <2>1, ReadDoc, ReadOn, PhasesAre DEF StillBut
<1> QED BY <1>2, <1>3

(* A repair reads an envelope with a sound checkpoint, or is refused for   *)
(* the lack of one.                                                        *)
LEMMA ReadToRepairKind ==
    ASSUME Sound, NEW t \in Threads, ReadToRepair(t)
    PROVE  /\ StillBut /\ UNCHANGED <<registered, held>>
           /\ job[t].phase = "read" /\ job[t].call = "repair" /\ job[t].doc \in Docs
           /\ \/ Ends(t) /\ StoreRefuses(t, "not_found")
              \/ /\ Ends(t) /\ StoreRefuses(t, "collaboration_state_corrupt")
                 /\ kept[job[t].doc] # None
                 /\ ~(Decodes(kept[job[t].doc].bytes) /\ kept[job[t].doc].bytes.sound)
              \/ /\ GoesOn(t) /\ job'[t].phase = "preserve"
                 /\ job'[t].read = kept[job[t].doc] /\ job'[t].read \in Versions
                 /\ job'[t].read.bytes \in Envelopes
<1> DEFINE stored == kept[job[t].doc]
<1>1. /\ StillBut /\ UNCHANGED <<registered, held>>
      /\ job[t].phase = "read" /\ job[t].call = "repair" /\ job[t].doc \in Docs
    BY ReadDoc DEF ReadToRepair, StillBut
<1>2. CASE stored = None
  <2>1. StoreRefuses(t, "not_found")
    BY <1>2 DEF ReadToRepair
  <2> QED BY <1>1, <2>1, RefusalEnds DEF StillBut
<1>3. CASE stored # None /\ ~(Decodes(stored.bytes) /\ stored.bytes.sound)
  <2>1. StoreRefuses(t, "collaboration_state_corrupt")
    BY <1>3 DEF ReadToRepair
  <2> QED BY <1>1, <1>3, <2>1, RefusalEnds DEF StillBut
<1>4. CASE stored # None /\ Decodes(stored.bytes) /\ stored.bytes.sound
  <2>1. /\ Set(t, [job[t] EXCEPT !.phase = "preserve", !.read = stored])
        /\ UNCHANGED answer
    BY <1>4 DEF ReadToRepair
  <2>2. stored \in Versions /\ stored.bytes \in Envelopes
    BY <1>1, <1>4 DEF Sound, Typed, Versions, Decodes
  <2> QED BY <1>1, <1>4, <2>1, <2>2, ReadOn, PhasesAre DEF StillBut
<1> QED BY <1>2, <1>3, <1>4

(* What a recovery preserves is what it read.                              *)
Evidence(t) == [number |-> job[t].number, doc |-> job[t].doc, bytes |-> job[t].read.bytes]

LEMMA PreserveKind ==
    ASSUME Sound, NEW t \in Threads, Preserve(t)
    PROVE  /\ UNCHANGED <<kept, audit, begun, changes, discarded, registered, held>>
           /\ job[t].phase = "preserve" /\ job[t].doc \in Docs
           /\ job[t].read \in Versions /\ job[t].read.bytes \in StoredBytes
           /\ Evidence(t) \in [number: Nat, doc: Docs, bytes: StoredBytes]
           /\ evidence' = evidence \cup {Evidence(t)}
           /\ \/ Ends(t) /\ Done(t, None) /\ job[t].call = "quarantine"
              \/ /\ GoesOn(t) /\ job[t].call = "repair" /\ job'[t].phase = "swap"
                 /\ job'[t].read = job[t].read
<1>1. /\ UNCHANGED <<kept, audit, begun, changes, discarded, registered, held>>
      /\ job[t].phase = "preserve" /\ evidence' = evidence \cup {Evidence(t)}
    BY DEF Preserve, Evidence, Preserved
<1>2. Typed /\ job[t] \in Jobs /\ job[t].call \in {"quarantine", "repair"} /\ job[t].read # None
    BY <1>1 DEF Sound, Typed, Placed
<1>3. job[t].doc \in Docs /\ job[t].read \in Versions /\ job[t].number \in Nat
    BY <1>1, <1>2 DEF Sound, Placed, Jobs, Naming, AllCalls, Wide, Recoveries
<1>4. job[t].read.bytes \in StoredBytes
    BY <1>3 DEF Versions, StoredBytes
<1>5. Evidence(t) \in [number: Nat, doc: Docs, bytes: StoredBytes]
    BY <1>3, <1>4 DEF Evidence
<1>6. CASE job[t].call = "quarantine" /\ Done(t, None)
    BY <1>1, <1>3, <1>4, <1>5, <1>6, DoneEnds
<1>7. CASE job[t].call = "repair" /\ Set(t, [job[t] EXCEPT !.phase = "swap"]) /\ UNCHANGED answer
  <2> DEFINE j == [job[t] EXCEPT !.phase = "swap"]
  <2>1. /\ j \in Jobs /\ j.phase = "swap" /\ j.read = job[t].read
        /\ j.call = job[t].call /\ j.doc = job[t].doc /\ j.number = job[t].number
        /\ j.since = job[t].since /\ j.service = job[t].service
    BY <1>2, PhasesAre DEF Jobs
  <2>2. Set(t, j)
    BY <1>7
  <2> HIDE DEF j
  <2>3. UNCHANGED <<kept, changes, answer, begun, registered, discarded>>
    BY <1>1, <1>7
  <2>4. GoesOn(t) /\ job'[t] = j
    BY <1>1, <1>2, <2>1, <2>2, <2>3, MoveOK
  <2> QED BY <1>1, <1>3, <1>4, <1>5, <1>7, <2>1, <2>4
<1> QED BY <1>6, <1>7 DEF Preserve

LEMMA ReadToResetKind ==
    ASSUME Sound, NEW t \in Threads, ReadToReset(t)
    PROVE  /\ StillBut /\ UNCHANGED <<registered, held>>
           /\ job[t].phase = "read" /\ job[t].call = "reset" /\ job[t].doc \in Docs
           /\ \/ Ends(t) /\ Done(t, None) /\ kept[job[t].doc] = None
              \/ /\ GoesOn(t) /\ job'[t].phase = "remove"
                 /\ job'[t].read = kept[job[t].doc] /\ job'[t].read \in Versions
<1>1. /\ StillBut /\ UNCHANGED <<registered, held>>
      /\ job[t].phase = "read" /\ job[t].call = "reset" /\ job[t].doc \in Docs
    BY ReadDoc DEF ReadToReset, StillBut
<1>2. CASE kept[job[t].doc] = None
  <2>1. Done(t, None)
    BY <1>2 DEF ReadToReset
  <2> QED BY <1>1, <1>2, <2>1, DoneEnds DEF StillBut
<1>3. CASE kept[job[t].doc] # None
  <2>1. /\ Set(t, [job[t] EXCEPT !.phase = "remove", !.read = kept[job[t].doc]])
        /\ UNCHANGED answer
    BY <1>3 DEF ReadToReset
  <2> QED BY <1>1, <1>3, <2>1, ReadOn, PhasesAre DEF StillBut
<1> QED BY <1>2, <1>3

(* What is stored is removed, or what was read is not stored any more.     *)
LEMMA RemoveKind ==
    ASSUME Sound, NEW t \in Threads, Remove(t)
    PROVE  /\ UNCHANGED <<evidence, audit, registered, begun, discarded>>
           /\ job[t].phase = "remove" /\ job[t].call = "reset"
           /\ job[t].doc \in Docs /\ job[t].service \in Services /\ held[job[t].service] # None
           /\ job[t].read \in Versions
           /\ \/ /\ Ends(t) /\ Done(t, None) /\ kept[job[t].doc] = job[t].read
                 /\ Change(t, job[t].doc, "reset", None)
                 /\ held' = [held EXCEPT ![job[t].service][job[t].doc] = None]
              \/ /\ GoesOn(t) /\ Quiet /\ UNCHANGED held
                 /\ job'[t].phase = "read" /\ job'[t].read = job[t].read
<1>1. /\ UNCHANGED <<evidence, audit, registered, begun, discarded>>
      /\ job[t].phase = "remove"
    BY DEF Remove
<1>2. Typed /\ job[t] \in Jobs /\ Placed(job[t])
    BY DEF Sound, Typed
<1>3. /\ job[t].call = "reset" /\ job[t].read \in Versions
      /\ job[t].doc \in Docs /\ job[t].service \in Services /\ held[job[t].service] # None
    BY <1>1, <1>2 DEF Placed, Jobs, Naming, AllCalls, Wide, Recoveries
<1>4. CASE /\ kept[job[t].doc] = job[t].read
           /\ Change(t, job[t].doc, "reset", None)
           /\ held' = [held EXCEPT ![job[t].service][job[t].doc] = None]
           /\ Done(t, None)
    BY <1>1, <1>3, <1>4, DoneEnds
<1>5. CASE TryAgain(t) /\ UNCHANGED <<kept, changes, held>>
  <2> DEFINE j == [job[t] EXCEPT !.phase = "read"]
  <2>1. /\ j \in Jobs /\ j.phase = "read" /\ j.read = job[t].read
        /\ j.call = job[t].call /\ j.doc = job[t].doc /\ j.number = job[t].number
        /\ j.since = job[t].since /\ j.service = job[t].service
    BY <1>2, PhasesAre DEF Jobs
  <2>2. Set(t, j) /\ UNCHANGED answer
    BY <1>5 DEF TryAgain
  <2> HIDE DEF j
  <2>3. UNCHANGED <<kept, changes, answer, begun, registered, discarded>>
    BY <1>1, <1>5, <2>2
  <2>4. GoesOn(t) /\ job'[t] = j
    BY <1>1, <1>2, <2>1, <2>2, <2>3, MoveOK
  <2> QED BY <1>1, <1>3, <1>5, <2>1, <2>4 DEF Quiet
<1> QED BY <1>4, <1>5 DEF Remove

(* A commit stores what follows on what it read, which is what is stored.  *)
CommitNext(t) ==
    Committed(job[t].doc, IF job[t].read = None THEN None ELSE job[t].read.bytes, job[t].number)

LEMMA SwapCommitKind ==
    ASSUME Sound, NEW t \in Threads, SwapCommit(t)
    PROVE  /\ UNCHANGED <<evidence, audit, registered, begun, discarded>> /\ Ends(t)
           /\ job[t].phase = "swap" /\ job[t].call = "commit"
           /\ job[t].doc \in Docs /\ job[t].service \in Services /\ held[job[t].service] # None
           /\ job[t].read \in Versions \cup {None}
           /\ job[t].read # None => job[t].read.bytes \in Envelopes /\ Whole(job[t].read.bytes)
           /\ CommitNext(t) \in Envelopes /\ Valid(job[t].doc, CommitNext(t))
           /\ \/ /\ kept[job[t].doc] = job[t].read
                 /\ SwapIn(t, job[t].doc, "commit", CommitNext(t))
                 /\ Done(t, CommitNext(t))
              \/ /\ kept[job[t].doc] # job[t].read
                 /\ StoreRefuses(t, "collaboration_commit_contended")
                 /\ Quiet /\ UNCHANGED held
<1> DEFINE current == IF job[t].found = {} THEN None ELSE CHOOSE e \in job[t].found : TRUE
<1>1. /\ UNCHANGED <<evidence, audit, registered, begun, discarded>>
      /\ job[t].phase = "swap" /\ job[t].call = "commit"
    BY DEF SwapCommit
<1>2. Typed /\ job[t] \in Jobs /\ Placed(job[t])
    BY DEF Sound, Typed
<1>3. /\ job[t].doc \in Docs /\ job[t].service \in Services /\ held[job[t].service] # None
      /\ job[t].read \in Versions \cup {None} /\ job[t].number \in Nat
    BY <1>1, <1>2 DEF Placed, Jobs, Naming, AllCalls, Wide
<1>4. \/ job[t].read = None /\ job[t].found = {}
      \/ /\ job[t].read # None /\ job[t].read.bytes \in Envelopes /\ Whole(job[t].read.bytes)
         /\ job[t].found = {job[t].read.bytes}
    BY <1>1, <1>2 DEF Placed
<1>5. current = IF job[t].read = None THEN None ELSE job[t].read.bytes
    BY <1>4
<1>6. Committed(job[t].doc, current, job[t].number) = CommitNext(t)
    BY <1>5 DEF CommitNext
<1>7. CommitNext(t) \in Envelopes /\ Valid(job[t].doc, CommitNext(t))
    BY <1>3, <1>4, CommittedOK DEF CommitNext
<1>8. \/ /\ kept[job[t].doc] = job[t].read
         /\ SwapIn(t, job[t].doc, "commit", CommitNext(t))
         /\ Done(t, CommitNext(t))
      \/ /\ kept[job[t].doc] # job[t].read
         /\ StoreRefuses(t, "collaboration_commit_contended")
         /\ UNCHANGED <<kept, changes, held>>
    BY <1>6 DEF SwapCommit, StillKept
<1>9. Ends(t)
    BY <1>1, <1>8, DoneEnds, RefusalEnds
<1> QED BY <1>1, <1>3, <1>4, <1>7, <1>8, <1>9 DEF Quiet

LEMMA SwapRepairedKind ==
    ASSUME Sound, NEW t \in Threads, SwapRepaired(t)
    PROVE  LET next == Repaired(job[t].read.bytes)
           IN /\ UNCHANGED <<evidence, audit, registered, begun, discarded>> /\ Ends(t)
              /\ job[t].phase = "swap" /\ job[t].call = "repair"
              /\ job[t].doc \in Docs /\ job[t].service \in Services
              /\ held[job[t].service] # None
              /\ job[t].read \in Versions /\ job[t].read.bytes \in Envelopes
              /\ next \in Envelopes
              /\ \/ /\ ~Valid(job[t].doc, next)
                    /\ StoreRefuses(t, "collaboration_state_corrupt")
                    /\ Quiet /\ UNCHANGED held
                 \/ /\ Valid(job[t].doc, next) /\ kept[job[t].doc] = job[t].read
                    /\ SwapIn(t, job[t].doc, "repair", next)
                    /\ Done(t, next)
                 \/ /\ Valid(job[t].doc, next) /\ kept[job[t].doc] # job[t].read
                    /\ StoreRefuses(t, "collaboration_repair_contended")
                    /\ Quiet /\ UNCHANGED held
<1> DEFINE next == Repaired(job[t].read.bytes)
<1>1. /\ UNCHANGED <<evidence, audit, registered, begun, discarded>>
      /\ job[t].phase = "swap" /\ job[t].call = "repair"
    BY DEF SwapRepaired
<1>2. Typed /\ job[t] \in Jobs /\ Placed(job[t])
    BY DEF Sound, Typed
<1>3. /\ job[t].doc \in Docs /\ job[t].service \in Services /\ held[job[t].service] # None
      /\ job[t].read \in Versions /\ job[t].read.bytes \in Envelopes
    BY <1>1, <1>2 DEF Placed, Jobs, Naming, AllCalls, Wide, Recoveries
<1>4. next \in Envelopes
    BY <1>3, RepairedOK
<1> HIDE DEF next
<1>5. \/ /\ ~Valid(job[t].doc, next)
         /\ StoreRefuses(t, "collaboration_state_corrupt")
         /\ UNCHANGED <<kept, changes, held>>
      \/ /\ Valid(job[t].doc, next) /\ kept[job[t].doc] = job[t].read
         /\ SwapIn(t, job[t].doc, "repair", next)
         /\ Done(t, next)
      \/ /\ Valid(job[t].doc, next) /\ kept[job[t].doc] # job[t].read
         /\ StoreRefuses(t, "collaboration_repair_contended")
         /\ UNCHANGED <<kept, changes, held>>
    BY DEF SwapRepaired, StillKept, next
<1>6. Ends(t)
    BY <1>1, <1>5, DoneEnds, RefusalEnds
<1> QED BY <1>1, <1>3, <1>4, <1>5, <1>6 DEF Quiet, next

(* Damage is to an envelope of the document's, and leaves none.            *)
LEMMA DamageKind ==
    ASSUME Sound, NEW d \in Targets, NEW fault \in Faults, Damage(d, fault)
    PROVE  /\ UNCHANGED <<evidence, audit, registered, held, job, answer, begun, discarded>>
           /\ d \in Docs
           /\ \E bytes \in StoredBytes :
                 /\ ~(Decodes(bytes) /\ Valid(d, bytes))
                 /\ Change(None, d, "fault", bytes)
<1>1. /\ UNCHANGED <<evidence, audit, registered, held, job, answer, begun, discarded>>
      /\ d \in Docs
    BY DocsAssumption DEF Damage
<1>2. kept[d] # None /\ Decodes(kept[d].bytes) /\ Valid(d, kept[d].bytes)
    BY DEF Damage
<1>3. kept[d].bytes \in Envelopes
    BY <1>1, <1>2 DEF Sound, Typed, Versions, Decodes
<1>4. fault \in {"operation", "window"} => kept[d].bytes.retained # <<>>
    BY DEF Damage
<1>5. /\ Damaged(kept[d].bytes, fault, d) \in StoredBytes
      /\ ~ /\ Decodes(Damaged(kept[d].bytes, fault, d))
           /\ Valid(d, Damaged(kept[d].bytes, fault, d))
    BY <1>1, <1>2, <1>3, <1>4, DamagedOK
<1>6. Change(None, d, "fault", Damaged(kept[d].bytes, fault, d))
    BY DEF Damage
<1> QED BY <1>1, <1>5, <1>6

(* The steps of the set of stores and of the audit's retention.            *)
Outside ==
    \/ Register \/ Forget
    \/ \E cutoff \in 2..MaxCalls : DiscardAudit(cutoff)

LEMMA OutsideKind ==
    ASSUME Outside
    PROVE  UNCHANGED <<kept, evidence, job, answer, begun, changes>>
BY DEF Outside, Register, Forget, DiscardAudit

(* Every step is of one of these kinds.                                    *)
LEMMA StepKinds ==
    ASSUME Sound, [Next]_vars
    PROVE  \/ UNCHANGED vars
           \/ \E t \in Threads : Arrives(t) \/ TurnedAway(t) \/ Works(t)
           \/ Outside
           \/ DamageDone
<1>1. CASE \E t \in Threads : Step(t)
  <2>1. PICK t \in Threads : Step(t)
    BY <1>1
  <2>2. BeginSome(t) \/ Works(t)
    BY <2>1 DEF Step, Works
  <2> QED BY <2>2, BeginKind
<1> QED BY <1>1 DEF Next, Outside, DamageDone

LEMMA WorksKinds ==
    ASSUME Sound, NEW t \in Threads, Works(t)
    PROVE  /\ GoesOn(t) \/ Ends(t)
           /\ begun' = begun /\ discarded' = discarded
           /\ audit' = audit \/ AppendAudit(t)
           /\ evidence' = evidence \/ Preserve(t)
           /\ Quiet \/ CommitStored(t) \/ RepairStored(t) \/ Removed(t)
<1>1. CASE LookUp(t)
    BY <1>1, LookUpKind DEF StillBut, Quiet
<1>2. CASE Insert(t)
    BY <1>2, InsertKind DEF StillBut, Quiet
<1>3. CASE Get(t)
    BY <1>3, GetKind DEF StillBut, Quiet
<1>4. CASE ReadToCommit(t)
    BY <1>4, ReadToCommitKind DEF StillBut, Quiet
<1>5. CASE SwapCommit(t)
    BY <1>5, SwapCommitKind DEF CommitStored
<1>6. CASE Sources(t)
    BY <1>6, SourcesKind DEF StillBut, Quiet
<1>7. CASE ListNext(t)
    BY <1>7, ListNextKind DEF StillBut, Quiet
<1>8. CASE InspectNext(t)
    BY <1>8, InspectNextKind DEF StillBut, Quiet
<1>9. CASE EndOfSources(t) \/ Verify(t) \/ AuditQuery(t) \/ Export(t) \/ Fail(t)
    BY <1>9, EndingKind DEF StillBut, Quiet
<1>10. CASE Audit(t)
    BY <1>10, AuditKind DEF StillBut, Quiet
<1>17. CASE AppendAudit(t)
    BY <1>17, AppendAuditKind DEF Quiet
<1>11. CASE ReadToQuarantine(t)
    BY <1>11, ReadToQuarantineKind DEF StillBut, Quiet
<1>12. CASE ReadToRepair(t)
    BY <1>12, ReadToRepairKind DEF StillBut, Quiet
<1>13. CASE Preserve(t)
    BY <1>13, PreserveKind DEF Quiet
<1>14. CASE SwapRepaired(t)
    BY <1>14, SwapRepairedKind DEF RepairStored
<1>15. CASE ReadToReset(t)
    BY <1>15, ReadToResetKind DEF StillBut, Quiet
<1>16. CASE Remove(t)
    BY <1>16, RemoveKind DEF Removed
<1> QED BY <1>1, <1>2, <1>3, <1>4, <1>5, <1>6, <1>7, <1>8, <1>9, <1>10, <1>11, <1>12, <1>13,
           <1>14, <1>15, <1>16, <1>17 DEF Works

(* The four kinds of change.                                               *)
LEMMA CommitChanges ==
    ASSUME Sound, NEW t \in Threads, CommitStored(t)
    PROVE  /\ job[t].number \in Nat /\ job[t].doc \in Docs
           /\ kept[job[t].doc] = job[t].read
           /\ CommitNext(t) \in Envelopes /\ CommitNext(t) \in StoredBytes
           /\ Valid(job[t].doc, CommitNext(t)) /\ CommitNext(t) # None
           /\ job[t].read # None => job[t].read.bytes \in Envelopes /\ Whole(job[t].read.bytes)
           /\ Changed(job[t].doc, "commit", job[t].number, CommitNext(t))
           /\ held' = [held EXCEPT ![job[t].service][job[t].doc] =
                          [version |-> Len(changes) + 1, envelope |-> CommitNext(t)]]
           /\ Ends(t) /\ Done(t, CommitNext(t))
<1>1. SwapCommit(t) /\ kept[job[t].doc] = job[t].read
    BY DEF CommitStored
<1>2. /\ Ends(t) /\ job[t].doc \in Docs
      /\ job[t].read # None => job[t].read.bytes \in Envelopes /\ Whole(job[t].read.bytes)
      /\ CommitNext(t) \in Envelopes /\ Valid(job[t].doc, CommitNext(t))
      /\ SwapIn(t, job[t].doc, "commit", CommitNext(t))
      /\ Done(t, CommitNext(t))
    BY <1>1, SwapCommitKind
<1>3. Typed /\ job[t].number \in Nat /\ t # None
    BY MarksAssumption DEF Sound, Typed, Jobs
<1>4. CommitNext(t) # None /\ CommitNext(t) \in StoredBytes
    BY <1>2, MarksAssumption DEF StoredBytes
<1>5. Change(t, job[t].doc, "commit", CommitNext(t))
    BY <1>2 DEF SwapIn
<1>6. Changed(job[t].doc, "commit", job[t].number, CommitNext(t))
    BY <1>2, <1>3, <1>4, <1>5, ChangeOK
<1> QED BY <1>1, <1>2, <1>3, <1>4, <1>6 DEF SwapIn

LEMMA RepairChanges ==
    ASSUME Sound, NEW t \in Threads, RepairStored(t)
    PROVE  LET next == Repaired(job[t].read.bytes)
           IN /\ job[t].number \in Nat /\ job[t].doc \in Docs
              /\ job[t].phase = "swap" /\ job[t].call = "repair"
              /\ kept[job[t].doc] = job[t].read /\ job[t].read \in Versions
              /\ job[t].read # None
              /\ job[t].read.bytes \in Envelopes
              /\ next \in Envelopes /\ next \in StoredBytes /\ next # None
              /\ Valid(job[t].doc, next)
              /\ Changed(job[t].doc, "repair", job[t].number, next)
              /\ held' = [held EXCEPT ![job[t].service][job[t].doc] =
                             [version |-> Len(changes) + 1, envelope |-> next]]
              /\ Ends(t) /\ Done(t, next)
<1> DEFINE next == Repaired(job[t].read.bytes)
<1>1. SwapRepaired(t) /\ kept[job[t].doc] = job[t].read /\ Valid(job[t].doc, next)
    BY DEF RepairStored
<1>2. /\ Ends(t) /\ job[t].doc \in Docs
      /\ job[t].phase = "swap" /\ job[t].call = "repair"
      /\ job[t].read \in Versions /\ job[t].read.bytes \in Envelopes
      /\ next \in Envelopes
      /\ SwapIn(t, job[t].doc, "repair", next)
      /\ Done(t, next)
    BY <1>1, SwapRepairedKind
<1> HIDE DEF next
<1>3. Typed /\ job[t].number \in Nat /\ t # None
    BY MarksAssumption DEF Sound, Typed, Jobs
<1>4. next # None /\ next \in StoredBytes /\ job[t].read # None
    BY <1>2, MarksAssumption DEF StoredBytes
<1>5. Change(t, job[t].doc, "repair", next)
    BY <1>2 DEF SwapIn
<1>6. Changed(job[t].doc, "repair", job[t].number, next)
    BY <1>2, <1>3, <1>4, <1>5, ChangeOK
<1> QED BY <1>1, <1>2, <1>3, <1>4, <1>6 DEF SwapIn, next

LEMMA RemoveChanges ==
    ASSUME Sound, NEW t \in Threads, Removed(t)
    PROVE  /\ job[t].number \in Nat /\ job[t].doc \in Docs
           /\ job[t].phase = "remove" /\ job[t].call = "reset"
           /\ kept[job[t].doc] = job[t].read /\ job[t].read # None
           /\ Changed(job[t].doc, "reset", job[t].number, None)
           /\ job[t].service \in Services /\ held[job[t].service] # None
           /\ held' = [held EXCEPT ![job[t].service][job[t].doc] = None]
           /\ Ends(t) /\ Done(t, None)
<1>1. Remove(t) /\ kept[job[t].doc] = job[t].read
    BY DEF Removed
<1>2. job[t].phase = "remove" /\ job[t].phase # "idle"
    BY <1>1 DEF Remove
<1>3. Typed /\ job[t].number \in Nat /\ t # None
    BY MarksAssumption DEF Sound, Typed, Jobs
<1>4. /\ Change(t, job[t].doc, "reset", None)
      /\ held' = [held EXCEPT ![job[t].service][job[t].doc] = None]
      /\ Done(t, None)
    BY <1>1 DEF Remove
<1>5. /\ job[t].doc \in Docs /\ job[t].call = "reset" /\ job[t].read \in Versions
      /\ job[t].service \in Services /\ held[job[t].service] # None
      /\ UNCHANGED <<begun, audit, discarded>>
    BY <1>1, RemoveKind
<1>6. Changed(job[t].doc, "reset", job[t].number, None)
    BY <1>3, <1>4, <1>5, ChangeOK
<1>7. Ends(t)
    BY <1>2, <1>4, <1>5, DoneEnds
<1> QED BY <1>1, <1>2, <1>3, <1>4, <1>5, <1>6, <1>7, MarksAssumption

LEMMA DamageChanges ==
    ASSUME Sound, DamageDone
    PROVE  /\ UNCHANGED <<evidence, audit, registered, held, job, answer, begun, discarded>>
           /\ \E d \in Docs, bytes \in StoredBytes :
                 /\ ~(Decodes(bytes) /\ Valid(d, bytes)) /\ bytes # None
                 /\ Changed(d, "fault", 0, bytes)
<1>1. PICK d \in Targets, fault \in Faults : Damage(d, fault)
    BY DEF DamageDone
<1>2. PICK bytes \in StoredBytes :
          ~(Decodes(bytes) /\ Valid(d, bytes)) /\ Change(None, d, "fault", bytes)
    BY <1>1, DamageKind
<1>3. d \in Docs /\ UNCHANGED <<evidence, audit, registered, held, job, answer, begun, discarded>>
    BY <1>1, DamageKind
<1>4. Changed(d, "fault", 0, bytes)
    BY <1>2, <1>3, ChangeOK DEF Sound
<1>5. bytes # None
    BY MarksAssumption DEF StoredBytes
<1> QED BY <1>2, <1>3, <1>4, <1>5

(* What is stored stays as it is, or changes in one document.              *)
LEMMA ChangeKinds ==
    ASSUME Sound, [Next]_vars
    PROVE  \/ Quiet
           \/ DamageDone
           \/ \E t \in Threads : CommitStored(t) \/ RepairStored(t) \/ Removed(t)
<1>1. CASE \E t \in Threads : Arrives(t) \/ TurnedAway(t)
    BY <1>1 DEF Arrives, TurnedAway, Turned, Quiet
<1>2. CASE \E t \in Threads : Works(t)
    BY <1>2, WorksKinds
<1>3. CASE Outside \/ UNCHANGED vars
    BY <1>3, OutsideKind DEF vars, Quiet
<1> QED BY <1>1, <1>2, <1>3, StepKinds

LEMMA SomeChange ==
    ASSUME Sound, [Next]_vars
    PROVE  \/ Quiet
           \/ \E d \in Docs, by \in {"commit", "repair", "reset", "fault"}, number \in Nat,
                 bytes \in StoredBytes \cup {None} : Changed(d, by, number, bytes)
<1>1. CASE \E t \in Threads : CommitStored(t)
    BY <1>1, CommitChanges
<1>2. CASE \E t \in Threads : RepairStored(t)
    BY <1>2, RepairChanges
<1>3. CASE \E t \in Threads : Removed(t)
    BY <1>3, RemoveChanges
<1>4. CASE DamageDone
    BY <1>4, DamageChanges
<1> QED BY <1>1, <1>2, <1>3, <1>4, ChangeKinds

-----------------------------------------------------------------------------
(* What services hold changes as what is stored does.                      *)

(* What is held of d fits what is stored of it after the step.             *)
Fits(d, x) ==
    \/ x = None
    \/ /\ kept'[d] # None /\ x.version = kept'[d].version
       /\ x.envelope = kept'[d].bytes /\ Whole(x.envelope)

HeldMoves(s, d, x) ==
    /\ held[s] # None /\ held' = [held EXCEPT ![s][d] = x]
    /\ Fits(d, x) \/ (Quiet /\ x = held[s][d])
    /\ \A e \in Docs : e # d => kept'[e] = kept[e]
    /\ \A e \in Docs : kept'[e] # None =>
          \/ kept'[e] = kept[e]
          \/ kept'[e].version = Len(changes) + 1

LEMMA HoldMoves ==
    ASSUME Sound, NEW s \in Services, held[s] # None, NEW d \in Docs, NEW listed \in BOOLEAN,
           Hold(s, d, Resident(s, d, listed)), kept' = kept, changes' = changes
    PROVE  \E x \in Residents \cup {None} : HeldMoves(s, d, x)
<1>1. PICK x \in Residents \cup {None} :
          /\ held' = [held EXCEPT ![s][d] = x]
          /\ \/ x = held[s][d]
             \/ kept[d] = None /\ x = None
             \/ /\ kept[d] # None /\ x # None /\ x.version = kept[d].version
                /\ x.envelope = kept[d].bytes /\ Whole(x.envelope)
    BY HoldOK DEF Sound
<1>2. HeldMoves(s, d, x)
    BY <1>1 DEF HeldMoves, Fits, Quiet
<1> QED BY <1>2

LEMMA SwapMoves ==
    ASSUME Sound, NEW s \in Services, held[s] # None, NEW d \in Docs, NEW e \in Envelopes,
           NEW by, NEW number, Changed(d, by, number, e), Whole(e), e # None,
           held' = [held EXCEPT ![s][d] = [version |-> Len(changes) + 1, envelope |-> e]]
    PROVE  \E x \in Residents \cup {None} : HeldMoves(s, d, x)
<1> DEFINE x == [version |-> Len(changes) + 1, envelope |-> e]
<1>1. Len(changes) \in Nat /\ x \in Residents /\ x.version = Len(changes) + 1 /\ x.envelope = e
    BY DEF Changed, Residents
<1>2. /\ kept'[d] = [version |-> Len(changes) + 1, bytes |-> e] /\ kept'[d] # None
      /\ kept'[d].version = Len(changes) + 1 /\ kept'[d].bytes = e
    BY DEF Changed
<1> HIDE DEF x
<1>3. Fits(d, x)
    BY <1>1, <1>2 DEF Fits
<1>4. HeldMoves(s, d, x)
    BY <1>2, <1>3 DEF HeldMoves, Changed, x
<1> QED BY <1>1, <1>4

LEMMA HeldKinds ==
    ASSUME Sound, [Next]_vars
    PROVE  /\ \/ held' = held
              \/ \E s \in Services : Make(s) /\ Quiet
              \/ \E s \in Services, d \in Docs, x \in Residents \cup {None} : HeldMoves(s, d, x)
           /\ registered' \in {registered, None} \/ Make(registered')
<1>1. CASE \E t \in Threads : Arrives(t) \/ TurnedAway(t)
    BY <1>1 DEF Arrives, TurnedAway, Turned
<1>2. CASE Outside
  <2>1. CASE Register
    BY <2>1 DEF Register, Make, Quiet
  <2>2. CASE Forget
    BY <2>2 DEF Forget
  <2>3. CASE \E cutoff \in 2..MaxCalls : DiscardAudit(cutoff)
    BY <2>3 DEF DiscardAudit
  <2> QED BY <1>2, <2>1, <2>2, <2>3 DEF Outside
<1>3. CASE DamageDone
    BY <1>3, DamageChanges
<1>4. CASE \E t \in Threads : Works(t)
  <2>1. PICK t \in Threads : Works(t)
    BY <1>4
  <2>2. CASE \/ LookUp(t) \/ Sources(t) \/ InspectNext(t) \/ EndOfSources(t) \/ Verify(t)
             \/ AuditQuery(t) \/ Export(t) \/ Fail(t) \/ Audit(t) \/ AppendAudit(t)
             \/ ReadToQuarantine(t) \/ ReadToRepair(t) \/ ReadToReset(t) \/ Preserve(t)
    <3>1. UNCHANGED <<registered, held>>
      BY <2>2, LookUpKind, SourcesKind, InspectNextKind, EndingKind, AuditKind,
         AppendAuditKind, ReadToQuarantineKind, ReadToRepairKind, ReadToResetKind, PreserveKind
    <3> QED BY <3>1
  <2>3. CASE Insert(t)
    BY <2>3, InsertKind DEF Make, StillBut, Quiet
  <2>4. CASE Get(t)
    <3>1. /\ job[t].doc \in Docs /\ job[t].service \in Services /\ held[job[t].service] # None
          /\ Hold(job[t].service, job[t].doc, Resident(job[t].service, job[t].doc, FALSE))
          /\ kept' = kept /\ changes' = changes /\ registered' = registered
      BY <2>4, GetKind DEF StillBut
    <3> QED BY <3>1, HoldMoves
  <2>5. CASE ReadToCommit(t)
    <3>1. /\ job[t].phase = "read"
          /\ Hold(job[t].service, job[t].doc, Resident(job[t].service, job[t].doc, FALSE))
          /\ kept' = kept /\ changes' = changes /\ registered' = registered
      BY <2>5, ReadToCommitKind DEF Quiet
    <3>2. /\ job[t].doc \in Docs /\ job[t].service \in Services /\ held[job[t].service] # None
      BY <3>1, ReadDoc
    <3> QED BY <3>1, <3>2, HoldMoves
  <2>6. CASE ListNext(t)
    <3> DEFINE d == Next1(job[t].left)
    <3>1. /\ job[t].phase = "each" /\ job[t].left # {}
          /\ Hold(job[t].service, d, Resident(job[t].service, d, TRUE))
          /\ kept' = kept /\ changes' = changes /\ registered' = registered
      BY <2>6, ListNextKind DEF StillBut
    <3>2. d \in Docs /\ job[t].service \in Services /\ held[job[t].service] # None
      BY <3>1, NextSource
    <3> HIDE DEF d
    <3>3. \E x \in Residents \cup {None} : HeldMoves(job[t].service, d, x)
      BY <3>1, <3>2, HoldMoves
    <3> QED BY <3>1, <3>2, <3>3
  <2>7. CASE SwapCommit(t)
    <3>1. /\ registered' = registered
          /\ job[t].doc \in Docs /\ job[t].service \in Services /\ held[job[t].service] # None
      BY <2>7, SwapCommitKind
    <3>2. held' = held \/ CommitStored(t)
      BY <2>7, SwapCommitKind DEF CommitStored
    <3>3. CASE CommitStored(t)
      <4>1. /\ CommitNext(t) \in Envelopes /\ Whole(CommitNext(t)) /\ CommitNext(t) # None
            /\ Changed(job[t].doc, "commit", job[t].number, CommitNext(t))
            /\ held' = [held EXCEPT ![job[t].service][job[t].doc] =
                           [version |-> Len(changes) + 1, envelope |-> CommitNext(t)]]
        BY <3>3, CommitChanges DEF Valid
      <4> QED BY <3>1, <4>1, SwapMoves
    <3> QED BY <3>1, <3>2, <3>3
  <2>8. CASE SwapRepaired(t)
    <3> DEFINE next == Repaired(job[t].read.bytes)
    <3>1. /\ registered' = registered
          /\ job[t].doc \in Docs /\ job[t].service \in Services /\ held[job[t].service] # None
      BY <2>8, SwapRepairedKind
    <3>2. held' = held \/ RepairStored(t)
      BY <2>8, SwapRepairedKind DEF RepairStored
    <3>3. CASE RepairStored(t)
      <4>1. /\ next \in Envelopes /\ Whole(next) /\ next # None
            /\ Changed(job[t].doc, "repair", job[t].number, next)
            /\ held' = [held EXCEPT ![job[t].service][job[t].doc] =
                           [version |-> Len(changes) + 1, envelope |-> next]]
        BY <3>3, RepairChanges DEF Valid
      <4> HIDE DEF next
      <4> QED BY <3>1, <4>1, SwapMoves
    <3> QED BY <3>1, <3>2, <3>3
  <2>9. CASE Remove(t)
    <3>1. registered' = registered /\ (held' = held \/ Removed(t))
      BY <2>9, RemoveKind DEF Removed
    <3>2. CASE Removed(t)
      <4>1. /\ job[t].doc \in Docs
            /\ Changed(job[t].doc, "reset", job[t].number, None)
            /\ job[t].service \in Services /\ held[job[t].service] # None
            /\ held' = [held EXCEPT ![job[t].service][job[t].doc] = None]
        BY <3>2, RemoveChanges
      <4>2. kept'[job[t].doc] = None /\ \A e \in Docs : e # job[t].doc => kept'[e] = kept[e]
        BY <4>1 DEF Changed
      <4>3. HeldMoves(job[t].service, job[t].doc, None)
        BY <4>1, <4>2 DEF HeldMoves, Fits
      <4> QED BY <3>1, <4>1, <4>3
    <3> QED BY <3>1, <3>2
  <2> QED BY <2>1, <2>2, <2>3, <2>4, <2>5, <2>6, <2>7, <2>8, <2>9 DEF Works
<1>5. CASE UNCHANGED vars
    BY <1>5 DEF vars
<1> QED BY <1>1, <1>2, <1>3, <1>4, <1>5, StepKinds

LEMMA LengthGrows ==
    ASSUME Sound, [Next]_vars
    PROVE  /\ Len(changes) \in Nat /\ Len(changes') \in Nat /\ Len(changes) <= Len(changes')
           /\ \A i \in 1..Len(changes) : changes'[i] = changes[i]
           /\ changes' \in Seq(ChangesMade) /\ kept' \in [Docs -> Versions \cup {None}]
           /\ \A d \in Docs : kept'[d] # None =>
                 kept'[d] = kept[d] \/ kept'[d].version = Len(changes')
<1>1. Len(changes) \in Nat
    BY LenProperties DEF Sound, Typed
<1>2. CASE Quiet
    BY <1>1, <1>2 DEF Quiet, Sound, Typed
<1>3. ASSUME NEW d \in Docs, NEW by, NEW number, NEW bytes, Changed(d, by, number, bytes)
      PROVE  /\ Len(changes') \in Nat /\ Len(changes) <= Len(changes')
             /\ \A i \in 1..Len(changes) : changes'[i] = changes[i]
             /\ changes' \in Seq(ChangesMade) /\ kept' \in [Docs -> Versions \cup {None}]
             /\ \A e \in Docs : kept'[e] # None =>
                   kept'[e] = kept[e] \/ kept'[e].version = Len(changes')
  <2>1. kept'[d] # None => kept'[d].version = Len(changes')
    BY <1>3 DEF Changed
  <2> QED BY <1>1, <1>3, <2>1 DEF Changed
<1> QED BY <1>1, <1>2, <1>3, SomeChange

(* What a service held fits what is stored after a step as well.           *)
LEMMA StillFits ==
    ASSUME Sound, [Next]_vars, NEW s \in Services, held[s] # None, NEW d \in Docs,
           held[s][d] # None
    PROVE  /\ held[s][d].version <= Len(changes') /\ Whole(held[s][d].envelope)
           /\ kept'[d] # None /\ kept'[d].version = held[s][d].version
                => kept'[d].bytes = held[s][d].envelope
<1>1. held[s][d] \in Residents
    BY DEF Sound, Typed
<1>2. held[s][d].version \in Nat
    BY <1>1 DEF Residents
<1>3. /\ held[s][d].version <= Len(changes) /\ Whole(held[s][d].envelope)
      /\ kept[d] # None /\ kept[d].version = held[s][d].version
           => kept[d].bytes = held[s][d].envelope
    BY DEF Sound, HeldOK
<1>6. Len(changes) \in Nat /\ Len(changes') \in Nat /\ Len(changes) <= Len(changes')
    BY LengthGrows
<1>7. held[s][d].version <= Len(changes')
    BY <1>2, <1>3, <1>6
<1>4. CASE kept'[d] = kept[d]
    BY <1>3, <1>4, <1>7
<1>5. CASE kept'[d] # kept[d]
  <2>1. PICK e \in Docs, by \in {"commit", "repair", "reset", "fault"}, number \in Nat,
             bytes \in StoredBytes \cup {None} : Changed(e, by, number, bytes)
    BY <1>5, SomeChange DEF Quiet
  <2>3. e = d
    BY <1>5, <2>1 DEF Changed
  <2>2. kept'[d] = None \/ kept'[d].version = Len(changes) + 1
    BY <2>1, <2>3 DEF Changed
  <2> QED BY <1>2, <1>3, <2>2, LengthGrows
<1> QED BY <1>4, <1>5

LEMMA HeldStep ==
    ASSUME Sound, [Next]_vars
    PROVE  /\ held' \in [Services -> [Docs -> Residents \cup {None}] \cup {None}]
           /\ \A s \in Services : held[s] # None => held'[s] # None
           /\ registered' \in Services \cup {None}
           /\ registered' # None => held'[registered'] # None
           /\ HeldOK'
<1>1. Typed
    BY DEF Sound
<1>2. \A d \in Docs : kept'[d] # None => kept'[d].version <= Len(changes')
  <2> SUFFICES ASSUME NEW d \in Docs, kept'[d] # None
               PROVE  kept'[d].version <= Len(changes')
    OBVIOUS
  <2>1. kept'[d] = kept[d] \/ kept'[d].version = Len(changes')
    BY LengthGrows
  <2>2. CASE kept'[d] = kept[d]
    <3>1. kept[d] \in Versions /\ kept[d].version \in Nat /\ kept[d].version <= Len(changes)
      BY <1>1, <2>2 DEF Sound, HeldOK, Typed, Versions
    <3> QED BY <2>2, <3>1, LengthGrows
  <2> QED BY <2>1, <2>2, LengthGrows
<1> DEFINE Fit(s, d) ==
        /\ held'[s][d].version <= Len(changes') /\ Whole(held'[s][d].envelope)
        /\ kept'[d] # None /\ kept'[d].version = held'[s][d].version
             => kept'[d].bytes = held'[s][d].envelope
<1>3. /\ held' \in [Services -> [Docs -> Residents \cup {None}] \cup {None}]
      /\ \A s \in Services : held[s] # None => held'[s] # None
      /\ \A s \in Services : held'[s] # None =>
            \A d \in Docs : held'[s][d] # None => Fit(s, d)
  <2>1. CASE held' = held
    BY <1>1, <2>1, StillFits DEF Typed
  <2>2. CASE \E s \in Services : Make(s) /\ Quiet
    <3>1. PICK s \in Services : Make(s)
      BY <2>2
    <3>2. /\ held' = [held EXCEPT ![s] = [d \in Docs |-> None]]
          /\ held' \in [Services -> [Docs -> Residents \cup {None}] \cup {None}]
          /\ held'[s] = [d \in Docs |-> None] /\ held'[s] # None
      BY <1>1, <3>1, MakeOK
    <3>3. \A r \in Services : r # s => held'[r] = held[r]
      BY <1>1, <3>2 DEF Typed
    <3>4. \A d \in Docs : held'[s][d] = None
      BY <3>2
    <3>5. ASSUME NEW r \in Services, held'[r] # None, NEW d \in Docs, held'[r][d] # None
          PROVE  Fit(r, d)
      <4>1. r # s /\ held'[r] = held[r]
        BY <3>3, <3>4, <3>5
      <4> QED BY <3>5, <4>1, StillFits
    <3> HIDE DEF Fit
    <3> QED BY <3>2, <3>3, <3>5
  <2>3. CASE \E s \in Services, d \in Docs, x \in Residents \cup {None} : HeldMoves(s, d, x)
    <3>1. PICK s \in Services, d \in Docs, x \in Residents \cup {None} : HeldMoves(s, d, x)
      BY <2>3
    <3>2. /\ held' \in [Services -> [Docs -> Residents \cup {None}] \cup {None}]
          /\ \A r \in Services : held[r] # None <=> held'[r] # None
          /\ \A r \in Services : r # s => held'[r] = held[r]
          /\ \A e \in Docs : held'[s][e] = IF e = d THEN x ELSE held[s][e]
          /\ held[s] # None
      BY <1>1, <3>1, HeldChange DEF HeldMoves
    <3>3. ASSUME NEW r \in Services, held'[r] # None, NEW e \in Docs, held'[r][e] # None
          PROVE  Fit(r, e)
      <4>1. CASE r # s \/ e # d
        <5>1. held[r] # None /\ held'[r][e] = held[r][e] /\ held[r][e] # None
          BY <3>2, <3>3, <4>1
        <5> QED BY <5>1, StillFits
      <4>2. CASE r = s /\ e = d
        <5>1. held'[r][e] = x /\ x # None
          BY <3>2, <3>3, <4>2
        <5>2. CASE x = held[s][d]
          BY <3>2, <4>2, <5>1, <5>2, StillFits
        <5>3. CASE Fits(d, x)
          <6>1. /\ kept'[d] # None /\ x.version = kept'[d].version
                /\ x.envelope = kept'[d].bytes /\ Whole(x.envelope)
            BY <5>1, <5>3 DEF Fits
          <6> QED BY <1>2, <4>2, <5>1, <6>1
        <5> QED BY <3>1, <5>2, <5>3 DEF HeldMoves
      <4> QED BY <4>1, <4>2
    <3> HIDE DEF Fit
    <3> QED BY <3>2, <3>3
  <2> HIDE DEF Fit
  <2> QED BY <2>1, <2>2, <2>3, HeldKinds
<1>4. registered' \in Services \cup {None} /\ (registered' # None => held'[registered'] # None)
  <2>1. CASE registered' \in {registered, None}
    BY <1>3, <2>1 DEF Sound, Typed
  <2>2. CASE Make(registered')
    BY <1>1, <2>2, MakeOK
  <2> QED BY <2>1, <2>2, HeldKinds
<1>5. HeldOK'
    BY <1>2, <1>3 DEF HeldOK
<1> QED BY <1>3, <1>4, <1>5

LEMMA TypedStep ==
    ASSUME Sound, [Next]_vars
    PROVE  Typed'
<1>1. Typed
    BY DEF Sound
<1>2. kept' \in [Docs -> Versions \cup {None}] /\ changes' \in Seq(ChangesMade)
    BY LengthGrows
<1>3. /\ held' \in [Services -> [Docs -> Residents \cup {None}] \cup {None}]
      /\ registered' \in Services \cup {None}
    BY HeldStep
<1>4. /\ job' \in [Threads -> Jobs] /\ DOMAIN answer' = Threads /\ begun' \in Nat
      /\ discarded' \in Nat
      /\ audit' \in Seq(AuditRecords)
      /\ evidence' \subseteq [number: Nat, doc: Docs, bytes: StoredBytes]
  <2>1. CASE \E t \in Threads : Arrives(t)
    BY <1>1, <2>1 DEF Typed, Arrives
  <2>2. CASE \E t \in Threads : TurnedAway(t)
    BY <1>1, <2>2 DEF Typed, TurnedAway, Turned
  <2>3. CASE \E t \in Threads : Works(t)
    <3>1. PICK t \in Threads : Works(t)
      BY <2>3
    <3>2. begun' = begun /\ discarded' = discarded
      BY <3>1, WorksKinds
    <3>3. job' \in [Threads -> Jobs] /\ DOMAIN answer' = Threads
      <4>1. CASE GoesOn(t)
        BY <1>1, <4>1 DEF Typed, GoesOn
      <4>2. CASE Ends(t)
        BY <1>1, <4>2, IdleOK DEF Typed, Ends
      <4> QED BY <3>1, <4>1, <4>2, WorksKinds
    <3>4. audit' \in Seq(AuditRecords)
      <4>1. CASE AppendAudit(t)
        <5>1. RecordOf(t) \in AuditRecords /\ audit' = Append(audit, RecordOf(t))
          BY <4>1, AppendAuditKind
        <5> QED BY <1>1, <5>1, AppendProperties DEF Typed
      <4> QED BY <1>1, <3>1, <4>1, WorksKinds DEF Typed
    <3>5. evidence' \subseteq [number: Nat, doc: Docs, bytes: StoredBytes]
      <4>1. CASE Preserve(t)
        <5>1. /\ Evidence(t) \in [number: Nat, doc: Docs, bytes: StoredBytes]
              /\ evidence' = evidence \cup {Evidence(t)}
          BY <4>1, PreserveKind
        <5> QED BY <1>1, <5>1 DEF Typed
      <4> QED BY <1>1, <3>1, <4>1, WorksKinds DEF Typed
    <3> QED BY <1>1, <3>2, <3>3, <3>4, <3>5 DEF Typed
  <2>4. CASE Outside
    <3>1. CASE Register \/ Forget
      BY <1>1, <3>1 DEF Typed, Register, Forget
    <3>2. CASE \E cutoff \in 2..MaxCalls : DiscardAudit(cutoff)
      <4>1. PICK cutoff \in 2..MaxCalls : DiscardAudit(cutoff)
        BY <3>2
      <4>2. cutoff \in Nat /\ discarded' = cutoff
        BY <4>1 DEF DiscardAudit
      <4>3. audit' \in Seq(AuditRecords)
        <5> DEFINE places == {i \in DOMAIN audit : From(cutoff, audit[i])}
        <5>1. PICK place \in [1..Cardinality(places) -> places] :
                  audit' = [i \in DOMAIN place |-> audit[place[i]]]
          BY <4>1 DEF DiscardAudit
        <5>2. Cardinality(places) \in Nat
          <6>1. IsFiniteSet(1..Len(audit)) /\ DOMAIN audit = 1..Len(audit)
            BY <1>1, LenProperties, FS_Interval DEF Typed
          <6> QED BY <6>1, FS_Subset, FS_CardinalityType
        <5>3. \A p \in places : audit[p] \in AuditRecords
          BY <1>1, ElementOfSeq, LenProperties DEF Typed
        <5> HIDE DEF places
        <5>4. audit' \in [1..Cardinality(places) -> AuditRecords]
          BY <5>1, <5>3
        <5> QED BY <5>2, <5>4, SeqDef
      <4> QED BY <1>1, <4>1, <4>2, <4>3 DEF Typed, DiscardAudit
    <3> QED BY <2>4, <3>1, <3>2 DEF Outside
  <2>5. CASE DamageDone
    BY <1>1, <2>5, DamageChanges DEF Typed
  <2>6. CASE UNCHANGED vars
    BY <1>1, <2>6 DEF Typed, vars
  <2> QED BY <2>1, <2>2, <2>3, <2>4, <2>5, <2>6, StepKinds
<1> QED BY <1>2, <1>3, <1>4 DEF Typed

(* What a job still needs is still there.                                  *)
LEMMA PlacedStays ==
    ASSUME Sound, [Next]_vars, NEW t \in Threads, job'[t] = job[t]
    PROVE  Placed(job[t])'
BY HeldStep DEF Sound, Placed

LEMMA PlacedStep ==
    ASSUME Sound, [Next]_vars, NEW t \in Threads
    PROVE  Placed(job[t])'
<1>1. Typed /\ Placed(job[t]) /\ DOMAIN job = Threads
    BY DEF Sound, Typed
<1>2. \A s \in Services : held[s] # None => held'[s] # None
    BY HeldStep
<1>3. CASE job'[t] = job[t]
    BY <1>3, PlacedStays
<1>4. CASE Arrives(t)
  <2>1. PICK j \in Jobs :
          /\ job' = [job EXCEPT ![t] = j]
          /\ j.phase \in {"audit", "sources", "look_up", "read"}
          /\ j.call \in AllCalls /\ (j.call \in Naming => j.doc \in Docs)
          /\ j.phase = FirstPhase(j.call) /\ j.found = {}
          /\ j.call # "store_or_register" => j.service = registered /\ registered # None
    BY <1>4 DEF Arrives
  <2>2. job'[t] = j
    BY <1>1, <2>1
  <2>3. registered # None => registered \in Services /\ held'[registered] # None
    BY <1>2 DEF Sound, Typed
  <2>4. j.phase \notin {"look_up"} => j.call # "store_or_register"
    BY <2>1 DEF FirstPhase, Audited, Recoveries
  <2>5. /\ j.phase = "audit" => j.call \in Recoveries
        /\ j.phase = "sources" => j.call \in {"list", "inspect"}
        /\ j.phase = "look_up" => j.call = "store_or_register"
        /\ j.phase = "read" => j.call \in Naming
    BY <2>1 DEF FirstPhase, Audited, Recoveries, Naming, Wide
  <2> QED BY <2>1, <2>2, <2>3, <2>4, <2>5 DEF Placed
<1>5. CASE Ends(t)
  <2>1. job'[t] = Idle /\ Idle.phase = "idle"
    BY <1>1, <1>5, IdleOK DEF Ends
  <2> QED BY <2>1 DEF Placed
<1>6. CASE Works(t) /\ GoesOn(t)
  <2>1. PICK j \in Jobs :
          /\ job' = [job EXCEPT ![t] = j] /\ j.phase # "idle"
          /\ j.call = job[t].call /\ j.doc = job[t].doc /\ j.service = job[t].service
    BY <1>6 DEF GoesOn
  <2>2. job'[t] = j /\ job[t].phase # "idle"
    BY <1>1, <1>6, <2>1 DEF GoesOn
  <2>0. ~Ends(t)
    BY <1>1, <2>1, <2>2, IdleOK DEF Ends
  <2>3. /\ j.call \in AllCalls /\ (j.call \in Naming => j.doc \in Docs)
        /\ job[t].phase \notin {"look_up", "insert"} =>
              j.service \in Services /\ held'[j.service] # None
    BY <1>1, <1>2, <2>1, <2>2 DEF Placed
  <2>4. CASE LookUp(t)
    <3>1. j.phase = "insert" /\ j.call = "store_or_register"
      BY <1>1, <2>0, <2>1, <2>2, <2>4, LookUpKind DEF Placed
    <3> QED BY <2>2, <2>3, <3>1 DEF Placed
  <2>5. CASE ReadToCommit(t)
    <3>1. job[t].phase = "read" /\ job[t].call = "commit"
      BY <2>5, ReadToCommitKind
    <3>2. /\ j.phase = "swap"
          /\ \/ j.read = None /\ j.found = {}
             \/ /\ j.read # None /\ j.read.bytes \in Envelopes
                /\ Whole(j.read.bytes) /\ j.found = {j.read.bytes}
      BY <2>0, <2>1, <2>2, <2>5, ReadToCommitKind
    <3> QED BY <2>1, <2>2, <2>3, <3>1, <3>2 DEF Placed
  <2>6. CASE Sources(t)
    <3>1. job[t].phase = "sources" /\ j.phase = "each"
      BY <2>2, <2>6, SourcesKind
    <3>2. j.call \in {"list", "inspect", "reindex"}
      BY <1>1, <2>1, <3>1 DEF Placed
    <3> QED BY <2>2, <2>3, <3>1, <3>2 DEF Placed
  <2>7. CASE ListNext(t) \/ InspectNext(t)
    <3>1. job[t].phase = "each" /\ j.phase = "each"
      BY <2>0, <2>1, <2>2, <2>7, ListNextKind, InspectNextKind
    <3>2. j.call \in {"list", "inspect", "reindex"}
      BY <1>1, <2>1, <3>1 DEF Placed
    <3> QED BY <2>2, <2>3, <3>1, <3>2 DEF Placed
  <2>18. CASE Audit(t)
    <3>1. /\ job[t].phase = "audit" /\ job[t].call \in Recoveries
          /\ j.phase = "append" /\ j.found = {}
      BY <1>1, <2>2, <2>18, AuditKind DEF Placed
    <3> QED BY <2>1, <2>2, <2>3, <3>1 DEF Placed
  <2>8. CASE AppendAudit(t)
    <3>1. /\ job[t].phase = "append" /\ job[t].call \in Recoveries
          /\ j.phase = IF job[t].call = "reindex" THEN "sources" ELSE "read"
          /\ j.found = {}
      BY <1>1, <2>2, <2>8, AppendAuditKind DEF Placed
    <3>2. job[t].call = "reindex" \/ job[t].call \in Naming
      BY <3>1 DEF Recoveries, Naming, AllCalls, Wide
    <3> QED BY <2>1, <2>2, <2>3, <3>1, <3>2 DEF Placed
  <2>9. CASE ReadToQuarantine(t)
    <3>1. /\ job[t].phase = "read" /\ job[t].call = "quarantine"
          /\ j.phase = "preserve" /\ j.read \in Versions
      BY <2>0, <2>1, <2>2, <2>9, ReadToQuarantineKind
    <3> QED BY <2>1, <2>2, <2>3, <3>1, MarksAssumption DEF Placed
  <2>10. CASE ReadToRepair(t)
    <3>1. /\ job[t].phase = "read" /\ job[t].call = "repair"
          /\ j.phase = "preserve" /\ j.read \in Versions /\ j.read.bytes \in Envelopes
      BY <2>0, <2>1, <2>2, <2>10, ReadToRepairKind
    <3> QED BY <2>1, <2>2, <2>3, <3>1, MarksAssumption DEF Placed
  <2>11. CASE Preserve(t)
    <3>1. /\ job[t].phase = "preserve" /\ job[t].call = "repair"
          /\ j.phase = "swap" /\ j.read = job[t].read
      BY <2>0, <2>1, <2>2, <2>11, PreserveKind
    <3> QED BY <1>1, <2>1, <2>2, <2>3, <3>1 DEF Placed
  <2>12. CASE ReadToReset(t)
    <3>1. /\ job[t].phase = "read" /\ job[t].call = "reset"
          /\ j.phase = "remove" /\ j.read \in Versions
      BY <2>0, <2>1, <2>2, <2>12, ReadToResetKind
    <3> QED BY <2>1, <2>2, <2>3, <3>1, MarksAssumption DEF Placed
  <2>13. CASE Remove(t)
    <3>1. /\ job[t].phase = "remove" /\ job[t].call = "reset" /\ j.phase = "read"
      BY <2>0, <2>1, <2>2, <2>13, RemoveKind
    <3>2. "reset" \in Naming
      BY DEF Naming, AllCalls, Recoveries, Wide
    <3> QED BY <2>1, <2>2, <2>3, <3>1, <3>2 DEF Placed
  <2>14. CASE \/ Insert(t) \/ Get(t) \/ SwapCommit(t) \/ EndOfSources(t) \/ Verify(t)
              \/ AuditQuery(t) \/ Export(t) \/ SwapRepaired(t) \/ Fail(t)
    <3>1. Ends(t)
      BY <2>14, InsertKind, GetKind, SwapCommitKind, EndingKind, SwapRepairedKind
    <3> QED BY <1>5, <3>1
  <2> QED BY <1>6, <2>4, <2>5, <2>6, <2>7, <2>8, <2>9, <2>10, <2>11, <2>12, <2>13, <2>14,
             <2>18 DEF Works
<1>7. Arrives(t) \/ Ends(t) \/ (Works(t) /\ GoesOn(t)) \/ job'[t] = job[t]
  <2>1. CASE \E u \in Threads : Arrives(u)
    BY <1>1, <2>1 DEF Arrives
  <2>2. CASE \E u \in Threads : TurnedAway(u)
    BY <2>2 DEF TurnedAway, Turned
  <2>3. CASE \E u \in Threads : Works(u)
    BY <1>1, <2>3, WorksKinds DEF GoesOn, Ends
  <2>4. CASE Outside \/ DamageDone \/ UNCHANGED vars
    BY <2>4, OutsideKind, DamageChanges DEF vars
  <2> QED BY <2>1, <2>2, <2>3, <2>4, StepKinds
<1> QED BY <1>3, <1>4, <1>5, <1>6, <1>7

(* The document kept under a version, and all that was read of it.         *)
LEMMA SoundStep ==
    ASSUME Sound, [Next]_vars
    PROVE  Sound'
BY TypedStep, PlacedStep, HeldStep DEF Sound

LEMMA SoundInit ==
    ASSUME Init
    PROVE  Sound
<1>1. \A schema \in Nat : \A d \in Docs :
          /\ Stored(d, schema) \in Versions /\ Stored(d, schema).version = 0
          /\ Stored(d, schema) # None
  <2> SUFFICES ASSUME NEW schema \in Nat, NEW d \in Docs
               PROVE  /\ Stored(d, schema) \in Versions /\ Stored(d, schema).version = 0
    BY MarksAssumption
  <2> QED BY EnvelopeOK DEF Stored, Versions
<1>2. Plan \in Nat /\ (Plan > 1 => Plan - 1 \in Nat)
    BY DocsAssumption
<1>3. /\ kept \in [Docs -> Versions \cup {None}]
      /\ \A d \in Docs : kept[d] # None => kept[d].version = 0
  <2>1. CASE kept = [d \in Docs |-> IF d = Next1(Docs) THEN Stored(d, Plan) ELSE None]
    BY <1>1, <1>2, <2>1
  <2>2. CASE /\ Plan > 1
             /\ kept = [d \in Docs |-> IF d = Next1(Docs) THEN Stored(d, Plan - 1)
                                                          ELSE Stored(d, Plan)]
    BY <1>1, <1>2, <2>2
  <2> QED BY <2>1, <2>2 DEF Init
<1>4. Services = 1..MaxServices /\ 1 \in Services /\ None \notin Services
    BY BoundsAssumption, MarksAssumption DEF Services
<1>5. /\ registered \in Services \cup {None}
      /\ held \in [Services -> [Docs -> Residents \cup {None}] \cup {None}]
      /\ registered # None => held[registered] # None
      /\ \A s \in Services : held[s] # None => \A d \in Docs : held[s][d] = None
  <2>1. [d \in Docs |-> None] \in [Docs -> Residents \cup {None}]
    OBVIOUS
  <2>2. [d \in Docs |-> None] # None
    BY <2>1, MarksAssumption
  <2>3. held = [s \in Services |-> IF s = registered THEN [d \in Docs |-> None] ELSE None]
    BY DEF Init
  <2>4. registered \in {1, None}
    BY DEF Init
  <2> QED BY <1>4, <2>1, <2>2, <2>3, <2>4
<1>6. /\ evidence = {} /\ audit = <<>> /\ changes = <<>>
      /\ job = [t \in Threads |-> Idle] /\ answer = [t \in Threads |-> None]
      /\ begun = 0 /\ discarded = 0
    BY DEF Init
<1>7. Typed
    BY <1>3, <1>5, <1>6, IdleOK DEF Typed
<1>8. \A t \in Threads : Placed(job[t])
    BY <1>6, IdleOK DEF Placed
<1>9. HeldOK
    BY <1>3, <1>5, <1>6 DEF HeldOK
<1> QED BY <1>5, <1>7, <1>8, <1>9 DEF Sound

-----------------------------------------------------------------------------
(* Calls, known by their numbers.                                          *)

LEMMA TurnedKind ==
    ASSUME Sound, NEW t \in Threads, TurnedAway(t)
    PROVE  /\ job[t].phase = "idle" /\ begun < MaxCalls /\ begun' = begun + 1
           /\ UNCHANGED <<kept, evidence, audit, registered, held, job, changes, discarded>>
           /\ \E a, code : \E call \in Naming :
                 /\ answer' = [answer EXCEPT ![t] = a] /\ a.call = call
                 /\ a.number = begun + 1 /\ a.since = Len(changes) /\ a.until = Len(changes)
                 /\ a.code = code /\ code \in {"unauthenticated", "invalid_params", "not_found"}
                 /\ a.dispatched = FALSE
<1>1. PICK call \in Calls \ Wide, d \in Targets : Turned(t, call, d)
    BY DEF TurnedAway
<1>2. PICK code \in TurnedFor(call) :
          answer' = [answer EXCEPT ![t] = Answered(Arrived(t, call, d, 0), code, FALSE, None)]
    BY <1>1 DEF Turned
<1> DEFINE arrived == Arrived(t, call, d, 0)
           a == Answered(arrived, code, FALSE, None)
<1>3. arrived.call = call /\ arrived.number = begun + 1 /\ arrived.since = Len(changes)
    BY IdleOK DEF Arrived, Jobs
<1> HIDE DEF arrived
<1>4. /\ a.call = call /\ a.number = begun + 1 /\ a.since = Len(changes)
      /\ a.until = Len(changes) /\ a.code = code /\ a.dispatched = FALSE
    BY <1>3 DEF Answered
<1>5. code \in {"unauthenticated", "invalid_params", "not_found"} /\ call \in Naming
    BY CallsAssumption DEF TurnedFor, Naming
<1>6. answer' = [answer EXCEPT ![t] = a]
    BY <1>2 DEF arrived
<1>7. /\ job[t].phase = "idle" /\ begun < MaxCalls /\ begun' = begun + 1
      /\ UNCHANGED <<kept, evidence, audit, registered, held, job, changes, discarded>>
    BY <1>1 DEF Turned
<1> HIDE DEF a
<1> QED BY <1>4, <1>5, <1>6, <1>7

(* An answer is given under the number of its call.                        *)
LEMMA EndsAnswer ==
    ASSUME Typed, NEW t \in Threads, Ends(t)
    PROVE  /\ job[t].phase # "idle" /\ job'[t] = Idle /\ job'[t].phase = "idle"
           /\ \A u \in Threads : u # t => job'[u] = job[u] /\ answer'[u] = answer[u]
           /\ \/ answer'[t] = answer[t]
              \/ /\ answer'[t].number = job[t].number /\ answer'[t].since = job[t].since
                 /\ answer'[t].call = job[t].call /\ answer'[t].doc = job[t].doc
                 /\ answer'[t].until = Len(changes)
<1>1. DOMAIN answer = Threads /\ DOMAIN job = Threads
    BY DEF Typed
<1>2. /\ job[t].phase # "idle" /\ job' = [job EXCEPT ![t] = Idle]
      /\ \/ answer' = answer
         \/ \E code, dispatched, result :
               answer' = [answer EXCEPT ![t] = Answered(job[t], code, dispatched, result)]
    BY DEF Ends
<1>3. CASE answer' = answer
    BY <1>1, <1>2, <1>3, IdleOK
<1>4. CASE \E code, dispatched, result :
              answer' = [answer EXCEPT ![t] = Answered(job[t], code, dispatched, result)]
  <2>1. PICK code, dispatched, result :
            answer' = [answer EXCEPT ![t] = Answered(job[t], code, dispatched, result)]
    BY <1>4
  <2>2. answer'[t] = Answered(job[t], code, dispatched, result)
    BY <1>1, <2>1
  <2>3. /\ answer'[t].number = job[t].number /\ answer'[t].since = job[t].since
        /\ answer'[t].call = job[t].call /\ answer'[t].doc = job[t].doc
        /\ answer'[t].until = Len(changes)
    BY <2>2 DEF Answered
  <2> QED BY <1>1, <1>2, <2>1, <2>3, IdleOK
<1> QED BY <1>2, <1>3, <1>4

LEMMA GoesOnKeeps ==
    ASSUME Typed, NEW t \in Threads, GoesOn(t)
    PROVE  /\ job[t].phase # "idle" /\ job'[t].phase # "idle" /\ job'[t] \in Jobs
           /\ \A u \in Threads : u # t => job'[u] = job[u]
           /\ job'[t].call = job[t].call /\ job'[t].doc = job[t].doc
           /\ job'[t].number = job[t].number /\ job'[t].since = job[t].since
           /\ answer' = answer /\ Quiet
BY DEF Typed, GoesOn, Quiet

(* A change is made by the call that ends with it, or by a fault.          *)
LEMMA ChangesOf ==
    ASSUME Sound, NEW t \in Threads, Works(t)
    PROVE  \A i \in 1..Len(changes') :
              \/ i \in 1..Len(changes) /\ changes'[i] = changes[i]
              \/ /\ i = Len(changes) + 1 /\ Ends(t) /\ changes'[i].number = job[t].number
                 /\ changes'[i].doc = job[t].doc
<1>1. CASE Quiet
    BY <1>1 DEF Quiet
<1>2. ASSUME NEW d, NEW by, NEW bytes, Changed(d, by, job[t].number, bytes), Ends(t),
             d = job[t].doc
      PROVE  \A i \in 1..Len(changes') :
                \/ i \in 1..Len(changes) /\ changes'[i] = changes[i]
                \/ /\ i = Len(changes) + 1 /\ Ends(t) /\ changes'[i].number = job[t].number
                   /\ changes'[i].doc = job[t].doc
  <2>1. /\ Len(changes) \in Nat /\ Len(changes') = Len(changes) + 1
        /\ \A i \in 1..Len(changes) : changes'[i] = changes[i]
        /\ changes'[Len(changes) + 1].number = job[t].number
        /\ changes'[Len(changes) + 1].doc = job[t].doc
    BY <1>2 DEF Changed, ChangeRecord
  <2> QED BY <1>2, <2>1
<1>3. CASE CommitStored(t)
    BY <1>2, <1>3, CommitChanges
<1>4. CASE RepairStored(t)
    BY <1>2, <1>4, RepairChanges
<1>5. CASE Removed(t)
    BY <1>2, <1>5, RemoveChanges
<1> QED BY <1>1, <1>3, <1>4, <1>5, WorksKinds

LEMMA Domains ==
    ASSUME Typed
    PROVE  /\ DOMAIN changes = 1..Len(changes) /\ Len(changes) \in Nat
           /\ DOMAIN audit = 1..Len(audit) /\ Len(audit) \in Nat
           /\ \A i \in 1..Len(changes) : changes[i] \in ChangesMade
           /\ \A i \in 1..Len(audit) : audit[i] \in AuditRecords
           /\ \A t \in Threads : job[t] \in Jobs /\ job[t].number \in Nat /\ job[t].since \in Nat
BY LenProperties, ElementOfSeq DEF Typed, Jobs

(* What was recorded was recorded by calls that had begun.                 *)
LEMMA RecordsNumbered ==
    ASSUME Sound, Numbered, [Next]_vars
    PROVE  /\ \A i \in DOMAIN changes' : changes'[i].number <= begun'
           /\ \A i \in DOMAIN audit' : audit'[i].number <= begun'
           /\ \A v \in evidence' : v.number <= begun'
           /\ begun \in Nat /\ begun' \in Nat /\ begun <= begun'
           /\ discarded' <= begun' /\ begun' <= MaxCalls
<1>1. Typed /\ Typed' /\ begun \in Nat /\ begun' \in Nat /\ MaxCalls \in Nat
    BY TypedStep, BoundsAssumption DEF Sound, Typed
<1>2. /\ \A i \in DOMAIN changes : changes[i].number <= begun /\ changes[i].number \in Nat
      /\ \A i \in DOMAIN audit : audit[i].number <= begun /\ audit[i].number \in Nat
      /\ \A v \in evidence : v.number <= begun /\ v.number \in Nat
      /\ discarded <= begun /\ discarded \in Nat /\ begun <= MaxCalls
      /\ \A t \in Threads : job[t].number <= begun /\ job[t].number \in Nat
    BY <1>1, Domains DEF Numbered, ChangesMade, AuditRecords, Typed
<1>3. CASE \E t \in Threads : Arrives(t)
  <2>1. begun' = begun + 1 /\ begun < MaxCalls /\ UNCHANGED <<changes, audit, evidence, discarded>>
    BY <1>3 DEF Arrives
  <2> QED BY <1>1, <1>2, <2>1
<1>4. CASE \E t \in Threads : TurnedAway(t)
  <2>1. begun' = begun + 1 /\ begun < MaxCalls /\ UNCHANGED <<changes, audit, evidence, discarded>>
    BY <1>4, TurnedKind
  <2> QED BY <1>1, <1>2, <2>1
<1>5. CASE \E t \in Threads : Works(t)
  <2>1. PICK t \in Threads : Works(t)
    BY <1>5
  <2>2. begun' = begun /\ discarded' = discarded
    BY <2>1, WorksKinds
  <2>3. \A i \in DOMAIN changes' : changes'[i].number <= begun'
    <3>1. DOMAIN changes' = 1..Len(changes') /\ DOMAIN changes = 1..Len(changes)
      BY <1>1, Domains DEF Typed
    <3> QED BY <1>2, <2>1, <2>2, <3>1, ChangesOf
  <2>4. \A i \in DOMAIN audit' : audit'[i].number <= begun'
    <3>1. CASE AppendAudit(t)
      <4>1. /\ RecordOf(t) \in AuditRecords /\ audit' = Append(audit, RecordOf(t))
            /\ RecordOf(t).number = job[t].number
        BY <3>1, AppendAuditKind DEF RecordOf
      <4>2. /\ Len(audit') = Len(audit) + 1 /\ audit'[Len(audit) + 1] = RecordOf(t)
            /\ \A i \in 1..Len(audit) : audit'[i] = audit[i]
            /\ DOMAIN audit' = 1..Len(audit')
        BY <1>1, <4>1, AppendProperties, LenProperties DEF Typed
      <4>3. Len(audit) \in Nat /\ DOMAIN audit = 1..Len(audit)
        BY <1>1, Domains
      <4> QED BY <1>2, <2>2, <4>1, <4>2, <4>3
    <3> QED BY <1>2, <2>1, <2>2, <3>1, WorksKinds
  <2>5. \A v \in evidence' : v.number <= begun'
    <3>1. CASE Preserve(t)
      <4>1. evidence' = evidence \cup {Evidence(t)} /\ Evidence(t).number = job[t].number
        BY <3>1, PreserveKind DEF Evidence
      <4> QED BY <1>2, <2>2, <4>1
    <3> QED BY <1>2, <2>1, <2>2, <3>1, WorksKinds
  <2> QED BY <1>1, <1>2, <2>2, <2>3, <2>4, <2>5
<1>6. CASE Outside
  <2>1. UNCHANGED <<evidence, begun, changes>>
    BY <1>6, OutsideKind
  <2>2. CASE Register \/ Forget
    BY <1>1, <1>2, <2>1, <2>2 DEF Register, Forget
  <2>3. CASE \E cutoff \in 2..MaxCalls : DiscardAudit(cutoff)
    <3>1. PICK cutoff \in 2..MaxCalls : DiscardAudit(cutoff)
      BY <2>3
    <3>2. discarded' <= begun'
      BY <2>1, <3>1 DEF DiscardAudit
    <3> DEFINE places == {i \in DOMAIN audit : From(cutoff, audit[i])}
    <3>3. PICK place \in [1..Cardinality(places) -> places] :
              audit' = [i \in DOMAIN place |-> audit[place[i]]]
      BY <3>1 DEF DiscardAudit
    <3>4. \A i \in DOMAIN audit' : \E k \in DOMAIN audit : audit'[i] = audit[k]
      BY <3>3
    <3> QED BY <1>1, <1>2, <2>1, <3>2, <3>4
  <2> QED BY <1>6, <2>2, <2>3 DEF Outside
<1>7. CASE DamageDone
  <2>1. UNCHANGED <<evidence, audit, begun, discarded>>
    BY <1>7, DamageChanges
  <2>2. PICK d \in Docs, bytes \in StoredBytes : Changed(d, "fault", 0, bytes)
    BY <1>7, DamageChanges
  <2>3. /\ Len(changes) \in Nat /\ Len(changes') = Len(changes) + 1
        /\ \A i \in 1..Len(changes) : changes'[i] = changes[i]
        /\ changes'[Len(changes) + 1].number = 0
    BY <2>2 DEF Changed, ChangeRecord
  <2>4. DOMAIN changes' = 1..Len(changes') /\ DOMAIN changes = 1..Len(changes)
    BY <1>1, Domains DEF Typed
  <2> QED BY <1>1, <1>2, <2>1, <2>3, <2>4
<1>8. CASE UNCHANGED vars
    BY <1>1, <1>2, <1>8 DEF vars
<1> QED BY <1>3, <1>4, <1>5, <1>6, <1>7, <1>8, StepKinds

(* What is known of a call in progress.                                    *)
Fresh(t) ==
    /\ answer[t] = None
    /\ job[t].number \in 1..begun /\ job[t].since <= Len(changes)
    /\ \A i \in DOMAIN changes : changes[i].number # job[t].number
    /\ \A u \in Threads : job[u].phase # "idle" /\ u # t => job[u].number # job[t].number
    /\ \A u \in Threads : answer[u] # None => answer[u].number # job[t].number

Told(t) ==
    /\ answer[t].number \in 1..begun
    /\ answer[t].since \in Nat /\ answer[t].until \in Nat
    /\ answer[t].since <= answer[t].until /\ answer[t].until <= Len(changes)

LEMMA CallsNumbered ==
    ASSUME Sound, Numbered, [Next]_vars
    PROVE  /\ \A t \in Threads : job'[t].phase # "idle" => Fresh(t)'
           /\ \A t \in Threads : answer'[t] # None => Told(t)'
           /\ \A t \in Threads : job'[t].number <= begun'
<1>1. /\ \A t \in Threads : job[t].phase # "idle" => Fresh(t)
      /\ \A t \in Threads : answer[t] # None => Told(t)
      /\ \A t \in Threads : job[t].number <= begun
    BY DEF Numbered, Fresh, Told
<1>0. Typed /\ Typed'
    BY TypedStep DEF Sound
<1>9. /\ DOMAIN changes = 1..Len(changes)
      /\ \A i \in 1..Len(changes) : changes[i] \in ChangesMade
      /\ \A t \in Threads : job[t].number \in Nat /\ job[t].since \in Nat
    BY <1>0, Domains
<1>2. /\ Typed /\ begun \in Nat /\ DOMAIN job = Threads /\ DOMAIN answer = Threads
      /\ DOMAIN changes = 1..Len(changes) /\ DOMAIN changes' = 1..Len(changes')
      /\ \A t \in Threads : job[t].number \in Nat /\ job[t].since \in Nat
      /\ \A i \in DOMAIN changes : changes[i].number <= begun /\ changes[i].number \in Nat
  <2>1. DOMAIN changes' = 1..Len(changes')
    BY <1>0, LenProperties DEF Typed
  <2>2. \A i \in DOMAIN changes : changes[i].number <= begun /\ changes[i].number \in Nat
    BY <1>9 DEF Numbered, ChangesMade
  <2> QED BY <1>0, <1>9, <2>1, <2>2 DEF Typed
<1>3. Len(changes) \in Nat /\ Len(changes') \in Nat /\ Len(changes) <= Len(changes')
    BY LengthGrows
<1>4. CASE \E t \in Threads : Arrives(t)
  <2>1. PICK t \in Threads : Arrives(t)
    BY <1>4
  <2>2. /\ job[t].phase = "idle" /\ begun' = begun + 1 /\ answer' = [answer EXCEPT ![t] = None]
        /\ changes' = changes
    BY <2>1 DEF Arrives
  <2>3. PICK j \in Jobs : /\ job' = [job EXCEPT ![t] = j]
                          /\ j.number = begun + 1 /\ j.since = Len(changes)
    BY <2>1 DEF Arrives
  <2>4. ASSUME NEW u \in Threads, job'[u].phase # "idle"
        PROVE  Fresh(u)'
    <3>1. CASE u = t
      BY <1>1, <1>2, <1>3, <2>2, <2>3, <3>1 DEF Fresh, Told
    <3>2. CASE u # t
      BY <1>1, <1>2, <1>3, <2>2, <2>3, <2>4, <3>2 DEF Fresh, Told
    <3> QED BY <3>1, <3>2
  <2>5. \A u \in Threads : answer'[u] # None => Told(u)'
    BY <1>1, <1>2, <1>3, <2>2 DEF Told
  <2>6. \A u \in Threads : job'[u].number <= begun'
    BY <1>1, <1>2, <2>2, <2>3
  <2> QED BY <2>4, <2>5, <2>6
<1>5. CASE \E t \in Threads : TurnedAway(t)
  <2>1. PICK t \in Threads : TurnedAway(t)
    BY <1>5
  <2>2. PICK a : /\ answer' = [answer EXCEPT ![t] = a]
                 /\ a.number = begun + 1 /\ a.since = Len(changes) /\ a.until = Len(changes)
    BY <2>1, TurnedKind
  <2>3. job[t].phase = "idle" /\ begun' = begun + 1 /\ changes' = changes /\ job' = job
    BY <2>1, TurnedKind
  <2>4. ASSUME NEW u \in Threads, job'[u].phase # "idle"
        PROVE  Fresh(u)'
    BY <1>1, <1>2, <1>3, <2>2, <2>3, <2>4 DEF Fresh, Told
  <2>5. \A u \in Threads : answer'[u] # None => Told(u)'
    BY <1>1, <1>2, <1>3, <2>2, <2>3 DEF Told
  <2>6. \A u \in Threads : job'[u].number <= begun'
    BY <1>1, <1>2, <2>3
  <2> QED BY <2>4, <2>5, <2>6
<1>6. CASE \E t \in Threads : Works(t)
  <2>1. PICK t \in Threads : Works(t)
    BY <1>6
  <2>2. begun' = begun
    BY <2>1, WorksKinds
  <2>3. CASE GoesOn(t)
    <3>1. /\ job[t].phase # "idle" /\ \A u \in Threads : u # t => job'[u] = job[u]
          /\ job'[t].number = job[t].number /\ job'[t].since = job[t].since
          /\ answer' = answer /\ changes' = changes
      BY <1>2, <2>3, GoesOnKeeps DEF Quiet
    <3>2. ASSUME NEW u \in Threads, job'[u].phase # "idle"
          PROVE  Fresh(u)'
      <4>1. Fresh(u) /\ job'[u].number = job[u].number /\ job'[u].since = job[u].since
        BY <1>1, <3>1, <3>2
      <4>2. \A v \in Threads : job'[v].phase # "idle" =>
                job[v].phase # "idle" /\ job'[v].number = job[v].number
        BY <3>1
      <4> QED BY <2>2, <3>1, <4>1, <4>2 DEF Fresh
    <3> QED BY <1>1, <2>2, <3>1, <3>2 DEF Told
  <2>4. CASE Ends(t)
    <3>1. /\ job[t].phase # "idle" /\ job'[t] = Idle /\ job'[t].phase = "idle"
          /\ \A u \in Threads : u # t => job'[u] = job[u] /\ answer'[u] = answer[u]
          /\ \/ answer'[t] = answer[t]
             \/ /\ answer'[t].number = job[t].number /\ answer'[t].since = job[t].since
                /\ answer'[t].until = Len(changes)
      BY <1>2, <2>4, EndsAnswer
    <3>2. \A i \in 1..Len(changes') :
              \/ i \in 1..Len(changes) /\ changes'[i] = changes[i]
              \/ changes'[i].number = job[t].number
      BY <2>1, ChangesOf
    <3>3. Fresh(t)
      BY <1>1, <3>1
    <3>4. ASSUME NEW u \in Threads, job'[u].phase # "idle"
          PROVE  Fresh(u)'
      <4>1. u # t /\ job'[u] = job[u] /\ job[u].phase # "idle" /\ answer'[u] = answer[u] /\ Fresh(u)
        BY <1>1, <3>1, <3>4
      <4>2. job[u].number # job[t].number
        BY <3>1, <4>1 DEF Fresh
      <4>3. \A i \in DOMAIN changes' : changes'[i].number # job'[u].number
        BY <1>2, <3>2, <4>1, <4>2 DEF Fresh
      <4>4. \A v \in Threads : job'[v].phase # "idle" /\ v # u => job'[v].number # job'[u].number
        BY <3>1, <4>1 DEF Fresh
      <4>5. \A v \in Threads : answer'[v] # None => answer'[v].number # job'[u].number
        BY <3>1, <3>3, <4>1, <4>2 DEF Fresh
      <4>6. job'[u].number \in 1..begun' /\ job'[u].since <= Len(changes')
        BY <1>2, <1>3, <2>2, <4>1 DEF Fresh
      <4> QED BY <4>1, <4>3, <4>4, <4>5, <4>6 DEF Fresh
    <3>5. ASSUME NEW u \in Threads, answer'[u] # None
          PROVE  Told(u)'
      <4>1. CASE answer'[u] = answer[u]
        BY <1>1, <1>3, <2>2, <3>5, <4>1 DEF Told
      <4>2. CASE answer'[u] # answer[u]
        <5>1. u = t
          BY <3>1, <4>2
        <5> QED BY <1>2, <1>3, <2>2, <3>1, <3>3, <4>2, <5>1 DEF Told, Fresh
      <4> QED BY <4>1, <4>2
    <3>6. \A u \in Threads : job'[u].number <= begun'
      BY <1>1, <1>2, <2>2, <3>1 DEF Idle
    <3> QED BY <3>4, <3>5, <3>6
  <2> QED BY <2>1, <2>3, <2>4, WorksKinds
<1>7. CASE Outside \/ UNCHANGED vars
  <2>1. UNCHANGED <<job, answer, begun, changes>>
    BY <1>7, OutsideKind DEF vars
  <2> QED BY <1>1, <2>1 DEF Fresh, Told
<1>8. CASE DamageDone
  <2>1. UNCHANGED <<job, answer, begun>>
    BY <1>8, DamageChanges
  <2>2. PICK d \in Docs, bytes \in StoredBytes : Changed(d, "fault", 0, bytes)
    BY <1>8, DamageChanges
  <2>3. /\ Len(changes') = Len(changes) + 1
        /\ \A i \in 1..Len(changes) : changes'[i] = changes[i]
        /\ changes'[Len(changes) + 1].number = 0
    BY <2>2 DEF Changed, ChangeRecord
  <2>4. ASSUME NEW u \in Threads, job'[u].phase # "idle"
        PROVE  Fresh(u)'
    <3>1. Fresh(u)
      BY <1>1, <2>1, <2>4
    <3>2. \A i \in DOMAIN changes' : changes'[i].number # job'[u].number
      BY <1>2, <1>3, <2>1, <2>3, <3>1 DEF Fresh
    <3> QED BY <1>2, <1>3, <2>1, <3>1, <3>2 DEF Fresh
  <2>5. \A u \in Threads : answer'[u] # None => Told(u)'
    BY <1>1, <1>3, <2>1 DEF Told
  <2> QED BY <1>1, <2>1, <2>4, <2>5
<1> QED BY <1>4, <1>5, <1>6, <1>7, <1>8, StepKinds

LEMMA NumberedStep ==
    ASSUME Sound, Numbered, [Next]_vars
    PROVE  Numbered'
BY CallsNumbered, RecordsNumbered DEF Numbered, Fresh, Told

LEMMA NumberedInit ==
    ASSUME Init
    PROVE  Numbered
<1>1. /\ evidence = {} /\ audit = <<>> /\ changes = <<>>
      /\ job = [t \in Threads |-> Idle] /\ answer = [t \in Threads |-> None]
      /\ begun = 0 /\ discarded = 0
    BY DEF Init
<1>2. MaxCalls \in Nat /\ Idle.phase = "idle" /\ Idle.number = 0
    BY BoundsAssumption DEF Idle
<1> QED BY <1>1, <1>2 DEF Numbered

-----------------------------------------------------------------------------
(* A call that swaps, preserves or removes has read what it works on.      *)

LEMMA JobMoves ==
    ASSUME Sound, [Next]_vars, NEW t \in Threads
    PROVE  \/ job'[t] = job[t]
           \/ Arrives(t)
           \/ Ends(t) /\ job'[t].phase = "idle"
           \/ Works(t) /\ GoesOn(t) /\ ~Ends(t)
<1>1. Typed /\ DOMAIN job = Threads
    BY DEF Sound, Typed
<1>2. CASE \E u \in Threads : Arrives(u)
    BY <1>1, <1>2 DEF Arrives
<1>3. CASE \E u \in Threads : TurnedAway(u)
    BY <1>3 DEF TurnedAway, Turned
<1>4. CASE \E u \in Threads : Works(u)
  <2>1. PICK u \in Threads : Works(u)
    BY <1>4
  <2>2. CASE u = t
    <3>1. Ends(t) => job'[t].phase = "idle"
      BY <1>1, EndsAnswer
    <3> QED BY <2>1, <2>2, <3>1, WorksKinds
  <2>3. CASE u # t
    BY <1>1, <2>1, <2>3, WorksKinds, GoesOnKeeps, EndsAnswer
  <2> QED BY <2>2, <2>3
<1>5. CASE Outside \/ DamageDone \/ UNCHANGED vars
    BY <1>5, OutsideKind, DamageChanges DEF vars
<1> QED BY <1>2, <1>3, <1>4, <1>5, StepKinds

(* What a call goes on with is what is stored, or what it had read.        *)
LEMMA ReadsKinds ==
    ASSUME Sound, NEW t \in Threads, Works(t), GoesOn(t), ~Ends(t),
           job'[t].phase \in {"swap", "preserve", "remove"}
    PROVE  /\ Quiet
           /\ \/ job'[t].read = kept[job[t].doc] /\ job[t].phase = "read"
                 /\ job[t].doc \in Docs
                 /\ (job'[t].phase = "swap" => job[t].call = "commit")
              \/ /\ Preserve(t) /\ job[t].phase = "preserve" /\ job'[t].phase = "swap"
                 /\ job'[t].read = job[t].read
<1>1. Typed /\ Placed(job[t]) /\ Quiet
    BY GoesOnKeeps DEF Sound, Quiet, GoesOn
<1>2. CASE ReadToCommit(t)
  <2>1. /\ job[t].phase = "read" /\ job[t].call = "commit"
        /\ job'[t].read = kept[job[t].doc]
    BY <1>2, ReadToCommitKind
  <2> QED BY <1>1, <2>1, ReadDoc
<1>3. CASE ReadToQuarantine(t)
  <2>1. job[t].phase = "read" /\ job'[t].phase = "preserve" /\ job'[t].read = kept[job[t].doc]
    BY <1>3, ReadToQuarantineKind
  <2> QED BY <1>1, <2>1, ReadDoc
<1>4. CASE ReadToRepair(t)
  <2>1. job[t].phase = "read" /\ job'[t].phase = "preserve" /\ job'[t].read = kept[job[t].doc]
    BY <1>4, ReadToRepairKind
  <2> QED BY <1>1, <2>1, ReadDoc
<1>5. CASE ReadToReset(t)
  <2>1. job[t].phase = "read" /\ job'[t].phase = "remove" /\ job'[t].read = kept[job[t].doc]
    BY <1>5, ReadToResetKind
  <2> QED BY <1>1, <2>1, ReadDoc
<1>6. CASE Preserve(t)
    BY <1>1, <1>6, PreserveKind
<1>7. CASE LookUp(t)
    BY <1>7, LookUpKind
<1>8. CASE Sources(t)
    BY <1>8, SourcesKind
<1>9. CASE ListNext(t) \/ InspectNext(t)
    BY <1>9, ListNextKind, InspectNextKind
<1>10. CASE Audit(t) \/ AppendAudit(t)
  <2>1. job'[t].phase \in {"append", "sources", "read"}
    BY <1>10, AuditKind, AppendAuditKind
  <2> QED BY <2>1
<1>11. CASE Remove(t)
    BY <1>11, RemoveKind
<1>12. CASE \/ Insert(t) \/ Get(t) \/ SwapCommit(t) \/ EndOfSources(t) \/ Verify(t)
            \/ AuditQuery(t) \/ Export(t) \/ SwapRepaired(t) \/ Fail(t)
    BY <1>12, InsertKind, GetKind, SwapCommitKind, EndingKind, SwapRepairedKind
<1> QED BY <1>2, <1>3, <1>4, <1>5, <1>6, <1>7, <1>8, <1>9, <1>10, <1>11, <1>12 DEF Works

LEMMA OvertakenStep ==
    ASSUME Sound, Numbered, Overtaken, [Next]_vars
    PROVE  Overtaken'
<1> SUFFICES ASSUME NEW t \in Threads, job'[t].phase \in {"swap", "preserve", "remove"}
             PROVE  \/ kept'[job'[t].doc] = job'[t].read
                    \/ \E i \in (job'[t].since + 1)..Len(changes') :
                          changes'[i].doc = job'[t].doc
    BY DEF Overtaken
<1>1. Typed /\ Placed(job[t]) /\ job[t].since \in Nat /\ Len(changes) \in Nat
    BY Domains DEF Sound
<1>2. /\ Len(changes') \in Nat /\ Len(changes) <= Len(changes')
      /\ \A i \in 1..Len(changes) : changes'[i] = changes[i]
    BY LengthGrows
<1>3. CASE job'[t] = job[t]
  <2>1. job[t].since <= Len(changes)
    BY <1>3 DEF Numbered
  <2>2. CASE \E i \in (job[t].since + 1)..Len(changes) : changes[i].doc = job[t].doc
    BY <1>1, <1>2, <1>3, <2>2
  <2>3. CASE kept[job[t].doc] = job[t].read
    <3>0. job[t].doc \in Docs
      BY <1>1, <1>3 DEF Placed, Naming, AllCalls, Wide, Recoveries
    <3>1. CASE Quiet
      BY <1>3, <2>3, <3>1 DEF Quiet
    <3>2. CASE \E d \in Docs, by \in {"commit", "repair", "reset", "fault"}, number \in Nat,
                 bytes \in StoredBytes \cup {None} : Changed(d, by, number, bytes)
      <4>1. PICK d \in Docs : \E by, number, bytes : Changed(d, by, number, bytes)
        BY <3>2
      <4>2. /\ \A e \in Docs : e # d => kept'[e] = kept[e]
            /\ Len(changes') = Len(changes) + 1 /\ changes'[Len(changes) + 1].doc = d
        BY <4>1 DEF Changed, ChangeRecord
      <4>3. CASE job[t].doc = d
        <5>1. Len(changes) + 1 \in (job[t].since + 1)..Len(changes')
          BY <1>1, <2>1, <4>2
        <5> QED BY <1>3, <4>2, <4>3, <5>1
      <4> QED BY <1>3, <2>3, <3>0, <4>2, <4>3
    <3> QED BY <3>1, <3>2, SomeChange
  <2> QED BY <1>3, <2>2, <2>3 DEF Overtaken
<1>4. CASE Arrives(t)
    BY <1>1, <1>4 DEF Arrives, Typed
<1>5. CASE Works(t) /\ GoesOn(t) /\ ~Ends(t)
  <2>1. job'[t].doc = job[t].doc /\ job'[t].since = job[t].since
    BY <1>1, <1>5, GoesOnKeeps
  <2>2. kept' = kept /\ changes' = changes
    BY <1>5, ReadsKinds DEF Quiet
  <2>3. \/ job'[t].read = kept[job[t].doc]
        \/ job[t].phase = "preserve" /\ job'[t].read = job[t].read
    BY <1>5, ReadsKinds
  <2> QED BY <2>1, <2>2, <2>3 DEF Overtaken
<1> QED BY <1>3, <1>4, <1>5, JobMoves

(* Evidence is only added to.                                              *)
LEMMA EvidenceKept ==
    ASSUME Sound, [Next]_vars
    PROVE  evidence \subseteq evidence'
<1>1. CASE \E t \in Threads : Works(t)
    BY <1>1, WorksKinds, PreserveKind
<1> QED BY <1>1, StepKinds, OutsideKind, DamageChanges DEF Arrives, TurnedAway, Turned, vars

LEMMA PreservingStep ==
    ASSUME Sound, Preserving, [Next]_vars
    PROVE  Preserving'
<1> SUFFICES ASSUME NEW t \in Threads, job'[t].phase = "swap", job'[t].call = "repair"
             PROVE  [number |-> job'[t].number, doc |-> job'[t].doc,
                     bytes |-> job'[t].read.bytes] \in evidence'
    BY DEF Preserving
<1>1. Typed
    BY DEF Sound
<1>2. CASE job'[t] = job[t]
    BY <1>2, EvidenceKept DEF Preserving
<1>3. CASE Arrives(t)
    BY <1>1, <1>3 DEF Arrives, Typed
<1>4. CASE Works(t) /\ GoesOn(t) /\ ~Ends(t)
  <2>1. /\ job'[t].doc = job[t].doc /\ job'[t].number = job[t].number
        /\ job'[t].call = job[t].call
    BY <1>1, <1>4, GoesOnKeeps
  <2>2. Preserve(t) /\ job'[t].read = job[t].read
    BY <1>4, <2>1, ReadsKinds
  <2> QED BY <2>1, <2>2, PreserveKind DEF Evidence
<1> QED BY <1>2, <1>3, <1>4, JobMoves

-----------------------------------------------------------------------------
(* What is changed: faults, commits and repairs.                           *)

LEMMA EnvelopesDecode == \A e \in Envelopes : Decodes(e)
BY MarksAssumption DEF Decodes

(* The change a step makes comes last, and those before it stay.           *)
LEMMA LastChange ==
    ASSUME Sound, NEW d, NEW by, NEW number, NEW bytes, Changed(d, by, number, bytes)
    PROVE  /\ Len(changes) \in Nat /\ Len(changes') = Len(changes) + 1
           /\ DOMAIN changes = 1..Len(changes) /\ DOMAIN changes' = 1..(Len(changes) + 1)
           /\ \A i \in 1..Len(changes) : changes'[i] = changes[i]
           /\ LET c == changes'[Len(changes) + 1]
              IN /\ c.doc = d /\ c.by = by /\ c.number = number /\ c.after = bytes
                 /\ c.before = IF kept[d] = None THEN None ELSE kept[d].bytes
<1>1. DOMAIN changes = 1..Len(changes)
    BY Domains DEF Sound
<1>2. DOMAIN changes' = 1..Len(changes')
    BY LenProperties DEF Changed
<1> QED BY <1>1, <1>2 DEF Changed, ChangeRecord

LEMMA JudgedStep ==
    ASSUME Sound, Judged, [Next]_vars
    PROVE  Judged'
<1>1. CASE Quiet
    BY <1>1 DEF Judged, Quiet
<1>2. CASE DamageDone
  <2>1. PICK d \in Docs, bytes \in StoredBytes :
            ~(Decodes(bytes) /\ Valid(d, bytes)) /\ Changed(d, "fault", 0, bytes)
    BY <1>2, DamageChanges
  <2> QED BY <2>1, LastChange DEF Judged
<1>3. CASE \E t \in Threads : CommitStored(t)
  <2>1. PICK t \in Threads : CommitStored(t)
    BY <1>3
  <2>2. /\ Changed(job[t].doc, "commit", job[t].number, CommitNext(t))
        /\ kept[job[t].doc] = job[t].read
        /\ job[t].read # None => job[t].read.bytes \in Envelopes /\ Whole(job[t].read.bytes)
    BY <2>1, CommitChanges
  <2> QED BY <2>2, LastChange, EnvelopesDecode DEF Judged
<1>4. CASE \E t \in Threads : RepairStored(t)
  <2>1. PICK t \in Threads : RepairStored(t)
    BY <1>4
  <2>2. Changed(job[t].doc, "repair", job[t].number, Repaired(job[t].read.bytes))
    BY <2>1, RepairChanges
  <2> QED BY <2>2, LastChange DEF Judged
<1>5. CASE \E t \in Threads : Removed(t)
  <2>1. PICK t \in Threads : Removed(t)
    BY <1>5
  <2>2. Changed(job[t].doc, "reset", job[t].number, None)
    BY <2>1, RemoveChanges
  <2> QED BY <2>2, LastChange DEF Judged
<1> QED BY <1>1, <1>2, <1>3, <1>4, <1>5, ChangeKinds

LEMMA JudgedKept ==
    ASSUME Sound, Judged
    PROVE  FaultsKept
<1> SUFFICES ASSUME NEW i \in DOMAIN changes, changes[i].by = "commit",
                    changes[i].before # None,
                    ~(Decodes(changes[i].before) /\ changes[i].before.of # changes[i].doc),
                    NEW j \in 1..(i - 1), changes[j].doc = changes[i].doc,
                    changes[j].by = "fault", changes[j].after = changes[i].before
             PROVE  FALSE
    BY DEF FaultsKept
<1>1. j \in DOMAIN changes
    BY Domains DEF Sound
<1>2. Decodes(changes[i].before) /\ Whole(changes[i].before)
    BY DEF Judged
<1>3. ~(Decodes(changes[j].after) /\ Valid(changes[j].doc, changes[j].after))
    BY <1>1 DEF Judged
<1> QED BY <1>2, <1>3 DEF Valid

LEMMA ValidMends ==
    ASSUME NEW d, NEW e \in Envelopes, Valid(d, e)
    PROVE  Mendable(d, e)
BY EnvelopesDecode DEF Mendable, Valid, Whole

LEMMA FaultedStays ==
    ASSUME Sound, [Next]_vars, NEW d, Faulted(d)
    PROVE  Faulted(d)'
<1>1. PICK i \in DOMAIN changes :
          changes[i].doc = d /\ changes[i].by = "fault" /\ ~Mendable(d, changes[i].after)
    BY DEF Faulted
<1>2. DOMAIN changes = 1..Len(changes) /\ DOMAIN changes' = 1..Len(changes')
    BY TypedStep, Domains, LenProperties DEF Sound, Typed
<1>3. i \in DOMAIN changes' /\ changes'[i] = changes[i]
    BY <1>2, LengthGrows
<1> QED BY <1>1, <1>3 DEF Faulted, Mendable, Decodes

LEMMA BlamedStored ==
    ASSUME Sound, Blamed, [Next]_vars, NEW d \in Docs, kept'[d] # None,
           ~Mendable(d, kept'[d].bytes)
    PROVE  Faulted(d)'
<1>1. CASE kept'[d] = kept[d]
    BY <1>1, FaultedStays DEF Blamed
<1>2. ASSUME NEW e \in Docs, NEW by, NEW number, NEW bytes, Changed(e, by, number, bytes),
             kept'[d] # kept[d]
      PROVE  e = d /\ kept'[d].bytes = bytes
  <2>1. e = d
    BY <1>2 DEF Changed
  <2>2. kept'[d] = [version |-> Len(changes) + 1, bytes |-> bytes]
    BY <1>2, <2>1 DEF Changed
  <2> QED BY <2>1, <2>2
<1>3. CASE DamageDone /\ kept'[d] # kept[d]
  <2>1. PICK e \in Docs, bytes \in StoredBytes : Changed(e, "fault", 0, bytes)
    BY <1>3, DamageChanges
  <2>2. e = d /\ kept'[d].bytes = bytes
    BY <1>2, <1>3, <2>1
  <2>3. /\ Len(changes) + 1 \in DOMAIN changes'
        /\ changes'[Len(changes) + 1].doc = d /\ changes'[Len(changes) + 1].by = "fault"
        /\ changes'[Len(changes) + 1].after = bytes
    BY <2>1, <2>2, LastChange
  <2> QED BY <2>2, <2>3 DEF Faulted, Mendable, Decodes
<1>4. CASE \E t \in Threads : CommitStored(t) /\ kept'[d] # kept[d]
  <2>1. PICK t \in Threads : CommitStored(t)
    BY <1>4
  <2>2. /\ Changed(job[t].doc, "commit", job[t].number, CommitNext(t)) /\ job[t].doc \in Docs
        /\ CommitNext(t) \in Envelopes /\ Valid(job[t].doc, CommitNext(t))
    BY <2>1, CommitChanges
  <2>3. job[t].doc = d /\ kept'[d].bytes = CommitNext(t)
    BY <1>2, <1>4, <2>2
  <2> QED BY <2>2, <2>3, ValidMends
<1>5. CASE \E t \in Threads : RepairStored(t) /\ kept'[d] # kept[d]
  <2>1. PICK t \in Threads : RepairStored(t)
    BY <1>5
  <2> DEFINE next == Repaired(job[t].read.bytes)
  <2>2. /\ Changed(job[t].doc, "repair", job[t].number, next) /\ job[t].doc \in Docs
        /\ next \in Envelopes /\ Valid(job[t].doc, next)
    BY <2>1, RepairChanges
  <2> HIDE DEF next
  <2>3. job[t].doc = d /\ kept'[d].bytes = next
    BY <1>2, <1>5, <2>2
  <2> QED BY <2>2, <2>3, ValidMends
<1>6. CASE \E t \in Threads : Removed(t) /\ kept'[d] # kept[d]
  <2>1. PICK t \in Threads : Removed(t)
    BY <1>6
  <2>2. Changed(job[t].doc, "reset", job[t].number, None) /\ job[t].doc \in Docs
    BY <2>1, RemoveChanges
  <2> QED BY <1>6, <2>2 DEF Changed
<1> QED BY <1>1, <1>3, <1>4, <1>5, <1>6, ChangeKinds DEF Quiet

LEMMA BlamedStep ==
    ASSUME Sound, Blamed, [Next]_vars
    PROVE  Blamed'
<1>1. \A d \in Docs : kept'[d] # None /\ ~Mendable(d, kept'[d].bytes) => Faulted(d)'
    BY BlamedStored
<1>2. ASSUME NEW t \in Threads, job'[t].phase \in {"preserve", "swap"},
             job'[t].call = "repair", NEW d, d = job'[t].doc, ~Mendable(d, job'[t].read.bytes)
      PROVE  Faulted(d)'
  <2>0. Typed /\ job'[t].read # None
    BY <1>2, PlacedStep DEF Sound, Placed
  <2>1. CASE job'[t] = job[t]
    BY <1>2, <2>1, FaultedStays DEF Blamed
  <2>2. CASE Arrives(t)
    BY <1>2, <2>0, <2>2 DEF Arrives, Typed
  <2>3. CASE Works(t) /\ GoesOn(t) /\ ~Ends(t)
    <3>1. job'[t].doc = job[t].doc /\ job'[t].call = job[t].call
      BY <2>0, <2>3, GoesOnKeeps
    <3>2. CASE job'[t].read = kept[job[t].doc] /\ job[t].doc \in Docs
      <4>1. kept[d] # None /\ d \in Docs /\ ~Mendable(d, kept[d].bytes)
        BY <1>2, <2>0, <3>1, <3>2
      <4> QED BY <4>1, FaultedStays DEF Blamed
    <3>3. CASE job[t].phase = "preserve" /\ job'[t].read = job[t].read
      <4>1. Faulted(d)
        BY <1>2, <3>1, <3>3 DEF Blamed
      <4> QED BY <4>1, FaultedStays
    <3> QED BY <1>2, <2>3, <3>2, <3>3, ReadsKinds
  <2>4. job'[t].phase # "idle"
    BY <1>2
  <2> QED BY <2>1, <2>2, <2>3, <2>4, JobMoves
<1>3. \A t \in Threads :
          /\ job'[t].phase \in {"preserve", "swap"} /\ job'[t].call = "repair"
          /\ ~Mendable(job'[t].doc, job'[t].read.bytes)
          => \E i \in DOMAIN changes' :
                changes'[i].doc = job'[t].doc /\ changes'[i].by = "fault"
                /\ ~Mendable(job'[t].doc, changes'[i].after)
  <2> SUFFICES ASSUME NEW t \in Threads, job'[t].phase \in {"preserve", "swap"},
                      job'[t].call = "repair", ~Mendable(job'[t].doc, job'[t].read.bytes)
               PROVE  \E i \in DOMAIN changes' :
                         changes'[i].doc = job'[t].doc /\ changes'[i].by = "fault"
                         /\ ~Mendable(job'[t].doc, changes'[i].after)
    OBVIOUS
  <2>1. PICK d : d = job'[t].doc
    OBVIOUS
  <2>2. Faulted(d)'
    BY <1>2, <2>1
  <2>3. \E i \in DOMAIN changes' :
            changes'[i].doc = d /\ changes'[i].by = "fault" /\ ~Mendable(d, changes'[i].after)
    BY <2>2 DEF Faulted, Mendable, Decodes
  <2> QED BY <2>1, <2>3
<1> QED BY <1>1, <1>3 DEF Blamed, Faulted, Mendable, Decodes

-----------------------------------------------------------------------------
(* What callers are told.                                                  *)

Tells(t, code, dispatched, result) ==
    answer' = [answer EXCEPT ![t] = Answered(job[t], code, dispatched, result)]

(* A refusal: nothing was changed, and there is a reason.                  *)
Refuses(t) ==
    /\ Quiet
    /\ \E code :
          /\ code # "done" /\ Tells(t, code, TRUE, None)
          /\ code \in Retryable => job[t].phase = "swap" /\ kept[job[t].doc] # job[t].read
          /\ code = "collaboration_state_corrupt" /\ job[t].call = "repair" =>
                \/ /\ job[t].phase = "read" /\ job[t].doc \in Docs /\ kept[job[t].doc] # None
                   /\ ~(Decodes(kept[job[t].doc].bytes) /\ kept[job[t].doc].bytes.sound)
                \/ /\ job[t].phase = "swap" /\ job[t].read.bytes \in Envelopes
                   /\ ~Valid(job[t].doc, Repaired(job[t].read.bytes))

(* The calls whose answer says no more than that they are done.            *)
Answers(t) ==
    /\ job[t].call \notin {"list", "inspect", "reindex", "audit", "reset"}
    /\ \E result : Tells(t, "done", TRUE, result)

LEMMA AnswersKinds ==
    ASSUME Sound, NEW t \in Threads, Works(t)
    PROVE  \/ answer' = answer
           \/ Refuses(t) \/ Answers(t)
           \/ EndOfSources(t) \/ AuditQuery(t)
           \/ /\ ReadToReset(t) /\ job[t].call = "reset" /\ job[t].doc \in Docs
              /\ kept[job[t].doc] = None /\ Quiet /\ Tells(t, "done", TRUE, None)
           \/ Removed(t) /\ Tells(t, "done", TRUE, None)
<1>1. Typed /\ Placed(job[t])
    BY DEF Sound
<1>2. ASSUME NEW code, StoreRefuses(t, code), Quiet,
             code \in {"not_found", "collaboration_document_not_found",
                       "collaboration_migration_required", "internal_error"}
      PROVE  Refuses(t)
    BY <1>2 DEF StoreRefuses, Refuses, Tells, Retryable
<1>3. ASSUME StoreRefuses(t, "collaboration_state_corrupt"), Quiet, job[t].call # "repair"
      PROVE  Refuses(t)
    BY <1>3 DEF StoreRefuses, Refuses, Tells, Retryable
<1>4. ASSUME NEW result, Done(t, result),
             job[t].call \notin {"list", "inspect", "reindex", "audit", "reset"}
      PROVE  Answers(t)
    BY <1>4 DEF Done, Answers, Tells
<1>5. CASE Get(t)
  <2>1. Quiet /\ job[t].call = "get"
    BY <1>5 DEF Get, Quiet
  <2>2. \/ \E code \in {"collaboration_document_not_found", "collaboration_migration_required"} :
              StoreRefuses(t, code)
        \/ StoreRefuses(t, "collaboration_state_corrupt")
        \/ \E result : Done(t, result)
    <3> DEFINE resident == Resident(job[t].service, job[t].doc, FALSE)
    <3>1. CASE resident = None
      BY <1>5, <3>1 DEF Get
    <3>2. CASE resident = Torn
      BY <1>5, <3>2, MarksAssumption DEF Get
    <3>3. CASE resident \notin {None, Torn} /\ resident.envelope.schema # Plan
      BY <1>5, <3>3 DEF Get
    <3>4. CASE resident \notin {None, Torn} /\ ~(resident.envelope.schema # Plan)
      BY <1>5, <3>4 DEF Get
    <3> QED BY <3>1, <3>2, <3>3, <3>4
  <2> QED BY <1>2, <1>3, <1>4, <2>1, <2>2
<1>6. CASE ReadToCommit(t)
  <2>1. Quiet /\ job[t].call = "commit"
    BY <1>6 DEF ReadToCommit, Quiet
  <2>2. \/ StoreRefuses(t, "collaboration_migration_required")
        \/ StoreRefuses(t, "collaboration_state_corrupt")
        \/ answer' = answer
    <3> DEFINE resident == Resident(job[t].service, job[t].doc, FALSE)
    <3>1. CASE resident = Torn
      BY <1>6, <3>1, MarksAssumption DEF ReadToCommit
    <3>2. CASE resident \notin {None, Torn} /\ resident.envelope.schema # Plan
      BY <1>6, <3>2 DEF ReadToCommit
    <3>3. CASE ~(resident = Torn) /\ ~(resident \notin {None, Torn} /\ resident.envelope.schema # Plan)
      BY <1>6, <3>3 DEF ReadToCommit
    <3> QED BY <3>1, <3>2, <3>3
  <2> QED BY <1>2, <1>3, <2>1, <2>2
<1>7. CASE SwapCommit(t)
  <2>1. \/ Done(t, CommitNext(t)) /\ job[t].call = "commit"
        \/ /\ job[t].phase = "swap" /\ job[t].call = "commit" /\ kept[job[t].doc] # job[t].read
           /\ StoreRefuses(t, "collaboration_commit_contended") /\ Quiet
    BY <1>7, SwapCommitKind
  <2> QED BY <1>4, <2>1 DEF StoreRefuses, Refuses, Tells
<1>8. CASE SwapRepaired(t)
  <2> DEFINE next == Repaired(job[t].read.bytes)
  <2>1. /\ job[t].phase = "swap" /\ job[t].call = "repair" /\ job[t].read.bytes \in Envelopes
        /\ \/ ~Valid(job[t].doc, next) /\ StoreRefuses(t, "collaboration_state_corrupt") /\ Quiet
           \/ Done(t, next)
           \/ /\ kept[job[t].doc] # job[t].read /\ Quiet
              /\ StoreRefuses(t, "collaboration_repair_contended")
    BY <1>8, SwapRepairedKind
  <2>2. CASE ~Valid(job[t].doc, next) /\ StoreRefuses(t, "collaboration_state_corrupt") /\ Quiet
    BY <2>1, <2>2 DEF StoreRefuses, Refuses, Tells, Retryable
  <2>3. CASE \E result : Done(t, result)
    BY <1>4, <2>1, <2>3
  <2>4. CASE /\ kept[job[t].doc] # job[t].read /\ Quiet
             /\ StoreRefuses(t, "collaboration_repair_contended")
    <3>1. job[t].phase = "swap"
      BY <2>1
    <3>2. Tells(t, "collaboration_repair_contended", TRUE, None)
      BY <2>4 DEF StoreRefuses, Tells
    <3>3. "collaboration_repair_contended" \notin {"done", "collaboration_state_corrupt"}
      OBVIOUS
    <3> QED BY <2>4, <3>1, <3>2, <3>3 DEF Refuses
  <2> QED BY <2>1, <2>2, <2>3, <2>4
<1>9. CASE ReadToQuarantine(t)
  <2>1. \/ StoreRefuses(t, "not_found")
        \/ answer' = answer
    BY <1>9 DEF ReadToQuarantine
  <2>2. Quiet
    BY <1>9 DEF ReadToQuarantine, Quiet
  <2> QED BY <1>2, <2>1, <2>2
<1>10. CASE ReadToRepair(t)
  <2>1. Quiet
    BY <1>10 DEF ReadToRepair, Quiet
  <2>2. /\ job[t].phase = "read" /\ job[t].doc \in Docs
        /\ \/ StoreRefuses(t, "not_found")
           \/ /\ StoreRefuses(t, "collaboration_state_corrupt")
              /\ kept[job[t].doc] # None
              /\ ~(Decodes(kept[job[t].doc].bytes) /\ kept[job[t].doc].bytes.sound)
           \/ GoesOn(t)
    BY <1>10, ReadToRepairKind
  <2> QED BY <1>2, <2>1, <2>2 DEF StoreRefuses, Refuses, Tells, Retryable, GoesOn
<1>11. CASE Export(t)
  <2>1. Quiet /\ job[t].call = "export"
    BY <1>11 DEF Export, Quiet
  <2>2. StoreRefuses(t, "not_found") \/ \E result : Done(t, result)
    BY <1>11 DEF Export
  <2> QED BY <1>2, <1>4, <2>1, <2>2
<1>12. CASE Verify(t)
    BY <1>4, <1>12 DEF Verify
<1>13. CASE LookUp(t)
  <2>1. job[t].call = "store_or_register"
    BY <1>1, <1>13, LookUpKind DEF Placed
  <2> QED BY <1>4, <1>13, <2>1 DEF LookUp
<1>14. CASE Insert(t)
  <2>1. job[t].call = "store_or_register"
    BY <1>1, <1>14, InsertKind DEF Placed
  <2> QED BY <1>4, <1>14, <2>1 DEF Insert
<1>15. CASE Preserve(t)
    BY <1>4, <1>15 DEF Preserve
<1>16. CASE ListNext(t)
  <2>1. Quiet
    BY <1>16 DEF ListNext, Quiet
  <2>2. StoreRefuses(t, "internal_error") \/ answer' = answer
    BY <1>16 DEF ListNext
  <2> QED BY <1>2, <2>1, <2>2
<1>17. CASE ReadToReset(t)
  <2>1. Quiet /\ job[t].call = "reset" /\ job[t].doc \in Docs
    BY <1>17, ReadToResetKind DEF StillBut, Quiet
  <2>2. \/ kept[job[t].doc] = None /\ Done(t, None)
        \/ answer' = answer
    BY <1>17 DEF ReadToReset
  <2> QED BY <1>17, <2>1, <2>2 DEF Done, Tells
<1>18. CASE Remove(t)
  <2>1. \/ Removed(t) /\ Done(t, None)
        \/ answer' = answer
    BY <1>18 DEF Remove, Removed, TryAgain
  <2> QED BY <2>1 DEF Done, Tells
<1>19. CASE Sources(t) \/ InspectNext(t) \/ Audit(t) \/ AppendAudit(t) \/ Fail(t)
    BY <1>19 DEF Sources, InspectNext, Audit, AppendAudit, Fail
<1> QED BY <1>5, <1>6, <1>7, <1>8, <1>9, <1>10, <1>11, <1>12, <1>13, <1>14, <1>15, <1>16, <1>17,
           <1>18, <1>19 DEF Works

(* An answer stands until the thread's next call.                          *)
LEMMA AnswerMoves ==
    ASSUME Sound, [Next]_vars, NEW t \in Threads
    PROVE  \/ answer'[t] = answer[t]
           \/ answer'[t] = None
           \/ TurnedAway(t)
           \/ Works(t) /\ answer'[t] # answer[t]
<1>1. Typed /\ DOMAIN answer = Threads
    BY DEF Sound, Typed
<1>2. CASE \E u \in Threads : Arrives(u)
    BY <1>1, <1>2 DEF Arrives
<1>3. CASE \E u \in Threads : TurnedAway(u)
    BY <1>1, <1>3, TurnedKind
<1>4. CASE \E u \in Threads : Works(u)
  <2>1. PICK u \in Threads : Works(u)
    BY <1>4
  <2>2. u # t => answer'[t] = answer[t]
    BY <1>1, <2>1, WorksKinds, GoesOnKeeps, EndsAnswer
  <2> QED BY <2>1, <2>2
<1>5. CASE Outside \/ DamageDone \/ UNCHANGED vars
    BY <1>5, OutsideKind, DamageChanges DEF vars
<1> QED BY <1>2, <1>3, <1>4, <1>5, StepKinds

LEMMA TellsOf ==
    ASSUME Typed, NEW t \in Threads, NEW code, NEW dispatched, NEW result,
           Tells(t, code, dispatched, result)
    PROVE  LET a == answer'[t]
           IN /\ a.call = job[t].call /\ a.doc = job[t].doc /\ a.number = job[t].number
              /\ a.since = job[t].since /\ a.until = Len(changes)
              /\ a.code = code /\ a.dispatched = dispatched /\ a.result = result
BY DEF Tells, Answered, Typed

(* What a commit stored stays through the commits and repairs after it.    *)
LEMMA CommitsKeptStep ==
    ASSUME Sound, CommitsKept, [Next]_vars
    PROVE  CommitsKept'
<1> DEFINE Since(i) == \A j \in (i + 1)..Len(changes) :
                           changes[j].doc = changes[i].doc => changes[j].by \in {"commit", "repair"}
<1>1. /\ DOMAIN changes = 1..Len(changes) /\ Len(changes) \in Nat
      /\ \A i \in 1..Len(changes) : changes[i].doc \in Docs
    BY Domains DEF Sound, ChangesMade
<1>2. ASSUME NEW d \in Docs, NEW by, NEW number, NEW e \in Envelopes,
             by \in {"commit", "repair"}, e # None, Changed(d, by, number, e),
             by = "commit" => number \in e.checkpoint,
             kept[d] # None => kept[d].bytes.checkpoint \subseteq e.checkpoint
      PROVE  CommitsKept'
  <2> SUFFICES ASSUME NEW i \in DOMAIN changes', changes'[i].by = "commit",
                      \A j \in (i + 1)..Len(changes') :
                          changes'[j].doc = changes'[i].doc => changes'[j].by \in {"commit", "repair"}
               PROVE  /\ kept'[changes'[i].doc] # None
                      /\ kept'[changes'[i].doc].bytes # None
                      /\ changes'[i].number \in kept'[changes'[i].doc].bytes.checkpoint
    BY DEF CommitsKept, Bytes
  <2>1. /\ Len(changes') = Len(changes) + 1
        /\ DOMAIN changes' = 1..(Len(changes) + 1)
        /\ \A k \in 1..Len(changes) : changes'[k] = changes[k]
        /\ changes'[Len(changes) + 1].doc = d /\ changes'[Len(changes) + 1].by = by
        /\ changes'[Len(changes) + 1].number = number
    BY <1>2, LastChange
  <2>2. /\ kept'[d] # None /\ kept'[d].bytes = e
        /\ \A o \in Docs : o # d => kept'[o] = kept[o]
    BY <1>2 DEF Changed
  <2>3. CASE i = Len(changes) + 1
    BY <1>2, <2>1, <2>2, <2>3
  <2>4. CASE i \in 1..Len(changes)
    <3>1. changes'[i] = changes[i] /\ Since(i)
      BY <1>1, <2>1, <2>4
    <3>2. kept[changes[i].doc] # None /\ changes[i].number \in kept[changes[i].doc].bytes.checkpoint
          /\ kept[changes[i].doc].bytes # None
      BY <1>1, <2>4, <3>1 DEF CommitsKept, Bytes
    <3> QED BY <1>1, <1>2, <2>2, <2>4, <3>1, <3>2
  <2> QED BY <1>1, <2>1, <2>3, <2>4
<1>3. ASSUME NEW d \in Docs, NEW by, NEW number, NEW bytes,
             by \in {"fault", "reset"}, Changed(d, by, number, bytes)
      PROVE  CommitsKept'
  <2> SUFFICES ASSUME NEW i \in DOMAIN changes', changes'[i].by = "commit",
                      \A j \in (i + 1)..Len(changes') :
                          changes'[j].doc = changes'[i].doc => changes'[j].by \in {"commit", "repair"}
               PROVE  /\ kept'[changes'[i].doc] # None
                      /\ kept'[changes'[i].doc].bytes # None
                      /\ changes'[i].number \in kept'[changes'[i].doc].bytes.checkpoint
    BY DEF CommitsKept, Bytes
  <2>1. /\ Len(changes') = Len(changes) + 1
        /\ DOMAIN changes' = 1..(Len(changes) + 1)
        /\ \A k \in 1..Len(changes) : changes'[k] = changes[k]
        /\ changes'[Len(changes) + 1].doc = d /\ changes'[Len(changes) + 1].by = by
    BY <1>3, LastChange
  <2>2. \A o \in Docs : o # d => kept'[o] = kept[o]
    BY <1>3 DEF Changed
  <2>3. i \in 1..Len(changes)
    BY <1>1, <1>3, <2>1
  <2>4. changes'[i] = changes[i] /\ changes[i].doc # d /\ Since(i)
    BY <1>1, <1>3, <2>1, <2>3
  <2>5. kept[changes[i].doc] # None /\ changes[i].number \in kept[changes[i].doc].bytes.checkpoint
        /\ kept[changes[i].doc].bytes # None
    BY <1>1, <2>3, <2>4 DEF CommitsKept, Bytes
  <2> QED BY <1>1, <2>2, <2>3, <2>4, <2>5
<1>4. CASE Quiet
    BY <1>4 DEF CommitsKept, Bytes, Quiet
<1>5. CASE DamageDone
    BY <1>3, <1>5, DamageChanges
<1>6. CASE \E t \in Threads : Removed(t)
  <2>1. PICK t \in Threads : Removed(t)
    BY <1>6
  <2>2. Changed(job[t].doc, "reset", job[t].number, None) /\ job[t].doc \in Docs
    BY <2>1, RemoveChanges
  <2> QED BY <1>3, <2>2
<1>7. CASE \E t \in Threads : CommitStored(t)
  <2>1. PICK t \in Threads : CommitStored(t)
    BY <1>7
  <2> DEFINE e == CommitNext(t)
             old == IF job[t].read = None THEN None ELSE job[t].read.bytes
  <2>2. /\ job[t].number \in Nat /\ job[t].doc \in Docs /\ kept[job[t].doc] = job[t].read
        /\ e \in Envelopes /\ e # None
        /\ job[t].read # None => job[t].read.bytes \in Envelopes
        /\ Changed(job[t].doc, "commit", job[t].number, e)
    BY <2>1, CommitChanges
  <2>3. old \in Envelopes \cup {None} /\ (job[t].read # None => old # None /\ old = job[t].read.bytes)
    BY <2>2, MarksAssumption
  <2>4. e = Committed(job[t].doc, old, job[t].number)
    BY DEF CommitNext
  <2> HIDE DEF e, old
  <2>5. /\ job[t].number \in e.checkpoint
        /\ old # None => old.checkpoint \subseteq e.checkpoint
    BY <2>2, <2>3, <2>4, CommittedOK
  <2> QED BY <1>2, <2>2, <2>3, <2>5
<1>8. CASE \E t \in Threads : RepairStored(t)
  <2>1. PICK t \in Threads : RepairStored(t)
    BY <1>8
  <2> DEFINE e == Repaired(job[t].read.bytes)
  <2>2. /\ job[t].number \in Nat /\ job[t].doc \in Docs /\ kept[job[t].doc] = job[t].read
        /\ e \in Envelopes /\ e # None /\ job[t].read.bytes \in Envelopes
        /\ Changed(job[t].doc, "repair", job[t].number, e)
    BY <2>1, RepairChanges
  <2>3. e.checkpoint = job[t].read.bytes.checkpoint
    BY <2>2, RepairedOK
  <2> HIDE DEF e
  <2> QED BY <1>2, <2>2, <2>3
<1> QED BY <1>4, <1>5, <1>6, <1>7, <1>8, ChangeKinds

(* A repair replaces what it preserved, and gives up only where a fault    *)
(* left what it cannot mend.                                               *)
RepairsKeep ==
    \A i \in DOMAIN changes : changes[i].by = "repair" =>
        /\ [number |-> changes[i].number, doc |-> changes[i].doc, bytes |-> changes[i].before]
              \in evidence
        /\ changes[i].after.checkpoint = changes[i].before.checkpoint

RefusedFaulted ==
    \A t \in Threads :
        answer[t] # None /\ answer[t].call = "repair"
            /\ answer[t].code = "collaboration_state_corrupt" => Faulted(answer[t].doc)

LEMMA MendsParts == RepairMends <=> RepairsKeep /\ RefusedFaulted
BY DEF RepairMends, RepairsKeep, RefusedFaulted, Faulted, Mendable

LEMMA RepairsKeepStep ==
    ASSUME Sound, Preserving, RepairsKeep, [Next]_vars
    PROVE  RepairsKeep'
<1>1. evidence \subseteq evidence'
    BY EvidenceKept
<1>2. CASE Quiet
    BY <1>1, <1>2 DEF RepairsKeep, Quiet
<1>3. ASSUME NEW d, NEW by, NEW number, NEW bytes, by # "repair", Changed(d, by, number, bytes)
      PROVE  RepairsKeep'
    BY <1>1, <1>3, LastChange DEF RepairsKeep
<1>4. CASE DamageDone
  <2>1. PICK d \in Docs, bytes \in StoredBytes : Changed(d, "fault", 0, bytes)
    BY <1>4, DamageChanges
  <2> QED BY <1>3, <2>1
<1>5. CASE \E t \in Threads : CommitStored(t)
  <2>1. PICK t \in Threads : CommitStored(t)
    BY <1>5
  <2>2. Changed(job[t].doc, "commit", job[t].number, CommitNext(t))
    BY <2>1, CommitChanges
  <2> QED BY <1>3, <2>2
<1>6. CASE \E t \in Threads : Removed(t)
  <2>1. PICK t \in Threads : Removed(t)
    BY <1>6
  <2>2. Changed(job[t].doc, "reset", job[t].number, None)
    BY <2>1, RemoveChanges
  <2> QED BY <1>3, <2>2
<1>7. CASE \E t \in Threads : RepairStored(t)
  <2>1. PICK t \in Threads : RepairStored(t)
    BY <1>7
  <2> DEFINE e == Repaired(job[t].read.bytes)
  <2>2. /\ job[t].phase = "swap" /\ job[t].call = "repair"
        /\ kept[job[t].doc] = job[t].read /\ job[t].read # None
        /\ job[t].read.bytes \in Envelopes
        /\ Changed(job[t].doc, "repair", job[t].number, e)
    BY <2>1, RepairChanges
  <2>3. e.checkpoint = job[t].read.bytes.checkpoint
    BY <2>2, RepairedOK
  <2>4. Evidence(t) \in evidence'
    BY <1>1, <2>2 DEF Preserving, Evidence
  <2> HIDE DEF e
  <2>5. LET c == changes'[Len(changes) + 1]
        IN /\ [number |-> c.number, doc |-> c.doc, bytes |-> c.before] \in evidence'
           /\ c.after.checkpoint = c.before.checkpoint
    BY <2>2, <2>3, <2>4, LastChange DEF Evidence
  <2>6. /\ DOMAIN changes = 1..Len(changes) /\ DOMAIN changes' = 1..(Len(changes) + 1)
        /\ Len(changes) \in Nat
        /\ \A i \in 1..Len(changes) : changes'[i] = changes[i]
    BY <2>2, LastChange
  <2> QED BY <1>1, <2>5, <2>6 DEF RepairsKeep
<1> QED BY <1>2, <1>4, <1>5, <1>6, <1>7, ChangeKinds

LEMMA RefusedFaultedStep ==
    ASSUME Sound, Blamed, RefusedFaulted, [Next]_vars
    PROVE  RefusedFaulted'
<1> SUFFICES ASSUME NEW t \in Threads, answer'[t] # None, answer'[t].call = "repair",
                    answer'[t].code = "collaboration_state_corrupt", NEW d, d = answer'[t].doc
             PROVE  Faulted(d)'
  <2>1. (\A t \in Threads : \A d :
            /\ answer'[t] # None /\ answer'[t].call = "repair"
            /\ answer'[t].code = "collaboration_state_corrupt" /\ d = answer'[t].doc
            => \E i \in DOMAIN changes' :
                  changes'[i].doc = d /\ changes'[i].by = "fault" /\ ~Mendable(d, changes'[i].after))
        => RefusedFaulted'
    BY DEF RefusedFaulted, Faulted, Mendable, Decodes
  <2> QED BY <2>1 DEF Faulted, Mendable, Decodes
<1>1. Typed /\ Placed(job[t])
    BY DEF Sound
<1>2. CASE answer'[t] = answer[t]
    BY <1>2, FaultedStays DEF RefusedFaulted
<1>3. CASE TurnedAway(t)
  <2>1. PICK a, code : /\ answer' = [answer EXCEPT ![t] = a] /\ a.code = code
                       /\ code \in {"unauthenticated", "invalid_params", "not_found"}
    BY <1>3, TurnedKind
  <2>2. answer'[t].code = code
    BY <1>1, <2>1 DEF Typed
  <2> QED BY <2>1, <2>2
<1>4. CASE Works(t) /\ answer'[t] # answer[t]
  <2>1. job[t].call = "repair" /\ job[t].doc = d /\ job[t].phase # "idle"
    BY <1>1, <1>4, WorksKinds, EndsAnswer, GoesOnKeeps
  <2>2. ~Answers(t)
    <3>1. ASSUME NEW result, Tells(t, "done", TRUE, result)
          PROVE  FALSE
      <4>1. answer'[t].code = "done"
        BY <1>1, <3>1, TellsOf
      <4> QED BY <4>1
    <3> QED BY <3>1 DEF Answers
  <2>3. ~EndOfSources(t) /\ ~AuditQuery(t) /\ ~Removed(t)
    BY <1>1, <2>1, RemoveKind DEF EndOfSources, AuditQuery, Removed, Placed
  <2>4. Refuses(t)
    BY <1>4, <2>1, <2>2, <2>3, AnswersKinds
  <2>5. PICK code :
          /\ Tells(t, code, TRUE, None)
          /\ code = "collaboration_state_corrupt" /\ job[t].call = "repair" =>
                \/ /\ job[t].phase = "read" /\ job[t].doc \in Docs /\ kept[job[t].doc] # None
                   /\ ~(Decodes(kept[job[t].doc].bytes) /\ kept[job[t].doc].bytes.sound)
                \/ /\ job[t].phase = "swap" /\ job[t].read.bytes \in Envelopes
                   /\ ~Valid(job[t].doc, Repaired(job[t].read.bytes))
    BY <2>4 DEF Refuses
  <2>6. code = "collaboration_state_corrupt"
    BY <1>1, <2>5, TellsOf
  <2>7. CASE /\ job[t].phase = "read" /\ job[t].doc \in Docs /\ kept[job[t].doc] # None
             /\ ~(Decodes(kept[job[t].doc].bytes) /\ kept[job[t].doc].bytes.sound)
    <3>1. ~Mendable(d, kept[d].bytes)
      BY <2>1, <2>7 DEF Mendable
    <3>2. Faulted(d)
      BY <2>1, <2>7, <3>1 DEF Blamed
    <3> QED BY <3>2, FaultedStays
  <2>8. CASE /\ job[t].phase = "swap" /\ job[t].read.bytes \in Envelopes
             /\ ~Valid(job[t].doc, Repaired(job[t].read.bytes))
    <3>1. ~Mendable(d, job[t].read.bytes)
      BY <2>1, <2>8, RepairedOK DEF Mendable, Valid, Whole
    <3>2. Faulted(d)
      BY <2>1, <2>8, <3>1 DEF Blamed
    <3> QED BY <3>2, FaultedStays
  <2> QED BY <2>1, <2>5, <2>6, <2>7, <2>8
<1> QED BY <1>2, <1>3, <1>4, AnswerMoves

-----------------------------------------------------------------------------
(* When documents were stored.                                             *)

(* What was is not changed by what comes after.                            *)
LEMMA PastStays ==
    ASSUME Sound, [Next]_vars, NEW d \in Docs, NEW n \in Nat, n <= Len(changes)
    PROVE  StoredAt(d, n)' <=> StoredAt(d, n)
<1>1. CASE Quiet
    BY <1>1 DEF StoredAt, Quiet
<1>2. CASE \E e \in Docs, by \in {"commit", "repair", "reset", "fault"}, number \in Nat,
              bytes \in StoredBytes \cup {None} : Changed(e, by, number, bytes)
  <2>0. PICK e \in Docs : \E by, number, bytes : Changed(e, by, number, bytes)
    BY <1>2
  <2>1. PICK by, number, bytes : Changed(e, by, number, bytes)
    BY <2>0
  <2> DEFINE last == Len(changes) + 1
  <2>2. /\ Len(changes) \in Nat /\ Len(changes') = last
        /\ \A i \in 1..Len(changes) : changes'[i] = changes[i]
        /\ changes'[last].doc = e
        /\ changes'[last].before = IF kept[e] = None THEN None ELSE kept[e].bytes
    BY <2>1, LastChange
  <2>3. \A o \in Docs : o # e => kept'[o] = kept[o]
    BY <2>1 DEF Changed
  <2>4. kept[d] # None => kept[d].bytes # None
    BY MarksAssumption DEF Sound, Typed, Versions
  <2> HIDE DEF last
  <2>5. last = Len(changes) + 1
    BY DEF last
  <2>6. CASE e # d
    <3>1. ASSUME StoredAt(d, n)
          PROVE  StoredAt(d, n)'
      BY <2>2, <2>3, <2>5, <2>6, <3>1 DEF StoredAt
    <3>2. ASSUME StoredAt(d, n)'
          PROVE  StoredAt(d, n)
      BY <2>2, <2>3, <2>5, <2>6, <3>2 DEF StoredAt
    <3> QED BY <3>1, <3>2
  <2>7. CASE e = d
    <3>1. ASSUME StoredAt(d, n)
          PROVE  StoredAt(d, n)'
      <4>1. CASE kept[d] # None /\ \A i \in (n + 1)..Len(changes) : changes[i].doc # d
        <5>1. /\ last \in (n + 1)..Len(changes') /\ changes'[last].doc = d
              /\ changes'[last].before # None
              /\ \A j \in (n + 1)..(last - 1) : changes'[j].doc # d
          BY <2>2, <2>4, <2>5, <2>7, <4>1
        <5> QED BY <5>1 DEF StoredAt
      <4>2. CASE \E i \in (n + 1)..Len(changes) :
                    /\ changes[i].doc = d /\ changes[i].before # None
                    /\ \A j \in (n + 1)..(i - 1) : changes[j].doc # d
        BY <2>2, <2>5, <4>2 DEF StoredAt
      <4> QED BY <3>1, <4>1, <4>2 DEF StoredAt
    <3>2. ASSUME StoredAt(d, n)'
          PROVE  StoredAt(d, n)
      <4>1. last \in (n + 1)..Len(changes') /\ changes'[last].doc = d
        BY <2>2, <2>5, <2>7
      <4>2. PICK i \in (n + 1)..Len(changes') :
                /\ changes'[i].doc = d /\ changes'[i].before # None
                /\ \A j \in (n + 1)..(i - 1) : changes'[j].doc # d
        BY <3>2, <4>1 DEF StoredAt
      <4>3. CASE i = last
        <5>1. kept[d] # None
          BY <2>2, <2>7, <4>2, <4>3
        <5>2. \A j \in (n + 1)..Len(changes) : changes[j].doc # d
          BY <2>2, <2>5, <4>2, <4>3
        <5> QED BY <5>1, <5>2 DEF StoredAt
      <4>4. CASE i # last
        <5>1. i \in (n + 1)..Len(changes) /\ \A j \in (n + 1)..i : changes'[j] = changes[j]
          BY <2>2, <2>5, <4>2, <4>4
        <5> QED BY <2>2, <4>2, <5>1 DEF StoredAt
      <4> QED BY <4>3, <4>4
    <3> QED BY <3>1, <3>2
  <2> QED BY <2>6, <2>7
<1> QED BY <1>1, <1>2, SomeChange

LEMMA StoredNow ==
    ASSUME Sound, NEW d
    PROVE  StoredAt(d, Len(changes)) <=> kept[d] # None
<1>1. Len(changes) \in Nat
    BY Domains DEF Sound
<1> QED BY <1>1 DEF StoredAt

LEMMA AllAlongWas ==
    ASSUME Sound, [Next]_vars, NEW d \in Docs, NEW since \in Nat, since <= Len(changes),
           AllAlong(d, since)'
    PROVE  AllAlong(d, since)
<1>1. Len(changes) \in Nat /\ Len(changes') \in Nat /\ Len(changes) <= Len(changes')
    BY LengthGrows
<1>2. ASSUME NEW n \in since..Len(changes)
      PROVE  StoredAt(d, n)
  <2>1. n \in since..Len(changes') /\ n \in Nat /\ n <= Len(changes)
    BY <1>1, <1>2
  <2>2. StoredAt(d, n)'
    BY <2>1 DEF AllAlong
  <2> QED BY <2>1, <2>2, PastStays
<1> QED BY <1>2 DEF AllAlong

LEMMA AllAlongIs ==
    ASSUME Sound, NEW d \in Docs, NEW since \in Nat, since <= Len(changes), AllAlong(d, since)
    PROVE  kept[d] # None
<1>1. Len(changes) \in since..Len(changes)
    BY Domains DEF Sound
<1> QED BY <1>1, StoredNow DEF AllAlong

-----------------------------------------------------------------------------
(* What listings find.                                                     *)

(* All the sources are the first of them where no more exist.              *)
LEMMA AllAreFirst ==
    ASSUME NEW sources, IsFiniteSet(sources), sources \subseteq Nat, NEW limit \in Nat,
           ~Truncated(sources, limit)
    PROVE  FirstOf(sources, limit) = sources
<1> SUFFICES ASSUME NEW d \in sources
             PROVE  Cardinality({e \in sources : e < d}) < limit
    BY DEF FirstOf
<1> DEFINE before == {e \in sources : e < d}
<1>1. before \in SUBSET sources /\ before # sources
    OBVIOUS
<1> HIDE DEF before
<1>2. /\ IsFiniteSet(before) /\ Cardinality(before) <= Cardinality(sources)
      /\ Cardinality(before) # Cardinality(sources)
    BY <1>1, FS_Subset
<1>3. Cardinality(before) \in Nat /\ Cardinality(sources) \in Nat
    BY <1>2, FS_CardinalityType
<1>4. Cardinality(sources) <= limit
    BY <1>3 DEF Truncated
<1> QED BY <1>2, <1>3, <1>4 DEF before

(* ... and not all of them where more do.                                  *)
LEMMA NotAllAreFirst ==
    ASSUME NEW sources, IsFiniteSet(sources), sources \subseteq Nat, NEW limit \in Nat,
           Truncated(sources, limit)
    PROVE  \E d \in sources : d \notin FirstOf(sources, limit)
<1> DEFINE Before(d) == {e \in sources : e < d}
           place == [d \in sources |-> Cardinality(Before(d))]
<1> SUFFICES ASSUME \A d \in sources : Cardinality(Before(d)) < limit
             PROVE  FALSE
    BY DEF FirstOf
<1>1. ASSUME NEW d \in sources
      PROVE  IsFiniteSet(Before(d)) /\ Cardinality(Before(d)) \in 0..(limit - 1)
  <2>1. IsFiniteSet(Before(d)) /\ Cardinality(Before(d)) \in Nat
    BY FS_Subset, FS_CardinalityType
  <2> QED BY <2>1
<1>2. ASSUME NEW d \in sources, NEW e \in sources, d < e
      PROVE  Cardinality(Before(d)) # Cardinality(Before(e))
  <2>1. Before(d) \in SUBSET Before(e) /\ Before(d) # Before(e)
    <3>1. d \in Nat /\ e \in Nat /\ d \in Before(e) /\ d \notin Before(d)
      BY <1>2
    <3>2. \A x \in Before(d) : x \in sources /\ x \in Nat /\ x < d
      OBVIOUS
    <3>3. \A x \in Before(d) : x \in Before(e)
      BY <1>2, <3>1, <3>2
    <3> QED BY <3>1, <3>3
  <2>2. IsFiniteSet(Before(e))
    BY <1>1
  <2> HIDE DEF Before
  <2>3. PICK S, T : S = Before(e) /\ T = Before(d)
    OBVIOUS
  <2>4. IsFiniteSet(S) /\ T \in SUBSET S /\ T # S
    BY <2>1, <2>2, <2>3, Zenon
  <2>5. Cardinality(T) # Cardinality(S)
    BY <2>4, FS_Subset
  <2> QED BY <2>3, <2>5
<1>3. /\ IsFiniteSet(0..(limit - 1)) /\ Cardinality(0..(limit - 1)) = limit
      /\ Cardinality(sources) \in Nat
  <2>1. PICK last \in Int : last = limit - 1
    OBVIOUS
  <2>2. IsFiniteSet(0..last) /\ Cardinality(0..last) = IF 0 > last THEN 0 ELSE last - 0 + 1
    BY FS_Interval
  <2>3. Cardinality(0..last) = limit
    BY <2>1, <2>2
  <2> QED BY <2>1, <2>2, <2>3, FS_CardinalityType
<1>4. Cardinality(0..(limit - 1)) < Cardinality(sources)
    BY <1>3 DEF Truncated
<1> HIDE DEF Before
<1>5. place \in [sources -> 0..(limit - 1)]
    BY <1>1
<1>6. \A d \in sources : place[d] = Cardinality(Before(d))
    OBVIOUS
<1> HIDE DEF place
<1>7. PICK x \in sources, y \in sources : x # y /\ place[x] = place[y]
    BY <1>3, <1>4, <1>5, FS_PigeonHole
<1>8. x < y \/ y < x
    BY <1>7
<1> QED BY <1>2, <1>6, <1>7, <1>8

LEMMA EachKinds ==
    ASSUME Sound, NEW t \in Threads, Works(t), GoesOn(t), ~Ends(t), job'[t].phase = "each"
    PROVE  Sources(t) \/ ListNext(t) \/ InspectNext(t)
<1>1. CASE LookUp(t)
    BY <1>1, LookUpKind
<1>2. CASE ReadToCommit(t)
    BY <1>2, ReadToCommitKind
<1>3. CASE Audit(t) \/ AppendAudit(t)
  <2>1. job'[t].phase \in {"append", "sources", "read"}
    BY <1>3, AuditKind, AppendAuditKind
  <2> QED BY <2>1
<1>4. CASE ReadToQuarantine(t) \/ ReadToRepair(t) \/ ReadToReset(t)
    BY <1>4, ReadToQuarantineKind, ReadToRepairKind, ReadToResetKind
<1>5. CASE Preserve(t)
    BY <1>5, PreserveKind
<1>6. CASE Remove(t)
    BY <1>6, RemoveKind
<1>7. CASE \/ Insert(t) \/ Get(t) \/ SwapCommit(t) \/ EndOfSources(t) \/ Verify(t)
           \/ AuditQuery(t) \/ Export(t) \/ SwapRepaired(t) \/ Fail(t)
    BY <1>7, InsertKind, GetKind, SwapCommitKind, EndingKind, SwapRepairedKind
<1> QED BY <1>1, <1>2, <1>3, <1>4, <1>5, <1>6, <1>7 DEF Works

LEMMA ListingStep ==
    ASSUME Sound, Numbered, Listing, [Next]_vars
    PROVE  Listing'
<1>1. ASSUME NEW t \in Threads, job'[t].phase = "each", job'[t].limit # 1,
             NEW d \in Docs, NEW since, since = job'[t].since, AllAlong(d, since)'
      PROVE  d \in job'[t].left \/ \E f \in job'[t].found : f.at = d
  <2>1. Typed /\ job[t].since \in Nat /\ Docs \subseteq Nat
    BY DocsAssumption, Domains DEF Sound
  <2>2. CASE job'[t] = job[t]
    <3>1. since = job[t].since /\ since \in Nat /\ since <= Len(changes)
      BY <1>1, <2>1, <2>2 DEF Numbered
    <3>2. AllAlong(d, since)
      BY <1>1, <3>1, AllAlongWas
    <3> QED BY <1>1, <2>2, <3>1, <3>2 DEF Listing
  <2>3. CASE Arrives(t)
    BY <1>1, <2>1, <2>3 DEF Arrives, Typed
  <2>4. CASE Works(t) /\ GoesOn(t) /\ ~Ends(t)
    <3>1. job[t].phase # "idle" /\ job'[t].since = job[t].since
      BY <2>1, <2>4, GoesOnKeeps
    <3>2. since = job[t].since /\ since \in Nat /\ since <= Len(changes)
      BY <1>1, <2>1, <3>1 DEF Numbered
    <3>3. AllAlong(d, since) /\ kept[d] # None
      BY <1>1, <3>2, AllAlongWas, AllAlongIs
    <3>4. CASE Sources(t)
      <4> DEFINE sources == {e \in Docs : kept[e] # None}
                 limit == IF job[t].call = "inspect" THEN job[t].limit ELSE Cardinality(Docs)
      <4>1. /\ job'[t].left = FirstOf(sources, limit)
            /\ job'[t].limit = IF Truncated(sources, limit) THEN 1 ELSE 0
        BY <3>4, SourcesKind
      <4>2. limit \in Nat
        BY <2>1, DocsAssumption, FS_CardinalityType DEF Typed, Jobs
      <4>3. IsFiniteSet(sources) /\ sources \subseteq Nat /\ d \in sources
        BY <2>1, <3>3, DocsAssumption, FS_Subset
      <4> HIDE DEF sources, limit
      <4>4. ~Truncated(sources, limit)
        BY <1>1, <4>1
      <4>5. FirstOf(sources, limit) = sources
        BY <4>2, <4>3, <4>4, AllAreFirst
      <4> QED BY <4>1, <4>3, <4>5
    <3>5. CASE ListNext(t) \/ InspectNext(t)
      <4> DEFINE e == Next1(job[t].left)
      <4>1. /\ job[t].phase = "each" /\ job'[t].limit = job[t].limit
            /\ job'[t].left = job[t].left \ {e} /\ job[t].found \subseteq job'[t].found
            /\ kept[e] = None \/ \E f \in job'[t].found : f.at = e
        BY <2>4, <3>5, ListNextKind, InspectNextKind
      <4> HIDE DEF e
      <4>2. d \in job[t].left \/ \E f \in job[t].found : f.at = d
        BY <1>1, <3>2, <3>3, <4>1 DEF Listing
      <4> QED BY <3>3, <4>1, <4>2
    <3> QED BY <1>1, <2>4, <3>4, <3>5, EachKinds
  <2>5. job'[t].phase # "idle"
    BY <1>1
  <2> QED BY <2>2, <2>3, <2>4, <2>5, JobMoves
<1>2. ASSUME NEW t \in Threads, job'[t].phase = "each", job'[t].limit = 1
      PROVE  \E d \in Docs, n \in job'[t].since..Len(changes') :
                StoredAt(d, n)' /\ d \notin job'[t].left /\ \A f \in job'[t].found : f.at # d
  <2>1. /\ Typed /\ job[t].since \in Nat /\ Docs \subseteq Nat
        /\ Len(changes) \in Nat /\ Len(changes') \in Nat /\ Len(changes) <= Len(changes')
    BY DocsAssumption, Domains, LengthGrows DEF Sound
  <2>2. ASSUME NEW d \in Docs, NEW n \in job[t].since..Len(changes), StoredAt(d, n)
        PROVE  n \in job[t].since..Len(changes') /\ StoredAt(d, n)'
    <3>1. n \in Nat /\ n <= Len(changes) /\ n \in job[t].since..Len(changes')
      BY <2>1
    <3> QED BY <2>2, <3>1, PastStays
  <2>3. CASE job'[t] = job[t]
    <3>1. PICK d \in Docs, n \in job[t].since..Len(changes) :
              StoredAt(d, n) /\ d \notin job[t].left /\ \A f \in job[t].found : f.at # d
      BY <1>2, <2>3 DEF Listing, LeftOut
    <3>2. n \in job[t].since..Len(changes') /\ StoredAt(d, n)'
      BY <2>2, <3>1
    <3> QED BY <2>3, <3>1, <3>2
  <2>4. CASE Arrives(t)
    <3>1. job'[t].phase \in {"audit", "sources", "look_up", "read"}
      BY <2>1, <2>4 DEF Arrives, Typed
    <3> QED BY <1>2, <3>1
  <2>5. CASE Works(t) /\ GoesOn(t) /\ ~Ends(t)
    <3>1. job[t].phase # "idle" /\ job'[t].since = job[t].since
      BY <2>1, <2>5, GoesOnKeeps
    <3>2. CASE Sources(t)
      <4> DEFINE sources == {e \in Docs : kept[e] # None}
                 limit == IF job[t].call = "inspect" THEN job[t].limit ELSE Cardinality(Docs)
      <4>1. /\ job'[t].left = FirstOf(sources, limit) /\ job'[t].found = job[t].found
            /\ job'[t].limit = IF Truncated(sources, limit) THEN 1 ELSE 0
            /\ job[t].phase = "sources"
        BY <3>2, SourcesKind
      <4>2. limit \in Nat
        BY <2>1, DocsAssumption, FS_CardinalityType DEF Typed, Jobs
      <4>3. IsFiniteSet(sources) /\ sources \subseteq Nat
        BY <2>1, DocsAssumption, FS_Subset
      <4>4. \A d \in sources : d \in Docs /\ kept[d] # None
        OBVIOUS
      <4> HIDE DEF sources, limit
      <4>5. Truncated(sources, limit)
        BY <1>2, <4>1
      <4>6. PICK d \in sources : d \notin job'[t].left
        BY <4>1, <4>2, <4>3, <4>5, NotAllAreFirst
      <4>10. PICK n : n = Len(changes)
        OBVIOUS
      <4>7. d \in Docs /\ StoredAt(d, n) /\ n \in job[t].since..Len(changes)
        BY <2>1, <3>1, <4>4, <4>6, <4>10, StoredNow DEF Numbered
      <4>8. n \in job[t].since..Len(changes') /\ StoredAt(d, n)'
        BY <2>2, <4>7
      <4>9. job'[t].found = {}
        BY <4>1 DEF Sound, Placed
      <4> QED BY <3>1, <4>6, <4>7, <4>8, <4>9
    <3>3. CASE ListNext(t) \/ InspectNext(t)
      <4>1. /\ job[t].phase = "each" /\ job'[t].limit = job[t].limit /\ job[t].left # {}
            /\ job'[t].left = job[t].left \ {Next1(job[t].left)}
            /\ \A f \in job'[t].found : f \in job[t].found \/ f.at = Next1(job[t].left)
        BY <2>5, <3>3, ListNextKind, InspectNextKind
      <4>2. Next1(job[t].left) \in job[t].left
        BY <4>1, NextSource
      <4>3. PICK d \in Docs, n \in job[t].since..Len(changes) :
                StoredAt(d, n) /\ d \notin job[t].left /\ \A f \in job[t].found : f.at # d
        BY <1>2, <4>1 DEF Listing, LeftOut
      <4>4. n \in job[t].since..Len(changes') /\ StoredAt(d, n)'
        BY <2>2, <4>3
      <4>5. d \notin job'[t].left /\ \A f \in job'[t].found : f.at # d
        BY <4>1, <4>2, <4>3
      <4> QED BY <3>1, <4>4, <4>5
    <3> QED BY <1>2, <2>5, <3>2, <3>3, EachKinds
  <2>6. job'[t].phase # "idle"
    BY <1>2
  <2> QED BY <2>3, <2>4, <2>5, <2>6, JobMoves
<1>3. ASSUME NEW t \in Threads, job'[t].phase = "each", job'[t].limit # 1,
             NEW d \in Docs, \A n \in job'[t].since..Len(changes') : StoredAt(d, n)'
      PROVE  d \in job'[t].left \/ \E f \in job'[t].found : f.at = d
  <2>1. PICK since : since = job'[t].since
    OBVIOUS
  <2>2. AllAlong(d, since)'
    BY <1>3, <2>1 DEF AllAlong
  <2> QED BY <1>1, <1>3, <2>1, <2>2
<1> QED BY <1>2, <1>3 DEF Listing, LeftOut, AllAlong, StoredAt

(* The calls whose answers say something of the documents or the records.  *)
LEMMA AnswerCalls ==
    ASSUME Sound, NEW t \in Threads, Works(t), answer'[t] # answer[t]
    PROVE  /\ job[t].phase # "idle" /\ Ends(t)
           /\ answer'[t].call = job[t].call /\ answer'[t].doc = job[t].doc
           /\ answer'[t].number = job[t].number /\ answer'[t].since = job[t].since
           /\ answer'[t].until = Len(changes)
           /\ answer'[t].code # "done" => Refuses(t)
           /\ answer'[t].code = "done" =>
                 /\ job[t].call \in {"list", "inspect", "reindex"} => EndOfSources(t)
                 /\ job[t].call = "audit" => AuditQuery(t)
                 /\ job[t].call = "reset" =>
                       \/ Quiet /\ job[t].doc \in Docs /\ kept[job[t].doc] = None
                       \/ Removed(t)
<1>1. Typed /\ Placed(job[t])
    BY DEF Sound
<1>2. job[t].phase # "idle" /\ Ends(t)
    BY <1>1, WorksKinds, EndsAnswer, GoesOnKeeps
<1>3. /\ answer'[t].call = job[t].call /\ answer'[t].doc = job[t].doc
      /\ answer'[t].number = job[t].number /\ answer'[t].since = job[t].since
      /\ answer'[t].until = Len(changes)
    BY <1>1, <1>2, EndsAnswer
<1>4. CASE Refuses(t)
  <2>1. PICK code : code # "done" /\ Tells(t, code, TRUE, None)
    BY <1>4 DEF Refuses
  <2>2. answer'[t].code # "done"
    BY <1>1, <2>1, TellsOf
  <2> QED BY <1>2, <1>3, <1>4, <2>2
<1>5. CASE Answers(t)
  <2>1. PICK result : Tells(t, "done", TRUE, result)
    BY <1>5 DEF Answers
  <2>2. answer'[t].code = "done"
    BY <1>1, <2>1, TellsOf
  <2>3. job[t].call \notin {"list", "inspect", "reindex", "audit", "reset"}
    BY <1>5 DEF Answers
  <2> QED BY <1>2, <1>3, <2>2, <2>3
<1>6. CASE EndOfSources(t)
  <2>1. job[t].call \in {"list", "inspect", "reindex"}
    BY <1>1, <1>6 DEF EndOfSources, Placed
  <2>2. answer'[t].code = "done"
    BY <1>1, <1>6 DEF EndOfSources, Done, Answered, Typed
  <2> QED BY <1>2, <1>3, <1>6, <2>1, <2>2
<1>7. CASE AuditQuery(t)
  <2>1. job[t].call = "audit"
    BY <1>7 DEF AuditQuery
  <2>2. answer'[t].code = "done"
    BY <1>1, <1>7 DEF AuditQuery, Done, Answered, Typed
  <2> QED BY <1>2, <1>3, <1>7, <2>1, <2>2
<1>8. CASE /\ job[t].call = "reset" /\ job[t].doc \in Docs
           /\ kept[job[t].doc] = None /\ Quiet /\ Tells(t, "done", TRUE, None)
  <2>1. answer'[t].code = "done"
    BY <1>1, <1>8, TellsOf
  <2> QED BY <1>2, <1>3, <1>8, <2>1
<1>9. CASE Removed(t) /\ Tells(t, "done", TRUE, None)
  <2>1. answer'[t].code = "done"
    BY <1>1, <1>9, TellsOf
  <2>2. job[t].call = "reset"
    BY <1>9, RemoveChanges
  <2> QED BY <1>2, <1>3, <1>9, <2>1, <2>2
<1> QED BY <1>4, <1>5, <1>6, <1>7, <1>8, <1>9, AnswersKinds

LEMMA TurnedTells ==
    ASSUME Sound, NEW t \in Threads, TurnedAway(t)
    PROVE  /\ answer'[t].code \in {"unauthenticated", "invalid_params", "not_found"}
           /\ answer'[t].number = begun + 1 /\ begun' = begun + 1 /\ Quiet
           /\ answer'[t].dispatched = FALSE /\ audit' = audit /\ evidence' = evidence
<1>1. PICK a, code :
        /\ answer' = [answer EXCEPT ![t] = a] /\ a.number = begun + 1
        /\ a.code = code /\ code \in {"unauthenticated", "invalid_params", "not_found"}
        /\ a.dispatched = FALSE
    BY TurnedKind
<1>2. answer'[t] = a
    BY <1>1 DEF Sound, Typed
<1> QED BY <1>1, <1>2, TurnedKind DEF Quiet

LEMMA NoneOverlookedStep ==
    ASSUME Sound, Numbered, Listing, NoneOverlooked, [Next]_vars
    PROVE  NoneOverlooked'
<1> SUFFICES ASSUME NEW t \in Threads, answer'[t] # None,
                    answer'[t].call \in {"list", "inspect", "reindex"}, answer'[t].code = "done",
                    NEW since, NEW until,
                    since = answer'[t].since, until = answer'[t].until
             PROVE  /\ answer'[t].result.truncated =>
                          \E d \in Docs \ answer'[t].result.found :
                              \E n \in since..until : StoredAt(d, n)'
                    /\ ~answer'[t].result.truncated =>
                          \A d \in Docs : (\A n \in since..until : StoredAt(d, n)')
                              => d \in answer'[t].result.found
  <2>1. (\A t \in Threads : \A since, until :
            /\ answer'[t] # None /\ answer'[t].call \in {"list", "inspect", "reindex"}
            /\ answer'[t].code = "done"
            /\ since = answer'[t].since /\ until = answer'[t].until
            => /\ answer'[t].result.truncated =>
                     \E d \in Docs \ answer'[t].result.found :
                         \E n \in since..until : StoredAt(d, n)'
               /\ ~answer'[t].result.truncated =>
                     \A d \in Docs : (\A n \in since..until : StoredAt(d, n)')
                         => d \in answer'[t].result.found)
        => NoneOverlooked'
    BY DEF NoneOverlooked, StoredAt
  <2> QED BY <2>1
<1>1. Typed /\ Placed(job[t]) /\ job[t].since \in Nat /\ Len(changes) \in Nat
    BY Domains DEF Sound
<1>2. CASE answer'[t] = answer[t]
  <2>1. since \in Nat /\ until \in Nat /\ until <= Len(changes)
    BY <1>2 DEF Numbered
  <2>2. ASSUME NEW d \in Docs, NEW n \in since..until
        PROVE  StoredAt(d, n)' <=> StoredAt(d, n)
    <3>1. n \in Nat /\ n <= Len(changes)
      BY <1>1, <2>1, <2>2
    <3> QED BY <3>1, PastStays
  <2>3. /\ answer[t].result.truncated =>
              \E d \in Docs \ answer[t].result.found : \E n \in since..until : StoredAt(d, n)
        /\ ~answer[t].result.truncated =>
              \A d \in Docs : (\A n \in since..until : StoredAt(d, n))
                  => d \in answer[t].result.found
    BY <1>2 DEF NoneOverlooked
  <2> QED BY <1>2, <2>2, <2>3
<1>3. CASE TurnedAway(t)
    BY <1>3, TurnedTells
<1>4. CASE Works(t) /\ answer'[t] # answer[t]
  <2>1. EndOfSources(t) /\ since = job[t].since /\ until = Len(changes) /\ job[t].phase # "idle"
    BY <1>4, AnswerCalls
  <2>2. /\ job[t].phase = "each" /\ job[t].left = {}
        /\ answer'[t].result = [found |-> {f.at : f \in job[t].found},
                                truncated |-> job[t].limit = 1]
    BY <1>1, <2>1 DEF EndOfSources, Done, Answered, Typed
  <2>3. /\ answer'[t].result.found = {f.at : f \in job[t].found}
        /\ answer'[t].result.truncated <=> job[t].limit = 1
    <3>1. CASE job[t].limit = 1
      <4>1. (job[t].limit = 1) = TRUE
        BY <3>1
      <4>2. answer'[t].result = [found |-> {f.at : f \in job[t].found}, truncated |-> TRUE]
        BY <2>2, <4>1, Zenon
      <4> QED BY <3>1, <4>2
    <3>2. CASE job[t].limit # 1
      <4>1. (job[t].limit = 1) = FALSE
        BY <3>2
      <4>2. answer'[t].result = [found |-> {f.at : f \in job[t].found}, truncated |-> FALSE]
        BY <2>2, <4>1, Zenon
      <4> QED BY <3>2, <4>2
    <3> QED BY <3>1, <3>2
  <2>4. since <= Len(changes) /\ since \in Nat
    BY <1>1, <2>1 DEF Numbered
  <2>5. ASSUME NEW d \in Docs, NEW n \in since..until
        PROVE  StoredAt(d, n)' <=> StoredAt(d, n)
    <3>1. n \in Nat /\ n <= Len(changes)
      BY <1>1, <2>1, <2>4
    <3> QED BY <3>1, PastStays
  <2>6. ASSUME job[t].limit = 1
        PROVE  \E d \in Docs \ answer'[t].result.found : \E n \in since..until : StoredAt(d, n)'
    <3>1. PICK d \in Docs, n \in since..until : StoredAt(d, n) /\ \A f \in job[t].found : f.at # d
      BY <2>1, <2>2, <2>6 DEF Listing, LeftOut
    <3>2. StoredAt(d, n)'
      BY <2>5, <3>1
    <3>3. d \notin answer'[t].result.found
      BY <2>3, <3>1
    <3> QED BY <3>1, <3>2, <3>3
  <2>7. ASSUME job[t].limit # 1, NEW d \in Docs, \A n \in since..until : StoredAt(d, n)'
        PROVE  d \in answer'[t].result.found
    <3>1. AllAlong(d, job[t].since)
      BY <2>1, <2>5, <2>7 DEF AllAlong
    <3>2. PICK f \in job[t].found : f.at = d
      BY <2>2, <2>7, <3>1 DEF Listing
    <3> QED BY <2>3, <3>2
  <2> QED BY <2>3, <2>6, <2>7
<1> QED BY <1>2, <1>3, <1>4, AnswerMoves

(* A reset was asked for of a document.                                    *)
ResetsNamed ==
    \A t \in Threads : answer[t] # None /\ answer[t].call = "reset" => answer[t].doc \in Docs

LEMMA ResetsNamedStep ==
    ASSUME Sound, ResetsNamed, [Next]_vars
    PROVE  ResetsNamed'
<1> SUFFICES ASSUME NEW t \in Threads, answer'[t] # None, answer'[t].call = "reset"
             PROVE  answer'[t].doc \in Docs
    BY DEF ResetsNamed
<1>1. Typed /\ Placed(job[t])
    BY DEF Sound
<1>2. CASE answer'[t] = answer[t]
    BY <1>2 DEF ResetsNamed
<1>3. CASE TurnedAway(t)
  <2>1. PICK d \in Targets : \E call, code :
            answer' = [answer EXCEPT ![t] = Answered(Arrived(t, call, d, 0), code, FALSE, None)]
    BY <1>3 DEF TurnedAway, Turned
  <2>2. PICK call, code :
            answer' = [answer EXCEPT ![t] = Answered(Arrived(t, call, d, 0), code, FALSE, None)]
    BY <2>1
  <2>3. answer'[t].doc = d
    BY <1>1, <2>2 DEF Typed, Answered, Arrived, Idle
  <2> QED BY <2>3, DocsAssumption
<1>4. CASE Works(t) /\ answer'[t] # answer[t]
  <2>1. job[t].phase # "idle" /\ job[t].call = "reset" /\ answer'[t].doc = job[t].doc
    BY <1>4, AnswerCalls
  <2> QED BY <1>1, <2>1 DEF Placed, Naming, AllCalls, Wide, Recoveries
<1> QED BY <1>2, <1>3, <1>4, AnswerMoves

LEMMA ResetRemovesStep ==
    ASSUME Sound, Numbered, ResetsNamed, ResetRemoves, [Next]_vars
    PROVE  ResetRemoves'
<1>1. /\ Typed /\ Len(changes) \in Nat /\ DOMAIN changes = 1..Len(changes)
      /\ DOMAIN changes' = 1..Len(changes')
    BY TypedStep, Domains, LenProperties DEF Sound, Typed
<1>2. /\ Len(changes') \in Nat /\ Len(changes) <= Len(changes')
      /\ \A i \in 1..Len(changes) : changes'[i] = changes[i]
    BY LengthGrows
<1> SUFFICES ASSUME NEW t \in Threads, answer'[t] # None,
                    answer'[t].call = "reset", answer'[t].code = "done",
                    NEW since, NEW until, NEW d,
                    since = answer'[t].since, until = answer'[t].until, d = answer'[t].doc
             PROVE  \/ \E i \in DOMAIN changes' : changes'[i].number = answer'[t].number
                    \/ \E n \in since..until : ~StoredAt(d, n)'
  <2>1. (\A t \in Threads : \A since, until, d :
            /\ answer'[t] # None /\ answer'[t].call = "reset" /\ answer'[t].code = "done"
            /\ since = answer'[t].since /\ until = answer'[t].until /\ d = answer'[t].doc
            => \/ \E i \in DOMAIN changes' : changes'[i].number = answer'[t].number
               \/ \E n \in since..until : ~StoredAt(d, n)')
        => ResetRemoves'
    BY DEF ResetRemoves, StoredAt
  <2> QED BY <2>1
<1>3. CASE answer'[t] = answer[t]
  <2>1. since \in Nat /\ until \in Nat /\ until <= Len(changes) /\ d \in Docs
    BY <1>3 DEF Numbered, ResetsNamed
  <2>2. CASE \E i \in DOMAIN changes : changes[i].number = answer[t].number
    BY <1>1, <1>2, <1>3, <2>2
  <2>3. CASE \E n \in since..until : ~StoredAt(d, n)
    <3>1. PICK n \in since..until : ~StoredAt(d, n)
      BY <2>3
    <3>2. n \in Nat /\ n <= Len(changes)
      BY <1>1, <2>1, <3>1
    <3>3. ~StoredAt(d, n)'
      BY <2>1, <3>1, <3>2, PastStays
    <3> QED BY <3>1, <3>3
  <2> QED BY <1>3, <2>2, <2>3 DEF ResetRemoves
<1>4. CASE TurnedAway(t)
    BY <1>4, TurnedTells
<1>5. CASE Works(t) /\ answer'[t] # answer[t]
  <2>1. /\ job[t].call = "reset" /\ d = job[t].doc /\ answer'[t].number = job[t].number
        /\ since = job[t].since /\ until = Len(changes) /\ job[t].phase # "idle"
        /\ \/ Quiet /\ d \in Docs /\ kept[d] = None
           \/ Removed(t)
    BY <1>5, AnswerCalls
  <2>2. since \in Nat /\ since <= Len(changes)
    BY <1>1, <2>1, Domains DEF Numbered
  <2>3. CASE Quiet /\ d \in Docs /\ kept[d] = None
    <3>1. until \in since..until /\ ~StoredAt(d, until)
      BY <1>1, <2>1, <2>2, <2>3, StoredNow
    <3>2. ~StoredAt(d, until)'
      BY <1>1, <2>1, <2>3, <3>1, PastStays
    <3> QED BY <3>1, <3>2
  <2>4. CASE Removed(t)
    <3>1. Changed(job[t].doc, "reset", job[t].number, None)
      BY <2>4, RemoveChanges
    <3>2. Len(changes) + 1 \in DOMAIN changes' /\ changes'[Len(changes) + 1].number = job[t].number
      BY <3>1, LastChange
    <3> QED BY <2>1, <3>2
  <2> QED BY <2>1, <2>3, <2>4
<1> QED BY <1>3, <1>4, <1>5, AnswerMoves

-----------------------------------------------------------------------------
(* What refusals say.                                                      *)

(* A call that is not in progress leaves no more marks.                    *)
LEMMA NoMoreMarks ==
    ASSUME Sound, [Next]_vars, NEW n \in Nat, n # 0,
           \A u \in Threads : job[u].phase # "idle" => job[u].number # n
    PROVE  /\ (\A i \in DOMAIN changes : changes[i].number # n)
                 => \A i \in DOMAIN changes' : changes'[i].number # n
           /\ (\A i \in DOMAIN audit : audit[i].number # n)
                 => \A i \in DOMAIN audit' : audit'[i].number # n
           /\ (\A v \in evidence : v.number # n) => \A v \in evidence' : v.number # n
<1>1. /\ Typed /\ DOMAIN changes = 1..Len(changes) /\ DOMAIN changes' = 1..Len(changes')
      /\ DOMAIN audit = 1..Len(audit) /\ Len(audit) \in Nat
    BY TypedStep, Domains, LenProperties DEF Sound, Typed
<1>2. CASE \E t \in Threads : Arrives(t)
    BY <1>2 DEF Arrives
<1>3. CASE \E t \in Threads : TurnedAway(t)
    BY <1>3, TurnedKind
<1>4. CASE UNCHANGED vars
    BY <1>4 DEF vars
<1>5. CASE DamageDone
  <2>1. PICK d \in Docs, bytes \in StoredBytes : Changed(d, "fault", 0, bytes)
    BY <1>5, DamageChanges
  <2>2. UNCHANGED <<audit, evidence>>
    BY <1>5, DamageChanges
  <2> QED BY <2>1, <2>2, LastChange
<1>6. CASE Outside
  <2>1. UNCHANGED <<changes, evidence>>
    BY <1>6, OutsideKind
  <2>2. \A i \in DOMAIN audit' : \E k \in DOMAIN audit : audit'[i] = audit[k]
    <3>1. CASE Register \/ Forget
      BY <3>1 DEF Register, Forget
    <3>2. CASE \E cutoff \in 2..MaxCalls : DiscardAudit(cutoff)
      <4>1. PICK cutoff \in 2..MaxCalls : DiscardAudit(cutoff)
        BY <3>2
      <4> DEFINE places == {i \in DOMAIN audit : From(cutoff, audit[i])}
      <4>2. PICK place \in [1..Cardinality(places) -> places] :
                audit' = [i \in DOMAIN place |-> audit[place[i]]]
        BY <4>1 DEF DiscardAudit
      <4> QED BY <4>2
    <3> QED BY <1>6, <3>1, <3>2 DEF Outside
  <2> QED BY <2>1, <2>2
<1>7. CASE \E t \in Threads : Works(t)
  <2>1. PICK t \in Threads : Works(t)
    BY <1>7
  <2>2. job[t].phase # "idle"
    BY <1>1, <2>1, WorksKinds, EndsAnswer, GoesOnKeeps
  <2>3. job[t].number # n
    BY <2>2
  <2>4. \A i \in 1..Len(changes') :
            \/ i \in 1..Len(changes) /\ changes'[i] = changes[i]
            \/ changes'[i].number = job[t].number
    BY <2>1, ChangesOf
  <2>5. (\A i \in DOMAIN audit : audit[i].number # n)
           => \A i \in DOMAIN audit' : audit'[i].number # n
    <3>1. CASE AppendAudit(t)
      <4>1. /\ RecordOf(t) \in AuditRecords /\ audit' = Append(audit, RecordOf(t))
            /\ RecordOf(t).number = job[t].number
        BY <3>1, AppendAuditKind DEF RecordOf
      <4>2. /\ Len(audit') = Len(audit) + 1 /\ audit'[Len(audit) + 1] = RecordOf(t)
            /\ \A i \in 1..Len(audit) : audit'[i] = audit[i]
            /\ DOMAIN audit' = 1..Len(audit')
        BY <1>1, <4>1, AppendProperties, LenProperties DEF Typed
      <4> QED BY <1>1, <2>3, <4>1, <4>2
    <3> QED BY <2>1, <3>1, WorksKinds
  <2>6. (\A v \in evidence : v.number # n) => \A v \in evidence' : v.number # n
    <3>1. CASE Preserve(t)
      <4>1. evidence' = evidence \cup {Evidence(t)} /\ Evidence(t).number = job[t].number
        BY <3>1, PreserveKind DEF Evidence
      <4> QED BY <2>3, <4>1
    <3> QED BY <2>1, <3>1, WorksKinds
  <2> QED BY <1>1, <2>3, <2>4, <2>5, <2>6
<1> QED BY <1>2, <1>3, <1>4, <1>5, <1>6, <1>7, StepKinds

LEMMA RefusalsStep ==
    ASSUME Sound, Numbered, Overtaken, RefusalsAreTrue, [Next]_vars
    PROVE  RefusalsAreTrue'
<1>1. /\ Typed /\ Len(changes) \in Nat /\ DOMAIN changes = 1..Len(changes)
      /\ begun \in Nat
    BY Domains DEF Sound, Typed
<1>2. \A i \in 1..Len(changes) : changes'[i] = changes[i]
    BY LengthGrows
<1> SUFFICES ASSUME NEW t \in Threads, answer'[t] # None, answer'[t].code # "done"
             PROVE  /\ \A i \in DOMAIN changes' : changes'[i].number # answer'[t].number
                    /\ ~answer'[t].dispatched =>
                          /\ \A i \in DOMAIN audit' : audit'[i].number # answer'[t].number
                          /\ \A v \in evidence' : v.number # answer'[t].number
                    /\ answer'[t].code \in Retryable =>
                          \E i \in (answer'[t].since + 1)..answer'[t].until :
                              changes'[i].doc = answer'[t].doc
    BY DEF RefusalsAreTrue
<1>3. CASE answer'[t] = answer[t]
  <2> DEFINE n == answer[t].number
  <2>1. /\ n \in Nat /\ n # 0
        /\ answer[t].since \in Nat /\ answer[t].until \in Nat /\ answer[t].until <= Len(changes)
        /\ \A u \in Threads : job[u].phase # "idle" => job[u].number # n
    BY <1>1, <1>3 DEF Numbered
  <2>2. /\ \A i \in DOMAIN changes : changes[i].number # n
        /\ ~answer[t].dispatched =>
              /\ \A i \in DOMAIN audit : audit[i].number # n
              /\ \A v \in evidence : v.number # n
        /\ answer[t].code \in Retryable =>
              \E i \in (answer[t].since + 1)..answer[t].until : changes[i].doc = answer[t].doc
    BY <1>3 DEF RefusalsAreTrue
  <2> HIDE DEF n
  <2>3. /\ \A i \in DOMAIN changes' : changes'[i].number # n
        /\ ~answer[t].dispatched =>
              /\ \A i \in DOMAIN audit' : audit'[i].number # n
              /\ \A v \in evidence' : v.number # n
    BY <2>1, <2>2, NoMoreMarks
  <2>4. answer[t].code \in Retryable =>
            \E i \in (answer[t].since + 1)..answer[t].until : changes'[i].doc = answer[t].doc
    <3>1. \A i \in (answer[t].since + 1)..answer[t].until : changes'[i] = changes[i]
      BY <1>1, <1>2, <2>1
    <3> QED BY <2>2, <3>1
  <2> QED BY <1>3, <2>3, <2>4 DEF n
<1>4. CASE TurnedAway(t)
  <2>1. /\ answer'[t].code \notin Retryable /\ answer'[t].number = begun + 1
        /\ changes' = changes /\ audit' = audit /\ evidence' = evidence
    BY <1>4, TurnedTells DEF Retryable, Quiet
  <2>2. /\ \A i \in DOMAIN changes : changes[i].number # begun + 1
        /\ \A i \in DOMAIN audit : audit[i].number # begun + 1
        /\ \A v \in evidence : v.number # begun + 1
    BY <1>1, Domains DEF Numbered, Typed, ChangesMade, AuditRecords
  <2> QED BY <2>1, <2>2
<1>5. CASE Works(t) /\ answer'[t] # answer[t]
  <2>1. /\ job[t].phase # "idle" /\ Refuses(t)
        /\ answer'[t].doc = job[t].doc /\ answer'[t].number = job[t].number
        /\ answer'[t].since = job[t].since /\ answer'[t].until = Len(changes)
    BY <1>5, AnswerCalls
  <2>2. PICK code :
          /\ Tells(t, code, TRUE, None)
          /\ code \in Retryable => job[t].phase = "swap" /\ kept[job[t].doc] # job[t].read
    BY <2>1 DEF Refuses
  <2>3. answer'[t].code = code /\ answer'[t].dispatched
    <3>1. answer'[t] = Answered(job[t], code, TRUE, None)
      BY <1>1, <2>2 DEF Tells, Typed
    <3> QED BY <3>1 DEF Answered
  <2>4. kept' = kept /\ changes' = changes
    BY <2>1 DEF Refuses, Quiet
  <2>5. \A i \in DOMAIN changes : changes[i].number # job[t].number
    BY <2>1 DEF Numbered
  <2>6. code \in Retryable =>
            \E i \in (job[t].since + 1)..Len(changes) : changes[i].doc = job[t].doc
    BY <2>2 DEF Overtaken
  <2> QED BY <2>1, <2>3, <2>4, <2>5, <2>6
<1> QED BY <1>3, <1>4, <1>5, AnswerMoves

-----------------------------------------------------------------------------
(* The audit.                                                              *)

LEMMA OnRecordInit ==
    ASSUME Init
    PROVE  OnRecord
BY DEF Init, OnRecord, Idle

(* A recovery goes on from what it recorded.                               *)
LEMMA RecoveriesGoOn ==
    ASSUME Sound, NEW t \in Threads, Works(t), GoesOn(t), ~Ends(t),
           job'[t].phase \in {"read", "preserve", "swap", "remove"},
           job'[t].call \in Recoveries
    PROVE  \/ job[t].phase \in {"read", "preserve", "swap", "remove"} /\ audit' = audit
           \/ AppendAudit(t) /\ job[t].call # "reindex"
<1>0. Typed /\ job[t].call \in Recoveries
    BY GoesOnKeeps DEF Sound
<1>1. CASE LookUp(t)
    BY <1>1, LookUpKind
<1>2. CASE ReadToCommit(t)
    BY <1>2 DEF ReadToCommit
<1>9. CASE Audit(t)
    BY <1>9, AuditKind
<1>3. CASE AppendAudit(t)
  <2>1. job'[t].phase = IF job[t].call = "reindex" THEN "sources" ELSE "read"
    BY <1>3, AppendAuditKind
  <2> QED BY <1>3, <2>1
<1>4. CASE ReadToQuarantine(t) \/ ReadToRepair(t) \/ ReadToReset(t)
    BY <1>4 DEF ReadToQuarantine, ReadToRepair, ReadToReset
<1>5. CASE Preserve(t)
    BY <1>5 DEF Preserve
<1>6. CASE Remove(t)
    BY <1>6 DEF Remove
<1>7. CASE Sources(t) \/ ListNext(t) \/ InspectNext(t)
    BY <1>7, SourcesKind, ListNextKind, InspectNextKind
<1>8. CASE \/ Insert(t) \/ Get(t) \/ SwapCommit(t) \/ EndOfSources(t) \/ Verify(t)
           \/ AuditQuery(t) \/ Export(t) \/ SwapRepaired(t) \/ Fail(t)
    BY <1>8, InsertKind, GetKind, SwapCommitKind, EndingKind, SwapRepairedKind
<1> QED BY <1>1, <1>2, <1>3, <1>4, <1>5, <1>6, <1>7, <1>8, <1>9 DEF Works

(* The records kept are some of those there were, in their order.          *)
LEMMA AuditAppends ==
    ASSUME Sound, NEW t \in Threads, AppendAudit(t)
    PROVE  /\ Len(audit) \in Nat /\ Len(audit') = Len(audit) + 1
           /\ DOMAIN audit = 1..Len(audit) /\ DOMAIN audit' = 1..(Len(audit) + 1)
           /\ \A i \in 1..Len(audit) : audit'[i] = audit[i]
           /\ audit'[Len(audit) + 1] = RecordOf(t)
           /\ UNCHANGED <<begun, discarded, changes>>
<1>1. RecordOf(t) \in AuditRecords /\ audit' = Append(audit, RecordOf(t))
    BY AppendAuditKind
<1>2. audit \in Seq(AuditRecords) /\ UNCHANGED <<begun, discarded, changes>>
    BY AppendAuditKind DEF Sound, Typed
<1> QED BY <1>1, <1>2, AppendProperties, LenProperties

LEMMA DiscardKeeps ==
    ASSUME Sound, NEW cutoff \in 2..MaxCalls, DiscardAudit(cutoff)
    PROVE  /\ discarded < cutoff /\ cutoff <= begun /\ discarded' = cutoff
           /\ UNCHANGED <<kept, job, answer, begun, changes>>
           /\ \E place :
                 /\ \A i \in DOMAIN audit' : place[i] \in DOMAIN audit /\ audit'[i] = audit[place[i]]
                 /\ \A i \in DOMAIN audit' : \A j \in DOMAIN audit' : i < j => place[i] < place[j]
                 /\ \A k \in DOMAIN audit : audit[k].at >= cutoff =>
                       \E i \in DOMAIN audit' : place[i] = k
<1> DEFINE places == {i \in DOMAIN audit : From(cutoff, audit[i])}
<1>1. PICK place \in [1..Cardinality(places) -> places] :
        /\ \A i \in DOMAIN place : \A j \in DOMAIN place : i < j => place[i] < place[j]
        /\ \A p \in places : \E i \in DOMAIN place : place[i] = p
        /\ audit' = [i \in DOMAIN place |-> audit[place[i]]]
    BY DEF DiscardAudit
<1>2. /\ DOMAIN audit' = DOMAIN place
      /\ \A i \in DOMAIN audit' : place[i] \in DOMAIN audit /\ audit'[i] = audit[place[i]]
    BY <1>1
<1>3. \A k \in DOMAIN audit : audit[k].at >= cutoff => k \in places
    BY DEF From
<1> HIDE DEF places
<1>4. \A k \in DOMAIN audit : audit[k].at >= cutoff => \E i \in DOMAIN audit' : place[i] = k
    BY <1>1, <1>2, <1>3
<1>5. /\ discarded < cutoff /\ cutoff <= begun /\ discarded' = cutoff
      /\ UNCHANGED <<kept, job, answer, begun, changes>>
    BY DEF DiscardAudit
<1> QED BY <1>1, <1>2, <1>4, <1>5

LEMMA AuditMoves ==
    ASSUME Sound, [Next]_vars
    PROVE  \/ UNCHANGED <<audit, discarded>>
           \/ \E t \in Threads : Works(t) /\ AppendAudit(t)
           \/ \E cutoff \in 2..MaxCalls : DiscardAudit(cutoff)
<1>1. CASE \E t \in Threads : Arrives(t) \/ TurnedAway(t)
    BY <1>1, TurnedKind DEF Arrives
<1>2. CASE \E t \in Threads : Works(t)
    BY <1>2, WorksKinds
<1>3. CASE Outside
    BY <1>3 DEF Outside, Register, Forget
<1>4. CASE DamageDone \/ UNCHANGED vars
    BY <1>4, DamageChanges DEF vars
<1> QED BY <1>1, <1>2, <1>3, <1>4, StepKinds

LEMMA RecordedStays ==
    ASSUME Sound, Numbered, [Next]_vars, NEW number \in Nat, NEW doc, Recorded(number, doc)
    PROVE  Recorded(number, doc)'
<1>1. /\ Typed /\ DOMAIN audit = 1..Len(audit) /\ discarded \in Nat /\ begun \in Nat
      /\ \A i \in DOMAIN audit : audit[i].at \in Nat
    BY Domains DEF Sound, Typed, AuditRecords
<1>2. CASE UNCHANGED <<audit, discarded>>
    BY <1>2 DEF Recorded
<1>3. CASE \E t \in Threads : Works(t) /\ AppendAudit(t)
  <2>1. PICK t \in Threads : AppendAudit(t)
    BY <1>3
  <2>2. /\ DOMAIN audit' = 1..(Len(audit) + 1) /\ Len(audit) \in Nat
        /\ \A i \in 1..Len(audit) : audit'[i] = audit[i]
        /\ discarded' = discarded
    BY <2>1, AuditAppends
  <2> QED BY <1>1, <2>2 DEF Recorded
<1>4. CASE \E cutoff \in 2..MaxCalls : DiscardAudit(cutoff)
  <2>1. PICK cutoff \in 2..MaxCalls : DiscardAudit(cutoff)
    BY <1>4
  <2>2. discarded < cutoff /\ discarded' = cutoff /\ cutoff \in Nat
    BY <2>1, DiscardKeeps
  <2>3. PICK place :
          /\ \A i \in DOMAIN audit' : place[i] \in DOMAIN audit /\ audit'[i] = audit[place[i]]
          /\ \A k \in DOMAIN audit : audit[k].at >= cutoff => \E i \in DOMAIN audit' : place[i] = k
    BY <2>1, DiscardKeeps
  <2>4. CASE number < cutoff
    BY <2>2, <2>4 DEF Recorded
  <2>5. CASE ~(number < cutoff)
    <3>1. PICK k \in DOMAIN audit :
              audit[k].number = number /\ audit[k].doc = doc /\ audit[k].at >= number
      BY <1>1, <2>2, <2>5 DEF Recorded
    <3>2. audit[k].at >= cutoff
      BY <1>1, <2>2, <2>5, <3>1
    <3>3. PICK i \in DOMAIN audit' : audit'[i] = audit[k]
      BY <2>3, <3>2
    <3> QED BY <3>1, <3>3 DEF Recorded
  <2> QED BY <2>4, <2>5
<1> QED BY <1>2, <1>3, <1>4, AuditMoves

(* The clock is read before a record is appended.                          *)
LEMMA AppendFollows ==
    ASSUME Sound, NEW t \in Threads, Works(t), GoesOn(t), ~Ends(t), job'[t].phase = "append"
    PROVE  Audit(t)
<1>1. CASE LookUp(t)
    BY <1>1, LookUpKind
<1>2. CASE ReadToCommit(t)
    BY <1>2, ReadToCommitKind
<1>3. CASE AppendAudit(t)
  <2>1. job'[t].phase \in {"sources", "read"}
    BY <1>3, AppendAuditKind
  <2> QED BY <2>1
<1>4. CASE ReadToQuarantine(t) \/ ReadToRepair(t) \/ ReadToReset(t)
    BY <1>4, ReadToQuarantineKind, ReadToRepairKind, ReadToResetKind
<1>5. CASE Preserve(t)
    BY <1>5, PreserveKind
<1>6. CASE Remove(t)
    BY <1>6, RemoveKind
<1>7. CASE Sources(t) \/ ListNext(t) \/ InspectNext(t)
    BY <1>7, SourcesKind, ListNextKind, InspectNextKind
<1>8. CASE \/ Insert(t) \/ Get(t) \/ SwapCommit(t) \/ EndOfSources(t) \/ Verify(t)
           \/ AuditQuery(t) \/ Export(t) \/ SwapRepaired(t) \/ Fail(t)
    BY <1>8, InsertKind, GetKind, SwapCommitKind, EndingKind, SwapRepairedKind
<1> QED BY <1>1, <1>2, <1>3, <1>4, <1>5, <1>6, <1>7, <1>8 DEF Works

LEMMA OnRecordStep ==
    ASSUME Sound, Numbered, OnRecord, [Next]_vars
    PROVE  OnRecord'
<1>1. /\ Typed /\ Typed' /\ DOMAIN changes = 1..Len(changes) /\ DOMAIN changes' = 1..Len(changes')
      /\ \A i \in 1..Len(changes) : changes[i].number \in Nat
      /\ \A t \in Threads : job[t].number \in Nat
    BY TypedStep, Domains, LenProperties DEF Sound, Typed, ChangesMade
<1>2. ASSUME NEW t \in Threads, job'[t].phase = "append"
      PROVE  job'[t].at >= job'[t].number
  <2>1. CASE job'[t] = job[t]
    BY <1>2, <2>1 DEF OnRecord
  <2>2. CASE Arrives(t)
    <3>1. job'[t].phase \in {"audit", "sources", "look_up", "read"}
      BY <1>1, <2>2 DEF Arrives, Typed
    <3> QED BY <1>2, <3>1
  <2>3. CASE Works(t) /\ GoesOn(t) /\ ~Ends(t)
    <3>1. Audit(t)
      BY <1>2, <2>3, AppendFollows
    <3>2. job'[t].at = begun /\ job'[t].number = job[t].number /\ job[t].phase # "idle"
      BY <1>1, <2>3, <3>1, AuditKind, GoesOnKeeps
    <3>3. job[t].number <= begun /\ begun \in Nat /\ job[t].number \in Nat
      BY <1>1 DEF Numbered, Typed
    <3> QED BY <3>2, <3>3
  <2>4. job'[t].phase # "idle"
    BY <1>2
  <2> QED BY <2>1, <2>2, <2>3, <2>4, JobMoves
<1>3. ASSUME NEW t \in Threads, job'[t].phase \in {"read", "preserve", "swap", "remove"},
             job'[t].call \in Recoveries, NEW number, NEW doc,
             number = job'[t].number, doc = job'[t].doc
      PROVE  Recorded(number, doc)'
  <2>1. CASE job'[t] = job[t]
    <3>1. Recorded(number, doc) /\ number \in Nat
      BY <1>1, <1>3, <2>1 DEF OnRecord
    <3> QED BY <3>1, RecordedStays
  <2>2. CASE Arrives(t)
    <3>1. job'[t].phase = FirstPhase(job'[t].call)
      BY <1>1, <2>2 DEF Arrives, Typed
    <3> QED BY <1>3, <3>1 DEF FirstPhase, Audited
  <2>3. CASE Works(t) /\ GoesOn(t) /\ ~Ends(t)
    <3>1. job[t].number = number /\ job[t].doc = doc /\ job[t].call = job'[t].call
      BY <1>1, <1>3, <2>3, GoesOnKeeps
    <3>2. CASE job[t].phase \in {"read", "preserve", "swap", "remove"}
      <4>1. Recorded(number, doc) /\ number \in Nat
        BY <1>1, <1>3, <3>1, <3>2 DEF OnRecord
      <4> QED BY <4>1, RecordedStays
    <3>3. CASE AppendAudit(t) /\ job[t].call # "reindex"
      <4>1. /\ Len(audit) + 1 \in DOMAIN audit' /\ audit'[Len(audit) + 1] = RecordOf(t)
        BY <3>3, AuditAppends
      <4>2. RecordOf(t).number = number /\ RecordOf(t).doc = doc /\ RecordOf(t).at = job[t].at
        BY <3>1, <3>3 DEF RecordOf
      <4>3. job[t].phase = "append"
        BY <3>3, AppendAuditKind
      <4>4. job[t].at >= number
        BY <3>1, <4>3 DEF OnRecord
      <4> QED BY <4>1, <4>2, <4>4 DEF Recorded
    <3> QED BY <1>3, <2>3, <3>2, <3>3, RecoveriesGoOn
  <2>4. job'[t].phase # "idle"
    BY <1>3
  <2> QED BY <2>1, <2>2, <2>3, <2>4, JobMoves
<1>4. ASSUME NEW i \in DOMAIN changes', changes'[i].by \in {"repair", "reset"},
             NEW number, NEW doc, number = changes'[i].number, doc = changes'[i].doc
      PROVE  Recorded(number, doc)'
  <2>1. CASE i \in 1..Len(changes) /\ changes'[i] = changes[i]
    <3>1. Recorded(number, doc) /\ number \in Nat
      BY <1>1, <1>4, <2>1 DEF OnRecord
    <3> QED BY <3>1, RecordedStays
  <2>2. ASSUME NEW d, NEW by, NEW n, NEW bytes, Changed(d, by, n, bytes),
               ~(i \in 1..Len(changes) /\ changes'[i] = changes[i])
        PROVE  number = n /\ doc = d /\ by \in {"repair", "reset"}
    <3>1. i = Len(changes) + 1
      BY <1>4, <2>2, LastChange
    <3> QED BY <1>4, <2>2, <3>1, LastChange
  <2>3. ASSUME NEW t \in Threads, RepairStored(t) \/ Removed(t), number = job[t].number,
               doc = job[t].doc
        PROVE  Recorded(number, doc)'
    <3>1. /\ job[t].phase \in {"swap", "remove"} /\ job[t].call \in {"repair", "reset"}
      BY <2>3, RepairChanges, RemoveChanges
    <3>2. Recorded(number, doc) /\ number \in Nat
      BY <1>1, <2>3, <3>1 DEF OnRecord, Recoveries
    <3> QED BY <3>2, RecordedStays
  <2>4. CASE ~(i \in 1..Len(changes) /\ changes'[i] = changes[i])
    <3>1. CASE Quiet
      BY <1>1, <1>4, <2>4, <3>1 DEF Quiet
    <3>2. CASE DamageDone
      <4>1. PICK d \in Docs, bytes \in StoredBytes : Changed(d, "fault", 0, bytes)
        BY <3>2, DamageChanges
      <4> QED BY <2>2, <2>4, <4>1
    <3>3. CASE \E t \in Threads : CommitStored(t)
      <4>1. PICK t \in Threads : CommitStored(t)
        BY <3>3
      <4>2. Changed(job[t].doc, "commit", job[t].number, CommitNext(t))
        BY <4>1, CommitChanges
      <4> QED BY <2>2, <2>4, <4>2
    <3>4. CASE \E t \in Threads : RepairStored(t)
      <4>1. PICK t \in Threads : RepairStored(t)
        BY <3>4
      <4>2. Changed(job[t].doc, "repair", job[t].number, Repaired(job[t].read.bytes))
        BY <4>1, RepairChanges
      <4> QED BY <2>2, <2>3, <2>4, <4>1, <4>2
    <3>5. CASE \E t \in Threads : Removed(t)
      <4>1. PICK t \in Threads : Removed(t)
        BY <3>5
      <4>2. Changed(job[t].doc, "reset", job[t].number, None)
        BY <4>1, RemoveChanges
      <4> QED BY <2>2, <2>3, <2>4, <4>1, <4>2
    <3> QED BY <3>1, <3>2, <3>3, <3>4, <3>5, ChangeKinds
  <2> QED BY <2>1, <2>4
<1>5. (/\ \A t \in Threads : \A number, doc :
             /\ job'[t].phase \in {"read", "preserve", "swap", "remove"}
             /\ job'[t].call \in Recoveries /\ number = job'[t].number /\ doc = job'[t].doc
             => Recorded(number, doc)'
       /\ \A i \in DOMAIN changes' : \A number, doc :
             /\ changes'[i].by \in {"repair", "reset"}
             /\ number = changes'[i].number /\ doc = changes'[i].doc
             => Recorded(number, doc)'
       /\ \A t \in Threads : job'[t].phase = "append" => job'[t].at >= job'[t].number)
        => OnRecord'
    BY DEF OnRecord, Recorded
<1> QED BY <1>2, <1>3, <1>4, <1>5

LEMMA AuditTellsStep ==
    ASSUME Sound, Numbered, OnRecord, AuditTells, [Next]_vars
    PROVE  AuditTells'
<1>1. /\ Typed /\ Len(changes) \in Nat /\ discarded \in Nat
      /\ DOMAIN audit = 1..Len(audit)
      /\ \A i \in 1..Len(changes) : changes[i].number \in Nat
      /\ \A i \in DOMAIN audit : audit[i].at \in Nat /\ audit[i].number \in Nat
    BY Domains DEF Sound, Typed, ChangesMade, AuditRecords
<1>2. \A i \in 1..Len(changes) : changes'[i] = changes[i]
    BY LengthGrows
<1>4. ASSUME NEW t \in Threads, answer'[t] # None, answer'[t].call = "audit",
             answer'[t].code = "done", NEW i \in 1..answer'[t].until,
             changes'[i].doc = answer'[t].doc, changes'[i].by \in {"repair", "reset"},
             changes'[i].number >= answer'[t].result.from
      PROVE  changes'[i].number \in answer'[t].result.numbers
  <2>1. CASE answer'[t] = answer[t]
    <3>1. answer[t].until \in Nat /\ answer[t].until <= Len(changes)
      BY <1>4, <2>1 DEF Numbered
    <3>2. changes'[i] = changes[i]
      BY <1>1, <1>2, <1>4, <2>1, <3>1
    <3> QED BY <1>4, <2>1, <3>2 DEF AuditTells
  <2>2. CASE TurnedAway(t)
    BY <1>4, <2>2, TurnedTells
  <2>3. CASE Works(t) /\ answer'[t] # answer[t]
    <3> DEFINE query == [doc |-> job[t].doc, from |-> job[t].limit]
               selected == {k \in DOMAIN audit : Selects(query, audit[k])}
               from == IF query.from < discarded THEN discarded ELSE query.from
               n == changes[i].number
    <3>1. AuditQuery(t) /\ answer'[t].doc = job[t].doc /\ answer'[t].until = Len(changes)
          /\ job[t].call = "audit"
      BY <1>4, <2>3, AnswerCalls
    <3>2. answer'[t].result = [numbers |-> {audit[k].number : k \in selected}, from |-> from]
      BY <1>1, <3>1 DEF AuditQuery, Done, Answered, Typed
    <3>3. changes'[i] = changes[i] /\ i \in 1..Len(changes) /\ i \in DOMAIN changes /\ n \in Nat
      BY <1>1, <1>2, <1>4, <3>1, Domains
    <3>4. job[t].limit \in Nat
      BY <1>1 DEF Typed, Jobs
    <3>5. n >= from /\ changes[i].doc = job[t].doc
      BY <1>4, <3>1, <3>2, <3>3
    <3>6. Recorded(n, job[t].doc)
      BY <1>4, <3>3, <3>5 DEF OnRecord
    <3>7. n >= discarded /\ n >= job[t].limit
      BY <1>1, <3>3, <3>4, <3>5
    <3>8. PICK k \in DOMAIN audit :
              audit[k].number = n /\ audit[k].doc = job[t].doc /\ audit[k].at >= n
      BY <1>1, <3>3, <3>6, <3>7 DEF Recorded
    <3>9. k \in selected
      BY <1>1, <3>3, <3>4, <3>7, <3>8 DEF Selects
    <3> QED BY <3>2, <3>3, <3>8, <3>9
  <2> QED BY <1>4, <2>1, <2>2, <2>3, AnswerMoves
<1> QED BY <1>4 DEF AuditTells

-----------------------------------------------------------------------------
(* The invariant, and what follows from it.                                *)

IInv ==
    /\ Sound /\ Numbered /\ Overtaken /\ Preserving /\ Blamed /\ Judged /\ Listing /\ OnRecord
    /\ CommitsKept /\ RepairsKeep /\ RefusedFaulted
    /\ RefusalsAreTrue /\ ResetsNamed /\ ResetRemoves /\ NoneOverlooked /\ AuditTells

LEMMA BlamedInit ==
    ASSUME Init
    PROVE  Blamed
<1>1. \A schema \in Nat : schema # 0 => \A d \in Docs : Mendable(d, Stored(d, schema).bytes)
  <2> SUFFICES ASSUME NEW schema \in Nat, schema # 0, NEW d \in Docs
               PROVE  Mendable(d, Stored(d, schema).bytes)
    OBVIOUS
  <2> DEFINE e == Envelope(d, schema, {0}, 2, 2, <<RetainedOperation(2, schema)>>)
  <2>1. /\ e \in Envelopes /\ e.of = d /\ e.schema = schema
        /\ e.minted /\ e.bound /\ e.sound /\ e.readable
    BY EnvelopeOK
  <2>2. Stored(d, schema).bytes = e
    BY DEF Stored
  <2> HIDE DEF e
  <2> QED BY <2>1, <2>2, EnvelopesDecode DEF Mendable
<1>2. Plan \in Nat /\ Plan # 0 /\ (Plan > 1 => Plan - 1 \in Nat /\ Plan - 1 # 0)
    BY DocsAssumption
<1>3. \A d \in Docs : kept[d] # None => Mendable(d, kept[d].bytes)
  <2>1. CASE kept = [d \in Docs |-> IF d = Next1(Docs) THEN Stored(d, Plan) ELSE None]
    BY <1>1, <1>2, <2>1
  <2>2. CASE /\ Plan > 1
             /\ kept = [d \in Docs |-> IF d = Next1(Docs) THEN Stored(d, Plan - 1)
                                                          ELSE Stored(d, Plan)]
    BY <1>1, <1>2, <2>2
  <2> QED BY <2>1, <2>2 DEF Init
<1>4. \A t \in Threads : job[t].phase = "idle"
    BY IdleOK DEF Init
<1> QED BY <1>3, <1>4 DEF Blamed

LEMMA InvInit ==
    ASSUME Init
    PROVE  IInv
<1>1. /\ evidence = {} /\ audit = <<>> /\ changes = <<>>
      /\ job = [t \in Threads |-> Idle] /\ answer = [t \in Threads |-> None]
      /\ begun = 0 /\ discarded = 0
    BY DEF Init
<1>2. \A t \in Threads : job[t].phase = "idle" /\ answer[t] = None
    BY <1>1, IdleOK
<1>3. Overtaken /\ Preserving /\ Listing
    BY <1>2 DEF Overtaken, Preserving, Listing
<1>4. Judged /\ CommitsKept /\ RepairsKeep
    BY <1>1 DEF Judged, CommitsKept, RepairsKeep
<1>5. RefusedFaulted /\ RefusalsAreTrue /\ ResetsNamed /\ ResetRemoves /\ NoneOverlooked
    BY <1>2 DEF RefusedFaulted, RefusalsAreTrue, ResetsNamed, ResetRemoves, NoneOverlooked
<1>6. AuditTells
    BY <1>1, <1>2 DEF AuditTells
<1> QED BY <1>3, <1>4, <1>5, <1>6, SoundInit, NumberedInit, BlamedInit, OnRecordInit DEF IInv

LEMMA InvStep ==
    ASSUME IInv, [Next]_vars
    PROVE  IInv'
BY SoundStep, NumberedStep, OvertakenStep, PreservingStep, BlamedStep, JudgedStep, ListingStep,
   OnRecordStep, CommitsKeptStep, RepairsKeepStep, RefusedFaultedStep, RefusalsStep,
   ResetsNamedStep, ResetRemovesStep, NoneOverlookedStep, AuditTellsStep
   DEF IInv

LEMMA InvHolds == Spec => []IInv
BY InvInit, InvStep, PTL DEF Spec

(* Every document is kept under a version of its own, every call in        *)
(* progress holds a service that was made, and one that goes on from what  *)
(* it read has read it: the state of crates/clerkenwell-store and of the   *)
(* operations that reach it is always of the form the code assumes.        *)
THEOREM TypeCorrect == Spec => []TypeOK
<1>1. ASSUME IInv
      PROVE  TypeOK
  <2>1. Typed /\ HeldOK /\ Numbered /\ \A t \in Threads : Placed(job[t])
    BY <1>1 DEF IInv, Sound
  <2>2. ASSUME NEW d \in Docs, kept[d] # None
        PROVE  kept[d].version \in 0..Len(changes)
    <3>1. kept[d].version \in Nat /\ kept[d].version <= Len(changes) /\ Len(changes) \in Nat
      BY <2>1, <2>2, Domains DEF Typed, Versions, HeldOK
    <3> QED BY <3>1
  <2>3. begun \in 0..MaxCalls /\ discarded \in 0..begun
    BY <2>1, BoundsAssumption DEF Typed, Numbered
  <2>4. ASSUME NEW t \in Threads
        PROVE  /\ job[t].number \in 0..begun /\ job[t].left \subseteq Docs
               /\ job[t].phase \notin {"idle", "look_up", "insert"}
                     => job[t].service \in Services /\ held[job[t].service] # None
               /\ job[t].phase \in {"preserve", "remove"} => job[t].read # None
    <3>1. job[t].number \in 0..begun /\ job[t].left \subseteq Docs
      BY <2>1 DEF Typed, Jobs, Numbered
    <3> QED BY <2>1, <3>1 DEF Placed
  <2> QED BY <2>1, <2>2, <2>3, <2>4 DEF TypeOK, Typed
<1> QED BY <1>1, InvHolds, PTL

(* However commits, faults, repairs and resets interleave, no commit       *)
(* replaces bytes that a fault left for its document: validate_envelope    *)
(* refuses them on every read that does not serve what is held of them.    *)
THEOREM FaultsAreKept == Spec => []FaultsKept
<1>1. IInv => FaultsKept
    BY JudgedKept DEF IInv
<1> QED BY <1>1, InvHolds, PTL

(* A repair replaces exactly what it preserved as evidence and keeps the   *)
(* checkpoint, and is refused as corrupt only where a fault left more      *)
(* wrong than the retained operations it drops.                            *)
THEOREM RepairsMend == Spec => []RepairMends
<1>1. IInv => RepairMends
    BY MendsParts DEF IInv
<1> QED BY <1>1, InvHolds, PTL

(* What a commit was acknowledged for is in the document through every     *)
(* commit and repair after it: compare_and_swap loses no update.           *)
THEOREM CommitsAreKept == Spec => []CommitsKept
<1>1. IInv => CommitsKept
    BY DEF IInv
<1> QED BY <1>1, InvHolds, PTL

(* What callers are told is true: a refused call changed nothing, one not  *)
(* dispatched left no record and no evidence, one contended was overtaken, *)
(* a document reset was gone, a listing overlooks no document stored all   *)
(* along unless it truly says that there are more, and the audit tells     *)
(* every recovery.                                                         *)
THEOREM AnswersTrue == Spec => []AnswersAreTrue
<1>1. IInv => AnswersAreTrue
    BY DEF IInv, AnswersAreTrue
<1> QED BY <1>1, InvHolds, PTL

=============================================================================
