---------------------- MODULE CollaborationStoreProofs ----------------------
(***************************************************************************)
(* For every number of threads, principals, requests, operations and       *)
(* changes: what the collaboration store accepts stays accepted, sound and *)
(* answered for, whatever its calls do between each other's steps.         *)
(***************************************************************************)
EXTENDS CollaborationStore, SequenceTheorems, TLAPS

(* What next_envelope is given to commit.                                  *)
Commits ==
    [id: Ids \cup Giving, actor: Actors, schema: 1..MaxSchema, peers: SUBSET Peer,
     update: History, accepted: History \ {{}}, incarnation: Nat]

(* The entry next_envelope appends to the operations retained.             *)
EntryOf(sequence, commit) ==
    [id |-> commit.id, sequence |-> sequence, schema |-> commit.schema,
     actor |-> commit.actor, update |-> commit.update]

SequenceAfter(current) == IF current = None THEN 1 ELSE current.sequence + 1

(***************************************************************************)
(* What the types of the variables rest on: every history named anywhere   *)
(* is of operations that were made, and a job has at each phase what the   *)
(* next one uses.                                                          *)
(***************************************************************************)
Known(history) == history \subseteq 1..Len(operations)

JobKnown(j) ==
    /\ Known(j.history)
    /\ j.phase # "idle" /\ j.call \in Requested =>
          Known(j.request.base) /\ Known(j.request.update)
    /\ j.read # None => Known(j.read.checkpoint)
    /\ j.of # None => Known(j.of.checkpoint)

Creating == {"bootstrap", "seed", "restore"}

JobPlaced(j) ==
    /\ j.phase = "idle" => j = Idle
    /\ j.phase # "idle" => j.call \in AllCalls
    /\ j.phase # "idle" /\ j.call \in Requested =>
          j.request \in Requests /\ j.request.call = j.call
    /\ j.phase = "prepare" => j.call \in {"edit", "edit_text"}
    /\ j.phase \in {"judge", "commit"} =>
          /\ j.call = "bootstrap" => j.request.update # {}
          /\ j.call \in Giving => j.history # {}
          /\ j.call = "migrate" => j.of # None
    /\ j.phase = "commit" =>
          /\ j.call \in Creating <=> j.read = None
          /\ j.call \in Requested => j.request.schema = plan
    /\ j.phase = "announce" => j.change \in 1..Len(changes)

JobOK(j) == JobKnown(j) /\ JobPlaced(j)

StoredOK ==
    /\ Len(operations) > 0
    /\ stored # None => /\ Known(stored.checkpoint) /\ Len(changes) > 0
                        /\ \A o \in Retained(stored) : Known(o.update)

SentOK ==
    \A r \in sent : /\ Known(r.base) /\ Known(r.update)
                    /\ r.call \in {"import", "bootstrap"} => r.update # {}

TypeInv ==
    /\ TypeOK /\ StoredOK /\ SentOK
    /\ \A t \in Threads : JobOK(job[t])

-----------------------------------------------------------------------------
(* The operators the store is built from.                                  *)

(* The newest n elements of a sequence: how many, and which.               *)
LEMMA LastOfSequence ==
    ASSUME NEW S, NEW s \in Seq(S), NEW n \in Nat
    PROVE  /\ Last(s, n) \in Seq(S)
           /\ Len(Last(s, n)) = IF Len(s) > n THEN n ELSE Len(s)
           /\ \A i \in 1..Len(Last(s, n)) : Last(s, n)[i] = s[Len(s) - Len(Last(s, n)) + i]
<1>1. Len(s) \in Nat /\ \A i \in 1..Len(s) : s[i] \in S
    BY LenProperties, ElementOfSeq
<1>2. CASE Len(s) > n
    <2> DEFINE m == Len(s) - n + 1
    <2>1. m \in Int /\ m \in 1..Len(s) + 1
        BY <1>1, <1>2
    <2>2. \A i \in m..Len(s) : s[i] \in S
        BY <1>1, <2>1
    <2>3. /\ SubSeq(s, m, Len(s)) \in Seq(S)
          /\ Len(SubSeq(s, m, Len(s))) = IF m <= Len(s) THEN Len(s) - m + 1 ELSE 0
          /\ \A i \in 1..Len(s) - m + 1 : SubSeq(s, m, Len(s))[i] = s[m + i - 1]
        BY <1>1, <2>1, <2>2, SubSeqProperties
    <2>4. Last(s, n) = SubSeq(s, m, Len(s))
        BY <1>2 DEF Last
    <2> HIDE DEF m
    <2> QED BY <1>1, <1>2, <2>1, <2>3, <2>4 DEF m
<1>3. CASE ~(Len(s) > n)
    BY <1>1, <1>3 DEF Last
<1> QED BY <1>2, <1>3

(* What next_envelope retains: operations retained before, and the one     *)
(* committed, in the order they were committed.                            *)
LEMMA RetainedAfter ==
    ASSUME NEW current \in Envelopes(Peer) \cup {None}, NEW commit \in Commits
    PROVE  LET before == RetainedBefore(current, commit)
               all == Append(before, EntryOf(SequenceAfter(current), commit))
           IN /\ before \in Seq(Entries)
              /\ EntryOf(SequenceAfter(current), commit) \in Entries
              /\ all \in Seq(Entries)
              /\ Len(all) = Len(before) + 1
              /\ \A i \in 1..Len(before) : all[i] = before[i]
              /\ all[Len(all)] = EntryOf(SequenceAfter(current), commit)
<1> DEFINE before == RetainedBefore(current, commit)
           entry == EntryOf(SequenceAfter(current), commit)
<1>1. before \in Seq(Entries)
    BY DEF RetainedBefore, Envelopes
<1>2. SequenceAfter(current) \in Nat \ {0}
    BY DEF SequenceAfter, Envelopes
<1>3. entry \in Entries
    BY <1>2 DEF EntryOf, Commits, Entries
<1> HIDE DEF before, entry
<1> QED BY <1>1, <1>3 DEF before, entry

(* Every peer keeps the principal it is bound to, and the rest are bound   *)
(* to the committer.                                                       *)
LEMMA BoundAfter ==
    ASSUME NEW current \in Envelopes(Peer) \cup {None}, NEW commit \in Commits
    PROVE  /\ Bound(current, commit) \in Bindings(Peer)
           /\ DOMAIN Bound(current, commit) =
                  commit.peers \cup (IF current = None THEN {} ELSE DOMAIN current.peers)
           /\ current # None => \A p \in DOMAIN current.peers :
                  Bound(current, commit)[p] = current.peers[p]
           /\ \A p \in commit.peers :
                  current = None \/ p \notin DOMAIN current.peers
                  => Bound(current, commit)[p] = commit.actor
<1> DEFINE bound == IF current = None THEN <<>> ELSE current.peers
<1>1. /\ DOMAIN bound \subseteq Peer
      /\ \A p \in DOMAIN bound : bound[p] \in Actors
    BY DEF Envelopes, Bindings
<1>2. commit.peers \subseteq Peer /\ commit.actor \in Actors
    BY DEF Commits
<1>3. Bound(current, commit) = [p \in DOMAIN bound \cup commit.peers |->
            IF p \in DOMAIN bound THEN bound[p] ELSE commit.actor]
    BY DEF Bound
<1>4. DOMAIN bound = IF current = None THEN {} ELSE DOMAIN current.peers
    OBVIOUS
<1>5. current # None => bound = current.peers
    OBVIOUS
<1> HIDE DEF bound
<1>6. Bound(current, commit) \in [DOMAIN bound \cup commit.peers -> Actors]
    BY <1>1, <1>2, <1>3
<1>7. Bound(current, commit) \in Bindings(Peer)
    BY <1>1, <1>2, <1>6 DEF Bindings
<1> QED BY <1>3, <1>4, <1>5, <1>7

(* next_envelope builds an envelope that holds what was committed.         *)
LEMMA NextEnvelopeOK ==
    ASSUME NEW current \in Envelopes(Peer) \cup {None}, NEW commit \in Commits
    PROVE  LET next == NextEnvelope(current, commit)
               all == Append(RetainedBefore(current, commit),
                             EntryOf(SequenceAfter(current), commit))
           IN /\ next \in Envelopes(Peer)
              /\ next.retained = Last(all, RetainedOperations)
              /\ Len(next.retained) <= RetainedOperations
              /\ next.sequence = SequenceAfter(current)
              /\ next.compacted = (IF next.retained = <<>> THEN next.sequence
                                   ELSE next.retained[1].sequence) - 1
              /\ next.incarnation = commit.incarnation
              /\ next.schema = commit.schema
              /\ next.generation = IF current = None THEN 1 ELSE current.generation + 1
              /\ next.checkpoint = commit.accepted
              /\ next.peers = Bound(current, commit)
<1> DEFINE all == Append(RetainedBefore(current, commit),
                         EntryOf(SequenceAfter(current), commit))
           retained == Last(all, RetainedOperations)
           sequence == SequenceAfter(current)
           first == IF retained = <<>> THEN sequence ELSE retained[1].sequence
           generation == IF current = None THEN 1 ELSE current.generation + 1
<1>1. NextEnvelope(current, commit) =
        [incarnation |-> commit.incarnation, schema |-> commit.schema,
         generation |-> generation, sequence |-> sequence, compacted |-> first - 1,
         checkpoint |-> commit.accepted, retained |-> retained,
         peers |-> Bound(current, commit)]
    BY DEF NextEnvelope, EntryOf, SequenceAfter
<1>2. all \in Seq(Entries)
    BY RetainedAfter
<1>3. RetainedOperations \in Nat
    BY PolicyAssumption
<1> HIDE DEF all
<1>4. /\ retained \in Seq(Entries)
      /\ Len(retained) = IF Len(all) > RetainedOperations THEN RetainedOperations ELSE Len(all)
    BY <1>2, <1>3, LastOfSequence
<1>5. Len(retained) <= RetainedOperations
    BY <1>2, <1>3, <1>4
<1>6. sequence \in Nat \ {0} /\ generation \in Nat \ {0}
    BY DEF SequenceAfter, Envelopes
<1>7. first \in Nat \ {0}
    <2>1. CASE retained = <<>>
        BY <2>1, <1>6
    <2>2. CASE retained # <<>>
        <3>1. 1 \in 1..Len(retained)
            BY <1>4, <2>2, EmptySeq
        <3>2. retained[1] \in Entries
            BY <1>4, <3>1, ElementOfSeq
        <3> QED BY <2>2, <3>2 DEF Entries
    <2> QED BY <2>1, <2>2
<1> HIDE DEF retained, sequence, first, generation
<1>8. NextEnvelope(current, commit) \in Envelopes(Peer)
    <2>1. Bound(current, commit) \in Bindings(Peer)
        BY BoundAfter
    <2>2. first - 1 \in Nat
        BY <1>7
    <2>3. /\ commit.incarnation \in Nat /\ commit.schema \in 1..MaxSchema
          /\ commit.accepted \in History \ {{}}
        BY DEF Commits
    <2> QED BY <1>1, <1>4, <1>6, <2>1, <2>2, <2>3 DEF Envelopes
<1> QED BY <1>1, <1>5, <1>8 DEF all, retained, sequence, first, generation

-----------------------------------------------------------------------------
(* What the steps of a thread have in common.                              *)

(* An operation that is made is the last, and changes none before it.      *)
LEMMA MakeOK ==
    ASSUME TypeOK, NEW operation \in Operations, Make(operation)
    PROVE  /\ operations' \in Seq(Operations)
           /\ Len(operations') = Len(operations) + 1
           /\ Len(operations') <= MaxOperations
           /\ NewOperation \in Operation
           /\ NewOperation \in 1..Len(operations')
           /\ 1..Len(operations) \subseteq 1..Len(operations')
           /\ operations'[NewOperation] = operation
           /\ \A n \in 1..Len(operations) : operations'[n] = operations[n]
<1>1. Len(operations) \in Nat
    BY LenProperties DEF TypeOK
<1>2. /\ operations' \in Seq(Operations)
      /\ Len(operations') = Len(operations) + 1
      /\ operations'[Len(operations) + 1] = operation
      /\ \A n \in 1..Len(operations) : operations'[n] = operations[n]
    BY DEF TypeOK, Make
<1> QED BY <1>1, <1>2, BoundsAssumption DEF Make, NewOperation, Operation

(* The peers of operations that were made are peers.                       *)
LEMMA PeersInOK ==
    ASSUME TypeOK, NEW update, Known(update)
    PROVE  PeersIn(update) \subseteq Peer
<1>1. \A n \in update : operations[n] \in Operations
    BY ElementOfSeq DEF TypeOK, Known
<1> QED BY <1>1 DEF PeersIn, Operations

(* A step of one thread leaves the jobs of the others as they are.         *)
LEMMA JobStep ==
    ASSUME TypeInv, NEW t \in Threads, NEW j \in Jobs(Peer), Set(t, j),
           Len(operations') \in Nat, Len(operations) <= Len(operations'),
           Len(changes') \in Nat, Len(changes) <= Len(changes'), plan' = plan,
           JobOK(job[t])'
    PROVE  /\ job' \in [Threads -> Jobs(Peer)]
           /\ job'[t] = j
           /\ \A u \in Threads : JobOK(job[u])'
<1>1. /\ job' \in [Threads -> Jobs(Peer)]
      /\ job'[t] = j
      /\ \A u \in Threads \ {t} : job'[u] = job[u]
    BY DEF Set, TypeInv, TypeOK
<1>2. Len(operations) \in Nat /\ Len(changes) \in Nat
    BY LenProperties DEF TypeInv, TypeOK
<1>3. \A h : Known(h) => Known(h)'
    BY <1>2 DEF Known
<1>4. ASSUME NEW u \in Threads \ {t} PROVE JobOK(job[u])'
    <2>1. JobOK(job[u]) /\ job'[u] = job[u]
        BY <1>1, <1>4 DEF TypeInv
    <2>2. JobKnown(job[u])'
        BY <1>2, <2>1 DEF JobOK, JobKnown, Known
    <2>3. JobPlaced(job[u])'
        BY <1>2, <2>1 DEF JobOK, JobPlaced, Idle
    <2> QED BY <2>2, <2>3 DEF JobOK
<1> QED BY <1>1, <1>4

(* A step of one thread that changes nothing in storage keeps the types.   *)
LEMMA QuietStep ==
    ASSUME TypeInv, NEW t \in Threads, NEW j \in Jobs(Peer), Set(t, j),
           UNCHANGED <<stored, plan, minted, sent, changes, feed>>,
           UNCHANGED operations \/ \E operation \in Operations : Make(operation),
           JobOK(job[t])',
           answers' \in [Ids -> {None, Refused} \cup Answers],
           audit' \subseteq Ids \cup {"repair", "reset"}
    PROVE  TypeInv'
<1>1. /\ operations' \in Seq(Operations) /\ Len(operations') <= MaxOperations
      /\ Len(operations') \in Nat /\ Len(operations) \in Nat
      /\ Len(operations) <= Len(operations')
    <2>1. CASE UNCHANGED operations
        BY <2>1, LenProperties DEF TypeInv, TypeOK
    <2>2. CASE \E operation \in Operations : Make(operation)
        BY <2>2, LenProperties, MakeOK DEF TypeInv, TypeOK
    <2> QED BY <2>1, <2>2
<1>2. Len(changes) \in Nat /\ changes' = changes /\ plan' = plan
    BY LenProperties DEF TypeInv, TypeOK
<1>3. job' \in [Threads -> Jobs(Peer)] /\ \A u \in Threads : JobOK(job[u])'
    BY <1>1, <1>2, JobStep
<1>4. TypeOK'
    BY <1>1, <1>3 DEF TypeInv, TypeOK
<1>5. StoredOK' /\ SentOK'
    BY <1>1 DEF TypeInv, StoredOK, SentOK, Known
<1> QED BY <1>3, <1>4, <1>5 DEF TypeInv

(* An idle job is a job.                                                   *)
LEMMA IdleOK == Idle \in Jobs(Peer) /\ JobOK(Idle) /\ Idle.phase = "idle"
BY DEF Idle, Jobs, JobOK, JobKnown, JobPlaced, Known, History, Requested, Operated, Giving

(* A call that returns keeps the types.                                    *)
LEMMA ReturnStep ==
    ASSUME TypeInv, NEW t \in Threads, Return(t),
           UNCHANGED <<stored, plan, operations, minted, sent, changes, feed>>,
           answers' \in [Ids -> {None, Refused} \cup Answers],
           audit' \subseteq Ids \cup {"repair", "reset"}
    PROVE  TypeInv'
<1>1. Set(t, Idle) /\ job'[t] = Idle
    BY DEF Return, Set, TypeInv, TypeOK
<1>2. JobOK(job[t])'
    BY <1>1, IdleOK DEF JobOK, JobKnown, JobPlaced, Known, Idle
<1> QED BY <1>1, <1>2, IdleOK, QuietStep

(* A refusal is an answer, and goes on record.                             *)
LEMMA RefuseStep ==
    ASSUME TypeInv, NEW t \in Threads, Refuse(t),
           job[t].phase # "idle", job[t].call \in Requested,
           UNCHANGED <<stored, plan, operations, minted, sent, changes, feed>>
    PROVE  TypeInv'
<1>1. job[t].request.id \in Ids
    BY DEF TypeInv, TypeOK, JobOK, JobPlaced, Jobs, Requests
<1>2. /\ answers' \in [Ids -> {None, Refused} \cup Answers]
      /\ audit' \subseteq Ids \cup {"repair", "reset"}
    BY <1>1 DEF Refuse, TypeInv, TypeOK
<1> QED BY <1>2, ReturnStep DEF Refuse

-----------------------------------------------------------------------------
(* One lemma for each action: it keeps the types.                          *)

(* A request that is submitted.                                            *)
LEMMA SubmitStep ==
    ASSUME TypeInv, NEW request \in Requests, Submit(request),
           UNCHANGED operations \/ \E operation \in Operations : Make(operation),
           request.base \cup request.update \subseteq 1..Len(operations'),
           request.call \in {"import", "bootstrap"} => request.update # {}
    PROVE  TypeInv'
<1>1. /\ operations' \in Seq(Operations) /\ Len(operations') <= MaxOperations
      /\ Len(operations') \in Nat /\ Len(operations) \in Nat
      /\ Len(operations) <= Len(operations')
    <2>1. CASE UNCHANGED operations
        BY <2>1, LenProperties DEF TypeInv, TypeOK
    <2>2. CASE \E operation \in Operations : Make(operation)
        BY <2>2, LenProperties, MakeOK DEF TypeInv, TypeOK
    <2> QED BY <2>1, <2>2
<1>2. TypeOK'
    BY <1>1 DEF Submit, TypeInv, TypeOK
<1>3. StoredOK'
    BY <1>1 DEF Submit, TypeInv, StoredOK, Known
<1>4. SentOK'
    BY <1>1 DEF Submit, TypeInv, SentOK, Known
<1>5. ASSUME NEW t \in Threads PROVE JobOK(job[t])'
    <2>1. JobKnown(job[t])'
        BY <1>1 DEF Submit, TypeInv, JobOK, JobKnown, Known
    <2>2. JobPlaced(job[t])'
        BY DEF Submit, TypeInv, JobOK, JobPlaced, Idle
    <2> QED BY <2>1, <2>2 DEF JobOK
<1> QED BY <1>2, <1>3, <1>4, <1>5 DEF TypeInv

(* What a client makes is an operation of its own.                         *)
LEMMA MadeOK ==
    ASSUME TypeOK, NEW actor \in Actors, NEW field \in Fields, NEW deps \in History,
           NEW fence \in {None} \cup History
    PROVE  /\ Made(SessionPeer(actor), field, deps, fence) \in Operations
           /\ Len(operations) < MaxOperations =>
                 Made(NewPeer(actor), field, deps, fence) \in Operations
<1>1. Len(operations) \in Nat /\ MaxOperations \in Nat
    BY LenProperties, BoundsAssumption DEF TypeOK
<1> QED BY <1>1 DEF Made, SessionPeer, NewPeer, Operations, Peer

LEMMA SubmitImportTyped ==
    ASSUME TypeInv, NEW actor \in Principals, NEW id \in Ids, SubmitImport(actor, id)
    PROVE  TypeInv'
<1> DEFINE base == stored.checkpoint
<1>1. base \in History /\ Known(base) /\ Known(Drafts(actor))
    BY DEF SubmitImport, Drafts, TypeInv, TypeOK, Envelopes, StoredOK, SentOK, Known
<1>2. PICK drafts \in {{}, Drafts(actor)}, field \in Fields :
          /\ Make(Made(SessionPeer(actor), field, base \cup drafts, None))
          /\ \E with \in {{}, drafts} :
                Submit(Request("import", id, actor, base, {NewOperation} \cup with, None))
    BY DEF SubmitImport
<1>3. PICK with \in {{}, drafts} :
          Submit(Request("import", id, actor, base, {NewOperation} \cup with, None))
    BY <1>2
<1>4. Known(drafts) /\ Known(with)
    BY <1>1 DEF Known
<1>5. \A h : Known(h) => h \in History
    BY LenProperties, BoundsAssumption DEF Known, History, Operation, TypeInv, TypeOK
<1>6. Made(SessionPeer(actor), field, base \cup drafts, None) \in Operations
    <2>1. base \cup drafts \in History
        BY <1>1, <1>4, <1>5 DEF History
    <2> QED BY <2>1, MadeOK DEF TypeInv, Actors
<1>7. /\ NewOperation \in Operation /\ NewOperation \in 1..Len(operations')
      /\ 1..Len(operations) \subseteq 1..Len(operations')
    BY <1>2, <1>6, MakeOK DEF TypeInv
<1> DEFINE request == Request("import", id, actor, base, {NewOperation} \cup with, None)
<1>8. request \in Requests /\ request.base = base /\ request.update = {NewOperation} \cup with
    <2>1. {NewOperation} \cup with \in History
        BY <1>4, <1>5, <1>7 DEF History
    <2> QED BY <2>1, <1>1 DEF Request, Requests, Requested, TypeInv, TypeOK
<1>9. request.base \cup request.update \subseteq 1..Len(operations')
    BY <1>1, <1>4, <1>7, <1>8 DEF Known
<1> QED BY <1>2, <1>3, <1>6, <1>8, <1>9, SubmitStep

LEMMA SubmitRebasedTyped ==
    ASSUME TypeInv, NEW actor \in Principals, NEW id \in Ids, SubmitRebased(actor, id)
    PROVE  TypeInv'
<1>1. PICK r \in sent :
          /\ r.call = "import" /\ r.actor = actor
          /\ Submit(Request("import", id, actor, stored.checkpoint, r.update, None))
    BY DEF SubmitRebased
<1> DEFINE request == Request("import", id, actor, stored.checkpoint, r.update, None)
<1>2. /\ stored.checkpoint \in History /\ Known(stored.checkpoint)
      /\ r.update \in History /\ Known(r.update) /\ r.update # {}
    BY <1>1 DEF SubmitRebased, TypeInv, TypeOK, Envelopes, Requests, StoredOK, SentOK
<1>3. /\ request \in Requests
      /\ request.base = stored.checkpoint /\ request.update = r.update
    BY <1>2 DEF Request, Requests, Requested, TypeInv, TypeOK
<1>4. request.base \cup request.update \subseteq 1..Len(operations')
    BY <1>2, <1>3 DEF Known, SubmitRebased
<1> QED BY <1>1, <1>2, <1>3, <1>4, SubmitStep DEF SubmitRebased

LEMMA SubmitBootstrapTyped ==
    ASSUME TypeInv, NEW actor \in Principals, NEW id \in Ids, SubmitBootstrap(actor, id)
    PROVE  TypeInv'
<1> DEFINE request(update) == Request("bootstrap", id, actor, {}, update, None)
<1>1. ASSUME NEW update \in History \ {{}}
      PROVE  /\ request(update) \in Requests
             /\ request(update).base = {} /\ request(update).update = update
    BY DEF Request, Requests, Requested, TypeInv, TypeOK, History
<1>2. CASE /\ Make(Made(SessionPeer(actor), "merge", {}, None))
           /\ Submit(request({NewOperation}))
    <2>1. Made(SessionPeer(actor), "merge", {}, None) \in Operations
        BY MadeOK DEF TypeInv, Actors, Fields, History
    <2>2. NewOperation \in Operation /\ NewOperation \in 1..Len(operations')
        BY <1>2, <2>1, MakeOK DEF TypeInv
    <2>3. /\ request({NewOperation}) \in Requests
          /\ request({NewOperation}).base = {}
          /\ request({NewOperation}).update = {NewOperation}
        BY <1>1, <2>2 DEF History
    <2> HIDE DEF request
    <2> QED BY <1>2, <2>1, <2>2, <2>3, SubmitStep
<1>3. CASE /\ \E r \in sent : /\ r.call = "import" /\ r.actor = actor
                              /\ Submit(request(r.base \cup r.update))
           /\ UNCHANGED operations
    <2>1. PICK r \in sent : r.call = "import" /\ Submit(request(r.base \cup r.update))
        BY <1>3
    <2>2. /\ r.base \cup r.update \in History \ {{}}
          /\ r.base \cup r.update \subseteq 1..Len(operations)
        BY <2>1 DEF TypeInv, TypeOK, SentOK, Known, Requests, History
    <2>3. /\ request(r.base \cup r.update) \in Requests
          /\ request(r.base \cup r.update).base = {}
          /\ request(r.base \cup r.update).update = r.base \cup r.update
        BY <1>1, <2>2
    <2> HIDE DEF request
    <2> QED BY <1>3, <2>1, <2>2, <2>3, SubmitStep
<1> QED BY <1>2, <1>3 DEF SubmitBootstrap

LEMMA SubmitEditTyped ==
    ASSUME TypeInv, NEW actor \in Principals, NEW id \in Ids,
           SubmitEdit(actor, id) \/ SubmitText(actor, id)
    PROVE  TypeInv'
<1>1. stored.checkpoint \in History /\ Known(stored.checkpoint)
    BY DEF SubmitEdit, SubmitText, TypeInv, TypeOK, Envelopes, StoredOK
<1>2. CASE SubmitEdit(actor, id)
    <2> DEFINE request == Request("edit", id, actor, {}, {}, stored.checkpoint)
    <2>1. /\ request \in Requests /\ request.call = "edit"
          /\ request.base = {} /\ request.update = {}
        BY <1>1 DEF Request, Requests, Requested, TypeInv, TypeOK, History
    <2> QED BY <1>2, <2>1, SubmitStep DEF SubmitEdit
<1>3. CASE SubmitText(actor, id)
    <2> DEFINE request == Request("edit_text", id, actor, stored.checkpoint, {}, None)
    <2>1. /\ request \in Requests /\ request.call = "edit_text"
          /\ request.base = stored.checkpoint /\ request.update = {}
        BY <1>1 DEF Request, Requests, Requested, TypeInv, TypeOK, History
    <2> QED BY <1>1, <1>3, <2>1, SubmitStep DEF SubmitText, Known
<1> QED BY <1>2, <1>3

LEMMA DeliverTyped ==
    ASSUME TypeInv, NEW t \in Threads, NEW request \in sent, Deliver(t, request)
    PROVE  TypeInv'
<1> DEFINE edits == request.call \in {"edit", "edit_text"}
           received == [request EXCEPT !.schema = IF edits THEN plan ELSE @]
           j == [Idle EXCEPT !.phase = IF edits THEN "prepare" ELSE "judge",
                             !.call = request.call, !.request = received,
                             !.since = Len(changes)]
<1>1. /\ request \in Requests /\ Known(request.base) /\ Known(request.update)
      /\ request.call = "bootstrap" => request.update # {}
      /\ plan \in 1..MaxSchema /\ Len(changes) \in Nat
    BY LenProperties DEF TypeInv, TypeOK, SentOK
<1>2. /\ received \in Requests /\ received.call = request.call
      /\ received.base = request.base /\ received.update = request.update
    BY <1>1 DEF Requests
<1>3. /\ Set(t, j) /\ job'[t] = j
    BY DEF Deliver, Set, TypeInv, TypeOK
<1> HIDE DEF received
<1>4. j \in Jobs(Peer)
    BY <1>1, <1>2 DEF Idle, Jobs, Requests, History, AllCalls
<1>5. JobKnown(job[t])'
    BY <1>1, <1>2, <1>3 DEF Idle, JobKnown, Known, Deliver
<1>6. JobPlaced(job[t])'
    BY <1>1, <1>2, <1>3 DEF Idle, JobPlaced, Requests, Requested, Operated, Giving, AllCalls
<1>7. /\ UNCHANGED <<stored, plan, operations, minted, sent, changes, feed, answers, audit>>
      /\ answers \in [Ids -> {None, Refused} \cup Answers]
      /\ audit \subseteq Ids \cup {"repair", "reset"}
    BY DEF Deliver, TypeInv, TypeOK
<1> HIDE DEF j
<1> QED BY <1>3, <1>4, <1>5, <1>6, <1>7, QuietStep DEF JobOK

(* An edit whose operations are written: the job goes on to be judged.     *)
LEMMA PreparedStep ==
    ASSUME TypeInv, NEW t \in Threads, NEW base \in History, NEW update \in History,
           job[t].phase = "prepare", Prepared(t, base, update),
           base \cup update \subseteq 1..Len(operations'),
           UNCHANGED operations \/ \E operation \in Operations : Make(operation),
           UNCHANGED <<stored, plan, minted, sent, changes, feed, answers, audit>>
    PROVE  TypeInv'
<1> DEFINE request == [job[t].request EXCEPT !.base = base, !.update = update]
           j == [job[t] EXCEPT !.phase = "judge", !.request = request]
<1>1. /\ job[t] \in Jobs(Peer) /\ JobOK(job[t])
      /\ job[t].call \in {"edit", "edit_text"}
    BY DEF TypeInv, TypeOK, JobOK, JobPlaced
<1>2. job[t].request \in Requests /\ job[t].request.call = job[t].call
    BY <1>1 DEF JobOK, JobPlaced, Jobs, Requested
<1>3. /\ request \in Requests /\ request.call = job[t].call
      /\ request.base = base /\ request.update = update
    BY <1>2 DEF Requests
<1>4. Set(t, j)
    <2>1. [job[t] EXCEPT !.phase = "judge", !.request.base = base,
                         !.request.update = update] = j
        BY <1>1, <1>2 DEF Jobs, Requests
    <2> QED BY <2>1 DEF Prepared
<1> HIDE DEF request
<1>5. /\ j \in Jobs(Peer) /\ j.phase = "judge" /\ j.call = job[t].call /\ j.request = request
      /\ j.history = job[t].history /\ j.read = job[t].read /\ j.of = job[t].of
    BY <1>1, <1>3 DEF Jobs
<1> HIDE DEF j
<1>6. job'[t] = j
    BY <1>4 DEF Set, TypeInv, TypeOK
<1>7. /\ Len(operations) \in Nat /\ Len(operations') \in Nat
      /\ Len(operations) <= Len(operations')
    BY LenProperties, MakeOK DEF TypeInv, TypeOK
<1>8. JobKnown(job[t])'
    BY <1>1, <1>3, <1>5, <1>6, <1>7 DEF JobOK, JobKnown, Known
<1>9. JobPlaced(job[t])'
    BY <1>1, <1>3, <1>5, <1>6 DEF JobPlaced, Giving, AllCalls, Requested, Operated
<1>10. /\ answers \in [Ids -> {None, Refused} \cup Answers]
       /\ audit \subseteq Ids \cup {"repair", "reset"}
    BY DEF TypeInv, TypeOK
<1> QED BY <1>4, <1>5, <1>8, <1>9, <1>10, QuietStep DEF JobOK

(* What an envelope retains are entries.                                   *)
LEMMA RetainedAsOK ==
    ASSUME NEW envelope \in Envelopes(Peer), NEW id
    PROVE  \A o \in RetainedAs(envelope, id) : o \in Entries /\ o.update \in History
<1>1. \A i \in DOMAIN envelope.retained : envelope.retained[i] \in Entries
    BY LenProperties, ElementOfSeq DEF Envelopes
<1> QED BY <1>1 DEF RetainedAs, Retained, Entries

LEMMA PrepareEditTyped ==
    ASSUME TypeInv, NEW t \in Threads, PrepareEdit(t)
    PROVE  TypeInv'
<1> DEFINE request == job[t].request
           retained == RetainedAs(stored, request.id)
           operation == Made(NewPeer(request.actor), "explicit", stored.checkpoint,
                             request.fence)
<1>1. /\ job[t].phase = "prepare" /\ job[t].call \in Requested
      /\ UNCHANGED <<stored, plan, minted, sent, changes, feed>>
    BY DEF PrepareEdit, Requested
<1>2. CASE Refuse(t) /\ UNCHANGED operations
    BY <1>1, <1>2, RefuseStep
<1>3. stored # None => /\ stored \in Envelopes(Peer) /\ stored.checkpoint \in History
                       /\ Known(stored.checkpoint)
    BY DEF TypeInv, TypeOK, StoredOK, Envelopes
<1>4. ASSUME stored # None, NEW o \in retained, Prepared(t, stored.checkpoint, o.update),
             UNCHANGED <<operations, answers, audit>>
      PROVE  TypeInv'
    <2>1. o.update \in History /\ Known(o.update)
        BY <1>3, <1>4, RetainedAsOK DEF TypeInv, StoredOK, RetainedAs
    <2>2. stored.checkpoint \cup o.update \subseteq 1..Len(operations')
        BY <1>3, <1>4, <2>1 DEF Known
    <2> QED BY <1>1, <1>3, <1>4, <2>1, <2>2, PreparedStep
<1>5. CASE /\ stored # None /\ Make(operation)
           /\ Prepared(t, stored.checkpoint, {NewOperation})
           /\ UNCHANGED <<answers, audit>>
    <2>1. request.actor \in Actors /\ request.fence \in {None} \cup History
        BY <1>1 DEF TypeInv, TypeOK, JobOK, JobPlaced, Jobs, Requests, Actors
    <2>2. operation \in Operations
        BY <1>3, <1>5, <2>1, MadeOK DEF Make, Fields, TypeInv
    <2>3. /\ NewOperation \in Operation /\ NewOperation \in 1..Len(operations')
          /\ 1..Len(operations) \subseteq 1..Len(operations')
        BY <1>5, <2>2, MakeOK DEF TypeInv
    <2>4. {NewOperation} \in History
          /\ stored.checkpoint \cup {NewOperation} \subseteq 1..Len(operations')
        BY <1>3, <1>5, <2>3 DEF Known, History
    <2> HIDE DEF operation
    <2> QED BY <1>1, <1>3, <1>5, <2>2, <2>4, PreparedStep
<1> HIDE DEF retained
<1> QED BY <1>2, <1>4, <1>5 DEF PrepareEdit, retained

LEMMA PrepareTextTyped ==
    ASSUME TypeInv, NEW t \in Threads, PrepareText(t)
    PROVE  TypeInv'
<1> DEFINE request == job[t].request
           retained == RetainedAs(stored, request.id)
           operation == Made(NewPeer(request.actor), "merge", request.base, None)
<1>1. /\ job[t].phase = "prepare" /\ job[t].call \in Requested
      /\ UNCHANGED <<stored, plan, minted, sent, changes, feed>>
    BY DEF PrepareText, Requested
<1>2. CASE Refuse(t) /\ UNCHANGED operations
    BY <1>1, <1>2, RefuseStep
<1>3. /\ request \in Requests /\ request.base \in History /\ Known(request.base)
      /\ request.actor \in Actors
    BY <1>1 DEF TypeInv, TypeOK, JobOK, JobKnown, JobPlaced, Jobs, Requests, Actors
<1>4. ASSUME stored # None, NEW o \in retained, Prepared(t, request.base, o.update),
             UNCHANGED <<operations, answers, audit>>
      PROVE  TypeInv'
    <2>1. o.update \in History /\ Known(o.update)
        BY <1>4, RetainedAsOK DEF TypeInv, TypeOK, StoredOK, RetainedAs
    <2>2. request.base \cup o.update \subseteq 1..Len(operations')
        BY <1>3, <1>4, <2>1 DEF Known
    <2> QED BY <1>1, <1>3, <1>4, <2>1, <2>2, PreparedStep
<1>5. CASE /\ Make(operation)
           /\ Prepared(t, request.base, {NewOperation})
           /\ UNCHANGED <<answers, audit>>
    <2>1. operation \in Operations
        BY <1>3, <1>5, MadeOK DEF Make, Fields, TypeInv
    <2>2. /\ NewOperation \in Operation /\ NewOperation \in 1..Len(operations')
          /\ 1..Len(operations) \subseteq 1..Len(operations')
        BY <1>5, <2>1, MakeOK DEF TypeInv
    <2>3. {NewOperation} \in History
          /\ request.base \cup {NewOperation} \subseteq 1..Len(operations')
        BY <1>3, <2>2 DEF Known, History
    <2> HIDE DEF operation
    <2> QED BY <1>1, <1>3, <1>5, <2>1, <2>3, PreparedStep
<1> HIDE DEF retained
<1> QED BY <1>2, <1>4, <1>5 DEF PrepareText, retained

(* What import_internal found of an update it judges valid.                *)
LEMMA JudgedValid ==
    ASSUME NEW request, NEW current, Judged(request, current) = "valid"
    PROVE  /\ request.schema = plan
           /\ request.call = "bootstrap" => current = None
           /\ request.call # "bootstrap" =>
                 /\ current # None /\ current.schema = plan
                 /\ RetainedAs(current, request.id) = {}
                 /\ request.base \subseteq current.checkpoint
                 /\ Dependencies(request.update) \subseteq request.base \cup request.update
                 /\ ~Moved(request, current)
                 /\ ~PolicyConflict(request.base, request.update, current.checkpoint)
<1>1. CASE request.call = "bootstrap"
    BY <1>1 DEF Judged, JudgedBootstrap
<1>2. CASE request.call # "bootstrap"
    <2>1. current # None
        BY <1>2 DEF Judged
    <2>2. JudgedIncremental(request, current) = "valid"
        BY <1>2, <2>1 DEF Judged
    <2> QED BY <1>2, <2>1, <2>2 DEF JudgedIncremental
<1> QED BY <1>1, <1>2

(* It judges nothing fit to commit by itself, and takes for a duplicate    *)
(* what the envelope retains.                                              *)
LEMMA JudgedDuplicate ==
    ASSUME NEW request, NEW current
    PROVE  /\ Judged(request, current) # "commit"
           /\ Judged(request, current) = "duplicate" =>
                 current # None /\ RetainedAs(current, request.id) # {}
<1>1. CASE request.call = "bootstrap" \/ current = None
    BY <1>1 DEF Judged, JudgedBootstrap
<1>2. CASE request.call # "bootstrap" /\ current # None
    BY <1>2 DEF Judged, JudgedIncremental
<1> QED BY <1>1, <1>2

(* How one attempt of import_internal ends.                                *)
LEMMA JudgeImportEnds ==
    ASSUME NEW t \in Threads, JudgeImport(t)
    PROVE  LET request == job[t].request
               retained == RetainedAs(stored, request.id)
           IN \/ Refuse(t)
              \/ /\ Duplicate(t)
                 /\ stored # None
                 /\ retained # {} \/ request.update \subseteq stored.checkpoint
              \/ /\ Proceed(t)
                 /\ Judged(request, stored) = "valid"
                 /\ Committable(request, stored) = "commit"
<1> DEFINE request == job[t].request
<1>1. ASSUME NEW verdict, verdict \notin {"duplicate", "commit"}, Conclude(t, verdict)
      PROVE  Refuse(t)
    BY <1>1 DEF Conclude
<1>2. CASE Judged(request, stored) # "valid"
    <2>1. Conclude(t, Judged(request, stored))
        BY <1>2 DEF JudgeImport
    <2>2. CASE Judged(request, stored) = "duplicate"
        BY <2>1, <2>2, JudgedDuplicate DEF Conclude
    <2>3. CASE Judged(request, stored) # "duplicate"
        BY <2>1, <2>3, <1>1, JudgedDuplicate
    <2> QED BY <2>2, <2>3
<1>3. CASE Judged(request, stored) = "valid"
    <2> DEFINE verdict == Committable(request, stored)
    <2>1. Conclude(t, verdict) \/ Refuse(t)
        BY <1>1, <1>3 DEF JudgeImport
    <2>2. CASE Conclude(t, verdict) /\ verdict = "duplicate"
        <3>1. stored # None /\ request.update \subseteq stored.checkpoint
            BY <2>2 DEF Committable
        <3> QED BY <2>2, <3>1 DEF Conclude
    <2>3. CASE Conclude(t, verdict) /\ verdict = "commit"
        BY <1>3, <2>3 DEF Conclude
    <2>4. CASE Conclude(t, verdict) /\ verdict \notin {"duplicate", "commit"}
        BY <1>1, <2>4
    <2> QED BY <2>1, <2>2, <2>3, <2>4
<1> QED BY <1>2, <1>3

(* What a duplicate is answered with.                                      *)
DuplicateOf(t) ==
    LET retained == RetainedAs(stored, job[t].request.id)
    IN IF retained = {} THEN job[t].request.update ELSE (CHOOSE o \in retained : TRUE).update

LEMMA DuplicateOK ==
    ASSUME TypeInv, NEW t \in Threads, Duplicate(t), stored # None,
           job[t].phase # "idle", job[t].call \in Requested
    PROVE  /\ Answer(t, Len(changes), DuplicateOf(t))
           /\ Len(changes) \in 1..MaxChanges
           /\ DuplicateOf(t) \in History
           /\ \/ DuplicateOf(t) = job[t].request.update
              \/ \E o \in Retained(stored) : DuplicateOf(t) = o.update
<1>1. stored \in Envelopes(Peer) /\ job[t].request.update \in History
    BY DEF TypeInv, TypeOK, JobOK, JobPlaced, Requests
<1>2. \A o \in RetainedAs(stored, job[t].request.id) : o.update \in History
    BY <1>1, RetainedAsOK
<1>3. Len(changes) \in 1..MaxChanges
    BY LenProperties, BoundsAssumption DEF TypeInv, TypeOK, StoredOK
<1>4. Answer(t, Len(changes), DuplicateOf(t))
    BY DEF Duplicate, DuplicateOf
<1> QED BY <1>1, <1>2, <1>3, <1>4 DEF DuplicateOf, RetainedAs

LEMMA JudgeImportTyped ==
    ASSUME TypeInv, NEW t \in Threads, JudgeImport(t)
    PROVE  TypeInv'
<1> DEFINE request == job[t].request
<1>1. /\ job[t].phase = "judge" /\ job[t].call \in Requested
      /\ UNCHANGED <<stored, plan, operations, minted, sent, changes, feed>>
      /\ job[t] \in Jobs(Peer) /\ JobOK(job[t])
      /\ request \in Requests /\ request.call = job[t].call
    BY DEF JudgeImport, TypeInv, TypeOK, JobOK, JobPlaced
<1>2. CASE Refuse(t)
    BY <1>1, <1>2, RefuseStep
<1>3. CASE Duplicate(t) /\ stored # None
    <2>1. /\ Answer(t, Len(changes), DuplicateOf(t))
          /\ [change |-> Len(changes), update |-> DuplicateOf(t)] \in Answers
        BY <1>1, <1>3, DuplicateOK DEF Answers
    <2>2. answers' \in [Ids -> {None, Refused} \cup Answers]
        BY <1>1, <2>1 DEF Answer, Requests, TypeInv, TypeOK
    <2> QED BY <1>1, <1>3, <2>2, ReturnStep DEF Duplicate, TypeInv, TypeOK
<1>4. CASE Proceed(t) /\ Judged(request, stored) = "valid"
    <2> DEFINE j == [job[t] EXCEPT !.phase = "commit", !.read = stored]
    <2>1. /\ j \in Jobs(Peer) /\ j.phase = "commit" /\ j.read = stored
          /\ j.call = job[t].call /\ j.request = request /\ j.history = job[t].history
          /\ j.of = job[t].of
        BY <1>1 DEF Jobs, TypeInv, TypeOK
    <2> HIDE DEF j
    <2>2. Set(t, j) /\ UNCHANGED <<answers, audit>>
        BY <1>4 DEF Proceed, j
    <2>3. job'[t] = j
        BY <2>2 DEF Set, TypeInv, TypeOK
    <2>4. JobKnown(job[t])'
        BY <1>1, <2>1, <2>3 DEF JobOK, JobKnown, TypeInv, StoredOK, Known
    <2>5. request.schema = plan /\ (request.call = "bootstrap" <=> stored = None)
        BY <1>4, JudgedValid
    <2>6. JobPlaced(job[t])'
        BY <1>1, <2>1, <2>3, <2>5 DEF JobOK, JobPlaced, Creating, Requested, Giving
    <2> QED BY <1>1, <2>1, <2>2, <2>4, <2>6, QuietStep DEF JobOK, TypeInv, TypeOK
<1> QED BY <1>2, <1>3, <1>4, JudgeImportEnds

(* A call of the operator's begins.                                        *)
LEMMA StartStep ==
    ASSUME TypeInv, NEW t \in Threads, NEW call \in Operated, NEW history \in History,
           NEW of \in Envelopes(Peer) \cup {None}, Start(t, call, history, of),
           UNCHANGED operations \/ \E operation \in Operations : Make(operation),
           history \subseteq 1..Len(operations'),
           of # None => Known(of.checkpoint),
           call \in Giving => history # {},
           call = "migrate" => of # None,
           audit' \subseteq Ids \cup {"repair", "reset"}
    PROVE  TypeInv'
<1> DEFINE j == [Idle EXCEPT !.phase = "judge", !.call = call, !.history = history, !.of = of]
<1>1. /\ j \in Jobs(Peer) /\ j.phase = "judge" /\ j.call = call /\ j.history = history
      /\ j.of = of /\ j.read = None
    BY DEF Idle, Jobs, AllCalls
<1> HIDE DEF j
<1>2. Set(t, j) /\ UNCHANGED <<stored, plan, minted, sent, changes, feed, answers>>
    BY DEF Start, j
<1>3. job'[t] = j
    BY <1>2 DEF Set, TypeInv, TypeOK
<1>4. /\ Len(operations) \in Nat /\ Len(operations') \in Nat
      /\ Len(operations) <= Len(operations')
    BY LenProperties, MakeOK DEF TypeInv, TypeOK
<1>5. call \in AllCalls /\ call \notin Requested /\ call # "bootstrap"
    BY DEF Operated, Requested, Giving, AllCalls
<1>6. JobKnown(job[t])'
    <2>1. of # None => of.checkpoint \subseteq 1..Len(operations')
        BY <1>4 DEF Known
    <2> QED BY <1>1, <1>3, <1>5, <2>1 DEF JobKnown, Known
<1>7. JobPlaced(job[t])'
    BY <1>1, <1>3, <1>5 DEF JobPlaced
<1> QED BY <1>1, <1>2, <1>6, <1>7, QuietStep DEF JobOK, TypeInv, TypeOK

LEMMA StartSeedTyped ==
    ASSUME TypeInv, NEW t \in Threads, StartSeed(t)
    PROVE  TypeInv'
<1> DEFINE operation == Made(NewPeer(System), "merge", {}, None)
<1>1. Make(operation) /\ operation \in Operations
    BY MadeOK DEF StartSeed, Make, Actors, Fields, History, TypeInv
<1> HIDE DEF operation
<1>2. {NewOperation} \in History /\ {NewOperation} \subseteq 1..Len(operations')
    BY <1>1, MakeOK DEF TypeInv, History
<1> QED BY <1>1, <1>2, StartStep DEF StartSeed, Operated, Giving, TypeInv, TypeOK

LEMMA StartRestoreTyped ==
    ASSUME TypeInv, NEW t \in Threads, StartRestore(t)
    PROVE  TypeInv'
<1>1. {1} \in History /\ {1} \subseteq 1..Len(operations')
    BY LenProperties, BoundsAssumption
       DEF StartRestore, History, Operation, TypeInv, TypeOK, StoredOK
<1> QED BY <1>1, StartStep DEF StartRestore, Operated, Giving, TypeInv, TypeOK

LEMMA StartMigrateTyped ==
    ASSUME TypeInv, NEW t \in Threads, StartMigrate(t)
    PROVE  TypeInv'
<1>1. PICK carried \in {{}, stored.checkpoint} :
          /\ Make(Made(NewPeer(System), "merge", carried, None))
          /\ Start(t, "migrate", carried \cup {NewOperation}, stored)
    BY DEF StartMigrate
<1> DEFINE operation == Made(NewPeer(System), "merge", carried, None)
<1>2. /\ stored \in Envelopes(Peer) /\ Known(stored.checkpoint)
      /\ carried \in History /\ Known(carried)
    BY DEF StartMigrate, TypeInv, TypeOK, StoredOK, Envelopes, History, Known
<1>3. operation \in Operations
    BY <1>1, <1>2, MadeOK DEF Make, Actors, Fields, TypeInv
<1>4. Make(operation)
    BY <1>1
<1> HIDE DEF operation
<1>5. /\ NewOperation \in Operation /\ NewOperation \in 1..Len(operations')
      /\ 1..Len(operations) \subseteq 1..Len(operations')
    BY <1>3, <1>4, MakeOK DEF TypeInv
<1>6. /\ carried \cup {NewOperation} \in History
      /\ carried \cup {NewOperation} \subseteq 1..Len(operations')
    BY <1>2, <1>5 DEF Known, History
<1> QED BY <1>1, <1>2, <1>3, <1>4, <1>6, StartStep
        DEF StartMigrate, Operated, Giving, TypeInv, TypeOK

LEMMA StartRemovalTyped ==
    ASSUME TypeInv, NEW t \in Threads,
           StartDelete(t) \/ \E call \in {"repair", "reset"} : StartRecovery(t, call)
    PROVE  TypeInv'
<1>1. PICK call \in {"delete", "repair", "reset"} :
          /\ Start(t, call, {}, None) /\ UNCHANGED operations
          /\ audit' \subseteq audit \cup {"repair", "reset"}
    BY DEF StartDelete, StartRecovery
<1>2. {} \in History /\ {} \subseteq 1..Len(operations')
    BY DEF History
<1>3. audit' \subseteq Ids \cup {"repair", "reset"}
    BY <1>1 DEF TypeInv, TypeOK
<1> QED BY <1>1, <1>2, <1>3, StartStep DEF Operated, Giving

LEMMA JudgeOperatedTyped ==
    ASSUME TypeInv, NEW t \in Threads, JudgeOperated(t)
    PROVE  TypeInv'
<1>1. /\ job[t].phase = "judge" /\ job[t].call \in Operated
      /\ UNCHANGED <<stored, plan, operations, minted, sent, changes, feed, answers, audit>>
      /\ job[t] \in Jobs(Peer) /\ JobOK(job[t])
      /\ answers \in [Ids -> {None, Refused} \cup Answers]
      /\ audit \subseteq Ids \cup {"repair", "reset"}
    BY DEF JudgeOperated, TypeInv, TypeOK
<1>2. CASE NothingToDo(t)
    BY <1>1, <1>2, ReturnStep DEF JudgeOperated
<1>3. CASE ~NothingToDo(t)
    <2> DEFINE j == [job[t] EXCEPT !.phase = "commit", !.read = stored]
    <2>1. /\ j \in Jobs(Peer) /\ j.phase = "commit" /\ j.read = stored
          /\ j.call = job[t].call /\ j.history = job[t].history /\ j.of = job[t].of
        BY <1>1 DEF Jobs, TypeInv, TypeOK
    <2>2. Set(t, j)
        BY <1>3 DEF JudgeOperated
    <2> HIDE DEF j
    <2>3. job'[t] = j
        BY <2>2 DEF Set, TypeInv, TypeOK
    <2>4. job[t].call \in Creating <=> stored = None
        BY <1>1, <1>3 DEF NothingToDo, Creating, Operated, Giving
    <2>5. JobKnown(job[t])'
        BY <1>1, <2>1, <2>3 DEF JobOK, JobKnown, TypeInv, StoredOK, Known, Operated,
                                Requested, Giving
    <2>6. JobPlaced(job[t])'
        BY <1>1, <2>1, <2>3, <2>4 DEF JobOK, JobPlaced, Operated, Requested, Giving
    <2> QED BY <1>1, <2>1, <2>2, <2>5, <2>6, QuietStep DEF JobOK
<1> QED BY <1>2, <1>3

LEMMA StaleTyped ==
    ASSUME TypeInv, NEW t \in Threads, Stale(t)
    PROVE  TypeInv'
<1>1. /\ job[t].phase = "commit"
      /\ UNCHANGED <<stored, plan, operations, minted, sent, changes, feed>>
      /\ job[t] \in Jobs(Peer) /\ JobOK(job[t])
      /\ answers \in [Ids -> {None, Refused} \cup Answers]
      /\ audit \subseteq Ids \cup {"repair", "reset"}
    BY DEF Stale, TypeInv, TypeOK
<1>2. CASE Refuse(t) /\ job[t].call \in Requested
    BY <1>1, <1>2, RefuseStep
<1>3. CASE Return(t) /\ UNCHANGED <<answers, audit>>
    BY <1>1, <1>3, ReturnStep
<1>4. ASSUME NEW attempt \in Nat, UNCHANGED <<answers, audit>>,
             Set(t, [job[t] EXCEPT !.phase = "judge", !.read = None, !.attempt = attempt])
      PROVE  TypeInv'
    <2> DEFINE j == [job[t] EXCEPT !.phase = "judge", !.read = None, !.attempt = attempt]
    <2>1. /\ j \in Jobs(Peer) /\ j.phase = "judge" /\ j.read = None
          /\ j.call = job[t].call /\ j.request = job[t].request
          /\ j.history = job[t].history /\ j.of = job[t].of
        BY <1>1 DEF Jobs
    <2> HIDE DEF j
    <2>2. Set(t, j) /\ job'[t] = j
        BY <1>4 DEF j, Set, TypeInv, TypeOK
    <2>3. JobKnown(job[t])'
        BY <1>1, <2>1, <2>2 DEF JobOK, JobKnown, Known
    <2>4. JobPlaced(job[t])'
        BY <1>1, <2>1, <2>2 DEF JobOK, JobPlaced
    <2> QED BY <1>1, <1>4, <2>1, <2>2, <2>3, <2>4, QuietStep DEF JobOK
<1>5. job[t].attempt \in Nat /\ job[t].attempt + 1 \in Nat
    BY <1>1 DEF Jobs
<1>6. [job[t] EXCEPT !.phase = "judge", !.read = None] =
          [job[t] EXCEPT !.phase = "judge", !.read = None, !.attempt = job[t].attempt]
    BY <1>1 DEF Jobs
<1> QED BY <1>2, <1>3, <1>4, <1>5, <1>6 DEF Stale

LEMMA AnnounceTyped ==
    ASSUME TypeInv, NEW t \in Threads, Announce(t)
    PROVE  TypeInv'
<1>1. /\ job[t].phase = "announce" /\ job[t] \in Jobs(Peer) /\ JobOK(job[t])
      /\ job[t].change \in 1..Len(changes)
    BY DEF Announce, TypeInv, TypeOK, JobOK, JobPlaced
<1>2. Set(t, Idle) /\ job'[t] = Idle
    BY DEF Announce, Return, Set, TypeInv, TypeOK
<1>3. Len(operations) \in Nat /\ Len(changes) \in Nat /\ Len(changes) <= MaxChanges
    BY LenProperties DEF TypeInv, TypeOK
<1>4. JobOK(job[t])'
    BY <1>2 DEF Idle, JobOK, JobKnown, JobPlaced, Known
<1>5. /\ job' \in [Threads -> Jobs(Peer)] /\ \A u \in Threads : JobOK(job[u])'
    BY <1>2, <1>3, <1>4, IdleOK, JobStep DEF Announce
<1>6. answers' \in [Ids -> {None, Refused} \cup Answers]
    <2>1. CASE job[t].call \in Requested
        <3>1. job[t].request.id \in Ids /\ job[t].request.update \in History
            BY <1>1, <2>1 DEF JobOK, JobPlaced, Requests
        <3>2. [change |-> job[t].change, update |-> job[t].request.update] \in Answers
            BY <1>1, <1>3, <3>1, BoundsAssumption DEF Answers
        <3> QED BY <2>1, <3>1, <3>2 DEF Announce, Answer, TypeInv, TypeOK
    <2>2. CASE job[t].call \notin Requested
        BY <2>2 DEF Announce, TypeInv, TypeOK
    <2> QED BY <2>1, <2>2
<1>7. TypeOK'
    BY <1>1, <1>3, <1>5, <1>6 DEF Announce, TypeInv, TypeOK
<1> QED BY <1>5, <1>7 DEF Announce, TypeInv, StoredOK, SentOK, Known

LEMMA AbandonTyped ==
    ASSUME TypeInv, NEW t \in Threads, Abandon(t)
    PROVE  TypeInv'
BY ReturnStep DEF Abandon, TypeInv, TypeOK

(* A plan is deployed while no call is running.                            *)
LEMMA UpgradeTyped ==
    ASSUME TypeInv, Upgrade
    PROVE  TypeInv'
<1>1. TypeOK'
    <2>1. plan' \in 1..MaxSchema
        BY BoundsAssumption DEF Upgrade, TypeInv, TypeOK
    <2>2. stored # None => stored.schema <= plan'
        BY DEF Upgrade, TypeInv, TypeOK, Envelopes
    <2> QED BY <2>1, <2>2 DEF Upgrade, TypeInv, TypeOK
<1>2. StoredOK' /\ SentOK'
    BY DEF Upgrade, TypeInv, StoredOK, SentOK, Known
<1>3. \A t \in Threads : JobOK(job[t])'
    BY DEF Upgrade, TypeInv, JobOK, JobKnown, JobPlaced, Known, Idle
<1> QED BY <1>1, <1>2, <1>3 DEF TypeInv

-----------------------------------------------------------------------------
(* The swap.                                                               *)

(* Where a commit takes its incarnation and its history from: what it is   *)
(* built over is the envelope that was read.                               *)
LEMMA CommitOverRead ==
    ASSUME TypeInv, NEW t \in Threads, job[t].phase = "commit"
    PROVE  /\ job[t].call \in Requested =>
                 /\ RequestedCommit(t) \in Commits
                 /\ RequestedCommit(t).schema = plan
                 /\ Known(RequestedCommit(t).accepted) /\ Known(RequestedCommit(t).update)
                 /\ Candidate(t) = NextEnvelope(job[t].read, RequestedCommit(t))
           /\ job[t].call \in Giving =>
                 /\ GivenCommit(t) \in Commits
                 /\ Known(GivenCommit(t).accepted) /\ Known(GivenCommit(t).update)
                 /\ Candidate(t) = NextEnvelope(job[t].read, GivenCommit(t))
           /\ job[t].call = "repair" =>
                 job[t].read # None /\ Candidate(t) = Repaired(job[t].read)
           /\ job[t].call \in {"delete", "reset"} => job[t].read # None /\ Candidate(t) = None
<1>1. /\ job[t] \in Jobs(Peer) /\ JobOK(job[t]) /\ job[t].read \in Envelopes(Peer) \cup {None}
      /\ job[t].call \in Creating <=> job[t].read = None
      /\ job[t].read # None => job[t].read \in Envelopes(Peer) /\ Known(job[t].read.checkpoint)
      /\ plan \in 1..MaxSchema /\ minted \in Nat
    BY DEF TypeInv, TypeOK, JobOK, JobKnown, JobPlaced, Jobs
<1>2. Incarnation(t) \in Nat
    BY <1>1 DEF Incarnation, Given, Creating, Envelopes
<1>3. ASSUME job[t].call \in Requested
      PROVE  /\ RequestedCommit(t) \in Commits
             /\ RequestedCommit(t).schema = plan
             /\ Known(RequestedCommit(t).accepted) /\ Known(RequestedCommit(t).update)
             /\ Candidate(t) = NextEnvelope(job[t].read, RequestedCommit(t))
    <2> DEFINE request == job[t].request
               accepted == request.update \cup
                           (IF job[t].read = None THEN {} ELSE job[t].read.checkpoint)
    <2>1. /\ request \in Requests /\ Known(request.update) /\ request.schema = plan
          /\ job[t].call = "bootstrap" => request.update # {}
        BY <1>1, <1>3 DEF JobOK, JobKnown, JobPlaced
    <2>2. /\ request.update \in History /\ request.id \in Ids
          /\ request.actor \in Actors
        BY <2>1 DEF Requests, Actors
    <2>3. accepted \in History \ {{}} /\ Known(accepted)
        BY <1>1, <1>3, <2>1, <2>2 DEF Known, History, Envelopes, Creating, Requested
    <2>4. NewPeers(request, job[t].read) \subseteq Peer
        BY <2>1, PeersInOK DEF NewPeers, Known, TypeInv
    <2>5. /\ RequestedCommit(t) =
                [id |-> request.id, actor |-> request.actor, schema |-> request.schema,
                 peers |-> NewPeers(request, job[t].read), update |-> request.update,
                 accepted |-> accepted, incarnation |-> Incarnation(t)]
        BY <1>1 DEF RequestedCommit
    <2> HIDE DEF accepted, request
    <2>6. RequestedCommit(t) \in Commits
        BY <1>1, <1>2, <2>1, <2>2, <2>3, <2>4, <2>5 DEF Commits
    <2>7. Candidate(t) = NextEnvelope(job[t].read, RequestedCommit(t))
        BY <1>1, <1>3 DEF Candidate, Giving, Requested
    <2> QED BY <2>1, <2>3, <2>5, <2>6, <2>7
<1>4. ASSUME job[t].call \in Giving
      PROVE  /\ GivenCommit(t) \in Commits
             /\ Known(GivenCommit(t).accepted) /\ Known(GivenCommit(t).update)
             /\ Candidate(t) = NextEnvelope(job[t].read, GivenCommit(t))
    <2> DEFINE history == job[t].history
               peers == IF job[t].read = None THEN PeersIn(history)
                        ELSE PeersIn(history) \ DOMAIN job[t].read.peers
    <2>1. history \in History \ {{}} /\ Known(history)
        BY <1>1, <1>4 DEF JobOK, JobKnown, JobPlaced, Jobs
    <2>2. peers \subseteq Peer
        BY <2>1, PeersInOK DEF TypeInv
    <2>3. GivenCommit(t) =
              [id |-> job[t].call, actor |-> System, schema |-> plan, peers |-> peers,
               update |-> history, accepted |-> history, incarnation |-> Incarnation(t)]
        BY <1>1 DEF GivenCommit
    <2> HIDE DEF history, peers
    <2>4. GivenCommit(t) \in Commits
        BY <1>1, <1>2, <1>4, <2>1, <2>2, <2>3 DEF Commits, Actors
    <2>5. Candidate(t) = NextEnvelope(job[t].read, GivenCommit(t))
        BY <1>1, <1>4 DEF Candidate, Giving, Requested
    <2> QED BY <2>1, <2>3, <2>4, <2>5
<1>5. /\ job[t].call = "repair" => job[t].read # None /\ Candidate(t) = Repaired(job[t].read)
      /\ job[t].call \in {"delete", "reset"} => job[t].read # None /\ Candidate(t) = None
    BY <1>1 DEF Candidate, Creating, Requested, Giving
<1> QED BY <1>3, <1>4, <1>5

(* And that is the stored one when the swap takes effect.                  *)
LEMMA CommitOK ==
    ASSUME TypeInv, NEW t \in Threads, job[t].phase = "commit", Unmoved(t)
    PROVE  /\ job[t].call \in Requested =>
                 /\ RequestedCommit(t) \in Commits
                 /\ RequestedCommit(t).schema = plan
                 /\ Known(RequestedCommit(t).accepted) /\ Known(RequestedCommit(t).update)
                 /\ Candidate(t) = NextEnvelope(stored, RequestedCommit(t))
           /\ job[t].call \in Giving =>
                 /\ GivenCommit(t) \in Commits
                 /\ Known(GivenCommit(t).accepted) /\ Known(GivenCommit(t).update)
                 /\ Candidate(t) = NextEnvelope(stored, GivenCommit(t))
           /\ job[t].call = "repair" => stored # None /\ Candidate(t) = Repaired(stored)
           /\ job[t].call \in {"delete", "reset"} => stored # None /\ Candidate(t) = None
<1>1. job[t].read = stored
    BY DEF Unmoved
<1> QED BY <1>1, CommitOverRead

(* A repair drops the retained operations and nothing else.                *)
LEMMA RepairedOK ==
    ASSUME NEW envelope \in Envelopes(Peer)
    PROVE  /\ Repaired(envelope) \in Envelopes(Peer)
           /\ Repaired(envelope).retained = <<>>
           /\ Repaired(envelope).compacted = envelope.sequence
           /\ Repaired(envelope).generation = envelope.generation + 1
           /\ Repaired(envelope).incarnation = envelope.incarnation
           /\ Repaired(envelope).schema = envelope.schema
           /\ Repaired(envelope).sequence = envelope.sequence
           /\ Repaired(envelope).checkpoint = envelope.checkpoint
           /\ Repaired(envelope).peers = envelope.peers
<1>1. <<>> \in Seq(Entries)
    BY EmptySeq
<1>2. /\ envelope.generation + 1 \in Nat \ {0}
      /\ envelope.sequence \in Nat
    BY DEF Envelopes
<1>3. Repaired(envelope) =
          [envelope EXCEPT !.retained = <<>>, !.compacted = envelope.sequence,
                           !.generation = envelope.generation + 1]
    BY DEF Repaired, Envelopes
<1>4. Repaired(envelope) \in Envelopes(Peer)
    BY <1>1, <1>2, <1>3 DEF Envelopes
<1>5. /\ Repaired(envelope).retained = <<>>
      /\ Repaired(envelope).compacted = envelope.sequence
      /\ Repaired(envelope).generation = envelope.generation + 1
    BY <1>3 DEF Envelopes
<1>6. /\ Repaired(envelope).incarnation = envelope.incarnation
      /\ Repaired(envelope).schema = envelope.schema
      /\ Repaired(envelope).sequence = envelope.sequence
      /\ Repaired(envelope).checkpoint = envelope.checkpoint
      /\ Repaired(envelope).peers = envelope.peers
    BY <1>3 DEF Envelopes
<1> QED BY <1>4, <1>5, <1>6

(* What an envelope built over another retains was retained there, or is   *)
(* what was committed.                                                     *)
LEMMA RetainedFrom ==
    ASSUME NEW current \in Envelopes(Peer) \cup {None}, NEW commit \in Commits
    PROVE  \A o \in Retained(NextEnvelope(current, commit)) :
              \/ o = EntryOf(SequenceAfter(current), commit)
              \/ current # None /\ current.schema = commit.schema /\ o \in Retained(current)
<1> DEFINE before == RetainedBefore(current, commit)
           entry == EntryOf(SequenceAfter(current), commit)
           all == Append(before, entry)
           last == Last(all, RetainedOperations)
<1>1. /\ before \in Seq(Entries) /\ all \in Seq(Entries) /\ Len(all) = Len(before) + 1
      /\ \A i \in 1..Len(before) : all[i] = before[i]
      /\ all[Len(all)] = entry
    BY RetainedAfter
<1>2. Len(before) \in Nat /\ Len(all) \in Nat /\ DOMAIN before = 1..Len(before)
    BY <1>1, LenProperties
<1>3. NextEnvelope(current, commit).retained = last
    BY NextEnvelopeOK
<1>4. before # <<>> =>
          current # None /\ current.schema = commit.schema /\ before = current.retained
    BY DEF RetainedBefore
<1> HIDE DEF before, entry, all
<1>5. /\ last \in Seq(Entries)
      /\ Len(last) = IF Len(all) > RetainedOperations THEN RetainedOperations ELSE Len(all)
      /\ \A i \in 1..Len(last) : last[i] = all[Len(all) - Len(last) + i]
    BY <1>1, PolicyAssumption, LastOfSequence
<1> HIDE DEF last
<1>6. DOMAIN last = 1..Len(last) /\ Len(last) \in Nat
    BY <1>5, LenProperties
<1>7. ASSUME NEW i \in DOMAIN last
      PROVE  \/ last[i] = entry
             \/ /\ current # None /\ current.schema = commit.schema
                /\ last[i] \in Retained(current)
    <2> DEFINE k == Len(all) - Len(last) + i
    <2>1. k \in 1..Len(all) /\ last[i] = all[k]
        <3>1. i \in 1..Len(last) /\ Len(last) <= Len(all)
            BY <1>2, <1>5, <1>6, <1>7, PolicyAssumption
        <3>2. k \in 1..Len(all)
            BY <1>2, <1>6, <3>1
        <3> QED BY <1>5, <3>1, <3>2
    <2> HIDE DEF k
    <2>2. CASE k = Len(all)
        BY <1>1, <2>1, <2>2
    <2>3. CASE k # Len(all)
        <3>1. k \in 1..Len(before)
            BY <1>1, <1>2, <2>1, <2>3
        <3>2. last[i] = before[k] /\ k \in DOMAIN before /\ before # <<>>
            BY <1>1, <1>2, <2>1, <3>1, EmptySeq
        <3> QED BY <1>4, <3>2 DEF Retained
    <2> QED BY <2>2, <2>3
<1> QED BY <1>3, <1>7 DEF Retained, entry

(* What a swap stores is an envelope of operations that were made.         *)
LEMMA CandidateOK ==
    ASSUME TypeInv, NEW t \in Threads, job[t].phase = "commit", Unmoved(t)
    PROVE  /\ Candidate(t) \in Envelopes(Peer) \cup {None}
           /\ Candidate(t) # None =>
                 /\ Known(Candidate(t).checkpoint) /\ Candidate(t).schema <= plan
                 /\ Len(Candidate(t).retained) <= RetainedOperations
                 /\ \A o \in Retained(Candidate(t)) : Known(o.update)
<1>1. /\ job[t] \in Jobs(Peer) /\ JobOK(job[t]) /\ job[t].call \in AllCalls
      /\ stored \in Envelopes(Peer) \cup {None}
      /\ stored # None => stored.schema <= plan
      /\ plan \in 1..MaxSchema
    BY DEF TypeInv, TypeOK, JobOK, JobPlaced
<1>2. ASSUME NEW commit \in Commits, Candidate(t) = NextEnvelope(stored, commit),
             Known(commit.accepted), Known(commit.update), commit.schema = plan
      PROVE  /\ Candidate(t) \in Envelopes(Peer)
             /\ Known(Candidate(t).checkpoint) /\ Candidate(t).schema <= plan
             /\ Len(Candidate(t).retained) <= RetainedOperations
             /\ \A o \in Retained(Candidate(t)) : Known(o.update)
    <2>1. /\ Candidate(t) \in Envelopes(Peer)
          /\ Candidate(t).checkpoint = commit.accepted /\ Candidate(t).schema = plan
          /\ Len(Candidate(t).retained) <= RetainedOperations
        BY <1>1, <1>2, NextEnvelopeOK
    <2>2. ASSUME NEW o \in Retained(Candidate(t)) PROVE Known(o.update)
        <3>1. CASE o = EntryOf(SequenceAfter(stored), commit)
            BY <1>2, <3>1 DEF EntryOf
        <3>2. CASE stored # None /\ o \in Retained(stored)
            BY <3>2 DEF TypeInv, StoredOK
        <3> QED BY <1>1, <1>2, <3>1, <3>2, RetainedFrom
    <2> QED BY <1>1, <1>2, <2>1, <2>2
<1>3. CASE job[t].call \in Requested
    BY <1>2, <1>3, CommitOK
<1>4. CASE job[t].call \in Giving
    <2>1. GivenCommit(t).schema = plan
        BY DEF GivenCommit
    <2> QED BY <1>2, <1>4, <2>1, CommitOK
<1>5. CASE job[t].call = "repair"
    <2>1. /\ Candidate(t) = Repaired(stored) /\ stored \in Envelopes(Peer) /\ stored # None
        BY <1>1, <1>5, CommitOK
    <2>2. Len(<<>>) = 0 /\ Retained(Repaired(stored)) = {}
        BY <2>1, RepairedOK DEF Retained
    <2> QED BY <1>1, <2>1, <2>2, RepairedOK, PolicyAssumption DEF TypeInv, StoredOK
<1>6. CASE job[t].call \in {"delete", "reset"}
    BY <1>6, CommitOK
<1> QED BY <1>1, <1>3, <1>4, <1>5, <1>6 DEF AllCalls, Operated

(* What is announced of a swap.                                            *)
LEMMA ChangeOK ==
    ASSUME TypeInv, NEW t \in Threads, job[t].phase = "commit", Unmoved(t)
    PROVE  /\ Change(t) \in Changes
           /\ Change(t).call = job[t].call
           /\ Change(t).after = Etag(Candidate(t))
           /\ Change(t).generation = IF Candidate(t) = None THEN stored.generation
                                     ELSE Candidate(t).generation
<1>1. /\ job[t].read = stored /\ stored \in Envelopes(Peer) \cup {None}
      /\ job[t].call \in AllCalls
      /\ Candidate(t) \in Envelopes(Peer) \cup {None}
    BY CandidateOK DEF TypeInv, TypeOK, JobOK, JobPlaced, Unmoved
<1>2. stored = None => Candidate(t) # None
    <2>1. stored = None => job[t].call \in Creating
        BY <1>1 DEF TypeInv, JobOK, JobPlaced
    <2>2. job[t].call \in Creating => Candidate(t) \in Envelopes(Peer)
        BY <1>1, CommitOK, NextEnvelopeOK DEF Creating, Requested, Giving
    <2> QED BY <2>1, <2>2, NoneAssumption
<1> DEFINE envelope == IF Candidate(t) = None THEN stored ELSE Candidate(t)
<1>3. envelope \in Envelopes(Peer)
    BY <1>1, <1>2
<1>4. Change(t) = [call |-> job[t].call, generation |-> envelope.generation,
                   incarnation |-> envelope.incarnation,
                   before |-> Etag(stored), after |-> Etag(Candidate(t))]
    BY <1>1 DEF Change
<1>5. /\ Etag(stored) \in {None} \cup History /\ Etag(Candidate(t)) \in {None} \cup History
    BY <1>1 DEF Etag, Envelopes
<1>6. /\ envelope.generation \in Nat \ {0} /\ envelope.incarnation \in Nat
    BY <1>3 DEF Envelopes
<1>7. envelope.generation = IF Candidate(t) = None THEN stored.generation
                            ELSE Candidate(t).generation
    OBVIOUS
<1> HIDE DEF envelope
<1> QED BY <1>1, <1>4, <1>5, <1>6, <1>7 DEF Changes

(* What a swap does to the history of changes.                             *)
LEMMA SwapRecords ==
    ASSUME TypeInv, NEW t \in Threads, Swap(t)
    PROVE  /\ changes' \in Seq(Changes)
           /\ Len(changes) \in Nat
           /\ Len(changes') = Len(changes) + 1
           /\ Len(changes') <= MaxChanges
           /\ changes'[Len(changes) + 1] = Change(t)
           /\ \A k \in 1..Len(changes) : changes'[k] = changes[k]
<1>1. Change(t) \in Changes /\ changes \in Seq(Changes) /\ Len(changes) \in Nat
    BY ChangeOK, LenProperties DEF Swap, TypeInv, TypeOK
<1>2. changes' = Append(changes, Change(t)) /\ Len(changes) < MaxChanges
    BY DEF Swap
<1> HIDE DEF Changes
<1> QED BY <1>1, <1>2, BoundsAssumption

LEMMA SwapTyped ==
    ASSUME TypeInv, NEW t \in Threads, Swap(t)
    PROVE  TypeInv'
<1> DEFINE j == [Idle EXCEPT !.phase = "announce", !.call = job[t].call,
                             !.request = job[t].request, !.change = Len(changes) + 1]
<1>1. /\ job[t].phase = "commit" /\ Unmoved(t)
      /\ job[t] \in Jobs(Peer) /\ JobOK(job[t]) /\ job[t].call \in AllCalls
      /\ stored' = Candidate(t)
      /\ UNCHANGED <<plan, operations, sent, feed, answers, audit>>
    BY DEF Swap, TypeInv, TypeOK, JobOK, JobPlaced
<1>2. /\ changes' \in Seq(Changes) /\ Len(changes) \in Nat
      /\ Len(changes') = Len(changes) + 1 /\ Len(changes') <= MaxChanges
    BY SwapRecords
<1>3. /\ j \in Jobs(Peer) /\ j.phase = "announce" /\ j.call = job[t].call
      /\ j.request = job[t].request /\ j.history = {} /\ j.read = None /\ j.of = None
      /\ j.change = Len(changes')
    <2>1. /\ job[t].request \in Requests \cup {None} /\ Len(changes) + 1 \in Nat
          /\ job[t].call \in AllCalls
        BY <1>1, <1>2 DEF Jobs
    <2>2. /\ j.phase = "announce" /\ j.call = job[t].call
          /\ j.request = job[t].request /\ j.history = {} /\ j.read = None /\ j.of = None
          /\ j.change = Len(changes) + 1
        BY DEF Idle
    <2>3. j \in Jobs(Peer)
        BY <2>1 DEF Idle, Jobs, History
    <2> HIDE DEF j
    <2> QED BY <1>2, <2>2, <2>3
<1>4. Set(t, j)
    BY DEF Swap
<1> HIDE DEF j
<1>5. job'[t] = j
    BY <1>4 DEF Set, TypeInv, TypeOK
<1>6. JobOK(job[t])'
    <2>1. JobKnown(job[t])'
        BY <1>1, <1>3, <1>5 DEF JobOK, JobKnown, Known
    <2>2. JobPlaced(job[t])'
        BY <1>1, <1>2, <1>3, <1>5 DEF JobOK, JobPlaced
    <2> QED BY <2>1, <2>2 DEF JobOK
<1>7. Len(operations) \in Nat
    BY LenProperties DEF TypeInv, TypeOK
<1>8. job' \in [Threads -> Jobs(Peer)] /\ \A u \in Threads : JobOK(job[u])'
    BY <1>1, <1>2, <1>3, <1>4, <1>6, <1>7, JobStep
<1>9. minted' \in Nat
    BY DEF Swap, TypeInv, TypeOK
<1>10. /\ stored' \in Envelopes(Peer) \cup {None}
       /\ stored' # None => /\ stored'.schema <= plan'
                            /\ Len(stored'.retained) <= RetainedOperations
    BY <1>1, CandidateOK
<1>11. feed' \subseteq DOMAIN changes'
    BY <1>1, <1>2, LenProperties DEF TypeInv, TypeOK
<1>12. TypeOK'
    BY <1>1, <1>2, <1>8, <1>9, <1>10, <1>11 DEF TypeInv, TypeOK
<1>13. StoredOK'
    BY <1>1, <1>2, CandidateOK DEF TypeInv, StoredOK, Known, Retained
<1>14. SentOK'
    BY <1>1 DEF TypeInv, SentOK, Known
<1> QED BY <1>8, <1>12, <1>13, <1>14 DEF TypeInv

-----------------------------------------------------------------------------

(* Nothing is stored yet, or the history of another store.                 *)
RestoreCommit ==
    [id |-> "restore", actor |-> System, schema |-> 1, peers |-> PeersIn({1}),
     update |-> {1}, accepted |-> {1}, incarnation |-> Given]

LEMMA RestoredOK ==
    ASSUME NEW author \in Principals \cup {System}, minted = 0, plan = 1,
           operations = <<Made(SessionPeer(author), "merge", {}, None)>>
    PROVE  /\ operations \in Seq(Operations) /\ Len(operations) = 1
           /\ Restored \in Envelopes(Peer)
           /\ Restored.checkpoint = {1} /\ Restored.schema = 1
           /\ Restored.incarnation = Given /\ Restored.generation = 1
           /\ Len(Restored.retained) <= RetainedOperations
           /\ \A o \in Retained(Restored) : o.update = {1}
           /\ RestoreCommit \in Commits
           /\ Restored = NextEnvelope(None, RestoreCommit)
<1> DEFINE operation == Made(SessionPeer(author), "merge", {}, None)
           commit == RestoreCommit
<1>1. operation \in Operations
    BY BoundsAssumption DEF Made, SessionPeer, Operations, Peer, Actors, Fields, History
<1>2. operations = <<operation>>
    OBVIOUS
<1> HIDE DEF operation
<1>3. operations \in Seq(Operations) /\ Len(operations) = 1 /\ operations[1] = operation
    BY <1>1, <1>2
<1>4. PeersIn({1}) \subseteq Peer
    BY <1>1, <1>3 DEF PeersIn, Operations
<1>5. commit \in Commits
    BY <1>4, BoundsAssumption
       DEF RestoreCommit, Commits, Giving, Actors, History, Operation, Given
<1>6. Restored = NextEnvelope(None, commit)
    BY DEF Restored, RestoreCommit
<1>7. /\ commit.accepted = {1} /\ commit.schema = 1
      /\ commit.incarnation = Given /\ commit.update = {1}
    BY DEF RestoreCommit
<1> HIDE DEF commit
<1>8. /\ Restored \in Envelopes(Peer)
      /\ Restored.checkpoint = {1} /\ Restored.schema = 1
      /\ Restored.incarnation = Given /\ Restored.generation = 1
      /\ Len(Restored.retained) <= RetainedOperations
    BY <1>5, <1>6, <1>7, NextEnvelopeOK
<1>9. \A o \in Retained(Restored) : o = EntryOf(SequenceAfter(None), commit)
    BY <1>5, <1>6, RetainedFrom
<1>10. \A o \in Retained(Restored) : o.update = {1}
    BY <1>7, <1>9 DEF EntryOf
<1> QED BY <1>3, <1>5, <1>6, <1>8, <1>10 DEF commit

LEMMA InitTyped == Init => TypeInv
<1> SUFFICES ASSUME Init PROVE TypeInv
    OBVIOUS
<1>1. PICK author \in Principals \cup {System} :
          operations = <<Made(SessionPeer(author), "merge", {}, None)>>
    BY DEF Init
<1>2. /\ operations \in Seq(Operations) /\ Len(operations) = 1
      /\ Restored \in Envelopes(Peer)
      /\ Restored.checkpoint = {1} /\ Restored.schema = 1
      /\ Len(Restored.retained) <= RetainedOperations
      /\ \A o \in Retained(Restored) : o.update = {1}
    BY <1>1, RestoredOK DEF Init
<1> DEFINE change == [call |-> "restore", generation |-> 1, incarnation |-> Given,
                      before |-> None, after |-> {1}]
<1>3. change \in Changes
    BY BoundsAssumption DEF Changes, AllCalls, Operated, Giving, Given, History, Operation
<1> HIDE DEF change
<1>4. \/ stored = None /\ changes = <<>> /\ feed = {}
      \/ stored = Restored /\ changes = <<change>> /\ feed = {1}
    BY DEF Init, change
<1>5. /\ changes \in Seq(Changes) /\ Len(changes) <= MaxChanges
      /\ feed \subseteq DOMAIN changes
      /\ stored # None => Len(changes) > 0
    <2>1. CASE stored = None /\ changes = <<>> /\ feed = {}
        BY <2>1, EmptySeq, BoundsAssumption
    <2>2. CASE changes = <<change>> /\ feed = {1}
        <3>1. changes \in Seq(Changes) /\ Len(changes) = 1
            BY <1>3, <2>2
        <3> QED BY <2>2, <3>1, LenProperties, BoundsAssumption
    <2> QED BY <1>4, <2>1, <2>2
<1>6. /\ stored \in Envelopes(Peer) \cup {None}
      /\ stored # None => /\ stored.schema = 1 /\ stored.checkpoint = {1}
                          /\ Len(stored.retained) <= RetainedOperations
                          /\ \A o \in Retained(stored) : o.update = {1}
    BY <1>2, <1>4
<1>7. TypeOK
    BY <1>2, <1>5, <1>6, IdleOK, BoundsAssumption DEF Init, TypeOK
<1>8. StoredOK /\ SentOK
    BY <1>2, <1>5, <1>6 DEF Init, StoredOK, SentOK, Known
<1>9. \A t \in Threads : JobOK(job[t])
    BY IdleOK DEF Init
<1> QED BY <1>7, <1>8, <1>9 DEF TypeInv

(* Every step keeps the types.                                             *)
LEMMA NextTyped == TypeInv /\ [Next]_vars => TypeInv'
<1> SUFFICES ASSUME TypeInv, [Next]_vars PROVE TypeInv'
    OBVIOUS
<1>1. CASE UNCHANGED vars
    <2>1. TypeOK'
        BY <1>1 DEF vars, TypeInv, TypeOK
    <2>2. StoredOK' /\ SentOK'
        BY <1>1 DEF vars, TypeInv, StoredOK, SentOK, Known, Retained
    <2>3. ASSUME NEW t \in Threads PROVE JobOK(job[t])'
        <3>1. JobOK(job[t]) /\ UNCHANGED <<operations, job, plan, changes>>
            BY <1>1 DEF TypeInv, vars
        <3>2. JobKnown(job[t])'
            BY <3>1 DEF JobOK, JobKnown, Known
        <3>3. JobPlaced(job[t])'
            BY <3>1 DEF JobOK, JobPlaced, Idle
        <3> QED BY <3>2, <3>3 DEF JobOK
    <2> QED BY <2>1, <2>2, <2>3 DEF TypeInv
<1>2. CASE ClientNext
    BY <1>2, SubmitImportTyped, SubmitRebasedTyped, SubmitBootstrapTyped, SubmitEditTyped
       DEF ClientNext
<1>3. ASSUME NEW t \in Threads, ImportNext(t) PROVE TypeInv'
    BY <1>3, DeliverTyped, PrepareEditTyped, PrepareTextTyped, JudgeImportTyped DEF ImportNext
<1>4. ASSUME NEW t \in Threads, OperatorNext(t) PROVE TypeInv'
    BY <1>4, StartSeedTyped, StartRestoreTyped, StartMigrateTyped, StartRemovalTyped,
       JudgeOperatedTyped DEF OperatorNext
<1>5. ASSUME NEW t \in Threads, CommitNext(t) PROVE TypeInv'
    BY <1>5, SwapTyped, StaleTyped, AnnounceTyped, AbandonTyped DEF CommitNext
<1> QED BY <1>1, <1>2, <1>3, <1>4, <1>5, UpgradeTyped DEF Next

LEMMA Typed == Spec => []TypeInv
BY InitTyped, NextTyped, PTL DEF Spec

(* Type correctness of the store, its requests and every call on it.       *)
THEOREM TypeCorrect == Spec => []TypeOK
BY Typed, PTL DEF TypeInv

-----------------------------------------------------------------------------
(* What a step other than a swap may do: to the job of a thread, to the    *)
(* answers given, and to what the others read.                             *)

Begins(t) ==
    /\ job[t].phase = "idle"
    /\ job'[t].phase \in {"prepare", "judge"}
    /\ job'[t].attempt = 0 /\ job'[t].since \in {0, Len(changes)}
    /\ job'[t].call = "migrate" =>
          job'[t].of = stored /\ stored # None /\ stored.schema < plan
    /\ job'[t].call \in {"repair", "reset"} => job'[t].call \in audit'

Writes(t) ==
    /\ job[t].phase = "prepare" /\ job'[t].phase = "judge"
    /\ job'[t].call = job[t].call
    /\ job'[t].attempt = job[t].attempt /\ job'[t].since = job[t].since

Passes(t) ==
    /\ job[t].phase = "judge"
    /\ job'[t] = [job[t] EXCEPT !.phase = "commit", !.read = stored]
    /\ job[t].call \in Requested => /\ Judged(job[t].request, stored) = "valid"
                                    /\ Committable(job[t].request, stored) = "commit"
    /\ job[t].call \in Operated => ~NothingToDo(t)

Retries(t) ==
    /\ job[t].phase = "commit" /\ stored # job[t].read
    /\ job'[t].phase = "judge"
    /\ job'[t].call = job[t].call /\ job'[t].of = job[t].of /\ job'[t].since = job[t].since
    /\ job'[t].attempt \in {job[t].attempt, job[t].attempt + 1}

JobMoves(t) ==
    \/ job'[t] = job[t] \/ job'[t] = Idle
    \/ Begins(t) \/ Writes(t) \/ Passes(t) \/ Retries(t)

Answered ==
    \/ UNCHANGED answers
    \/ \E id \in Ids : answers' = [answers EXCEPT ![id] = Refused] /\ id \in audit'
    \/ \E t \in Threads :
          /\ job[t].phase = "judge" /\ job[t].call \in Requested
          /\ Duplicate(t)
          /\ stored # None
          /\ \/ RetainedAs(stored, job[t].request.id) # {}
             \/ job[t].request.update \subseteq stored.checkpoint
    \/ \E t \in Threads : Announce(t)

Extends ==
    /\ Len(operations) <= Len(operations')
    /\ \A n \in 1..Len(operations) : operations'[n] = operations[n]

Quiet ==
    /\ UNCHANGED <<stored, minted, changes>>
    /\ Extends
    /\ \/ UNCHANGED plan
       \/ job' = job /\ \A t \in Threads : job[t].phase = "idle"
    /\ audit \subseteq audit'
    /\ Answered
    /\ \A t \in Threads : JobMoves(t)

LEMMA OperationsExtend ==
    ASSUME TypeOK, UNCHANGED operations \/ \E operation : Make(operation)
    PROVE  Extends
<1>1. Len(operations) \in Nat
    BY LenProperties DEF TypeOK
<1>2. ASSUME NEW operation, Make(operation) PROVE Extends
    <2>1. operations \in Seq(Operations \cup {operation})
        BY SeqMonotonic DEF TypeOK
    <2>2. operations' = Append(operations, operation)
        BY <1>2 DEF Make
    <2> QED BY <1>1, <2>1, <2>2 DEF Extends
<1> QED BY <1>1, <1>2 DEF Extends

(* One thread's step moves its own job.                                    *)
LEMMA OneMoves ==
    ASSUME TypeOK, NEW t \in Threads, NEW j, Set(t, j), job'[t] = j => JobMoves(t)
    PROVE  \A u \in Threads : JobMoves(u)
BY DEF Set, TypeOK, JobMoves

LEMMA ReturnMoves ==
    ASSUME TypeOK, NEW t \in Threads, Return(t)
    PROVE  \A u \in Threads : JobMoves(u)
BY OneMoves DEF Return, JobMoves

(* A call that is refused, or ends with no answer.                         *)
LEMMA RefuseQuiet ==
    ASSUME TypeInv, NEW t \in Threads, job[t].phase # "idle",
           \/ Refuse(t) /\ job[t].call \in Requested
           \/ Return(t) /\ UNCHANGED <<answers, audit>>,
           UNCHANGED <<stored, minted, changes, operations, plan>>
    PROVE  Quiet
<1>1. \A u \in Threads : JobMoves(u)
    BY ReturnMoves DEF Refuse, TypeInv
<1>2. Extends
    BY OperationsExtend DEF TypeInv
<1>3. job[t].call \in Requested => job[t].request.id \in Ids
    BY DEF TypeInv, JobOK, JobPlaced, Requests
<1>4. Answered /\ audit \subseteq audit'
    BY <1>3 DEF Refuse, Answered
<1> QED BY <1>1, <1>2, <1>4 DEF Quiet

LEMMA ClientQuiet ==
    ASSUME TypeInv, ClientNext
    PROVE  Quiet
<1>1. /\ UNCHANGED <<stored, plan, minted, job, changes, answers, audit>>
      /\ UNCHANGED operations \/ \E operation : Make(operation)
    BY DEF ClientNext, SubmitImport, SubmitRebased, SubmitBootstrap, SubmitEdit, SubmitText,
           Submit
<1> QED BY <1>1, OperationsExtend DEF TypeInv, Quiet, Answered, JobMoves

LEMMA ImportQuiet ==
    ASSUME TypeInv, NEW t \in Threads, ImportNext(t)
    PROVE  Quiet
<1>1. job[t] \in Jobs(Peer) /\ JobOK(job[t]) /\ Len(changes) \in Nat
    BY LenProperties DEF TypeInv, TypeOK
<1>2. ASSUME NEW request \in sent, Deliver(t, request) PROVE Quiet
    <2>1. request.call \in Requested
        BY DEF TypeInv, TypeOK, Requests
    <2> DEFINE edits == request.call \in {"edit", "edit_text"}
               received == [request EXCEPT !.schema = IF edits THEN plan ELSE @]
               phase == IF edits THEN "prepare" ELSE "judge"
               j == [Idle EXCEPT !.phase = phase, !.call = request.call,
                                 !.request = received, !.since = Len(changes)]
    <2>2. Set(t, j)
        BY <1>2 DEF Deliver
    <2> HIDE DEF received
    <2>3. /\ j.phase \in {"prepare", "judge"} /\ j.call = request.call
          /\ j.attempt = 0 /\ j.since = Len(changes)
        BY DEF Idle
    <2> HIDE DEF j
    <2>4. job'[t] = j => Begins(t)
        BY <1>2, <2>1, <2>3 DEF Deliver, Begins, Requested
    <2>5. \A u \in Threads : JobMoves(u)
        BY <2>2, <2>4, OneMoves DEF TypeInv, JobMoves
    <2> QED BY <1>2, <2>5, OperationsExtend DEF Deliver, TypeInv, Quiet, Answered
<1>3. ASSUME job[t].phase = "prepare", NEW base, NEW update, Prepared(t, base, update),
             UNCHANGED operations \/ \E operation : Make(operation),
             UNCHANGED <<stored, plan, minted, changes, answers, audit>>
      PROVE  Quiet
    <2> DEFINE j == [job[t] EXCEPT !.phase = "judge", !.request.base = base,
                                   !.request.update = update]
    <2>1. Set(t, j)
        BY <1>3 DEF Prepared
    <2>2. /\ j.phase = "judge" /\ j.call = job[t].call /\ j.attempt = job[t].attempt
          /\ j.since = job[t].since
        BY <1>1 DEF Jobs
    <2> HIDE DEF j
    <2>3. \A u \in Threads : JobMoves(u)
        BY <1>3, <2>1, <2>2, OneMoves DEF TypeInv, JobMoves, Writes
    <2> QED BY <1>3, <2>3, OperationsExtend DEF TypeInv, Quiet, Answered
<1>4. CASE PrepareEdit(t)
    <2>1. job[t].phase = "prepare" /\ job[t].call \in Requested
        BY <1>4 DEF PrepareEdit, Requested
    <2>2. \/ Refuse(t) /\ UNCHANGED operations
          \/ /\ \E base, update : Prepared(t, base, update)
             /\ UNCHANGED operations \/ \E operation : Make(operation)
             /\ UNCHANGED <<answers, audit>>
        BY <1>4 DEF PrepareEdit
    <2>3. UNCHANGED <<stored, plan, minted, changes>>
        BY <1>4 DEF PrepareEdit
    <2> QED BY <1>3, <2>1, <2>2, <2>3, RefuseQuiet
<1>5. CASE PrepareText(t)
    <2>1. job[t].phase = "prepare" /\ job[t].call \in Requested
        BY <1>5 DEF PrepareText, Requested
    <2>2. \/ Refuse(t) /\ UNCHANGED operations
          \/ /\ \E base, update : Prepared(t, base, update)
             /\ UNCHANGED operations \/ \E operation : Make(operation)
             /\ UNCHANGED <<answers, audit>>
        BY <1>5 DEF PrepareText
    <2>3. UNCHANGED <<stored, plan, minted, changes>>
        BY <1>5 DEF PrepareText
    <2> QED BY <1>3, <2>1, <2>2, <2>3, RefuseQuiet
<1>6. CASE JudgeImport(t)
    <2>1. /\ job[t].phase = "judge" /\ job[t].call \in Requested
          /\ UNCHANGED <<stored, plan, operations, minted, sent, changes, feed>>
        BY <1>6 DEF JudgeImport
    <2>2. Extends
        BY <2>1, OperationsExtend DEF TypeInv
    <2>3. CASE Refuse(t)
        BY <2>1, <2>3, RefuseQuiet
    <2>4. CASE /\ Duplicate(t) /\ stored # None
               /\ \/ RetainedAs(stored, job[t].request.id) # {}
                  \/ job[t].request.update \subseteq stored.checkpoint
        <3>1. \A u \in Threads : JobMoves(u)
            BY <2>4, ReturnMoves DEF Duplicate, TypeInv
        <3>2. Answered /\ audit' = audit
            BY <2>1, <2>4 DEF Answered, Duplicate
        <3> QED BY <2>1, <2>2, <3>1, <3>2 DEF Quiet
    <2>5. CASE /\ Proceed(t) /\ Judged(job[t].request, stored) = "valid"
               /\ Committable(job[t].request, stored) = "commit"
        <3>1. \A u \in Threads : JobMoves(u)
            BY <2>1, <2>5, OneMoves
               DEF Proceed, TypeInv, JobMoves, Passes, Requested, Operated, Giving
        <3> QED BY <2>1, <2>2, <2>5, <3>1 DEF Proceed, Quiet, Answered
    <2> QED BY <1>6, <2>3, <2>4, <2>5, JudgeImportEnds
<1> QED BY <1>2, <1>4, <1>5, <1>6 DEF ImportNext

LEMMA OperatorQuiet ==
    ASSUME TypeInv, NEW t \in Threads, OperatorNext(t)
    PROVE  Quiet
<1>1. job[t] \in Jobs(Peer)
    BY DEF TypeInv, TypeOK
<1>2. ASSUME NEW call, NEW history, NEW of, Start(t, call, history, of),
             UNCHANGED operations \/ \E operation : Make(operation),
             audit \subseteq audit',
             call = "migrate" => of = stored /\ stored # None /\ stored.schema < plan,
             call \in {"repair", "reset"} => call \in audit'
      PROVE  Quiet
    <2> DEFINE j == [Idle EXCEPT !.phase = "judge", !.call = call, !.history = history,
                                 !.of = of]
    <2>1. Set(t, j) /\ job[t].phase = "idle"
          /\ UNCHANGED <<stored, plan, minted, changes, answers>>
        BY <1>2 DEF Start
    <2>2. /\ j.phase = "judge" /\ j.call = call /\ j.of = of /\ j.attempt = 0 /\ j.since = 0
        BY DEF Idle
    <2> HIDE DEF j
    <2>3. job'[t] = j => Begins(t)
        BY <1>2, <2>1, <2>2 DEF Begins
    <2>4. \A u \in Threads : JobMoves(u)
        BY <2>1, <2>3, OneMoves DEF TypeInv, JobMoves
    <2> QED BY <1>2, <2>1, <2>4, OperationsExtend DEF TypeInv, Quiet, Answered
<1>3. CASE StartSeed(t) \/ StartRestore(t) \/ StartDelete(t)
    BY <1>2, <1>3 DEF StartSeed, StartRestore, StartDelete
<1>4. CASE StartMigrate(t)
    BY <1>2, <1>4 DEF StartMigrate
<1>5. CASE \E call \in {"repair", "reset"} : StartRecovery(t, call)
    BY <1>2, <1>5 DEF StartRecovery
<1>6. CASE JudgeOperated(t)
    <2>1. /\ job[t].phase = "judge" /\ job[t].call \in Operated
          /\ job[t].call \notin Requested
          /\ UNCHANGED <<stored, plan, operations, minted, sent, changes, feed, answers, audit>>
        BY <1>6 DEF JudgeOperated, Operated, Requested, Giving
    <2>2. CASE NothingToDo(t)
        BY <1>6, <2>1, <2>2, RefuseQuiet DEF JudgeOperated
    <2>3. CASE ~NothingToDo(t)
        <3>1. \A u \in Threads : JobMoves(u)
            BY <1>6, <2>1, <2>3, OneMoves DEF JudgeOperated, TypeInv, JobMoves, Passes
        <3> QED BY <2>1, <3>1, OperationsExtend DEF TypeInv, Quiet, Answered
    <2> QED BY <2>2, <2>3
<1> QED BY <1>3, <1>4, <1>5, <1>6 DEF OperatorNext

LEMMA StaleQuiet ==
    ASSUME TypeInv, NEW t \in Threads, Stale(t)
    PROVE  Quiet
<1>1. /\ job[t].phase = "commit" /\ stored # job[t].read
      /\ UNCHANGED <<stored, plan, operations, minted, sent, changes, feed>>
      /\ job[t] \in Jobs(Peer)
    BY DEF Stale, Unmoved, TypeInv, TypeOK
<1>2. Extends
    BY <1>1, OperationsExtend DEF TypeInv
<1>3. CASE \/ Refuse(t) /\ job[t].call \in Requested
           \/ Return(t) /\ UNCHANGED <<answers, audit>>
    BY <1>1, <1>3, RefuseQuiet
<1>4. ASSUME NEW attempt \in {job[t].attempt, job[t].attempt + 1},
             Set(t, [job[t] EXCEPT !.phase = "judge", !.read = None, !.attempt = attempt]),
             UNCHANGED <<answers, audit>>
      PROVE  Quiet
    <2> DEFINE j == [job[t] EXCEPT !.phase = "judge", !.read = None, !.attempt = attempt]
    <2>1. /\ j.phase = "judge" /\ j.call = job[t].call /\ j.of = job[t].of
          /\ j.since = job[t].since /\ j.attempt = attempt
        BY <1>1 DEF Jobs
    <2>2. Set(t, j)
        BY <1>4
    <2> HIDE DEF j
    <2>3. \A u \in Threads : JobMoves(u)
        BY <1>1, <1>4, <2>1, <2>2, OneMoves DEF TypeInv, JobMoves, Retries
    <2> QED BY <1>1, <1>2, <1>4, <2>3 DEF Quiet, Answered
<1>5. [job[t] EXCEPT !.phase = "judge", !.read = None] =
          [job[t] EXCEPT !.phase = "judge", !.read = None, !.attempt = job[t].attempt]
    BY <1>1 DEF Jobs
<1> QED BY <1>3, <1>4, <1>5 DEF Stale

(* Every step is a swap, or changes nothing that is stored.                *)
LEMMA StepKinds ==
    ASSUME TypeInv, Next
    PROVE  Quiet \/ \E t \in Threads : Swap(t)
<1>1. ASSUME NEW t \in Threads, Announce(t) PROVE Quiet
    <2>1. \A u \in Threads : JobMoves(u)
        BY <1>1, ReturnMoves DEF Announce, TypeInv
    <2>2. Answered /\ Extends
        BY <1>1, OperationsExtend DEF Announce, Answered, TypeInv
    <2> QED BY <1>1, <2>1, <2>2 DEF Announce, Quiet
<1>2. ASSUME NEW t \in Threads, Abandon(t) PROVE Quiet
    BY <1>2, RefuseQuiet DEF Abandon
<1>3. CASE Upgrade
    BY <1>3, OperationsExtend DEF Upgrade, Quiet, Answered, JobMoves, TypeInv
<1> QED BY <1>1, <1>2, <1>3, ClientQuiet, ImportQuiet, OperatorQuiet, StaleQuiet
        DEF Next, CommitNext

(* What a swap leaves alone, and where it leaves its thread.               *)
LEMMA SwapMoves ==
    ASSUME TypeInv, NEW t \in Threads, Swap(t)
    PROVE  /\ job[t].phase = "commit" /\ job[t].read = stored /\ stored' = Candidate(t)
           /\ UNCHANGED <<plan, operations, sent, feed, answers, audit>>
           /\ job'[t].phase = "announce" /\ job'[t].call = job[t].call
           /\ job'[t].request = job[t].request
           /\ job'[t].attempt = 0 /\ job'[t].since = 0
           /\ job'[t].change = Len(changes')
           /\ \A u \in Threads \ {t} : job'[u] = job[u]
<1> DEFINE j == [Idle EXCEPT !.phase = "announce", !.call = job[t].call,
                             !.request = job[t].request, !.change = Len(changes) + 1]
<1>1. Set(t, j)
    BY DEF Swap
<1>2. /\ j.phase = "announce" /\ j.call = job[t].call /\ j.request = job[t].request
      /\ j.attempt = 0 /\ j.since = 0 /\ j.change = Len(changes) + 1
    BY DEF Idle
<1> HIDE DEF j
<1>3. job'[t] = j /\ \A u \in Threads \ {t} : job'[u] = job[u]
    BY <1>1 DEF Set, TypeInv, TypeOK
<1>4. Len(changes') = Len(changes) + 1
    BY SwapRecords
<1> QED BY <1>2, <1>3, <1>4 DEF Swap, Unmoved

-----------------------------------------------------------------------------
(* A peer stays bound to its principal while the document exists, through  *)
(* every commit, compaction, repair and migration: next_envelope adds      *)
(* bindings and changes none.                                              *)
THEOREM BindingsAreKept == Spec => BindingsKept
<1>1. ASSUME TypeInv, NEW t \in Threads, Swap(t), stored # None, stored' # None,
             NEW p \in DOMAIN stored.peers
      PROVE  p \in DOMAIN stored'.peers /\ stored'.peers[p] = stored.peers[p]
    <2>1. /\ stored \in Envelopes(Peer) /\ stored' = Candidate(t) /\ job[t].phase = "commit"
          /\ Unmoved(t) /\ job[t].call \in AllCalls
        BY <1>1, SwapMoves DEF Unmoved, TypeInv, TypeOK, JobOK, JobPlaced
    <2>2. ASSUME NEW commit \in Commits, Candidate(t) = NextEnvelope(stored, commit)
          PROVE  p \in DOMAIN stored'.peers /\ stored'.peers[p] = stored.peers[p]
        <3>1. stored'.peers = Bound(stored, commit)
            BY <2>1, <2>2, NextEnvelopeOK
        <3>2. /\ DOMAIN Bound(stored, commit) =
                     commit.peers \cup (IF stored = None THEN {} ELSE DOMAIN stored.peers)
              /\ stored # None => \A q \in DOMAIN stored.peers :
                     Bound(stored, commit)[q] = stored.peers[q]
            BY <2>1, <2>2, BoundAfter
        <3>3. p \in DOMAIN Bound(stored, commit)
            BY <1>1, <3>2
        <3> QED BY <1>1, <3>1, <3>2, <3>3
    <2>3. CASE job[t].call \in Requested \cup Giving
        BY <1>1, <2>1, <2>2, <2>3, CommitOK
    <2>4. CASE job[t].call = "repair"
        BY <1>1, <2>1, <2>4, CommitOK, RepairedOK
    <2>5. CASE job[t].call \in {"delete", "reset"}
        BY <1>1, <2>1, <2>5, CommitOK
    <2> QED BY <2>1, <2>3, <2>4, <2>5 DEF AllCalls, Operated
<1>2. TypeInv /\ [Next]_vars =>
         [stored # None /\ stored' # None =>
             \A p \in DOMAIN stored.peers :
                 p \in DOMAIN stored'.peers /\ stored'.peers[p] = stored.peers[p]]_vars
    BY <1>1, StepKinds DEF Quiet
<1> QED BY <1>2, Typed, PTL DEF Spec, BindingsKept

-----------------------------------------------------------------------------
(* Contention.  What an attempt may still lose is counted before it is     *)
(* lost: an envelope that is not the stored one any more was replaced by a *)
(* change made since the call was delivered.                               *)
LosesToChanges ==
    \A t \in Threads :
        /\ job[t].since <= Len(changes)
        /\ job[t].attempt <= Len(changes) - job[t].since
        /\ job[t].phase = "commit" /\ stored # job[t].read
              => job[t].attempt + 1 <= Len(changes) - job[t].since

LEMMA LosesToChangesKept == TypeInv /\ LosesToChanges /\ [Next]_vars => LosesToChanges'
<1> SUFFICES ASSUME TypeInv, LosesToChanges, [Next]_vars, NEW u \in Threads
             PROVE  /\ job'[u].since <= Len(changes')
                    /\ job'[u].attempt <= Len(changes') - job'[u].since
                    /\ job'[u].phase = "commit" /\ stored' # job'[u].read
                          => job'[u].attempt + 1 <= Len(changes') - job'[u].since
    BY DEF LosesToChanges
<1>1. /\ job[u] \in Jobs(Peer) /\ job[u].attempt \in Nat /\ job[u].since \in Nat
      /\ Len(changes) \in Nat
      /\ job[u].since <= Len(changes)
      /\ job[u].attempt <= Len(changes) - job[u].since
      /\ job[u].phase = "commit" /\ stored # job[u].read
            => job[u].attempt + 1 <= Len(changes) - job[u].since
    BY LenProperties DEF TypeInv, TypeOK, Jobs, LosesToChanges
<1>2. CASE UNCHANGED vars
    BY <1>1, <1>2 DEF vars
<1>3. CASE Quiet
    <2>1. JobMoves(u) /\ UNCHANGED <<stored, changes>>
        BY <1>3 DEF Quiet
    <2>2. CASE job'[u] = Idle
        BY <1>1, <2>1, <2>2 DEF Idle
    <2>3. CASE Begins(u)
        BY <1>1, <2>1, <2>3 DEF Begins
    <2>4. CASE Writes(u)
        BY <1>1, <2>1, <2>4 DEF Writes
    <2>5. CASE Passes(u)
        <3>1. /\ job'[u].read = stored /\ job'[u].attempt = job[u].attempt
              /\ job'[u].since = job[u].since
            BY <1>1, <2>5 DEF Passes, Jobs
        <3> QED BY <1>1, <2>1, <3>1
    <2>6. CASE Retries(u)
        BY <1>1, <2>1, <2>6 DEF Retries
    <2> QED BY <1>1, <2>1, <2>2, <2>3, <2>4, <2>5, <2>6 DEF JobMoves
<1>4. ASSUME NEW t \in Threads, Swap(t)
      PROVE  /\ job'[u].since <= Len(changes')
             /\ job'[u].attempt <= Len(changes') - job'[u].since
             /\ job'[u].phase = "commit" /\ stored' # job'[u].read
                   => job'[u].attempt + 1 <= Len(changes') - job'[u].since
    <2>1. Len(changes') = Len(changes) + 1
        BY <1>4, SwapRecords
    <2>2. CASE u = t
        BY <1>1, <1>4, <2>1, <2>2, SwapMoves
    <2>3. CASE u # t
        <3>1. job'[u] = job[u]
            BY <1>4, <2>3, SwapMoves
        <3> QED BY <1>1, <2>1, <3>1
    <2> QED BY <2>2, <2>3
<1> QED BY <1>2, <1>3, <1>4, StepKinds

(* An import counts an attempt as lost only to a change made since it was  *)
(* delivered: no call waits longer than others make progress.              *)
THEOREM ContentionIsProgress == Spec => []ContentionIsReal
<1>1. Init => LosesToChanges
    BY DEF Init, LosesToChanges, Idle
<1>2. LosesToChanges => ContentionIsReal
    BY DEF LosesToChanges, ContentionIsReal
<1> QED BY <1>1, <1>2, LosesToChangesKept, Typed, PTL DEF Spec

-----------------------------------------------------------------------------
(* The audit record.  A repair or reset is on record from its start, so it *)
(* is when it takes effect.                                                *)
RecordedFirst ==
    /\ Audited
    /\ \A t \in Threads : job[t].phase # "idle" /\ job[t].call \in {"repair", "reset"}
          => job[t].call \in audit

LEMMA RecordedFirstKept == TypeInv /\ RecordedFirst /\ [Next]_vars => RecordedFirst'
<1> SUFFICES ASSUME TypeInv, RecordedFirst, [Next]_vars
             PROVE  RecordedFirst'
    OBVIOUS
<1>1. /\ answers \in [Ids -> {None, Refused} \cup Answers]
      /\ \A id \in Ids : answers[id] = Refused => id \in audit
      /\ \A k \in DOMAIN changes : changes[k].call \in {"repair", "reset"}
            => changes[k].call \in audit
      /\ \A t \in Threads : job[t].phase # "idle" /\ job[t].call \in {"repair", "reset"}
            => job[t].call \in audit
      /\ \A t \in Threads : job[t] \in Jobs(Peer)
    BY DEF TypeInv, TypeOK, RecordedFirst, Audited
<1>2. CASE UNCHANGED vars
    BY <1>1, <1>2 DEF vars, RecordedFirst, Audited
<1>3. CASE Quiet
    <2>1. UNCHANGED changes /\ audit \subseteq audit' /\ Answered
        BY <1>3 DEF Quiet
    <2>2. ASSUME NEW id \in Ids, answers'[id] = Refused PROVE id \in audit'
        <3>1. ASSUME NEW t \in Threads, NEW change \in 1..MaxChanges, NEW update \in History,
                     job[t].phase # "idle", job[t].call \in Requested, Answer(t, change, update)
              PROVE  id \in audit'
            <4>1. job[t].request.id \in Ids
                BY <3>1 DEF TypeInv, JobOK, JobPlaced, Requests
            <4>2. [change |-> change, update |-> update] # Refused
                BY <3>1, RefusedAssumption DEF Answers
            <4> QED BY <1>1, <2>1, <2>2, <3>1, <4>1, <4>2 DEF Answer
        <3>2. ASSUME NEW t \in Threads, job[t].phase = "judge", job[t].call \in Requested,
                     Duplicate(t), stored # None
              PROVE  id \in audit'
            BY <3>1, <3>2, DuplicateOK
        <3>3. ASSUME NEW t \in Threads, Announce(t)
              PROVE  id \in audit'
            <4>1. /\ job[t].phase = "announce" /\ job[t].change \in 1..Len(changes)
                  /\ Len(changes) \in Nat /\ Len(changes) <= MaxChanges
                  /\ job[t].call \in Requested => job[t].request.update \in History
                BY <3>3, LenProperties
                   DEF Announce, TypeInv, TypeOK, JobOK, JobPlaced, Requests
            <4>2. job[t].change \in 1..MaxChanges
                BY <4>1, BoundsAssumption
            <4> QED BY <1>1, <2>1, <2>2, <3>1, <3>3, <4>1, <4>2 DEF Announce
        <3> QED BY <1>1, <2>1, <2>2, <3>2, <3>3 DEF Answered
    <2>3. ASSUME NEW u \in Threads, job'[u].phase # "idle", job'[u].call \in {"repair", "reset"}
          PROVE  job'[u].call \in audit'
        <3>1. JobMoves(u)
            BY <1>3 DEF Quiet
        <3>2. CASE Passes(u)
            <4>1. job'[u].call = job[u].call /\ job[u].phase # "idle"
                BY <1>1, <3>2 DEF Passes, Jobs
            <4> QED BY <1>1, <2>1, <2>3, <4>1
        <3> QED BY <1>1, <2>1, <2>3, <3>1, <3>2 DEF JobMoves, Begins, Writes, Retries, Idle
    <2> QED BY <1>1, <2>1, <2>2, <2>3 DEF RecordedFirst, Audited
<1>4. ASSUME NEW t \in Threads, Swap(t) PROVE RecordedFirst'
    <2>1. /\ UNCHANGED <<answers, audit>>
          /\ job[t].phase = "commit" /\ job'[t].call = job[t].call
          /\ \A u \in Threads \ {t} : job'[u] = job[u]
        BY <1>4, SwapMoves
    <2>2. /\ Len(changes) \in Nat
          /\ changes'[Len(changes) + 1].call = job[t].call
          /\ \A k \in 1..Len(changes) : changes'[k] = changes[k]
          /\ DOMAIN changes = 1..Len(changes)
          /\ DOMAIN changes' = 1..Len(changes) + 1
        BY <1>4, <2>1, SwapRecords, ChangeOK, LenProperties DEF Swap, TypeInv, TypeOK
    <2>3. ASSUME NEW k \in DOMAIN changes', changes'[k].call \in {"repair", "reset"}
          PROVE  changes'[k].call \in audit'
        <3>1. CASE k = Len(changes) + 1
            BY <1>1, <2>1, <2>2, <2>3, <3>1
        <3>2. CASE k # Len(changes) + 1
            BY <1>1, <2>1, <2>2, <2>3, <3>2
        <3> QED BY <3>1, <3>2
    <2>4. \A u \in Threads : job'[u].phase # "idle" /\ job'[u].call \in {"repair", "reset"}
              => job'[u].call \in audit'
        BY <1>1, <2>1
    <2> QED BY <1>1, <2>1, <2>3, <2>4 DEF RecordedFirst, Audited
<1> QED BY <1>2, <1>3, <1>4, StepKinds

(* Every refusal a caller was given, and every repair and reset made, is   *)
(* on the audit record.                                                    *)
THEOREM RefusalsAreAudited == Spec => []Audited
<1>1. Init => RecordedFirst
    BY SystemAssumption DEF Init, RecordedFirst, Audited, Idle
<1>2. RecordedFirst => Audited
    BY DEF RecordedFirst
<1> QED BY <1>1, <1>2, RecordedFirstKept, Typed, PTL DEF Spec

-----------------------------------------------------------------------------
(* What a swap stores, by the call it is made for.                         *)
LEMMA SwapStores ==
    ASSUME TypeInv, NEW t \in Threads, Swap(t)
    PROVE  /\ job[t].call \in AllCalls
           /\ job[t].call \in Requested \cup Giving =>
                 stored' \in Envelopes(Peer) /\ stored' # None /\ stored'.schema = plan
           /\ job[t].call \in Requested =>
                 stored'.checkpoint =
                    job[t].request.update \cup (IF stored = None THEN {} ELSE stored.checkpoint)
           /\ job[t].call \in Giving => stored'.checkpoint = job[t].history
           /\ job[t].call \in Requested \cup Giving => stored'.incarnation = Incarnation(t)
           /\ job[t].call = "repair" =>
                 /\ stored \in Envelopes(Peer) /\ stored # None
                 /\ stored' = Repaired(stored) /\ stored' \in Envelopes(Peer) /\ stored' # None
                 /\ stored'.schema = stored.schema /\ stored'.checkpoint = stored.checkpoint
                 /\ stored'.incarnation = stored.incarnation
           /\ job[t].call \in {"delete", "reset"} => stored' = None /\ stored # None
           /\ job[t].call \in Creating <=> stored = None
<1>1. /\ stored' = Candidate(t) /\ job[t].phase = "commit" /\ job[t].read = stored /\ Unmoved(t)
      /\ stored \in Envelopes(Peer) \cup {None} /\ job[t].call \in AllCalls
      /\ job[t].call \in Creating <=> stored = None
    BY SwapMoves DEF Unmoved, TypeInv, TypeOK, JobOK, JobPlaced
<1>2. ASSUME job[t].call \in Requested
      PROVE  /\ stored' \in Envelopes(Peer) /\ stored' # None /\ stored'.schema = plan
             /\ stored'.checkpoint =
                    job[t].request.update \cup (IF stored = None THEN {} ELSE stored.checkpoint)
             /\ stored'.incarnation = Incarnation(t)
    <2>1. /\ RequestedCommit(t) \in Commits /\ RequestedCommit(t).schema = plan
          /\ stored' = NextEnvelope(stored, RequestedCommit(t))
        BY <1>1, <1>2, CommitOK
    <2>2. /\ RequestedCommit(t).accepted =
                    job[t].request.update \cup (IF stored = None THEN {} ELSE stored.checkpoint)
          /\ RequestedCommit(t).incarnation = Incarnation(t)
        BY <1>1 DEF RequestedCommit
    <2>3. /\ stored' \in Envelopes(Peer) /\ stored'.schema = RequestedCommit(t).schema
          /\ stored'.checkpoint = RequestedCommit(t).accepted
          /\ stored'.incarnation = RequestedCommit(t).incarnation
        BY <1>1, <2>1, NextEnvelopeOK
    <2> QED BY <2>1, <2>2, <2>3, NoneAssumption
<1>3. ASSUME job[t].call \in Giving
      PROVE  /\ stored' \in Envelopes(Peer) /\ stored' # None /\ stored'.schema = plan
             /\ stored'.checkpoint = job[t].history
             /\ stored'.incarnation = Incarnation(t)
    <2>1. GivenCommit(t) \in Commits /\ stored' = NextEnvelope(stored, GivenCommit(t))
        BY <1>1, <1>3, CommitOK
    <2>2. /\ GivenCommit(t).accepted = job[t].history /\ GivenCommit(t).schema = plan
          /\ GivenCommit(t).incarnation = Incarnation(t)
        BY DEF GivenCommit
    <2>3. /\ stored' \in Envelopes(Peer) /\ stored'.schema = GivenCommit(t).schema
          /\ stored'.checkpoint = GivenCommit(t).accepted
          /\ stored'.incarnation = GivenCommit(t).incarnation
        BY <1>1, <2>1, NextEnvelopeOK
    <2> QED BY <2>2, <2>3, NoneAssumption
<1>4. ASSUME job[t].call = "repair"
      PROVE  /\ stored \in Envelopes(Peer) /\ stored # None
             /\ stored' = Repaired(stored) /\ stored' \in Envelopes(Peer) /\ stored' # None
             /\ stored'.schema = stored.schema /\ stored'.checkpoint = stored.checkpoint
             /\ stored'.incarnation = stored.incarnation
    <2>1. stored # None /\ stored' = Repaired(stored)
        BY <1>1, <1>4, CommitOK
    <2> QED BY <1>1, <2>1, RepairedOK, NoneAssumption
<1>5. job[t].call \in {"delete", "reset"} => stored' = None /\ stored # None
    BY <1>1, CommitOK
<1> QED BY <1>1, <1>2, <1>3, <1>4, <1>5

(* A swap takes effect in no other step.                                   *)
LEMMA SwappedBySwap ==
    ASSUME TypeInv, [Next]_vars, NEW t \in Threads, Swapped(t)
    PROVE  Swap(t)
<1>1. CASE UNCHANGED vars
    BY <1>1 DEF vars, Swapped
<1>2. CASE Quiet
    <2>1. JobMoves(t) /\ job[t] \in Jobs(Peer)
        BY <1>2 DEF Quiet, TypeInv, TypeOK
    <2> QED BY <2>1 DEF JobMoves, Begins, Writes, Passes, Retries, Swapped, Idle, Jobs
<1>3. ASSUME NEW u \in Threads, Swap(u) PROVE Swap(t)
    BY <1>3, SwapMoves DEF Swapped
<1> QED BY <1>1, <1>2, <1>3, StepKinds

-----------------------------------------------------------------------------
(* Migrations.  While a migration is judged and swapped in, the stored     *)
(* document either has left the schema it was read at, or is the one that  *)
(* was read: whatever commits, commits under the deployed schema.          *)
MigratesWhole ==
    \A t \in Threads :
        job[t].phase \in {"judge", "commit"} /\ job[t].call = "migrate" =>
            /\ job[t].of.schema < plan
            /\ stored # None /\ stored.schema = job[t].of.schema
                  => stored.checkpoint = job[t].of.checkpoint
            /\ job[t].phase = "commit" => job[t].read.schema = job[t].of.schema

LEMMA MigratesWholeKept == TypeInv /\ MigratesWhole /\ [Next]_vars => MigratesWhole'
<1> SUFFICES ASSUME TypeInv, MigratesWhole, [Next]_vars, NEW u \in Threads,
                    job'[u].phase \in {"judge", "commit"}, job'[u].call = "migrate"
             PROVE  /\ job'[u].of.schema < plan'
                    /\ stored' # None /\ stored'.schema = job'[u].of.schema
                          => stored'.checkpoint = job'[u].of.checkpoint
                    /\ job'[u].phase = "commit" => job'[u].read.schema = job'[u].of.schema
    BY DEF MigratesWhole
<1>1. /\ job[u] \in Jobs(Peer) /\ plan \in Nat
      /\ job[u].phase \in {"judge", "commit"} /\ job[u].call = "migrate" =>
            /\ job[u].of.schema < plan
            /\ stored # None /\ stored.schema = job[u].of.schema
                  => stored.checkpoint = job[u].of.checkpoint
            /\ job[u].phase = "commit" => job[u].read.schema = job[u].of.schema
            /\ job[u].of \in Envelopes(Peer)
    BY BoundsAssumption DEF TypeInv, TypeOK, JobOK, JobPlaced, Jobs, MigratesWhole
<1>2. CASE UNCHANGED vars
    BY <1>1, <1>2 DEF vars
<1>3. CASE Quiet
    <2>1. JobMoves(u) /\ UNCHANGED <<stored, changes>>
        BY <1>3 DEF Quiet
    <2>2. job'[u].phase # "idle"
        OBVIOUS
    <2>3. plan' = plan
        BY <1>3, <2>2 DEF Quiet
    <2>4. CASE Passes(u)
        <3>1. /\ job'[u].read = stored /\ job'[u].of = job[u].of
              /\ job[u].phase = "judge" /\ job[u].call = "migrate"
              /\ job[u].call \in Operated => ~NothingToDo(u)
            BY <1>1, <2>4 DEF Passes, Jobs
        <3>2. stored # None /\ stored.schema = job[u].of.schema
            BY <3>1 DEF NothingToDo, Operated, Giving
        <3> QED BY <1>1, <2>1, <2>3, <3>1, <3>2
    <2>5. CASE Begins(u)
        BY <2>1, <2>3, <2>5 DEF Begins
    <2>6. CASE Writes(u)
        BY <2>6 DEF Writes, TypeInv, JobOK, JobPlaced
    <2>7. CASE Retries(u)
        BY <1>1, <2>1, <2>3, <2>7 DEF Retries
    <2> QED BY <1>1, <2>1, <2>2, <2>3, <2>4, <2>5, <2>6, <2>7 DEF JobMoves, Idle
<1>4. ASSUME NEW t \in Threads, Swap(t)
      PROVE  /\ job'[u].of.schema < plan'
             /\ stored' # None /\ stored'.schema = job'[u].of.schema
                   => stored'.checkpoint = job'[u].of.checkpoint
             /\ job'[u].phase = "commit" => job'[u].read.schema = job'[u].of.schema
    <2>1. job'[u] = job[u] /\ plan' = plan
        BY <1>4, SwapMoves
    <2>2. \/ stored' = None \/ stored'.schema = plan
          \/ /\ stored # None
             /\ stored'.schema = stored.schema /\ stored'.checkpoint = stored.checkpoint
        BY <1>4, SwapStores DEF AllCalls, Operated
    <2>3. job[u].of.schema \in Nat /\ job[u].of.schema # plan
        BY <1>1, <2>1, BoundsAssumption DEF Envelopes
    <2> QED BY <1>1, <2>1, <2>2, <2>3
<1> QED BY <1>2, <1>3, <1>4, StepKinds

LEMMA MigratesWholeAlways == Spec => []MigratesWhole
<1>1. Init => MigratesWhole
    BY DEF Init, MigratesWhole, Idle
<1> QED BY <1>1, MigratesWholeKept, Typed, PTL DEF Spec

(* A migration replaces the very document it was made from: nothing        *)
(* accepted after the caller read it is dropped.                           *)
THEOREM MigrationsLoseNothing == Spec => MigrationLosesNothing
<1>1. TypeInv /\ MigratesWhole /\ [Next]_vars =>
          [\A t \in Threads :
              Swapped(t) /\ job[t].call = "migrate"
                  => stored.checkpoint = job[t].of.checkpoint]_vars
    <2> SUFFICES ASSUME TypeInv, MigratesWhole, [Next]_vars, NEW t \in Threads,
                        Swapped(t), job[t].call = "migrate"
                 PROVE  stored.checkpoint = job[t].of.checkpoint
        OBVIOUS
    <2>1. Swap(t)
        BY SwappedBySwap
    <2>2. /\ job[t].phase = "commit" /\ job[t].read = stored /\ stored # None
        BY <2>1, SwapMoves, SwapStores DEF Creating
    <2> QED BY <2>2 DEF MigratesWhole
<1> QED BY <1>1, MigratesWholeAlways, Typed, PTL DEF Spec, MigrationLosesNothing

-----------------------------------------------------------------------------
(* What was judged of an import still holds of the envelope it is swapped  *)
(* in over: what is judged is read from the operations named, and those    *)
(* never change.                                                           *)
ExplicitIn(made, history) == LastWriter([n \in history |-> made[n]])

ConflictIn(made, base, update, current) ==
    LET client == ExplicitIn(made, base \cup update)
    IN /\ client # ExplicitIn(made, base)
       /\ ExplicitIn(made, current) # ExplicitIn(made, base)
       /\ client # ExplicitIn(made, current)

JudgedOver(made, request, read) ==
    /\ ~ request.update \subseteq read.checkpoint
    /\ RetainedAs(read, request.id) = {}
    /\ request.fence \in {None, read.checkpoint}
    /\ ~ConflictIn(made, request.base, request.update, read.checkpoint)
    /\ \A n \in request.update \ read.checkpoint :
          made[n].peer \in DOMAIN read.peers => read.peers[made[n].peer] = request.actor

Judgements ==
    \A t \in Threads :
        job[t].phase = "commit" /\ job[t].call \in Requested /\ job[t].read # None =>
            /\ JudgedOver(operations, job[t].request, job[t].read)
            /\ job[t].read.schema = plan

(* Only the operations of the histories named are looked at.               *)
LEMMA JudgedOverKept ==
    ASSUME NEW made, NEW made2, NEW request, NEW read, JudgedOver(made, request, read),
           \A n \in request.base \cup request.update \cup read.checkpoint : made2[n] = made[n]
    PROVE  JudgedOver(made2, request, read)
<1>1. ASSUME NEW history \in {request.base, request.base \cup request.update, read.checkpoint}
      PROVE  ExplicitIn(made2, history) = ExplicitIn(made, history)
    <2>1. \A n \in history : made2[n] = made[n]
        OBVIOUS
    <2>2. [n \in history |-> made2[n]] = [n \in history |-> made[n]]
        BY <2>1
    <2> QED BY <2>2 DEF ExplicitIn
<1>2. ConflictIn(made2, request.base, request.update, read.checkpoint)
        <=> ConflictIn(made, request.base, request.update, read.checkpoint)
    BY <1>1 DEF ConflictIn
<1> QED BY <1>2 DEF JudgedOver

(* An import that passes is judged so over the envelope it read.           *)
LEMMA PassesJudged ==
    ASSUME NEW request, NEW current, current # None,
           Judged(request, current) = "valid", Committable(request, current) = "commit"
    PROVE  JudgedOver(operations, request, current) /\ current.schema = plan
<1>1. /\ current.schema = plan
      /\ RetainedAs(current, request.id) = {}
      /\ ~Moved(request, current)
      /\ ~PolicyConflict(request.base, request.update, current.checkpoint)
    BY JudgedValid
<1>2. /\ ~ request.update \subseteq current.checkpoint
      /\ \A p \in NewPeers(request, current) \cap DOMAIN current.peers :
            current.peers[p] = request.actor
    BY DEF Committable
<1>3. request.fence \in {None, current.checkpoint}
    BY <1>1 DEF Moved
<1>4. ~ConflictIn(operations, request.base, request.update, current.checkpoint)
    BY <1>1 DEF ConflictIn, ExplicitIn, PolicyConflict, ExplicitValue
<1>5. ASSUME NEW n \in request.update \ current.checkpoint,
             operations[n].peer \in DOMAIN current.peers
      PROVE  current.peers[operations[n].peer] = request.actor
    BY <1>2, <1>5 DEF NewPeers, PeersIn
<1> QED BY <1>1, <1>2, <1>3, <1>4, <1>5 DEF JudgedOver

LEMMA JudgementsKept == TypeInv /\ Judgements /\ [Next]_vars => Judgements'
<1> SUFFICES ASSUME TypeInv, Judgements, [Next]_vars, NEW u \in Threads,
                    job'[u].phase = "commit", job'[u].call \in Requested, job'[u].read # None
             PROVE  /\ JudgedOver(operations', job'[u].request, job'[u].read)
                    /\ job'[u].read.schema = plan'
    BY DEF Judgements
<1> DEFINE request == job[u].request
           read == job[u].read
<1>1. /\ job[u] \in Jobs(Peer)
      /\ job[u].phase = "commit" /\ job[u].call \in Requested /\ read # None =>
            JudgedOver(operations, request, read) /\ read.schema = plan
      /\ job[u].phase = "commit" /\ job[u].call \in Requested =>
            request.base \cup request.update \subseteq 1..Len(operations)
      /\ job[u].phase = "commit" /\ read # None => read.checkpoint \subseteq 1..Len(operations)
    BY DEF TypeInv, TypeOK, JobOK, JobKnown, Known, Judgements
<1>2. CASE UNCHANGED vars
    BY <1>1, <1>2 DEF vars
<1>3. CASE Quiet
    <2>1. JobMoves(u) /\ UNCHANGED stored /\ Extends /\ plan' = plan
        BY <1>3 DEF Quiet
    <2>2. CASE Passes(u)
        <3>1. /\ job'[u].read = stored /\ job'[u].request = request
              /\ job[u].call = job'[u].call
            BY <1>1, <2>2 DEF Passes, Jobs
        <3>2. JudgedOver(operations, request, stored) /\ stored.schema = plan
            BY <2>2, <3>1, PassesJudged DEF Passes
        <3>3. /\ request.base \cup request.update \subseteq 1..Len(operations)
              /\ stored.checkpoint \subseteq 1..Len(operations)
            BY <2>2, <3>1 DEF Passes, TypeInv, JobOK, JobKnown, StoredOK, Known
        <3>4. \A n \in request.base \cup request.update \cup stored.checkpoint :
                  operations'[n] = operations[n]
            BY <2>1, <3>3 DEF Extends
        <3>5. JudgedOver(operations', request, stored)
            BY <3>2, <3>4, JudgedOverKept
        <3> QED BY <2>1, <3>1, <3>2, <3>5
    <2>3. CASE job'[u] = job[u]
        <3>1. JudgedOver(operations, request, read) /\ read.schema = plan
            BY <1>1, <2>3
        <3>2. \A n \in request.base \cup request.update \cup read.checkpoint :
                  operations'[n] = operations[n]
            BY <1>1, <2>1, <2>3 DEF Extends
        <3>3. JudgedOver(operations', request, read)
            BY <3>1, <3>2, JudgedOverKept
        <3> QED BY <2>1, <2>3, <3>1, <3>3
    <2> QED BY <2>1, <2>2, <2>3 DEF JobMoves, Begins, Writes, Retries, Idle
<1>4. ASSUME NEW t \in Threads, Swap(t)
      PROVE  /\ JudgedOver(operations', job'[u].request, job'[u].read)
             /\ job'[u].read.schema = plan'
    <2>1. job'[u] = job[u] /\ plan' = plan /\ operations' = operations
        BY <1>4, SwapMoves DEF Swap
    <2> QED BY <1>1, <2>1
<1> QED BY <1>2, <1>3, <1>4, StepKinds

LEMMA JudgementsAlways == Spec => []Judgements
<1>1. Init => Judgements
    BY DEF Init, Judgements, Idle
<1> QED BY <1>1, JudgementsKept, Typed, PTL DEF Spec

(* No import is committed over a document it conflicts with: the explicit  *)
(* field, the fence and the author of every peer are judged against the    *)
(* envelope that is replaced.                                              *)
THEOREM NothingIsOverwritten == Spec => NothingOverwritten
<1>1. TypeInv /\ Judgements /\ [Next]_vars =>
          [\A t \in Threads :
              Swapped(t) /\ job[t].call \in Requested /\ stored # None =>
                  LET request == job[t].request
                  IN /\ ~PolicyConflict(request.base, request.update, stored.checkpoint)
                     /\ request.fence \in {None, stored.checkpoint}
                     /\ \A n \in request.update \ stored.checkpoint :
                           stored'.peers[operations[n].peer] = request.actor]_vars
    <2> SUFFICES ASSUME TypeInv, Judgements, [Next]_vars, NEW t \in Threads,
                        Swapped(t), job[t].call \in Requested, stored # None
                 PROVE  LET request == job[t].request
                        IN /\ ~PolicyConflict(request.base, request.update, stored.checkpoint)
                           /\ request.fence \in {None, stored.checkpoint}
                           /\ \A n \in request.update \ stored.checkpoint :
                                 stored'.peers[operations[n].peer] = request.actor
        OBVIOUS
    <2> DEFINE request == job[t].request
               commit == RequestedCommit(t)
    <2>1. Swap(t)
        BY SwappedBySwap
    <2>2. /\ job[t].phase = "commit" /\ job[t].read = stored /\ stored' = Candidate(t)
          /\ Unmoved(t) /\ stored \in Envelopes(Peer)
        BY <2>1, SwapMoves DEF Swap, TypeInv, TypeOK
    <2>3. JudgedOver(operations, request, stored)
        BY <2>2 DEF Judgements
    <2>4. ~PolicyConflict(request.base, request.update, stored.checkpoint)
        BY <2>3 DEF JudgedOver, ConflictIn, ExplicitIn, PolicyConflict, ExplicitValue
    <2>5. commit \in Commits /\ stored' = NextEnvelope(stored, commit)
        BY <2>2, CommitOK
    <2>6. commit.peers = NewPeers(request, stored) /\ commit.actor = request.actor
        BY <2>2 DEF RequestedCommit
    <2>7. stored'.peers = Bound(stored, commit)
        BY <2>2, <2>5, NextEnvelopeOK
    <2> HIDE DEF commit
    <2>8. /\ \A p \in DOMAIN stored.peers : stored'.peers[p] = stored.peers[p]
          /\ \A p \in commit.peers :
                p \notin DOMAIN stored.peers => stored'.peers[p] = commit.actor
        <3>1. /\ stored # None => \A p \in DOMAIN stored.peers :
                     Bound(stored, commit)[p] = stored.peers[p]
              /\ \A p \in commit.peers :
                     stored = None \/ p \notin DOMAIN stored.peers
                     => Bound(stored, commit)[p] = commit.actor
            BY <2>2, <2>5, BoundAfter
        <3> QED BY <2>7, <3>1
    <2>9. ASSUME NEW n \in request.update \ stored.checkpoint
          PROVE  stored'.peers[operations[n].peer] = request.actor
        <3>1. operations[n].peer \in commit.peers
            BY <2>6 DEF NewPeers, PeersIn
        <3>2. CASE operations[n].peer \in DOMAIN stored.peers
            BY <2>3, <2>8, <3>2 DEF JudgedOver
        <3>3. CASE operations[n].peer \notin DOMAIN stored.peers
            BY <2>6, <2>8, <3>1, <3>3
        <3> QED BY <3>2, <3>3
    <2> QED BY <2>3, <2>4, <2>9 DEF JudgedOver
<1> QED BY <1>1, JudgementsAlways, Typed, PTL DEF Spec, NothingOverwritten

-----------------------------------------------------------------------------
(* The store implements AcceptedHistory.  An incarnation is minted for     *)
(* every history begun here, and none is above those minted, so that no    *)
(* other commit passes for a new history.                                  *)
Minted == stored # None => stored.incarnation <= minted

LEMMA SwapMints ==
    ASSUME TypeInv, Minted, NEW t \in Threads, Swap(t)
    PROVE  /\ job[t].call \in {"seed", "bootstrap", "migrate"} =>
                 minted' = minted + 1 /\ stored'.incarnation = minted'
           /\ job[t].call = "restore" => minted' = minted /\ stored'.incarnation = Given
           /\ job[t].call \in {"import", "edit", "edit_text", "repair"} =>
                 minted' = minted /\ stored'.incarnation = stored.incarnation
           /\ job[t].call \in {"delete", "reset"} => minted' = minted
<1>1. /\ job[t].read = stored /\ stored' = Candidate(t) /\ minted \in Nat
      /\ minted' = IF Incarnation(t) = minted + 1 /\ stored' # None THEN minted + 1 ELSE minted
      /\ stored # None => stored.incarnation \in Nat /\ stored.incarnation <= minted
    BY SwapMoves DEF Swap, TypeInv, TypeOK, Envelopes, Minted
<1>2. CASE job[t].call \in {"seed", "bootstrap", "migrate"}
    <2>1. Incarnation(t) = minted + 1
        BY <1>2 DEF Incarnation
    <2>2. stored' # None /\ stored'.incarnation = Incarnation(t)
        BY <1>2, SwapStores DEF Requested, Giving
    <2> QED BY <1>1, <1>2, <2>1, <2>2
<1>3. CASE job[t].call = "restore"
    <2>1. Incarnation(t) = Given
        BY <1>3 DEF Incarnation
    <2>2. stored'.incarnation = Incarnation(t)
        BY <1>3, SwapStores DEF Giving
    <2> QED BY <1>1, <1>3, <2>1, <2>2 DEF Given
<1>4. CASE job[t].call \in {"import", "edit", "edit_text", "repair"}
    <2>1. Incarnation(t) = stored.incarnation
        BY <1>1, <1>4 DEF Incarnation
    <2>2. stored # None
        BY <1>4, SwapStores DEF Creating
    <2>3. stored'.incarnation = stored.incarnation
        BY <1>4, <2>1, SwapStores DEF Requested
    <2> QED BY <1>1, <1>4, <2>1, <2>2, <2>3
<1>5. CASE job[t].call \in {"delete", "reset"}
    BY <1>1, <1>5, SwapStores
<1> QED BY <1>2, <1>3, <1>4, <1>5

LEMMA MintedKept == TypeInv /\ Minted /\ [Next]_vars => Minted'
<1> SUFFICES ASSUME TypeInv, Minted, [Next]_vars, stored' # None
             PROVE  stored'.incarnation <= minted'
    BY DEF Minted
<1>1. /\ minted \in Nat
      /\ stored # None => stored.incarnation \in Nat /\ stored.incarnation <= minted
    BY DEF TypeInv, TypeOK, Envelopes, Minted
<1>2. CASE UNCHANGED vars \/ Quiet
    BY <1>1, <1>2 DEF vars, Quiet
<1>3. ASSUME NEW t \in Threads, Swap(t) PROVE stored'.incarnation <= minted'
    <2>1. /\ job[t].call \in AllCalls
          /\ job[t].call \in {"delete", "reset"} => stored' = None
          /\ job[t].call \in Creating <=> stored = None
        BY <1>3, SwapStores
    <2> QED BY <1>1, <1>3, <2>1, SwapMints
            DEF AllCalls, Requested, Operated, Giving, Creating, Given
<1> QED BY <1>2, <1>3, StepKinds

(* The state the store begins in is one the history may begin in.          *)
LEMMA AcceptedBegins == Init => Accepted!Init
<1> SUFFICES ASSUME Init PROVE Accepted!Init
    OBVIOUS
<1>1. Restored \in Envelopes(Peer) /\ Restored.checkpoint = {1} /\ Restored.incarnation = Given
    BY RestoredOK DEF Init
<1> QED BY <1>1 DEF Init, Accepted!Init, Accepted!Document

(* Every step of the store is a step of the history, or leaves it alone.   *)
LEMMA AcceptedStep ==
    TypeInv /\ Judgements /\ Minted /\ [Next]_vars => [Accepted!Next]_(Accepted!vars)
<1> SUFFICES ASSUME TypeInv, Judgements, Minted, [Next]_vars
             PROVE  [Accepted!Next]_(Accepted!vars)
    OBVIOUS
<1>1. CASE UNCHANGED vars \/ Quiet
    BY <1>1 DEF vars, Quiet, Accepted!vars
<1>2. ASSUME NEW t \in Threads, Swap(t) PROVE [Accepted!Next]_(Accepted!vars)
    <2>1. /\ job[t].call \in AllCalls /\ stored \in Envelopes(Peer) \cup {None}
          /\ job[t].call \in Creating <=> stored = None
          /\ job[t].read = stored /\ job[t].phase = "commit"
        BY <1>2, SwapStores, SwapMoves DEF TypeInv, TypeOK
    <2>2. /\ stored # None =>
                [incarnation |-> stored.incarnation, operations |-> stored.checkpoint] # None
          /\ stored' # None =>
                [incarnation |-> stored'.incarnation, operations |-> stored'.checkpoint] # None
        <3>1. \A envelope \in Envelopes(Peer) :
                  None # [incarnation |-> envelope.incarnation,
                          operations |-> envelope.checkpoint]
            BY NoneAssumption DEF Envelopes
        <3>2. stored' \in Envelopes(Peer) \cup {None}
            BY <1>2, <2>1, SwapStores DEF AllCalls, Operated
        <3> QED BY <2>1, <3>1, <3>2
    <2>3. ASSUME job[t].call \in Creating PROVE Accepted!Next
        <3>1. /\ stored = None /\ stored' # None /\ stored' \in Envelopes(Peer)
            BY <1>2, <2>1, <2>3, SwapStores DEF Creating, Requested, Giving
        <3>2. stored'.checkpoint # {}
            BY <3>1 DEF Envelopes
        <3>3. \/ minted' = minted + 1 /\ stored'.incarnation = minted'
              \/ minted' = minted /\ stored'.incarnation = Given
            BY <1>2, <2>3, SwapMints DEF Creating
        <3> QED BY <2>2, <3>1, <3>2, <3>3
                DEF Accepted!Next, Accepted!Create, Accepted!Mint, Accepted!Document
    <2>4. ASSUME job[t].call \in {"import", "edit", "edit_text"} PROVE Accepted!Next
        <3>1. /\ stored # None /\ stored \in Envelopes(Peer) /\ stored' # None
              /\ stored'.checkpoint = job[t].request.update \cup stored.checkpoint
            BY <1>2, <2>1, <2>4, SwapStores DEF Creating, Requested
        <3>2. minted' = minted /\ stored'.incarnation = stored.incarnation
            BY <1>2, <2>4, SwapMints
        <3>3. ~ job[t].request.update \subseteq stored.checkpoint
            BY <2>1, <2>4, <3>1 DEF Judgements, JudgedOver, Requested
        <3>4. ~ stored'.checkpoint \subseteq stored.checkpoint
            BY <3>1, <3>3
        <3>5. stored'.checkpoint = stored.checkpoint \cup stored'.checkpoint
            BY <3>1
        <3> QED BY <2>2, <3>1, <3>2, <3>4, <3>5 DEF Accepted!Next, Accepted!Accept
    <2>5. ASSUME job[t].call = "migrate" PROVE Accepted!Next
        <3>1. /\ stored # None /\ stored' # None /\ stored' \in Envelopes(Peer)
            BY <1>2, <2>1, <2>5, SwapStores DEF Creating, Giving
        <3>2. stored'.checkpoint # {}
            BY <3>1 DEF Envelopes
        <3>3. minted' = minted + 1 /\ stored'.incarnation = minted'
            BY <1>2, <2>5, SwapMints
        <3> QED BY <2>2, <3>1, <3>2, <3>3
                DEF Accepted!Next, Accepted!Rewrite, Accepted!Mint, Accepted!Document
    <2>6. ASSUME job[t].call = "repair" PROVE UNCHANGED Accepted!vars
        <3>1. /\ stored # None /\ stored' # None
              /\ stored'.checkpoint = stored.checkpoint
              /\ stored'.incarnation = stored.incarnation
            BY <1>2, <2>6, SwapStores
        <3>2. minted' = minted
            BY <1>2, <2>6, SwapMints
        <3> QED BY <3>1, <3>2 DEF Accepted!vars
    <2>7. ASSUME job[t].call \in {"delete", "reset"} PROVE Accepted!Next
        <3>1. stored # None /\ stored' = None /\ minted' = minted
            BY <1>2, <2>7, SwapStores, SwapMints
        <3> QED BY <2>2, <3>1 DEF Accepted!Next, Accepted!Remove
    <2> QED BY <2>1, <2>3, <2>4, <2>5, <2>6, <2>7
            DEF AllCalls, Requested, Operated, Giving, Creating
<1> QED BY <1>1, <1>2, StepKinds

(* The store implements AcceptedHistory: what it accepted of a document    *)
(* only grows, until a history with an incarnation of its own replaces it. *)
THEOREM StoreImplementsHistory == Spec => HistoryAccepted
<1>1. Init => Minted
    <2> SUFFICES ASSUME Init PROVE Minted
        OBVIOUS
    <2>1. Restored.incarnation = 0
        BY RestoredOK DEF Init, Given
    <2> QED BY <2>1 DEF Init, Minted
<1> QED BY <1>1, AcceptedBegins, AcceptedStep, MintedKept, JudgementsAlways, Typed, PTL
        DEF Spec, HistoryAccepted, Accepted!Spec

-----------------------------------------------------------------------------
(* What an envelope retains.  Each operation id once, and only what its    *)
(* checkpoint holds.                                                       *)
Once(envelope) ==
    LET retained == envelope.retained
    IN /\ \A i, j \in DOMAIN retained : retained[i].id = retained[j].id => i = j
       /\ \A i \in DOMAIN retained : retained[i].update \subseteq envelope.checkpoint

(* What is retained of a commit is in the order it was committed: the      *)
(* operations retained before it, fewer when the window is full, and its   *)
(* own entry last.                                                         *)
LEMMA RetainedInOrder ==
    ASSUME NEW current \in Envelopes(Peer) \cup {None}, NEW commit \in Commits
    PROVE  LET before == RetainedBefore(current, commit)
               entry == EntryOf(SequenceAfter(current), commit)
               retained == NextEnvelope(current, commit).retained
           IN /\ before \in Seq(Entries) /\ entry \in Entries /\ retained \in Seq(Entries)
              /\ DOMAIN before = 1..Len(before) /\ DOMAIN retained = 1..Len(retained)
              /\ Len(before) \in Nat
              /\ Len(retained) = IF Len(before) + 1 > RetainedOperations
                                 THEN RetainedOperations ELSE Len(before) + 1
              /\ \E skipped \in Nat :
                    /\ skipped + Len(retained) = Len(before) + 1
                    /\ \A i \in 1..Len(retained) :
                          retained[i] = IF skipped + i = Len(before) + 1 THEN entry
                                        ELSE before[skipped + i]
<1> DEFINE before == RetainedBefore(current, commit)
           entry == EntryOf(SequenceAfter(current), commit)
           all == Append(before, entry)
           retained == Last(all, RetainedOperations)
           skipped == Len(all) - Len(retained)
<1>1. /\ before \in Seq(Entries) /\ entry \in Entries /\ all \in Seq(Entries)
      /\ Len(all) = Len(before) + 1
      /\ \A i \in 1..Len(before) : all[i] = before[i]
      /\ all[Len(all)] = entry
    BY RetainedAfter
<1>2. NextEnvelope(current, commit).retained = retained
    BY NextEnvelopeOK
<1> HIDE DEF before, entry, all
<1>3. /\ retained \in Seq(Entries)
      /\ Len(retained) = IF Len(all) > RetainedOperations THEN RetainedOperations ELSE Len(all)
      /\ \A i \in 1..Len(retained) : retained[i] = all[Len(all) - Len(retained) + i]
    BY <1>1, PolicyAssumption, LastOfSequence
<1> HIDE DEF retained
<1>4. /\ Len(before) \in Nat /\ DOMAIN before = 1..Len(before)
      /\ Len(retained) \in Nat /\ DOMAIN retained = 1..Len(retained)
    BY <1>1, <1>3, LenProperties
<1>5. skipped \in Nat /\ skipped + Len(retained) = Len(before) + 1
    BY <1>1, <1>3, <1>4, PolicyAssumption
<1>6. ASSUME NEW i \in 1..Len(retained)
      PROVE  retained[i] = IF skipped + i = Len(before) + 1 THEN entry ELSE before[skipped + i]
    <2>1. retained[i] = all[skipped + i] /\ skipped + i \in 1..Len(all)
        BY <1>1, <1>3, <1>4, <1>5
    <2> QED BY <1>1, <1>4, <2>1
<1> HIDE DEF skipped
<1>7. \E k \in Nat :
          /\ k + Len(retained) = Len(before) + 1
          /\ \A i \in 1..Len(retained) :
                retained[i] = IF k + i = Len(before) + 1 THEN entry ELSE before[k + i]
    BY <1>5, <1>6
<1> QED BY <1>1, <1>2, <1>3, <1>4, <1>7 DEF before, entry

(* A commit under an id of its own, over nothing or a part of what it      *)
(* accepts, keeps to that.                                                 *)
LEMMA NextOnce ==
    ASSUME NEW current \in Envelopes(Peer) \cup {None}, NEW commit \in Commits,
           commit.update \subseteq commit.accepted,
           current # None => Once(current),
           current # None /\ current.schema = commit.schema =>
               /\ RetainedAs(current, commit.id) = {}
               /\ current.checkpoint \subseteq commit.accepted
    PROVE  Once(NextEnvelope(current, commit))
<1> DEFINE before == RetainedBefore(current, commit)
           entry == EntryOf(SequenceAfter(current), commit)
           next == NextEnvelope(current, commit)
           retained == next.retained
           all(k) == IF k = Len(before) + 1 THEN entry ELSE before[k]
<1>1. /\ DOMAIN before = 1..Len(before) /\ Len(before) \in Nat
      /\ DOMAIN retained = 1..Len(retained) /\ retained \in Seq(Entries)
    BY RetainedInOrder
<1>2. PICK skipped \in Nat :
          /\ skipped + Len(retained) = Len(before) + 1
          /\ \A i \in 1..Len(retained) : retained[i] = all(skipped + i)
    BY RetainedInOrder
<1>3. next.checkpoint = commit.accepted
    BY NextEnvelopeOK
<1>4. entry.id = commit.id /\ entry.update = commit.update
    BY DEF EntryOf
<1>5. /\ \A i, j \in DOMAIN before : before[i].id = before[j].id => i = j
      /\ \A i \in DOMAIN before : before[i].id # commit.id
      /\ \A i \in DOMAIN before : before[i].update \subseteq commit.accepted
    <2>1. CASE current = None \/ current.schema # commit.schema
        <3>1. before = <<>> /\ DOMAIN before = {}
            BY <2>1 DEF RetainedBefore
        <3> QED BY <3>1
    <2>2. CASE current # None /\ current.schema = commit.schema
        <3>1. before = current.retained
            BY <2>2 DEF RetainedBefore
        <3> QED BY <2>2, <3>1 DEF Once, RetainedAs, Retained
    <2> QED BY <2>1, <2>2
<1> HIDE DEF before, entry, next
<1>6. \A k, m \in 1..Len(before) + 1 : all(k).id = all(m).id => k = m
    BY <1>1, <1>4, <1>5
<1>7. \A k \in 1..Len(before) + 1 : all(k).update \subseteq commit.accepted
    BY <1>1, <1>4, <1>5
<1>8. Len(retained) \in Nat
    BY <1>1, LenProperties
<1>9. \A i \in 1..Len(retained) : skipped + i \in 1..Len(before) + 1
    BY <1>1, <1>2, <1>8
<1> HIDE DEF all
<1>10. ASSUME NEW i \in DOMAIN retained, NEW j \in DOMAIN retained,
              retained[i].id = retained[j].id
       PROVE  i = j
    <2>1. i \in 1..Len(retained) /\ j \in 1..Len(retained)
        BY <1>1
    <2>2. all(skipped + i).id = all(skipped + j).id
        BY <1>2, <1>10, <2>1
    <2>3. skipped + i \in 1..Len(before) + 1 /\ skipped + j \in 1..Len(before) + 1
        BY <1>9, <2>1
    <2>4. skipped + i = skipped + j
        BY <1>6, <2>2, <2>3
    <2> QED BY <1>8, <2>1, <2>4
<1>11. \A i \in DOMAIN retained : retained[i].update \subseteq next.checkpoint
    BY <1>1, <1>2, <1>3, <1>7, <1>9
<1> QED BY <1>10, <1>11 DEF Once, next

LEMMA OnceKept ==
    TypeInv /\ Judgements /\ MigratesWhole /\ RetainedOnce /\ [Next]_vars => RetainedOnce'
<1> SUFFICES ASSUME TypeInv, Judgements, MigratesWhole, RetainedOnce, [Next]_vars,
                    stored' # None
             PROVE  Once(stored')
    BY DEF RetainedOnce, Once
<1>1. stored # None => Once(stored)
    BY DEF RetainedOnce, Once
<1>2. CASE UNCHANGED vars \/ Quiet
    BY <1>1, <1>2 DEF vars, Quiet
<1>3. ASSUME NEW t \in Threads, Swap(t) PROVE Once(stored')
    <2>1. /\ job[t].phase = "commit" /\ job[t].read = stored /\ Unmoved(t)
          /\ stored' = Candidate(t) /\ stored \in Envelopes(Peer) \cup {None}
          /\ job[t].call \in AllCalls
          /\ job[t].call \in Creating <=> stored = None
        BY <1>3, SwapMoves, SwapStores DEF Unmoved, TypeInv, TypeOK
    <2>2. CASE job[t].call \in Requested
        <3> DEFINE commit == RequestedCommit(t)
        <3>1. commit \in Commits /\ stored' = NextEnvelope(stored, commit)
            BY <2>1, <2>2, CommitOK
        <3>2. /\ commit.id = job[t].request.id /\ commit.update \subseteq commit.accepted
              /\ stored # None => stored.checkpoint \subseteq commit.accepted
            BY <2>1 DEF RequestedCommit
        <3> HIDE DEF commit
        <3>3. stored # None => RetainedAs(stored, commit.id) = {}
            BY <2>1, <2>2, <3>2 DEF Judgements, JudgedOver
        <3> QED BY <1>1, <2>1, <3>1, <3>2, <3>3, NextOnce
    <2>3. CASE job[t].call \in Giving
        <3> DEFINE commit == GivenCommit(t)
        <3>1. commit \in Commits /\ stored' = NextEnvelope(stored, commit)
            BY <2>1, <2>3, CommitOK
        <3>2. commit.schema = plan /\ commit.update \subseteq commit.accepted
            BY DEF GivenCommit
        <3> HIDE DEF commit
        <3>3. stored # None => stored.schema # plan
            <4>1. ASSUME stored # None PROVE job[t].call = "migrate"
                BY <2>1, <2>3, <4>1 DEF Giving, Creating
            <4>2. ASSUME stored # None
                  PROVE  job[t].of.schema < plan /\ stored.schema = job[t].of.schema
                BY <2>1, <4>1, <4>2 DEF MigratesWhole
            <4>3. stored # None => stored.schema \in Nat /\ plan \in Nat
                BY <2>1, BoundsAssumption DEF Envelopes, TypeInv, TypeOK
            <4> QED BY <4>2, <4>3
        <3> QED BY <1>1, <2>1, <3>1, <3>2, <3>3, NextOnce
    <2>4. CASE job[t].call = "repair"
        <3>1. stored' = Repaired(stored) /\ stored \in Envelopes(Peer)
            BY <1>3, <2>4, SwapStores
        <3>2. stored'.retained = <<>>
            BY <3>1, RepairedOK
        <3> QED BY <3>2 DEF Once
    <2>5. CASE job[t].call \in {"delete", "reset"}
        BY <1>3, <2>5, SwapStores
    <2> QED BY <2>1, <2>2, <2>3, <2>4, <2>5 DEF AllCalls, Operated
<1> QED BY <1>2, <1>3, StepKinds

LEMMA OnceAlways == Spec => []RetainedOnce
<1>1. Init => RetainedOnce
    <2> SUFFICES ASSUME Init PROVE RetainedOnce
        OBVIOUS
    <2>1. RestoreCommit \in Commits /\ Restored = NextEnvelope(None, RestoreCommit)
        BY RestoredOK DEF Init
    <2>2. RestoreCommit.update = RestoreCommit.accepted
        BY DEF RestoreCommit
    <2>3. Once(Restored)
        BY <2>1, <2>2, NextOnce
    <2> QED BY <2>3 DEF Init, RetainedOnce, Once
<1> QED BY <1>1, OnceKept, JudgementsAlways, MigratesWholeAlways, Typed, PTL DEF Spec

-----------------------------------------------------------------------------
(* What is acknowledged.  An answer, and the answer a call is about to     *)
(* give once its change is announced, stands for operations the document   *)
(* holds as long as its history goes on.                                   *)
Held(change, update) ==
    /\ change \in 1..Len(changes)
    /\ SameHistory(change, Len(changes)) => stored # None /\ update \subseteq stored.checkpoint

Acknowledged ==
    /\ \A id \in Ids : answers[id] \notin {None, Refused} =>
          Held(answers[id].change, answers[id].update)
    /\ \A t \in Threads : job[t].phase = "announce" /\ job[t].call \in Requested =>
          Held(job[t].change, job[t].request.update)

(* What is held stays held by a swap: it takes nothing from the history,   *)
(* or ends it.                                                             *)
LEMMA SwapHolds ==
    ASSUME TypeInv, NEW t \in Threads, Swap(t), NEW change, NEW update, Held(change, update)
    PROVE  /\ change \in 1..Len(changes')
           /\ (\A k \in change + 1..Len(changes') :
                   changes'[k].call \notin {"migrate", "delete", "reset"})
              => stored' # None /\ update \subseteq stored'.checkpoint
<1>1. /\ Len(changes) \in Nat /\ Len(changes') = Len(changes) + 1
      /\ changes'[Len(changes) + 1].call = job[t].call
      /\ \A k \in 1..Len(changes) : changes'[k] = changes[k]
    BY SwapRecords, SwapMoves, ChangeOK DEF Swap
<1>2. SUFFICES ASSUME \A k \in change + 1..Len(changes') :
                          changes'[k].call \notin {"migrate", "delete", "reset"}
               PROVE  stored' # None /\ update \subseteq stored'.checkpoint
    BY <1>1 DEF Held
<1>3. change \in 1..Len(changes)
    BY DEF Held
<1>4. SameHistory(change, Len(changes))
    BY <1>1, <1>2, <1>3 DEF SameHistory
<1>5. stored # None /\ update \subseteq stored.checkpoint
    BY <1>4 DEF Held
<1>6. job[t].call \notin {"migrate", "delete", "reset"}
    BY <1>1, <1>2, <1>3
<1>7. /\ job[t].call \in AllCalls
      /\ job[t].call \in Creating <=> stored = None
      /\ job[t].call \in Requested => /\ stored' # None
                                      /\ stored.checkpoint \subseteq stored'.checkpoint
      /\ job[t].call = "repair" => stored' # None /\ stored'.checkpoint = stored.checkpoint
    BY <1>5, SwapStores
<1> QED BY <1>5, <1>6, <1>7 DEF AllCalls, Operated, Giving, Creating

LEMMA AcknowledgedKept ==
    TypeInv /\ RetainedOnce /\ Acknowledged /\ [Next]_vars => Acknowledged'
<1> SUFFICES ASSUME TypeInv, RetainedOnce, Acknowledged, [Next]_vars
             PROVE  Acknowledged'
    OBVIOUS
<1>1. /\ answers \in [Ids -> {None, Refused} \cup Answers]
      /\ \A id \in Ids : answers[id] \notin {None, Refused} =>
            Held(answers[id].change, answers[id].update)
      /\ \A t \in Threads : job[t].phase = "announce" /\ job[t].call \in Requested =>
            Held(job[t].change, job[t].request.update)
      /\ \A t \in Threads : job[t] \in Jobs(Peer)
    BY DEF TypeInv, TypeOK, Acknowledged
<1>2. CASE UNCHANGED vars
    BY <1>2 DEF vars, Acknowledged, Held, SameHistory
<1>3. CASE Quiet
    <2>1. UNCHANGED <<stored, changes>> /\ Answered
        BY <1>3 DEF Quiet
    <2>2. \A change, update : Held(change, update) =>
              /\ change \in 1..Len(changes')
              /\ (\A k \in change + 1..Len(changes') :
                      changes'[k].call \notin {"migrate", "delete", "reset"})
                 => stored' # None /\ update \subseteq stored'.checkpoint
        BY <2>1 DEF Held, SameHistory
    <2>3. ASSUME NEW id \in Ids, answers'[id] \notin {None, Refused}
          PROVE  \E change, update : /\ answers'[id].change = change
                                     /\ answers'[id].update = update
                                     /\ Held(change, update)
        <3>1. ASSUME NEW t \in Threads, NEW change, NEW update,
                     job[t].phase # "idle", job[t].call \in Requested,
                     Answer(t, change, update), Held(change, update)
              PROVE  \E c, u : /\ answers'[id].change = c
                               /\ answers'[id].update = u
                               /\ Held(c, u)
            <4>1. job[t].request.id \in Ids
                BY <3>1 DEF TypeInv, JobOK, JobPlaced, Requests
            <4>2. CASE id = job[t].request.id
                <5>1. answers'[id] = [change |-> change, update |-> update]
                    BY <1>1, <3>1, <4>1, <4>2 DEF Answer
                <5> QED BY <3>1, <5>1
            <4>3. CASE id # job[t].request.id
                BY <1>1, <2>3, <3>1, <4>3 DEF Answer
            <4> QED BY <4>2, <4>3
        <3>2. ASSUME NEW t \in Threads, job[t].phase = "judge", job[t].call \in Requested,
                     Duplicate(t), stored # None,
                     \/ RetainedAs(stored, job[t].request.id) # {}
                     \/ job[t].request.update \subseteq stored.checkpoint
              PROVE  \E c, u : /\ answers'[id].change = c
                               /\ answers'[id].update = u
                               /\ Held(c, u)
            <4>1. DuplicateOf(t) \subseteq stored.checkpoint
                <5>1. \A o \in RetainedAs(stored, job[t].request.id) :
                          o.update \subseteq stored.checkpoint
                    BY <3>2 DEF RetainedOnce, RetainedAs, Retained
                <5> QED BY <3>2, <5>1 DEF DuplicateOf
            <4>2. Answer(t, Len(changes), DuplicateOf(t))
                BY <3>2, DuplicateOK
            <4>3. Len(changes) \in 1..Len(changes)
                BY <3>2, LenProperties DEF TypeInv, TypeOK, StoredOK
            <4>4. Held(Len(changes), DuplicateOf(t))
                BY <3>2, <4>1, <4>3 DEF Held
            <4> QED BY <3>1, <3>2, <4>2, <4>4
        <3>3. ASSUME NEW t \in Threads, Announce(t)
              PROVE  \E c, u : /\ answers'[id].change = c
                               /\ answers'[id].update = u
                               /\ Held(c, u)
            BY <1>1, <2>3, <3>1, <3>3 DEF Announce
        <3>4. CASE UNCHANGED answers
            BY <1>1, <2>3, <3>4
        <3>5. CASE \E i \in Ids : answers' = [answers EXCEPT ![i] = Refused]
            BY <1>1, <2>3, <3>5
        <3> QED BY <2>1, <3>2, <3>3, <3>4, <3>5 DEF Answered
    <2>4. ASSUME NEW u \in Threads, job'[u].phase = "announce"
          PROVE  job'[u] = job[u]
        <3>1. JobMoves(u)
            BY <1>3 DEF Quiet
        <3>2. Passes(u) => job'[u].phase = "commit"
            BY <1>1 DEF Passes, Jobs
        <3> QED BY <2>4, <3>1, <3>2 DEF JobMoves, Begins, Writes, Retries, Idle
    <2>5. \A change, update : Held(change, update) => Held(change, update)'
        BY <2>2 DEF Held, SameHistory
    <2>6. ASSUME NEW id \in Ids, answers'[id] \notin {None, Refused}
          PROVE  Held(answers[id].change, answers[id].update)'
        BY <2>3, <2>5, <2>6
    <2>7. ASSUME NEW u \in Threads, job'[u].phase = "announce", job'[u].call \in Requested
          PROVE  Held(job[u].change, job[u].request.update)'
        <3>1. Held(job[u].change, job[u].request.update) /\ job'[u] = job[u]
            BY <1>1, <2>4, <2>7
        <3> QED BY <2>5, <3>1
    <2> QED BY <2>6, <2>7 DEF Acknowledged
<1>4. ASSUME NEW t \in Threads, Swap(t) PROVE Acknowledged'
    <2>1. \A change, update : Held(change, update) => Held(change, update)'
        BY <1>4, SwapHolds DEF Held, SameHistory
    <2>2. /\ UNCHANGED answers
          /\ job'[t].call = job[t].call /\ job'[t].request = job[t].request
          /\ job'[t].change = Len(changes')
          /\ \A u \in Threads \ {t} : job'[u] = job[u]
        BY <1>4, SwapMoves
    <2>3. job[t].call \in Requested =>
              stored' # None /\ job[t].request.update \subseteq stored'.checkpoint
        BY <1>4, SwapStores
    <2>4. Len(changes') \in 1..Len(changes')
        BY <1>4, SwapRecords
    <2>5. job[t].call \in Requested => Held(job[t].change, job[t].request.update)'
        BY <2>2, <2>3, <2>4 DEF Held
    <2> QED BY <1>1, <2>1, <2>2, <2>5 DEF Acknowledged, Held, SameHistory
<1> QED BY <1>2, <1>3, <1>4, StepKinds

(* What an import was acknowledged for, as accepted or as a duplicate, is  *)
(* in the stored document for as long as its history is.                   *)
THEOREM AcknowledgedStays == Spec => []AcknowledgedIsStored
<1>1. Init => Acknowledged
    BY DEF Init, Acknowledged, Idle
<1>2. Acknowledged => AcknowledgedIsStored
    BY DEF Acknowledged, AcknowledgedIsStored, Held
<1> QED BY <1>1, <1>2, AcknowledgedKept, OnceAlways, Typed, PTL DEF Spec

-----------------------------------------------------------------------------
(* Envelopes(Peer).  Every envelope stored or read is valid, and so is what      *)
(* next_envelope builds over one, as long as the window of retained        *)
(* operations is not empty.                                                *)
ValidIn(made, envelope) ==
    LET retained == envelope.retained
        before(i) == IF i = 1 THEN envelope.compacted ELSE retained[i - 1].sequence
    IN /\ {made[n].peer : n \in envelope.checkpoint} \subseteq DOMAIN envelope.peers
       /\ \A i \in DOMAIN retained : /\ retained[i].sequence > before(i)
                                     /\ retained[i].schema = envelope.schema
       /\ before(Len(retained) + 1) = envelope.sequence

LEMMA ValidInOK == \A envelope : ValidIn(operations, envelope) <=> ValidEnvelope(envelope)
BY DEF ValidIn, ValidEnvelope, PeersIn

(* Only the operations of its checkpoint are looked at.                    *)
LEMMA ValidInKept ==
    ASSUME NEW made, NEW made2, NEW envelope, ValidIn(made, envelope),
           \A n \in envelope.checkpoint : made2[n] = made[n]
    PROVE  ValidIn(made2, envelope)
BY DEF ValidIn

LEMMA NextValid ==
    ASSUME RetainedOperations # 0,
           NEW current \in Envelopes(Peer) \cup {None}, NEW commit \in Commits, NEW made,
           current # None => ValidIn(made, current),
           {made[n].peer : n \in commit.accepted}
               \subseteq commit.peers \cup (IF current = None THEN {} ELSE DOMAIN current.peers)
    PROVE  ValidIn(made, NextEnvelope(current, commit))
<1> DEFINE before == RetainedBefore(current, commit)
           entry == EntryOf(SequenceAfter(current), commit)
           next == NextEnvelope(current, commit)
           retained == next.retained
           all(k) == IF k = Len(before) + 1 THEN entry ELSE before[k]
<1>1. /\ before \in Seq(Entries) /\ entry \in Entries /\ retained \in Seq(Entries)
      /\ DOMAIN before = 1..Len(before) /\ Len(before) \in Nat
      /\ DOMAIN retained = 1..Len(retained)
      /\ Len(retained) = IF Len(before) + 1 > RetainedOperations
                         THEN RetainedOperations ELSE Len(before) + 1
    BY RetainedInOrder
<1>2. PICK skipped \in Nat :
          /\ skipped + Len(retained) = Len(before) + 1
          /\ \A i \in 1..Len(retained) : retained[i] = all(skipped + i)
    BY RetainedInOrder
<1>3. /\ next.checkpoint = commit.accepted /\ next.schema = commit.schema
      /\ next.sequence = SequenceAfter(current)
      /\ next.compacted = (IF retained = <<>> THEN next.sequence ELSE retained[1].sequence) - 1
      /\ next.peers = Bound(current, commit)
    BY NextEnvelopeOK
<1>4. DOMAIN next.peers =
          commit.peers \cup (IF current = None THEN {} ELSE DOMAIN current.peers)
    BY <1>3, BoundAfter
<1>5. /\ entry.schema = commit.schema /\ entry.sequence = SequenceAfter(current)
      /\ SequenceAfter(current) \in Nat
    BY DEF EntryOf, SequenceAfter, Envelopes
<1>6. /\ \A k \in 1..Len(before) :
            before[k].schema = commit.schema /\ before[k].sequence \in Nat
      /\ \A k \in 2..Len(before) : before[k].sequence > before[k - 1].sequence
      /\ Len(before) > 0 => before[Len(before)].sequence < SequenceAfter(current)
    <2>1. CASE current = None \/ current.schema # commit.schema
        <3>1. before = <<>> /\ Len(before) = 0
            BY <2>1 DEF RetainedBefore
        <3> QED BY <3>1
    <2>2. CASE current # None /\ current.schema = commit.schema
        <3>1. before = current.retained /\ current.sequence \in Nat
            BY <2>2 DEF RetainedBefore, Envelopes
        <3>2. /\ \A k \in 1..Len(before) : before[k] \in Entries
              /\ \A k \in 1..Len(before) :
                    /\ before[k].sequence > IF k = 1 THEN current.compacted
                                            ELSE before[k - 1].sequence
                    /\ before[k].schema = commit.schema
              /\ (IF Len(before) + 1 = 1 THEN current.compacted
                  ELSE before[Len(before) + 1 - 1].sequence) = current.sequence
            BY <1>1, <2>2, <3>1, ElementOfSeq DEF ValidIn
        <3>3. SequenceAfter(current) = current.sequence + 1
            BY <2>2 DEF SequenceAfter
        <3> HIDE DEF before
        <3>4. Len(before) + 1 - 1 = Len(before)
            BY <1>1
        <3>5. \A k \in 1..Len(before) : before[k].sequence \in Nat
            BY <3>2 DEF Entries
        <3>6. \A k \in 2..Len(before) : before[k].sequence > before[k - 1].sequence
            BY <1>1, <3>2
        <3>7. Len(before) > 0 => before[Len(before)].sequence = current.sequence
            BY <1>1, <3>2, <3>4
        <3> QED BY <1>1, <3>1, <3>2, <3>3, <3>5, <3>6, <3>7
    <2> QED BY <2>1, <2>2
<1> HIDE DEF before, entry, next
<1>7. /\ \A k \in 1..Len(before) + 1 : all(k).schema = commit.schema /\ all(k).sequence \in Nat
      /\ \A k \in 2..Len(before) + 1 : all(k).sequence > all(k - 1).sequence
      /\ all(Len(before) + 1).sequence = SequenceAfter(current)
    <2>1. \A k \in 1..Len(before) : all(k) = before[k]
        BY <1>1
    <2>2. all(Len(before) + 1) = entry
        OBVIOUS
    <2> HIDE DEF all
    <2>3. ASSUME NEW k \in 1..Len(before) + 1
          PROVE  all(k).schema = commit.schema /\ all(k).sequence \in Nat
        <3>1. CASE k = Len(before) + 1
            BY <1>5, <2>2, <3>1
        <3>2. CASE k # Len(before) + 1
            <4>1. k \in 1..Len(before)
                BY <1>1, <3>2
            <4> QED BY <1>6, <2>1, <4>1
        <3> QED BY <3>1, <3>2
    <2>4. ASSUME NEW k \in 2..Len(before) + 1
          PROVE  all(k).sequence > all(k - 1).sequence
        <3>1. CASE k = Len(before) + 1
            <4>1. Len(before) > 0 /\ k - 1 = Len(before) /\ k - 1 \in 1..Len(before)
                BY <1>1, <3>1
            <4>2. all(k - 1) = before[Len(before)]
                BY <2>1, <4>1
            <4>3. before[Len(before)].sequence \in Nat
                BY <1>6, <4>1
            <4> QED BY <1>5, <1>6, <2>2, <3>1, <4>1, <4>2, <4>3
        <3>2. CASE k # Len(before) + 1
            <4>1. k \in 2..Len(before) /\ k \in 1..Len(before) /\ k - 1 \in 1..Len(before)
                BY <1>1, <3>2
            <4> QED BY <1>6, <2>1, <4>1
        <3> QED BY <3>1, <3>2
    <2> QED BY <1>5, <2>2, <2>3, <2>4
<1> HIDE DEF all
<1>8. Len(retained) \in Nat /\ Len(retained) >= 1 /\ retained # <<>>
    <2>1. Len(retained) >= 1
        BY <1>1, PolicyAssumption
    <2> QED BY <1>1, <2>1, LenProperties
<1>9. /\ 1 \in 1..Len(retained) /\ skipped + 1 \in 1..Len(before) + 1
      /\ retained[1].sequence \in Nat
      /\ next.compacted = retained[1].sequence - 1
    BY <1>1, <1>2, <1>3, <1>7, <1>8
<1>10. ASSUME NEW i \in 1..Len(retained)
       PROVE  /\ retained[i].schema = next.schema
              /\ retained[i].sequence >
                    IF i = 1 THEN next.compacted ELSE retained[i - 1].sequence
    <2>1. retained[i] = all(skipped + i) /\ skipped + i \in 1..Len(before) + 1
        BY <1>1, <1>2, <1>8
    <2>2. retained[i].schema = next.schema /\ retained[i].sequence \in Nat
        BY <1>3, <1>7, <2>1
    <2>3. CASE i = 1
        BY <1>9, <2>2, <2>3
    <2>4. CASE i # 1
        <3>1. /\ i - 1 \in 1..Len(retained) /\ skipped + i \in 2..Len(before) + 1
              /\ skipped + (i - 1) = skipped + i - 1
            BY <1>2, <1>8, <2>1, <2>4
        <3>2. retained[i - 1] = all(skipped + i - 1)
            BY <1>2, <3>1
        <3> QED BY <1>7, <2>1, <2>2, <2>4, <3>1, <3>2
    <2> QED BY <2>2, <2>3, <2>4
<1>11. retained[Len(retained)].sequence = next.sequence
    <2>1. Len(retained) \in 1..Len(retained)
        BY <1>8
    <2> QED BY <1>2, <1>3, <1>7, <2>1
<1>12. {made[n].peer : n \in next.checkpoint} \subseteq DOMAIN next.peers
    BY <1>3, <1>4
<1>13. Len(retained) + 1 # 1 /\ Len(retained) + 1 - 1 = Len(retained)
    BY <1>8
<1>14. \A i \in DOMAIN next.retained :
          /\ next.retained[i].schema = next.schema
          /\ next.retained[i].sequence >
                IF i = 1 THEN next.compacted ELSE next.retained[i - 1].sequence
    BY <1>1, <1>10
<1>15. (IF Len(next.retained) + 1 = 1 THEN next.compacted
        ELSE next.retained[Len(next.retained) + 1 - 1].sequence) = next.sequence
    BY <1>11, <1>13
<1>16. ValidIn(made, next)
    BY <1>12, <1>14, <1>15 DEF ValidIn
<1> QED BY <1>16 DEF next

(* A repair leaves an envelope valid.                                      *)
LEMMA RepairedValid ==
    ASSUME NEW envelope \in Envelopes(Peer), NEW made, ValidIn(made, envelope)
    PROVE  ValidIn(made, Repaired(envelope))
<1> DEFINE next == Repaired(envelope)
<1>1. /\ next.retained = <<>> /\ Len(<<>>) = 0 /\ DOMAIN <<>> = {}
      /\ next.compacted = envelope.sequence /\ next.sequence = envelope.sequence
      /\ next.checkpoint = envelope.checkpoint /\ next.peers = envelope.peers
    BY RepairedOK
<1> HIDE DEF next
<1>2. {made[n].peer : n \in next.checkpoint} \subseteq DOMAIN next.peers
    BY <1>1 DEF ValidIn
<1> QED BY <1>1, <1>2 DEF ValidIn, next

Sound ==
    /\ stored # None => ValidIn(operations, stored)
    /\ \A t \in Threads : job[t].phase = "commit" /\ job[t].read # None =>
          ValidIn(operations, job[t].read)

(* What a thread offers to store is valid, whatever was stored since it    *)
(* read.                                                                   *)
LEMMA CandidateValid ==
    ASSUME RetainedOperations # 0, TypeInv, Sound, NEW t \in Threads,
           job[t].phase = "commit", Candidate(t) # None
    PROVE  ValidEnvelope(Candidate(t))
<1> DEFINE read == job[t].read
           bound == IF read = None THEN {} ELSE DOMAIN read.peers
<1>1. /\ read \in Envelopes(Peer) \cup {None}
      /\ read # None => ValidIn(operations, read)
      /\ job[t].call \in AllCalls
    BY DEF TypeInv, TypeOK, Jobs, JobOK, JobPlaced, Sound
<1>2. ASSUME NEW commit \in Commits, Candidate(t) = NextEnvelope(read, commit),
             PeersIn(commit.accepted) \subseteq commit.peers \cup bound
      PROVE  ValidEnvelope(Candidate(t))
    <2>1. {operations[n].peer : n \in commit.accepted} \subseteq commit.peers \cup bound
        BY <1>2 DEF PeersIn
    <2>2. ValidIn(operations, NextEnvelope(read, commit))
        BY <1>1, <2>1, NextValid
    <2> QED BY <1>2, <2>2, ValidInOK
<1>3. CASE job[t].call \in Requested
    <2> DEFINE request == job[t].request
    <2>1. /\ RequestedCommit(t) \in Commits
          /\ Candidate(t) = NextEnvelope(read, RequestedCommit(t))
        BY <1>3, CommitOverRead
    <2>2. /\ RequestedCommit(t).accepted =
                request.update \cup (IF read = None THEN {} ELSE read.checkpoint)
          /\ RequestedCommit(t).peers =
                PeersIn(request.update \ (IF read = None THEN {} ELSE read.checkpoint))
        BY DEF RequestedCommit, NewPeers
    <2>3. read # None => PeersIn(read.checkpoint) \subseteq bound
        BY <1>1 DEF ValidIn, PeersIn
    <2>4. PeersIn(RequestedCommit(t).accepted) \subseteq RequestedCommit(t).peers \cup bound
        <3>1. CASE read = None
            BY <2>2, <3>1 DEF PeersIn
        <3>2. CASE read # None
            BY <2>2, <2>3, <3>2 DEF PeersIn
        <3> QED BY <3>1, <3>2
    <2> QED BY <1>2, <2>1, <2>4
<1>4. CASE job[t].call \in Giving
    <2>1. /\ GivenCommit(t) \in Commits
          /\ Candidate(t) = NextEnvelope(read, GivenCommit(t))
        BY <1>4, CommitOverRead
    <2>2. PeersIn(GivenCommit(t).accepted) \subseteq GivenCommit(t).peers \cup bound
        BY DEF GivenCommit
    <2> QED BY <1>2, <2>1, <2>2
<1>5. CASE job[t].call = "repair"
    <2>1. read # None /\ Candidate(t) = Repaired(read)
        BY <1>5, CommitOverRead
    <2>2. ValidIn(operations, Repaired(read))
        BY <1>1, <2>1, RepairedValid
    <2> QED BY <2>1, <2>2, ValidInOK
<1>6. CASE job[t].call \in {"delete", "reset"}
    BY <1>6, CommitOverRead
<1> QED BY <1>1, <1>3, <1>4, <1>5, <1>6 DEF AllCalls, Operated

LEMMA SoundKept == TypeInv /\ Sound /\ [Next]_vars => Sound'
<1> SUFFICES ASSUME TypeInv, Sound, [Next]_vars PROVE Sound'
    OBVIOUS
<1>1. /\ stored # None => ValidIn(operations, stored)
      /\ \A t \in Threads : job[t].phase = "commit" /\ job[t].read # None =>
            ValidIn(operations, job[t].read)
      /\ stored # None => stored.checkpoint \subseteq 1..Len(operations)
      /\ \A t \in Threads : job[t].read # None =>
            job[t].read.checkpoint \subseteq 1..Len(operations)
      /\ \A t \in Threads : job[t] \in Jobs(Peer)
    BY DEF TypeInv, TypeOK, StoredOK, JobOK, JobKnown, Known, Sound
<1>2. CASE UNCHANGED vars
    BY <1>1, <1>2 DEF vars, Sound
<1>3. CASE Quiet
    <2>1. UNCHANGED stored /\ \A n \in 1..Len(operations) : operations'[n] = operations[n]
        BY <1>3 DEF Quiet, Extends
    <2>2. stored # None => ValidIn(operations', stored)
        BY <1>1, <2>1, ValidInKept
    <2>3. ASSUME NEW t \in Threads, job'[t].phase = "commit", job'[t].read # None
          PROVE  ValidIn(operations', job'[t].read)
        <3>1. JobMoves(t)
            BY <1>3 DEF Quiet
        <3>2. CASE Passes(t)
            <4>1. job'[t].read = stored
                BY <1>1, <3>2 DEF Passes, Jobs
            <4> QED BY <2>2, <2>3, <4>1
        <3>3. CASE job'[t] = job[t]
            BY <1>1, <2>1, <2>3, <3>3, ValidInKept
        <3> QED BY <2>3, <3>1, <3>2, <3>3 DEF JobMoves, Begins, Writes, Retries, Idle
    <2> QED BY <2>1, <2>2, <2>3 DEF Sound
<1>4. ASSUME NEW t \in Threads, Swap(t) PROVE Sound'
    <2>1. /\ stored' = Candidate(t) /\ operations' = operations
          /\ job'[t].phase = "announce"
          /\ \A u \in Threads \ {t} : job'[u] = job[u]
        BY <1>4, SwapMoves
    <2>2. stored' # None => ValidIn(operations, stored')
        BY <1>4, <2>1, ValidInOK DEF Swap
    <2> QED BY <1>1, <2>1, <2>2 DEF Sound
<1> QED BY <1>2, <1>3, <1>4, StepKinds

(* No commit is lost to the validation of its own envelope, and what is    *)
(* stored retains each operation id once, with operations it holds: as     *)
(* long as the policy retains operations at all.  (A window of none leaves *)
(* no envelope that validate_envelope accepts.)                            *)
THEOREM EnvelopesStaySound ==
    ASSUME RetainedOperations # 0
    PROVE  Spec => []EnvelopesSound
<1>1. Init => Sound
    <2> SUFFICES ASSUME Init PROVE Sound
        OBVIOUS
    <2>1. RestoreCommit \in Commits /\ Restored = NextEnvelope(None, RestoreCommit)
        BY RestoredOK DEF Init
    <2>2. RestoreCommit.accepted = {1} /\ RestoreCommit.peers = PeersIn({1})
        BY DEF RestoreCommit
    <2>3. ValidIn(operations, Restored)
        BY <2>1, <2>2, NextValid DEF PeersIn
    <2> QED BY <2>3 DEF Init, Sound, Idle
<1>2. TypeInv /\ Sound => CommitsValid
    BY CandidateValid DEF CommitsValid
<1> QED BY <1>1, <1>2, SoundKept, OnceAlways, Typed, PTL DEF Spec, EnvelopesSound

-----------------------------------------------------------------------------
(* The change feed.  Until a removed document is created again, the        *)
(* changes that stored an envelope are numbered by its generation, and a   *)
(* removal has the generation of the envelope it removed.                  *)
Numbered ==
    ~CreatedAgain =>
        /\ \A k \in DOMAIN changes : changes[k].after # None => changes[k].generation = k
        /\ stored # None => /\ Len(changes) > 0 /\ stored.generation = Len(changes)
                            /\ changes[Len(changes)].after = stored.checkpoint
        /\ stored = None /\ Len(changes) > 0 =>
              /\ changes[Len(changes)].after = None
              /\ changes[Len(changes)].generation = Len(changes) - 1

(* The generation of what a swap stores.                                   *)
LEMMA GenerationAfter ==
    ASSUME TypeInv, NEW t \in Threads, job[t].phase = "commit", Unmoved(t)
    PROVE  /\ Candidate(t) # None => Candidate(t).generation =
                                     IF stored = None THEN 1 ELSE stored.generation + 1
           /\ Candidate(t) = None => stored # None
           /\ Candidate(t) \in Envelopes(Peer) \cup {None}
<1>1. /\ stored \in Envelopes(Peer) \cup {None}
      /\ job[t].call \in AllCalls
    BY DEF TypeInv, TypeOK, JobOK, JobPlaced
<1>2. CASE job[t].call \in Requested
    <2>1. /\ RequestedCommit(t) \in Commits
          /\ Candidate(t) = NextEnvelope(stored, RequestedCommit(t))
        BY <1>2, CommitOK
    <2> QED BY <1>1, <2>1, NextEnvelopeOK, NoneAssumption
<1>3. CASE job[t].call \in Giving
    <2>1. GivenCommit(t) \in Commits /\ Candidate(t) = NextEnvelope(stored, GivenCommit(t))
        BY <1>3, CommitOK
    <2> QED BY <1>1, <2>1, NextEnvelopeOK, NoneAssumption
<1>4. CASE job[t].call = "repair"
    <2>1. stored # None /\ Candidate(t) = Repaired(stored)
        BY <1>4, CommitOK
    <2> QED BY <1>1, <2>1, RepairedOK, NoneAssumption
<1>5. CASE job[t].call \in {"delete", "reset"}
    BY <1>5, CommitOK
<1> QED BY <1>1, <1>2, <1>3, <1>4, <1>5 DEF AllCalls, Operated

LEMMA NumberedKept == TypeInv /\ Numbered /\ [Next]_vars => Numbered'
<1> SUFFICES ASSUME TypeInv, Numbered, [Next]_vars PROVE Numbered'
    OBVIOUS
<1>1. CASE UNCHANGED vars \/ Quiet
    <2>1. UNCHANGED <<stored, changes>>
        BY <1>1 DEF vars, Quiet
    <2> QED BY <2>1 DEF Numbered, CreatedAgain
<1>2. ASSUME NEW t \in Threads, Swap(t) PROVE Numbered'
    <2> DEFINE n == Len(changes)
    <2>1. /\ job[t].phase = "commit" /\ Unmoved(t) /\ stored' = Candidate(t)
        BY <1>2, SwapMoves DEF Unmoved
    <2>2. /\ stored' # None => stored'.generation =
                               IF stored = None THEN 1 ELSE stored.generation + 1
          /\ stored' = None => stored # None
          /\ stored' \in Envelopes(Peer) \cup {None}
        BY <2>1, GenerationAfter
    <2>3. /\ changes \in Seq(Changes) /\ changes' \in Seq(Changes)
          /\ n \in Nat /\ Len(changes') = n + 1
          /\ \A k \in 1..n : changes'[k] = changes[k]
        BY <1>2, SwapRecords DEF TypeInv, TypeOK
    <2>4. /\ DOMAIN changes = 1..n /\ DOMAIN changes' = 1..n + 1
        BY <2>3, LenProperties
    <2>5. changes'[n + 1] = Change(t)
        BY <1>2, SwapRecords
    <2>6. /\ changes'[n + 1].after = Etag(stored')
          /\ changes'[n + 1].generation = IF stored' = None THEN stored.generation
                                          ELSE stored'.generation
        BY <2>1, <2>5, ChangeOK
    <2> SUFFICES ASSUME ~CreatedAgain' PROVE Numbered'
        BY DEF Numbered
    <2>7. \A k \in 1..n : changes[k].after # None
        BY <2>3, <2>4 DEF CreatedAgain
    <2>8. ~CreatedAgain
        BY <2>4, <2>7 DEF CreatedAgain
    <2>9. /\ \A k \in 1..n : changes[k].generation = k
          /\ stored # None => n > 0 /\ stored.generation = n
          /\ stored = None => n = 0
        BY <2>3, <2>4, <2>7, <2>8 DEF Numbered
    <2> HIDE DEF n
    <2>10. stored' # None => Etag(stored') = stored'.checkpoint
        BY DEF Etag
    <2>11. Etag(None) = None
        BY DEF Etag
    <2>12. stored' # None => stored'.generation = n + 1
        BY <2>2, <2>3, <2>9
    <2>13. stored' = None => changes'[n + 1].after = None /\ changes'[n + 1].generation = n
        BY <2>2, <2>6, <2>9, <2>11
    <2>14. \A k \in 1..n + 1 : changes'[k].after # None => changes'[k].generation = k
        BY <2>3, <2>6, <2>9, <2>12, <2>13
    <2>15. stored' # None => changes'[n + 1].after = stored'.checkpoint
        BY <2>6, <2>10
    <2> QED BY <2>3, <2>4, <2>12, <2>13, <2>14, <2>15 DEF Numbered
<1> QED BY <1>1, <1>2, StepKinds

LEMMA NumberedAlways == Spec => []Numbered
<1>1. Init => Numbered
    <2> SUFFICES ASSUME Init PROVE Numbered
        OBVIOUS
    <2>1. Restored.generation = 1 /\ Restored.checkpoint = {1} /\ Restored # None
        BY RestoredOK, NoneAssumption DEF Init
    <2>2. CASE stored = None /\ changes = <<>>
        BY <2>2 DEF Numbered
    <2>3. CASE stored = Restored /\ changes = <<[call |-> "restore", generation |-> 1,
                    incarnation |-> Given, before |-> None, after |-> {1}]>>
        BY <2>1, <2>3 DEF Numbered
    <2> QED BY <2>2, <2>3 DEF Init
<1> QED BY <1>1, NumberedKept, Typed, PTL DEF Spec

(* A listener that heard every change of a document that was not created   *)
(* again, in whatever order they were announced, ends with the stored      *)
(* document or with its deletion.                                          *)
THEOREM ListenersConverge == Spec => []ListenersSettle
<1>1. TypeInv /\ Numbered => ListenersSettle
    <2> SUFFICES ASSUME TypeInv, Numbered, feed = DOMAIN changes, ~CreatedAgain,
                        NEW k \in Latest(feed)
                 PROVE  changes[k].after = Etag(stored)
        BY DEF ListenersSettle
    <2> DEFINE n == Len(changes)
    <2>1. n \in Nat /\ DOMAIN changes = 1..n /\ \A j \in 1..n : changes[j] \in Changes
        BY LenProperties, ElementOfSeq DEF TypeInv, TypeOK
    <2>2. /\ k \in 1..n
          /\ \A j \in 1..n :
                \/ changes[j].generation < changes[k].generation
                \/ /\ changes[j].generation = changes[k].generation
                   /\ changes[j].after = None => changes[k].after = None
        BY <2>1 DEF Latest
    <2>3. \A j \in 1..n : j < n => changes[j].after # None /\ changes[j].generation = j
        BY <2>1 DEF CreatedAgain, Numbered
    <2>4. n \in 1..n /\ n \in Nat /\ k \in Nat /\ k <= n
        BY <2>1, <2>2
    <2> HIDE DEF n
    <2>5. CASE stored # None
        <3>1. changes[n].after = stored.checkpoint /\ changes[n].after # None
            BY <2>1, <2>4, <2>5, NoneAssumption DEF Numbered, TypeInv, TypeOK, Envelopes, n
        <3>2. changes[n].generation = n
            BY <2>1, <2>4, <3>1 DEF Numbered
        <3>3. ASSUME k < n PROVE FALSE
            <4>1. changes[k].generation = k
                BY <2>2, <2>3, <3>3
            <4>2. ~(n < k) /\ n # k
                BY <2>4, <3>3
            <4> QED BY <2>2, <2>4, <3>2, <4>1, <4>2
        <3>4. k = n
            BY <2>4, <3>3
        <3> QED BY <2>5, <3>1, <3>4 DEF Etag
    <2>6. CASE stored = None
        <3>1. changes[n].after = None /\ changes[n].generation = n - 1
            BY <2>1, <2>4, <2>6 DEF Numbered, n
        <3>2. ASSUME k < n PROVE FALSE
            <4>1. changes[k].after # None /\ changes[k].generation = k
                BY <2>2, <2>3, <3>2
            <4>2. ~(n - 1 < k)
                BY <2>4, <3>2
            <4> QED BY <2>2, <2>4, <3>1, <4>1, <4>2
        <3>3. k = n
            BY <2>4, <3>2
        <3> QED BY <2>6, <3>1, <3>3 DEF Etag
    <2> QED BY <2>5, <2>6
<1> QED BY <1>1, NumberedAlways, Typed, PTL

=============================================================================
