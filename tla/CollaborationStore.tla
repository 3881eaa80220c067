------------------------- MODULE CollaborationStore -------------------------
(***************************************************************************)
(* How the collaboration service accepts what clients and operators ask of *)
(* one document: crates/clerkenwell-store/src/lib.rs.                      *)
(*                                                                         *)
(* Every call runs on a thread of its own and takes no lock: it reads the  *)
(* stored envelope, judges the request against it, and swaps in the next   *)
(* envelope only if the stored one is still the one it read.  Between any  *)
(* two of those steps another call may commit, a request may be delivered  *)
(* again, the call may fail or the process stop.  A read is one step here: *)
(* module Residency shows that it answers with the content of some moment  *)
(* during the read.                                                        *)
(*                                                                         *)
(* An operation of the CRDT is a number, an update or a history is a set   *)
(* of operations, a frontier is the history below it, and the etag of a    *)
(* checkpoint is the checkpoint.                                           *)
(***************************************************************************)
EXTENDS Integers, Sequences, FiniteSets

CONSTANTS
    Threads,             \* threads calling the service
    Principals,          \* who makes requests
    System,              \* the service itself, author of seeds and migrations
    Ids,                 \* operation ids requests carry
    Calls,               \* the calls made, a subset of AllCalls
    RetainedOperations,  \* CommitPolicy::retained_operations
    Attempts,            \* CommitPolicy::attempts
    MaxSchema,           \* bound: schema versions deployed one after the other
    MaxOperations,       \* bound: CRDT operations made
    MaxRequests,         \* bound: requests submitted
    MaxChanges,          \* bound: changes to the stored envelope
    None,                \* no envelope, request or etag
    Refused              \* the answer to a refused request

Requested == {"import", "bootstrap", "edit", "edit_text"}
Giving == {"seed", "restore", "migrate"}
Operated == Giving \cup {"repair", "delete", "reset"}
AllCalls == Requested \cup Operated

ASSUME CallsAssumption == Calls \subseteq AllCalls
ASSUME PolicyAssumption == RetainedOperations \in Nat /\ Attempts \in Nat \ {0}
ASSUME BoundsAssumption ==
    {MaxSchema, MaxOperations, MaxRequests, MaxChanges} \subseteq Nat \ {0}
ASSUME SystemAssumption == System \notin Principals /\ Refused # None

VARIABLES
    stored,     \* the envelope in storage, or None
    plan,       \* the schema version of the deployed plan
    operations, \* every CRDT operation made, in the order they were made
    minted,     \* how many incarnations were minted
    sent,       \* the requests clients submitted; each may be delivered any number of times
    job,        \* what each thread is doing
    changes,    \* history: every change made to the stored envelope
    feed,       \* which of them were announced on the change feed
    answers,    \* the last answer given to each operation id
    audit       \* the refused operation ids and recovery calls on record

vars == <<stored, plan, operations, minted, sent, job, changes, feed, answers, audit>>

-----------------------------------------------------------------------------
(* What the variables hold.                                                *)

Operation == 1..MaxOperations
History == SUBSET Operation
Fields == {"explicit", "merge"}
Actors == Principals \cup {System}
Peer == [owner: Actors, nonce: 0..MaxOperations]
Operations == [peer: Peer, field: Fields, deps: History, fence: {None} \cup History]

Requests ==
    [call: Requested, id: Ids, actor: Principals, schema: 1..MaxSchema,
     base: History, update: History, fence: {None} \cup History]

(* An envelope, the operations it retains and the principals that peers    *)
(* are bound to.                                                           *)
Entries ==
    [id: Ids \cup Giving, sequence: Nat \ {0}, schema: 1..MaxSchema, actor: Actors,
     update: History]
Bindings(peers) == UNION {[bound -> Actors] : bound \in SUBSET peers}
Envelopes(peers) ==
    [incarnation: Nat, schema: 1..MaxSchema, generation: Nat \ {0}, sequence: Nat \ {0},
     compacted: Nat, checkpoint: History \ {{}}, retained: Seq(Entries),
     peers: Bindings(peers)]

Jobs(peers) ==
    [phase: {"idle", "prepare", "judge", "commit", "announce"},
     call: AllCalls \cup {None}, request: Requests \cup {None},
     read: Envelopes(peers) \cup {None}, attempt: Nat, since: Nat, history: History,
     of: Envelopes(peers) \cup {None}, change: Nat]

Changes ==
    [call: AllCalls, generation: Nat \ {0}, incarnation: Nat,
     before: {None} \cup History, after: {None} \cup History]
Answers == [change: 1..MaxChanges, update: History]

(* None is no envelope, nor the document AcceptedHistory sees of one, nor  *)
(* a history, and a refusal is no answer.                                  *)
ASSUME NoneAssumption ==
    /\ None \notin Envelopes(Peer) /\ None \notin [incarnation: Nat, operations: History]
    /\ \A h \in History : None # h
ASSUME RefusedAssumption == Refused \notin Answers

-----------------------------------------------------------------------------
(* Operations and histories, as the replica in crates/clerkenwell-doc      *)
(* reads them.                                                             *)

(* An operation under `peer` that changes `field`, made by a writer that   *)
(* held `deps`.  `fence` is the etag of the edit it was prepared for.      *)
Made(peer, field, deps, fence) ==
    [peer |-> peer, field |-> field, deps |-> deps, fence |-> fence]

(* The block a client session writes under, and one allocated for a single *)
(* edit (PeerKey::allocate, block_of).                                     *)
SessionPeer(principal) == [owner |-> principal, nonce |-> 0]
NewPeer(principal) == [owner |-> principal, nonce |-> Len(operations) + 1]

PeersIn(update) == {operations[n].peer : n \in update}
Roots(update) == {n \in update : operations[n].deps = {}}
Dependencies(update) == UNION {operations[n].deps : n \in update}

(* The operation whose value the explicit field has, 0 when none set it:   *)
(* the last writer wins, in an order of all operations that extends what   *)
(* their writers held.  `made` gives the operations of a history.          *)
After(made, m, n) ==
    LET held(o) == Cardinality(made[o].deps)
    IN held(m) > held(n) \/ (held(m) = held(n) /\ m > n)
LastWriter(made) ==
    LET written == {n \in DOMAIN made : made[n].field = "explicit"}
    IN IF written = {} THEN 0
       ELSE CHOOSE n \in written : \A m \in written \ {n} : After(made, n, m)
ExplicitValue(history) == LastWriter([n \in history |-> operations[n]])

(* policy_conflicts_for_incremental_update: both sides changed an explicit *)
(* field since the base, and differently.                                  *)
PolicyConflict(base, update, current) ==
    LET client == ExplicitValue(base \cup update)
    IN /\ client # ExplicitValue(base)
       /\ ExplicitValue(current) # ExplicitValue(base)
       /\ client # ExplicitValue(current)

-----------------------------------------------------------------------------
(* Envelopes.                                                              *)

Given == 0  \* the incarnation of a history brought from another store

Retained(envelope) ==
    {envelope.retained[i] : i \in DOMAIN envelope.retained}

(* What an envelope retains of operation `id`.                             *)
RetainedAs(envelope, id) == {o \in Retained(envelope) : o.id = id}

(* The newest n of them.                                                   *)
Last(s, n) == IF Len(s) > n THEN SubSeq(s, Len(s) - n + 1, Len(s)) ELSE s

(* The operations retained so far that a commit keeps: none of an earlier  *)
(* schema.  Mutant: those too.                                             *)
RetainedOfAnySchema(current, commit) ==
    IF current = None THEN <<>> ELSE current.retained
RetainedBefore(current, commit) ==
    IF current = None \/ current.schema # commit.schema THEN <<>> ELSE current.retained

(* The principal of every peer: who it is bound to, and the committer of   *)
(* the rest.  Mutant: a peer the new history lacks is let go.              *)
BoundInHistory(current, commit) ==
    LET bound == IF current = None THEN <<>> ELSE current.peers
    IN [p \in PeersIn(commit.accepted) |->
            IF p \in DOMAIN bound THEN bound[p] ELSE commit.actor]
Bound(current, commit) ==
    LET bound == IF current = None THEN <<>> ELSE current.peers
    IN [p \in DOMAIN bound \cup commit.peers |->
            IF p \in DOMAIN bound THEN bound[p] ELSE commit.actor]

(* next_envelope: `commit` accepted over `current`.                        *)
NextEnvelope(current, commit) ==
    LET sequence == IF current = None THEN 1 ELSE current.sequence + 1
        retained == Last(Append(RetainedBefore(current, commit),
                                [id |-> commit.id, sequence |-> sequence,
                                 schema |-> commit.schema, actor |-> commit.actor,
                                 update |-> commit.update]),
                         RetainedOperations)
        first == IF retained = <<>> THEN sequence ELSE retained[1].sequence
    IN [incarnation |-> commit.incarnation,
        schema |-> commit.schema,
        generation |-> IF current = None THEN 1 ELSE current.generation + 1,
        sequence |-> sequence,
        compacted |-> first - 1,
        checkpoint |-> commit.accepted,
        retained |-> retained,
        peers |-> Bound(current, commit)]

(* validate_envelope                                                       *)
ValidEnvelope(envelope) ==
    LET retained == envelope.retained
        before(i) == IF i = 1 THEN envelope.compacted ELSE retained[i - 1].sequence
    IN /\ PeersIn(envelope.checkpoint) \subseteq DOMAIN envelope.peers
       /\ \A i \in DOMAIN retained : /\ retained[i].sequence > before(i)
                                     /\ retained[i].schema = envelope.schema
       /\ before(Len(retained) + 1) = envelope.sequence

(* repair: the retained operations are dropped.                            *)
Repaired(envelope) ==
    [envelope EXCEPT !.retained = <<>>,
                     !.compacted = envelope.sequence,
                     !.generation = @ + 1]

-----------------------------------------------------------------------------
(* Jobs.                                                                   *)

Idle == [phase |-> "idle", call |-> None, request |-> None, read |-> None,
         attempt |-> 0, since |-> 0, history |-> {}, of |-> None, change |-> 0]

Request(call, id, actor, base, update, fence) ==
    [call |-> call, id |-> id, actor |-> actor, schema |-> plan,
     base |-> base, update |-> update, fence |-> fence]

Set(t, value) == job' = [job EXCEPT ![t] = value]
Return(t) == Set(t, Idle)

(* The answer to thread t's request: the change that left the state it is  *)
(* answered with, and the operations acknowledged.                         *)
Answer(t, change, update) ==
    answers' = [answers EXCEPT ![job[t].request.id] = [change |-> change, update |-> update]]

(* Mutant: the refusal is given unaudited.                                 *)
RefuseUnaudited(t) ==
    /\ Return(t)
    /\ UNCHANGED audit
    /\ answers' = [answers EXCEPT ![job[t].request.id] = Refused]

(* refuse: the refusal is audited before the caller is given it.  (When it *)
(* cannot be audited the call fails: Abandon.)                             *)
Refuse(t) ==
    /\ Return(t)
    /\ audit' = audit \cup {job[t].request.id}
    /\ answers' = [answers EXCEPT ![job[t].request.id] = Refused]

Submit(request) ==
    /\ Cardinality(sent) < MaxRequests
    /\ request.call \in Calls
    /\ sent' = sent \cup {request}
    /\ UNCHANGED <<stored, plan, minted, job, changes, feed, answers, audit>>

Make(operation) ==
    /\ Len(operations) < MaxOperations
    /\ operations' = Append(operations, operation)
NewOperation == Len(operations) + 1

-----------------------------------------------------------------------------
(* Clients.  A client holds the accepted state it read; what it submits is *)
(* delivered later, and then the document may have moved on.               *)

(* A client's operations that it has sent and not seen accepted.           *)
Drafts(actor) ==
    LET base == stored.checkpoint
    IN {n \in UNION {r.update : r \in {q \in sent : q.actor = actor}} \ base :
            operations[n].deps # {}}

(* An edit made in a session, alone or with the drafts before it, or sent  *)
(* without a draft it was made on.                                         *)
SubmitImport(actor, id) ==
    /\ stored # None /\ stored.schema = plan
    /\ LET base == stored.checkpoint
       IN \E drafts \in {{}, Drafts(actor)} : \E field \in Fields :
             /\ Dependencies(drafts) \subseteq base \cup drafts
             /\ Make(Made(SessionPeer(actor), field, base \cup drafts, None))
             /\ \E with \in {{}, drafts} :
                   Submit(Request("import", id, actor, base, {NewOperation} \cup with, None))

(* A refused or unanswered edit sent again from the state read meanwhile.  *)
SubmitRebased(actor, id) ==
    /\ stored # None /\ stored.schema = plan
    /\ \E r \in sent :
          /\ r.call = "import" /\ r.actor = actor
          /\ Dependencies(r.update) \subseteq stored.checkpoint \cup r.update
          /\ Submit(Request("import", id, actor, stored.checkpoint, r.update, None))
    /\ UNCHANGED operations

(* A document created by a client: anew, or again from what it held.       *)
SubmitBootstrap(actor, id) ==
    \/ /\ Make(Made(SessionPeer(actor), "merge", {}, None))
       /\ Submit(Request("bootstrap", id, actor, {}, {NewOperation}, None))
    \/ /\ \E r \in sent :
             /\ r.call = "import" /\ r.actor = actor
             /\ Submit(Request("bootstrap", id, actor, {}, r.base \cup r.update, None))
       /\ UNCHANGED operations

(* A document written whole, fenced on the etag it was read at.            *)
SubmitEdit(actor, id) ==
    /\ stored # None
    /\ Submit(Request("edit", id, actor, {}, {}, stored.checkpoint))
    /\ UNCHANGED operations

(* A text replaced as it was read at a frontier.                           *)
SubmitText(actor, id) ==
    /\ stored # None
    /\ Submit(Request("edit_text", id, actor, stored.checkpoint, {}, None))
    /\ UNCHANGED operations

-----------------------------------------------------------------------------
(* import, edit and edit_text.                                             *)

(* A request reaches the service, for the first time or again.             *)
Deliver(t, request) ==
    /\ job[t].phase = "idle"
    /\ Set(t, [Idle EXCEPT !.phase = IF request.call \in {"edit", "edit_text"}
                                     THEN "prepare" ELSE "judge",
                           !.call = request.call,
                           !.request = [request EXCEPT !.schema =
                               IF request.call \in {"edit", "edit_text"} THEN plan ELSE @],
                           !.since = Len(changes)])
    /\ UNCHANGED <<stored, plan, operations, minted, sent, changes, feed, answers, audit>>

Prepared(t, base, update) ==
    Set(t, [job[t] EXCEPT !.phase = "judge", !.request.base = base, !.request.update = update])

(* prepare_edit: the edit is written as operations on the accepted         *)
(* document; an operation the envelope retains is not written again.       *)
PrepareEdit(t) ==
    LET request == job[t].request
        retained == RetainedAs(stored, request.id)
    IN /\ job[t].phase = "prepare" /\ job[t].call = "edit"
       /\ \/ /\ stored = None
             /\ Refuse(t)
             /\ UNCHANGED operations
          \/ /\ stored # None /\ stored.schema # plan
             /\ Refuse(t)
             /\ UNCHANGED operations
          \/ /\ stored # None /\ stored.schema = plan /\ retained # {}
             /\ \E o \in retained : Prepared(t, stored.checkpoint, o.update)
             /\ UNCHANGED <<operations, answers, audit>>
          \/ /\ stored # None /\ stored.schema = plan /\ retained = {}
             /\ Make(Made(NewPeer(request.actor), "explicit", stored.checkpoint, request.fence))
             /\ Prepared(t, stored.checkpoint, {NewOperation})
             /\ UNCHANGED <<answers, audit>>
       /\ UNCHANGED <<stored, plan, minted, sent, changes, feed>>

(* prepare_text_edit: the replacement is written at the frontier the text  *)
(* was read at.                                                            *)
PrepareText(t) ==
    LET request == job[t].request
        retained == RetainedAs(stored, request.id)
    IN /\ job[t].phase = "prepare" /\ job[t].call = "edit_text"
       /\ \/ /\ stored = None
             /\ Refuse(t)
             /\ UNCHANGED operations
          \/ /\ stored # None /\ retained # {}
             /\ \E o \in retained : Prepared(t, request.base, o.update)
             /\ UNCHANGED <<operations, answers, audit>>
          \/ /\ stored # None /\ retained = {} /\ stored.schema # plan
             /\ Refuse(t)
             /\ UNCHANGED operations
          \/ /\ stored # None /\ retained = {} /\ stored.schema = plan
             /\ ~ request.base \subseteq stored.checkpoint
             /\ Refuse(t)
             /\ UNCHANGED operations
          \/ /\ stored # None /\ retained = {} /\ stored.schema = plan
             /\ request.base \subseteq stored.checkpoint
             /\ Make(Made(NewPeer(request.actor), "merge", request.base, None))
             /\ Prepared(t, request.base, {NewOperation})
             /\ UNCHANGED <<answers, audit>>
       /\ UNCHANGED <<stored, plan, minted, sent, changes, feed>>

(* The peers of an update with operations the document lacks.              *)
NewPeers(request, current) ==
    PeersIn(request.update \ (IF current = None THEN {} ELSE current.checkpoint))

(* require_allocated_peers: each is in a block allocated to the actor.     *)
Allocated(request, peers) == \A p \in peers : p.owner = request.actor

(* Whether an operation retained under the request's id is the request's:  *)
(* Retried::ByUpdate for an import, Retried::ByPrincipal for an edit.      *)
IsRetry(retained, request) ==
    IF request.call = "import" THEN retained.update = request.update
                               ELSE retained.actor = request.actor

(* Whether the document moved from the etag an edit is fenced on.          *)
(* Mutant: the fence is not judged.                                        *)
MovedNever(request, current) == FALSE
Moved(request, current) == request.fence # None /\ request.fence # current.checkpoint

(* import_internal judging an update of the stored document, in the order  *)
(* of its checks, up to the application's validator.                       *)
JudgedIncremental(request, current) ==
    LET retained == RetainedAs(current, request.id)
        update == request.update
    IN IF request.schema # plan THEN "unsupported_schema"
       ELSE IF \E o \in retained : ~IsRetry(o, request) THEN "operation_id_collision"
       ELSE IF current.schema # plan THEN "migration_required"
       ELSE IF retained # {} THEN
            IF request.base \subseteq current.checkpoint THEN "duplicate" ELSE "resync_required"
       ELSE IF ~ Roots(update) \subseteq current.checkpoint THEN "resync_required"
       ELSE IF ~Allocated(request, NewPeers(request, current)) THEN "peer_not_allocated"
       ELSE IF Moved(request, current) THEN "revision_conflict"
       ELSE IF ~ request.base \subseteq current.checkpoint THEN "resync_required"
       ELSE IF ~ Dependencies(update) \subseteq request.base \cup update
            THEN "dependency_blocked"
       ELSE IF PolicyConflict(request.base, update, current.checkpoint)
            THEN "policy_conflict"
       ELSE "valid"

(* ... and an update that creates the document.                            *)
JudgedBootstrap(request, current) ==
    IF request.schema # plan THEN "unsupported_schema"
    ELSE IF current # None THEN "document_exists"
    ELSE IF ~ Dependencies(request.update) \subseteq request.update
         THEN "dependency_blocked"
    ELSE IF ~Allocated(request, PeersIn(request.update)) THEN "peer_not_allocated"
    ELSE "valid"

Judged(request, current) ==
    IF request.call = "bootstrap" THEN JudgedBootstrap(request, current)
    ELSE IF current = None THEN
         IF request.schema # plan THEN "unsupported_schema" ELSE "not_found"
    ELSE JudgedIncremental(request, current)

(* Mutant: an update with anything known in it is taken for a duplicate.   *)
CommittableUnknown(request, current) ==
    IF current = None THEN "commit"
    ELSE IF request.update \cap current.checkpoint # {} THEN "duplicate"
    ELSE "commit"

(* commit, before its swap: an update that brings nothing new is a         *)
(* duplicate, and a peer keeps the principal it is bound to.               *)
Committable(request, current) ==
    IF current = None THEN "commit"
    ELSE IF request.update \subseteq current.checkpoint THEN "duplicate"
    ELSE IF \E p \in NewPeers(request, current) \cap DOMAIN current.peers :
                current.peers[p] # request.actor THEN "peer_bound"
    ELSE "commit"

(* A retry, or an update that brings nothing new, is answered with the     *)
(* stored document.                                                        *)
Duplicate(t) ==
    /\ Return(t)
    /\ LET retained == RetainedAs(stored, job[t].request.id)
       IN Answer(t, Len(changes),
                 IF retained = {} THEN job[t].request.update
                 ELSE (CHOOSE o \in retained : TRUE).update)
    /\ UNCHANGED audit

Proceed(t) ==
    /\ Set(t, [job[t] EXCEPT !.phase = "commit", !.read = stored])
    /\ UNCHANGED <<answers, audit>>

Conclude(t, verdict) ==
    CASE verdict = "duplicate" -> Duplicate(t)
      [] verdict = "commit" -> Proceed(t)
      [] OTHER -> Refuse(t)

(* One attempt of import_internal: the envelope is read and the request    *)
(* judged; the application's validator, and on creation the policy of the  *)
(* created fields, may refuse what was found valid.                        *)
JudgeImport(t) ==
    LET request == job[t].request
        verdict == Judged(request, stored)
    IN /\ job[t].phase = "judge" /\ job[t].call \in Requested
       /\ IF verdict # "valid" THEN Conclude(t, verdict)
          ELSE \/ Conclude(t, Committable(request, stored))
               \/ Conclude(t, "document_invalid")
               \/ stored = None /\ Conclude(t, "policy_conflict")
       /\ UNCHANGED <<stored, plan, operations, minted, sent, changes, feed>>

-----------------------------------------------------------------------------
(* What operators and the application's start-up call.                     *)

Start(t, call, history, of) ==
    /\ job[t].phase = "idle"
    /\ call \in Calls
    /\ Set(t, [Idle EXCEPT !.phase = "judge", !.call = call, !.history = history,
                           !.of = of])
    /\ UNCHANGED <<stored, plan, minted, sent, changes, feed, answers>>

(* bootstrap: a document that has none is given its seed.                  *)
StartSeed(t) ==
    /\ stored = None
    /\ Make(Made(NewPeer(System), "merge", {}, None))
    /\ Start(t, "seed", {NewOperation}, None)
    /\ UNCHANGED audit

(* bootstrap_update: ... or a history read from another store.             *)
StartRestore(t) ==
    /\ stored = None
    /\ Start(t, "restore", {1}, None)
    /\ UNCHANGED <<operations, audit>>

(* migrate: the caller read a document of an earlier schema and rewrote    *)
(* it, carrying its operations over or building the history anew.          *)
StartMigrate(t) ==
    /\ stored # None /\ stored.schema < plan
    /\ \E carried \in {{}, stored.checkpoint} :
          /\ Make(Made(NewPeer(System), "merge", carried, None))
          /\ Start(t, "migrate", carried \cup {NewOperation}, stored)
    /\ UNCHANGED audit

StartDelete(t) ==
    /\ stored # None
    /\ Start(t, "delete", {}, None)
    /\ UNCHANGED <<operations, audit>>

(* repair and reset are audited before they act; a request that cannot be  *)
(* audited fails.                                                          *)
StartRecovery(t, call) ==
    /\ stored # None
    /\ call \in {"repair", "reset"}
    /\ Start(t, call, {}, None)
    /\ audit' = audit \cup {call}
    /\ UNCHANGED operations

(* Mutant: migrate does not look at the schema again.                      *)
NothingLeft(t) ==
    IF job[t].call \in {"seed", "restore"} THEN stored # None ELSE stored = None

(* What each of them finds stored when it reads, in the loop of seed,      *)
(* migrate and delete each time round: it has nothing (left) to do.        *)
NothingToDo(t) ==
    CASE job[t].call \in {"seed", "restore"} -> stored # None
      [] job[t].call = "migrate" -> stored = None \/ stored.schema # job[t].of.schema
      [] OTHER -> stored = None

JudgeOperated(t) ==
    /\ job[t].phase = "judge" /\ job[t].call \in Operated
    /\ IF NothingToDo(t) THEN Return(t)
       ELSE Set(t, [job[t] EXCEPT !.phase = "commit", !.read = stored])
    /\ UNCHANGED <<stored, plan, operations, minted, sent, changes, feed, answers, audit>>

-----------------------------------------------------------------------------
(* The swap.                                                               *)

(* The incarnation a commit gives the document: its own, or a new one.     *)
Incarnation(t) ==
    CASE job[t].call = "restore" -> Given
      [] job[t].call \in {"seed", "bootstrap", "migrate"} -> minted + 1
      [] OTHER -> job[t].read.incarnation

(* The commit of a request's update, and of a history the service gives    *)
(* the document.                                                           *)
RequestedCommit(t) ==
    LET read == job[t].read
        request == job[t].request
    IN [id |-> request.id, actor |-> request.actor, schema |-> request.schema,
        peers |-> NewPeers(request, read), update |-> request.update,
        accepted |-> request.update \cup (IF read = None THEN {} ELSE read.checkpoint),
        incarnation |-> Incarnation(t)]
GivenCommit(t) ==
    LET read == job[t].read
        history == job[t].history
    IN [id |-> job[t].call, actor |-> System, schema |-> plan,
        peers |-> IF read = None THEN PeersIn(history)
                  ELSE PeersIn(history) \ DOMAIN read.peers,
        update |-> history, accepted |-> history,
        incarnation |-> Incarnation(t)]

(* What a thread offers to store over the envelope it read; None removes.  *)
Candidate(t) ==
    CASE job[t].call \in Requested -> NextEnvelope(job[t].read, RequestedCommit(t))
      [] job[t].call \in Giving -> NextEnvelope(job[t].read, GivenCommit(t))
      [] job[t].call = "repair" -> Repaired(job[t].read)
      [] OTHER -> None

Etag(envelope) == IF envelope = None THEN None ELSE envelope.checkpoint

(* Mutant: the change is announced under the generation it replaced.       *)
ChangeOfRead(t) ==
    [call |-> job[t].call,
     generation |-> IF job[t].read = None THEN 1 ELSE job[t].read.generation,
     incarnation |-> Incarnation(t),
     before |-> Etag(job[t].read), after |-> Etag(Candidate(t))]

(* The change as it is announced.                                          *)
Change(t) ==
    LET envelope == IF Candidate(t) = None THEN job[t].read ELSE Candidate(t)
    IN [call |-> job[t].call, generation |-> envelope.generation,
        incarnation |-> envelope.incarnation,
        before |-> Etag(job[t].read), after |-> Etag(Candidate(t))]

(* Mutant: a document that is created need not be absent still.            *)
UnmovedOrNew(t) == job[t].read = None \/ stored = job[t].read

(* compare_and_swap and compare_and_remove of the storage port: the stored *)
(* envelope is replaced if it is still the one that was read.              *)
Unmoved(t) == stored = job[t].read

Swap(t) ==
    /\ job[t].phase = "commit"
    /\ Len(changes) < MaxChanges
    /\ Unmoved(t)
    /\ Candidate(t) # None => ValidEnvelope(Candidate(t))
    /\ stored' = Candidate(t)
    /\ minted' = IF Incarnation(t) = minted + 1 /\ Candidate(t) # None
                 THEN minted + 1 ELSE minted
    /\ changes' = Append(changes, Change(t))
    /\ Set(t, [Idle EXCEPT !.phase = "announce", !.call = job[t].call,
                           !.request = job[t].request, !.change = Len(changes) + 1])
    /\ UNCHANGED <<plan, operations, sent, feed, answers, audit>>

(* Mutants: the attempt is counted twice; the new envelope is not judged.  *)
StaleCountedTwice(t) ==
    /\ job[t].phase = "commit"
    /\ ~Unmoved(t)
    /\ Set(t, [job[t] EXCEPT !.phase = "judge", !.read = None, !.attempt = @ + 2])
    /\ UNCHANGED <<stored, plan, operations, minted, sent, changes, feed, answers, audit>>
StaleUnjudged(t) ==
    /\ job[t].phase = "commit"
    /\ ~Unmoved(t)
    /\ Set(t, [job[t] EXCEPT !.read = stored,
                             !.phase = IF stored = None THEN "judge" ELSE "commit"])
    /\ UNCHANGED <<stored, plan, operations, minted, sent, changes, feed, answers, audit>>

(* Another writer came first: an import tries again until its attempts are *)
(* spent, a repair gives up, and the others read again.                    *)
Stale(t) ==
    /\ job[t].phase = "commit"
    /\ ~Unmoved(t)
    /\ \/ /\ job[t].call \in Requested /\ job[t].attempt + 1 = Attempts
          /\ Refuse(t)
       \/ /\ job[t].call \in Requested /\ job[t].attempt + 1 < Attempts
          /\ Set(t, [job[t] EXCEPT !.phase = "judge", !.read = None, !.attempt = @ + 1])
          /\ UNCHANGED <<answers, audit>>
       \/ /\ job[t].call = "repair"
          /\ Return(t)
          /\ UNCHANGED <<answers, audit>>
       \/ /\ job[t].call \in Operated \ {"repair"}
          /\ Set(t, [job[t] EXCEPT !.phase = "judge", !.read = None])
          /\ UNCHANGED <<answers, audit>>
    /\ UNCHANGED <<stored, plan, operations, minted, sent, changes, feed>>

(* The change is announced, and then the caller is answered.               *)
Announce(t) ==
    /\ job[t].phase = "announce"
    /\ feed' = feed \cup {job[t].change}
    /\ Return(t)
    /\ IF job[t].call \in Requested
       THEN Answer(t, job[t].change, job[t].request.update)
       ELSE UNCHANGED answers
    /\ UNCHANGED <<stored, plan, operations, minted, sent, changes, audit>>

(* A call ends without an answer: the storage port failed, before or after *)
(* its write took effect, a refusal could not be audited, validate_envelope *)
(* found the candidate corrupt, or the process stopped.                    *)
Abandon(t) ==
    /\ job[t].phase # "idle"
    /\ Return(t)
    /\ UNCHANGED <<stored, plan, operations, minted, sent, changes, feed, answers, audit>>

(* The service is started again with a plan of the next schema version.    *)
Upgrade ==
    /\ \A t \in Threads : job[t].phase = "idle"
    /\ plan < MaxSchema
    /\ plan' = plan + 1
    /\ UNCHANGED <<stored, operations, minted, sent, job, changes, feed, answers, audit>>

-----------------------------------------------------------------------------

(* Nothing is stored yet, or a history of another store, made by a         *)
(* principal's session there or by that store itself.                      *)
Restored ==
    NextEnvelope(None, [id |-> "restore", actor |-> System, schema |-> 1,
                        peers |-> PeersIn({1}), update |-> {1}, accepted |-> {1},
                        incarnation |-> Given])

Init ==
    /\ plan = 1
    /\ \E author \in Principals \cup {System} :
          operations = <<Made(SessionPeer(author), "merge", {}, None)>>
    /\ minted = 0
    /\ sent = {}
    /\ job = [t \in Threads |-> Idle]
    /\ \/ stored = None /\ changes = <<>> /\ feed = {}
       \/ /\ stored = Restored
          /\ changes = <<[call |-> "restore", generation |-> 1, incarnation |-> Given,
                          before |-> None, after |-> {1}]>>
          /\ feed = {1}
    /\ answers = [i \in Ids |-> None]
    /\ audit = {}

ClientNext ==
    \E actor \in Principals, id \in Ids :
        \/ SubmitImport(actor, id) \/ SubmitRebased(actor, id)
        \/ SubmitBootstrap(actor, id)
        \/ SubmitEdit(actor, id) \/ SubmitText(actor, id)

ImportNext(t) ==
    \/ \E request \in sent : Deliver(t, request)
    \/ PrepareEdit(t) \/ PrepareText(t) \/ JudgeImport(t)

OperatorNext(t) ==
    \/ StartSeed(t) \/ StartRestore(t) \/ StartMigrate(t)
    \/ StartDelete(t) \/ \E call \in {"repair", "reset"} : StartRecovery(t, call)
    \/ JudgeOperated(t)

CommitNext(t) == Swap(t) \/ Stale(t) \/ Announce(t) \/ Abandon(t)

Next ==
    \/ ClientNext
    \/ \E t \in Threads : ImportNext(t) \/ OperatorNext(t) \/ CommitNext(t)
    \/ Upgrade

Spec == Init /\ [][Next]_vars

-----------------------------------------------------------------------------
(* Properties.                                                             *)

(* Every variable holds what its declaration says.                         *)
TypeOK ==
    /\ stored \in Envelopes(Peer) \cup {None}
    /\ stored # None => /\ stored.schema <= plan
                        /\ Len(stored.retained) <= RetainedOperations
    /\ plan \in 1..MaxSchema
    /\ operations \in Seq(Operations)
    /\ Len(operations) <= MaxOperations
    /\ minted \in Nat
    /\ sent \subseteq Requests
    /\ job \in [Threads -> Jobs(Peer)]
    /\ changes \in Seq(Changes)
    /\ Len(changes) <= MaxChanges
    /\ feed \subseteq DOMAIN changes
    /\ answers \in [Ids -> {None, Refused} \cup Answers]
    /\ audit \subseteq Ids \cup {"repair", "reset"}

(* No commit is lost to the validation of its own envelope: what           *)
(* next_envelope builds over a valid envelope, compaction, schema changes  *)
(* and repairs included, is an envelope validate_envelope accepts.         *)
CommitsValid ==
    \A t \in Threads : job[t].phase = "commit" /\ Candidate(t) # None
        => ValidEnvelope(Candidate(t))

(* The operations an `edit` was written as were written against nothing    *)
(* but the document whose etag its caller named, though the service        *)
(* prepares them from a read of its own before the fence is judged.  While *)
(* the document is not removed (an etag names the content, and a document  *)
(* created again comes to the same etags again) they were written against  *)
(* the whole of it, and one etag is moved on from by one edit only,        *)
(* however often it is retried.                                            *)
NeverRemoved == \A k \in DOMAIN changes : changes[k].call \notin {"delete", "reset"}
EditFromFence ==
    stored # None =>
        \A n \in {m \in stored.checkpoint : operations[m].fence # None} :
            /\ operations[n].deps \subseteq operations[n].fence
            /\ NeverRemoved =>
                  /\ operations[n].deps = operations[n].fence
                  /\ \A m \in stored.checkpoint :
                        operations[m].fence = operations[n].fence => m = n

(* No change between two of the changes gave the document a new history.   *)
SameHistory(from, to) ==
    \A k \in from + 1..to : changes[k].call \notin {"migrate", "delete", "reset"}

(* What an import was acknowledged for, as accepted or as a duplicate, is  *)
(* in the stored document for as long as its history is.                   *)
AcknowledgedIsStored ==
    \A id \in {i \in Ids : answers[i] \notin {None, Refused}} :
        SameHistory(answers[id].change, Len(changes))
        => stored # None /\ answers[id].update \subseteq stored.checkpoint

(* The envelope retains each operation id once, and only operations its    *)
(* checkpoint holds.                                                       *)
RetainedOnce ==
    stored # None =>
        LET retained == stored.retained
        IN /\ \A i, j \in DOMAIN retained : retained[i].id = retained[j].id => i = j
           /\ \A i \in DOMAIN retained : retained[i].update \subseteq stored.checkpoint

(* Envelopes stay sound: each one a commit builds is valid, and the one    *)
(* stored retains every operation id once, with what its checkpoint holds. *)
EnvelopesSound == CommitsValid /\ RetainedOnce

(* A thread waits no longer than others make progress: an import counts    *)
(* an attempt as lost only to a change made since it was delivered.        *)
ContentionIsReal ==
    \A t \in Threads : job[t].attempt <= Len(changes) - job[t].since

(* Every refusal a caller was given, and every repair and reset made, is   *)
(* on the audit record.                                                    *)
Audited ==
    /\ \A id \in Ids : answers[id] = Refused => id \in audit
    /\ \A k \in DOMAIN changes : changes[k].call \in {"repair", "reset"}
          => changes[k].call \in audit

(* The changes a listener of the feed takes for the latest when it orders  *)
(* them by generation, a deletion after the commit it removed.             *)
Latest(heard) ==
    {k \in heard : \A j \in heard :
        \/ changes[j].generation < changes[k].generation
        \/ /\ changes[j].generation = changes[k].generation
           /\ changes[j].after = None => changes[k].after = None}

(* A listener that heard every change, in any order, and orders them by    *)
(* generation has the stored document, or its deletion, unless the document *)
(* was created again: its generations start again then.                    *)
CreatedAgain == \E k \in DOMAIN changes : changes[k].after = None /\ k < Len(changes)
ListenersSettle ==
    feed = DOMAIN changes /\ ~CreatedAgain =>
        \A k \in Latest(feed) : changes[k].after = Etag(stored)

(* What happens when thread t's swap takes effect.                         *)
Swapped(t) == job[t].phase = "commit" /\ job'[t].phase = "announce"

(* No import is committed over a document it conflicts with: the explicit  *)
(* field, the fence and the author of every peer are judged against the    *)
(* envelope that is replaced, not one read earlier.                        *)
NothingOverwritten ==
    [][\A t \in Threads :
          Swapped(t) /\ job[t].call \in Requested /\ stored # None =>
              LET request == job[t].request
              IN /\ ~PolicyConflict(request.base, request.update, stored.checkpoint)
                 /\ request.fence \in {None, stored.checkpoint}
                 /\ \A n \in request.update \ stored.checkpoint :
                       stored'.peers[operations[n].peer] = request.actor
      ]_vars

(* A migration replaces the very document it was made from: nothing        *)
(* accepted after the caller read it is dropped.                           *)
MigrationLosesNothing ==
    [][\A t \in Threads :
          Swapped(t) /\ job[t].call = "migrate" => stored.checkpoint = job[t].of.checkpoint
      ]_vars

(* A peer stays bound to its principal while the document exists, through  *)
(* commits, compaction, repairs and migrations.                            *)
BindingsKept ==
    [][stored # None /\ stored' # None =>
          \A p \in DOMAIN stored.peers :
              p \in DOMAIN stored'.peers /\ stored'.peers[p] = stored.peers[p]
      ]_vars

(* The store implements AcceptedHistory.                                   *)
Accepted ==
    INSTANCE AcceptedHistory WITH
        document <- IF stored = None THEN None
                    ELSE [incarnation |-> stored.incarnation,
                          operations |-> stored.checkpoint]
HistoryAccepted == Accepted!Spec

=============================================================================
