# A verification project for clerkenwell

clerkenwell keeps collaborative documents: clients edit a document as a CRDT
(Loro), a store accepts or refuses each edit, and projections of what is stored
are sent to whoever subscribed. This directory models the parts of it whose
correctness depends on the order in which threads, messages and failures come.

## The system's parts

| part | source | state | operations |
| --- | --- | --- | --- |
| Residency | `crates/clerkenwell-store/src/residency.rs` | the documents held in memory by storage source, each with the port's stamp, a replica and a materialised value; two gauges | `get`, `hold`, `forget`, `inherit`, `restamp`, `offer`, drop |
| Collaboration store | `crates/clerkenwell-store/src/lib.rs`, `envelope.rs`, `version.rs`, `peers.rs` | per document one durable envelope: incarnation, schema, generation, sequence, checkpoint, retained operations, bound peers; the audit log | `import`, `edit`, `edit_text`, `bootstrap`, `bootstrap_update`, `migrate`, `repair`, `reset`, `delete`; reads and inspection |
| Change feed | `crates/clerkenwell-events` | the listeners | `listen`, `announce` |
| Replica | `crates/clerkenwell-doc` | a Loro document and its plan; the document its next edit is written against | a document to operations and back, import and export of updates, frontiers, text at a frontier, conflict policy |
| Recovery | `crates/clerkenwell-store/src/lib.rs`, from `inspect` on; `CollaborationStores` | stored bytes, the evidence preserved, the audit log, the services registered by name | `inspect`, `verify`, `export_for_recovery`, `quarantine`, `repair`, `reindex`, `reset`, the audit and its retention |
| Session server | `crates/clerkenwell-session` | subscriptions with their revision and what was delivered, the registry of projections, authoring states | subscribe, publish a modification, resynchronise, deliver authoring changes |
| Axum server | `crates/clerkenwell-axum` | connections, the queue of publications, the shutdown lifecycle | admit, mutate, command, publish, shut down |
| Operations | `crates/clerkenwell-ops` | none | maps requests to store calls and errors to refusals |
| Authoring client | `clients/typescript/client/src/authoring-*.ts` | per resource a session (status, baseline, draft, queued operations, recorded operations), its live replica, the persisted snapshot | edit, queue, send, acknowledge, reject, adopt, discard, disconnect, restore, replace the history |
| Projection client | `projection-*.ts`, `materialize.ts`, `rpc-socket.ts` | watches by subscription, the socket and its generation | watch, reconnect, apply patches |
| Code generator | `crates/clerkenwell-codegen` | the artefacts on disk | load, expand, validate, render, write or check |
| Schema | `crates/clerkenwell-schema` | none | the plans and typed wrappers generated code uses |

Nothing in the store takes a lock across a call. A call reads the stored
envelope (through the residency), judges its request against it, and swaps the
next envelope in if the stored one still has the version it read; then it
announces the change on the feed, on its own thread. The session server listens
to the feed and sends what changed to its subscribers.

What is hard here: the read is served from memory while a stamp vouches for it;
requests are delivered again after lost answers; the version a request was
judged against may be replaced before the swap; retained operations, by which a
retry is recognised, are compacted away, dropped by a repair or emptied by a
schema change; a document may be deleted and created again under the same name;
changes are announced out of order. On the server, a modification is saved,
published and taken by each connection at different moments, a connection that
falls behind skips publications and takes snapshots instead, and a shutdown waits
for commands whose callers must still be answered. A client follows a document
whose changes are announced out of order, over connections that are lost, by
updates that each suppose what it holds. In storage, bytes may be damaged while
the service runs, and operators inspect, preserve and repair them while others
commit. In a replica, a document is written as the difference from another and
merged with what others wrote; a conflict policy judges three documents and not
the operations. The generator checks by rule what its readers will rely on by
meaning: that schemas, fixtures and replica types fit each
other. `PROJECT.json` lists these hazards at their lines.

## Modules

### Residency

One storage source and any number of threads. `log` is every content the source
has had (the port's stamp is its length), `heap` the `Resident` values
allocated, `held` the map's entry, `gauge` the counter `resident_documents`; per
thread the locals of `resident`, `swap` and `remove` with a program counter.
Each lock region and each port call of the code is one action, and they
interleave freely:

| action | code |
| --- | --- |
| `Get`, `Stamp`, `Serve`, `NotVouched` | `resident`, up to the test of the stamp |
| `ReadNothing`, `ReadHeld`, `ReadOther`, `ReadCorrupt`, `Restamp` | `resident`, the read and what becomes of it |
| `Hold`, `TakeOver`, `Count` | `Residency::hold`: the insertion, `inherit` with the count down, the count up |
| `Forget` | `Residency::forget`, which counts before its lock is released |
| `Build`, `Offer` | `Resident::replica`, `Resident::offer` |
| `ReadBytes`, `Swap`, `Remove`, `Finish` | what callers do with the document they read |
| `PortFails`, `BypassingWrite`, `Reopen` | an error of the port, a writer outside the service, the last clone dropped |

A version is the content it names, so bytes that return to an earlier content
have the earlier version, while a stamp never recurs.

### CollaborationStore

One document. An operation of the CRDT is a number with the peer it was made
under, the field it writes (one whose conflicts are explicit, or one that
merges) and what its writer held; updates, checkpoints and frontiers are sets of
operations. `job` is what each thread is doing, in phases that end where the code
reads or writes shared state: `prepare` (the read of `edit` and `edit_text`),
`judge` (the read of one attempt and every check on it, in the code's order),
`commit` (the swap) and `announce`. A read is one step: `Residency` justifies it.
`sent` keeps every request ever submitted, and `Deliver` may deliver any of them
again at any time. `Abandon` ends a call at any phase, as a storage error, a
failed audit or a stop of the process does.

`changes`, `feed` and `answers` are history variables for the properties, and
`audit` the audit log.

### AcceptedHistory

What the store promises: the operations of an incarnation only grow, and a
different history comes under an incarnation minted for it or, when restored
from another store, given with it. `HistoryAccepted` states that the store
implements it, with `document <- [incarnation, checkpoint]` of the stored
envelope.

### ProjectionServer

The server of `clerkenwell-axum` over the session crate. Each connection is a
task in a `select` loop (`phase`), with its place in the broadcast channel
(`next`), its subscriptions (`subs`: what the snapshot held, the revision, the
patches made since), its commands to be answered (`running`, `ran`) and the
frames it has yet to send to its client (`frames`), without which it is not at its
`select` again (`Idle`). The
publications are one sequence; a receiver `Window` behind has lost what it has
not taken. Between any two of its awaits the others save and publish:

| action | code |
| --- | --- |
| `ApplicationSaves`, `ApplicationPublishes` | `ProjectionServer::mutate` and `announce` outside a connection: the number is taken when saved, the publication is later |
| `StartCommand` ... `CommandEnds` | `start` and the task it spawns: permit, host, publication, then the count |
| `AdmitSubscribes`, `AdmitCounts` | `admit`: the receiver first, then the count, which a stopping server refuses |
| `Subscribe`, `Resync`, `Unsubscribe`, `MutateSaves`, `MutateResponds`, `MutatePanics` | the requests of a connection |
| `TakeChange`, `TakeOwnCommand`, `TakeClosing` | `take` and the arm of `serve_admitted` it is in |
| `LagSkips`, `LagResyncs`, `LagAnswers` | the lagged arm: a new receiver, `resync_all`, `answer_skipped` |
| `SendFrame`, `Closes` | the awaits of `sink.send`: a frame, and the close frame after every other |
| `Break`, `ShutDown`, `Close` | the end of a connection, before or while a frame is sent; `shut_down` and the task it spawns |

A request that changes nothing is no action. Every modification touches every
projection, the case in which most can go wrong. `saved` is the host's counter,
and a snapshot holds every modification saved by then, as the host's contract
(`ProjectionHost::snapshot`) says. A frame keeps what the properties tell apart:
that it answers a command, or the modifications it brings. The answer to a
command goes ahead of the updates its result brings (`take`), as the test
`a_command_answers_its_caller_then_patches_its_own_connection` has it.

### AuthoringSession and AuthoringRuntime

One authored resource of a TypeScript client. `AuthoringSession` has the
transitions of `authoring-state-machine.ts`, each a function of the session, and
`AuthoringRuntime` the operations of `authoring-runtime.ts` over them: `session`,
`controller` (the replica, the accepted state it has taken, whether it holds a
draft it could not take), `disk` (what `toPersistedRuntime` keeps of the session
at each publish), and around them the store's accepted state and the calls on
their way. An edit is an abstract change; a replica is a set of operations, each
writing or removing one copy of an edit, so an edit made twice shows twice, and
a document written into a replica (`replaceDraft`) removes what it does not show.

| action | code |
| --- | --- |
| `Open`, `Attach`, `ReplaceController`, `Detach` | `open`, `ensureController`, `replaceHistory`, `detachController` |
| `Edit`, `Type` with `SyncDraft`, `ConfirmStage` | `modify`; a bound text edit and the microtask that brings it into the draft; a staged branch |
| `QueueSave`, `Send`, `Accepted`, `Rejected`, `CallFails` | `queue`, `beginReplay`, and what a call's end does: `adoptAccepted` with `acknowledgeIfQueued`, `rejectIfQueued` |
| `Arrives` | `adoptAccepted` of a state another writer left |
| `Supersede`, `BlockSession`, `DiscardChanges`, `Remove` | the operations of those names |
| `Disconnect`, `Reconnect`, `Restart` | the connection; the page closed and opened on the persisted snapshot |
| `StoreAccepts`, `StoreRefuses`, `RemoteEdit`, `Reseed` | the store, as the client meets it |

Every action is one turn of the event loop. What the application does around the
runtime is as the repository's tests do it: a call is sent and settled with the
replica attached, a blocked session is resolved by a discard or a replaced
history. Several calls may be in flight, but the acceptance of one is taken before
the refusal another met later, when the store had replaced the history
(`InOrder`). `Liberties` lets it do more: `authoring_disconnects` uses one.

### DocumentWatch

A client's watch of the authoring state of one document, over the whole path:
the store's changes and their announcements, the connection's task with its
subscriptions, the frames of both directions, and `watchProjection` of
`projection-subscription.ts`. The document's history is a chain, and a token
`[born, last]` stands for what an `AuthoringHeld` names; `replica` is the set of
operations the application took.

| action | code |
| --- | --- |
| `Create`, `Commit`, `Delete`, `Announce` | `commit`, `delete`; `announce` by the thread that made the change, later |
| `ServeSubscribe`, `ServeResync`, `ServeUnsubscribe` | the requests, with what `AuthoringStates::state` reads of the store |
| `TakeChange`, `Lag` | `deliver_change`, `resync_all` |
| `Connect`, `Disconnect`, `Dispose` | the socket's events and the end of the watch |
| `AskResync`, `RequestResync` | `resync`: it subscribes where there is no subscription, and asks once there is one |
| `TakeEvent`, `TakeResponse`, `Resume`, `ResumeDisposed`, `TakeEarly` | the watch: events before the answer, the answer, and the continuation after its `await` |

One task serves a connection, so what it reads of the store and what it does to
its subscriptions is one step. An update that cannot be encoded is not sent
(`Frames`), which the client notices at the next; a state that cannot be read, or
an update that cannot be built, is passed over (`Skipped`) and leaves the
subscription as it was, so that the next starts from there, or refuses the
request (`Refuses`). `unsent` counts them all, and says whether the last update
that was due is one.

### Recovery

The stored bytes of a few documents (`kept`, with their version), what is held
in each service's residency (`held`), the evidence and the audit. `Damage` is
what goes wrong outside the service: torn bytes, another format, another
document's envelope, an envelope with one part that does not fit. Every call of
`clerkenwell-ops` on documents and recovery runs on a thread in the steps its
code takes on the storage port: `ReadToRepair`, `Preserve`, `SwapRepaired` for a
repair, `ReadToReset`, `Remove` (and again, `TryAgain`) for a reset, a source at
a time for a listing (`ListNext`, `InspectNext`, `EndOfSources`), `LookUp` and
`Insert` for `store_or_register`. `Fail` ends any of them with a storage error.
A commit is one attempt; its judgement and retries are `CollaborationStore`'s.
A store starts with one document of the plan's schema or, where the plan has an
earlier schema (`Plan > 1`), with its first document of that one: no store holds
envelopes of schema 0. The marks `None`, `Torn` and `OtherFormat` are told apart
from all that is stored (`MarksAssumption`), and an envelope is misfiled only
where there is another place (`PlacesAssumption`).

### Documents and Replica

`Documents` has the algorithms of `clerkenwell-doc` on one document: a slot is a
field with the identities of the records around it, a document a function from
the slots it holds to their values. `WriteDocumentChanges` turns the difference
of two documents into a change (registers set, elements added and removed), and
`Materialized` reads a set of changes back, completing required members and
leaving out empty optional ones; `ConflictingFieldPaths` and
`CreationConflictingFieldPaths` are the conflict policy. What a set of changes
amounts to (the last register, the elements not removed) is Loro's and external.

`Replica` has writers of different kinds, in the run two, and the store they
exchange changes with: `NewDocument`, `ReplaceDocument`, `Follow` on the writers'
side, `Accept` and `Refuse` by the policy, `PrepareText` at a captured frontier and
`PublishText` later. Of a plan it assumes what the generator's types say
(`PlanAssumption`), that no key has the name of the mark that a map is present
(`KeysAssumption`; the code keeps that mark in a container of its own), and that
writers are numbered from one (`WritersAssumption`).

### Schemas, Contracts, Fixtures and Generator

The code generator, bottom up. `Schemas`: which JSON Schemas it takes, how it
imports others, the documents it writes and the samples it makes; `Validates` is
the reference, what a schema's values are. `Contracts`: composing, expanding and
checking a definition. `Fixtures`: the two corpora, the types of a replica's
document, and `materialize.ts`, which the corpora are held against. `Generator`:
runs that load, render and then write or check artefact after artefact
(`Generate`, `Skip`, `Report`, `Write`, `Finish`), while the definition is
edited (`Edit`), artefacts are tampered with (`Tamper`) and runs break off
(`Break`). The pure algorithms are evaluated on every definition of
`MCGenerator`: pairs of member schemas of an open object, other schemas,
imported bundles, projections of every strategy, and a collaborative entity with
its members required or not and its declarations perturbed one at a time.

Numbers are counted in halves, so that a bound need not be an integer, and
`Int64` stands for 2^63. A text is its name and its length.

### MC modules

`MCReplica` gives a plan (a board of cards) and `MCGenerator` the definitions;
`MCAuthoringRuntime` and `MCRecovery` add a symmetry set, `MCResidency`, `MCCollaborationStore`
and `MCProjectionServer` symmetry sets, and views that
leave out what no action and no property of the run reads: the names of slots,
contents older than every read in progress, operations nothing refers to.

## Runs

| run | what it shows |
| --- | --- |
| `residency` | reads are current, the vouched document is the stored one, replicas match, the gauge settles |
| `store_imports` | acknowledged imports are stored; conflicts are judged against what is replaced; attempts are lost only to progress; a listener settles, until the document is created again |
| `store_edits` | an edit is written against nothing but the document it is fenced on, under retries, repairs, deletions and migrations, and until a deletion against all of it and once; every envelope built is valid; bindings survive; a migration drops nothing |
| `store_lifecycle` | the store implements `AcceptedHistory`; refusals and resets are audited |
| `server_updates` | a subscription is sent each modification after its snapshot, once, also across a lag; a caller reads what was announced while its command ran before the answer, and what its result names after it; a connection the server closes was sent every answer |
| `server_liveness` | every command is replied to, and every shutdown ends but for connections whose clients do not read; with clients that read, answers are sent and shutdowns end; with failing snapshots and panicking hooks |
| `authoring` | through saves, refusals, retries, restarts and replaced histories: an author's edit is stored or in the draft, is stored at most once, and no save undoes another writer's edit; draft, replica and recorded operations agree; an operation being sent has a call behind it |
| `authoring_disconnects` | finding: a second disconnection makes a pending draft one nobody keeps |
| `document_watch` | no update supposes operations the client lacks; once everything announced has arrived the client holds the stored state, unless the last update due to it failed; an ended watch leaves no subscription behind |
| `recovery` | damaged bytes are not replaced by a commit; a repair replaces what it preserved and mends what it can; commits survive repairs; the audit has every recovery; listings overlook nothing and say truly that there are more; refusals are true; a reset removes |
| `replica` | a document reads back as written; histories stay one; what is accepted is valid; text nobody saw is not removed; a judged merge gives each field its writer's value or the accepted one, unless a side set it back |
| `generator` | a run tells the truth about what it leaves; a definition that renders has fitting open objects, imports and documents of the same values, valid fixtures, patches that apply, replica types that take every document |

Where one question has several parts, a run checks their conjunction and the
parts keep names of their own: `EnvelopesSound` (`CommitsValid`, `RetainedOnce`),
`UpdatedOnce` (`SentOnce`, `TakenIsHeld`, `NothingMissed`), `SessionAgrees`
(`DraftIsReplicas`, `RecordedIsDraft`, `SendingAwaited`), `AnswersAreTrue`
(`RefusalsAreTrue`, `ResetRemoves`, `NoneOverlooked`, `AuditTells`),
`AcceptedWhole` (`OneHistory`, `AcceptedValid`), `SchemasHold`
(`OtherMembersFit`, `ImportsKeepValues`, `DocumentsDenote`), `FixturesHold`
(`FixturesAreValues`, `CasesApply`) and `RunsTell` (which has `WholeDefinitions`).
Each module has a type invariant `TypeOK`. That of `Residency` is checked and
proved, those of `CollaborationStore`, `ProjectionServer`, `DocumentWatch` and
`Recovery` proved; the others hold on the same instances, where a run can be asked for them by adding
`INVARIANT TypeOK`.

### Bounds

`residency`: two threads, two checkpoints, generations to 2 and two writes,
enough for a stamp to be overtaken between any two steps of a read and for a
document to be replaced, corrupted, removed and created. `GaugeModulus` stands
for 2^64: wide enough that a wrapped counter cannot be taken for a real one.
Six slots are one more than two threads can refer to.

The store runs have two threads and up to two requests, three operations and
three or four changes: a request can be judged, lose its swap, be judged again,
be answered, be compacted and be delivered once more. The calls are split over
three runs, each with the calls that interact; `restore` is in all of them, so
that a document exists. `store_imports` has deletions and three changes: an
import is committed, its document removed and created again, and what was
acknowledged, bound or announced of the first is met in the second.
`store_edits` has a plan of two schema versions and three changes: an edit, a
migration and what races with them.

The server runs have two connections with one subscription each, two
modifications, one command and a window of two (one connection, two commands and
a window of one for liveness, where the cost is in the graph's cycles): a
connection falls behind while another mutates, a command announces and returns,
and the publication that answers it is skipped or arrives during the
resynchronisation. `server_updates` has no faults; `server_liveness` has both
kinds, so every action fires in one of the two. The view drops what no guard and
no property reads: revisions, of the publications every connection has passed all
but their modifications, and what is left behind by connections that ended.

The `authoring` run has two edits, both the author's or one of them another
writer's, up to two copies of each, and three events, which are histories of the
store and operations queued: two operations in one history, or one in each of
two. That is enough for an edit to be made while the save of another is on its
way, for an operation to be accepted with its answer lost, sent again beside a
second one, and for a draft to meet a store that holds it already, in part, or
under another history. The properties were also checked once with one edit of
each kind, three copies and four events (19 million states), which is more than a
run should take. Both kinds of controller occur: those that take a
document and those that take operations only. Of the blocks the application may
set, `dependencyBlocked` stands for the ones whose draft may not change (the code
treats them alike) and `policyConflict` is the one whose draft may.

`document_watch` has four changes by two threads, two connections, one
resynchronisation asked for, one update that cannot be read, built or encoded and a window of two:
a document is created, deleted and created again, announced in any order, behind
a connection that lags or is lost. `recovery` has two threads, two documents (one
is called on, both are listed), two calls and one fault, of three kinds that
are refused at different places: bytes that do not decode, another document's
envelope, a retained operation that does not fit (`RecoveryProofs` has them all).
Two calls and a fault are every pair of calls racing, around damage at any
moment. `replica` has four edits and text operations, of one member each and one text
operation at most, by a user and an agent on a title the agent may not change and cards
with a status and a text in each. A judged merge that goes wrong takes four edits: one both writers start
from, two of one writer that set a field and set it back, and the other's on
what it was; and four are enough for an edit, one that races with it and one that
merges both, while text prepared before is published after. Checked once besides,
and more than a run should take: five edits without the text, and three on two
cards that are moved. `generator` has 342 definitions, two runs, one edit and one tampering.

Deadlock is not checked in the runs from `server_updates` on: once everything is
saved, published and closed, or the bounds are reached, nothing is left to do.

### Fairness

`FairSpec` of `ProjectionServer` is weak fairness of each connection's own steps
(not of requests, which nobody need make), of each command's task from the
host's return on, of the admission of a connection and of the task that
publishes the closing. tokio polls every task that is ready; the `select!` of a
connection picks a ready branch at random, so a publication is not passed over
for ever; a host that never returns would hold its command for ever and is
excluded. It is not assumed that a client reads: `sink.send` has no limit of time
(axum `lib.rs:676`), so `SendFrame` and `Closes` are not in `FairSpec`, and a
client that stops reading holds its connection, its answers and a shutdown for
ever; the doc of `shut_down` (`lib.rs:513`) leaves bounding that wait to the
application. `CommandsAnswered` and `ShutDownEnds` say what holds all the same,
and what holds while a client reads (`Reads`, the hypothesis of their other part).
Nothing else assumes fairness.

### Divergences seen and not run

- `Residency::hold` counts after its lock is released, so the unsigned
  `resident_documents` may wrap for a moment while two holds overlap. The proved
  type is modulo `GaugeModulus`, and `GaugeSettles`, proved
  too, says it is right when no hold is under way.
- A patch hook that panics after its mutation was saved leaves the modification
  unpublished (`receive`, axum `lib.rs:887`): `MutatePanics` is in the model, and
  `NothingMissed` is checked without it.
- A retained operation is answered with the document as it is now
  (`lib.rs:1666`); the doc of `edit` says "with the result it was accepted with".
- A commit policy with `retained_operations` 0 compacts through `sequence - 1`
  and then fails its own `validate_envelope`: every commit is refused
  (`lib.rs:1162`). The store runs retain at least one.
- A connection's own mutation is delivered before it is published and so ahead
  of publications queued for that connection (`server.rs:945`), while the module
  doc of the axum crate has every connection take them in one order.
- A transition that aligns the replica with the draft, in the turn of a bound
  text edit and before its microtask, takes the edit out of the replica; with
  `Liberties` `{"sameTurn"}` `EditsKept` fails.
- A call that fails while its session is blocked makes it `commitRejected`
  (`authoring-runtime.ts:792`), which a later reconnect replays: a block resolved
  by connectivity. `modify` on a blocked session writes its replica before it
  throws.
- An answer older than the accepted state the replica holds takes baseline and
  accepted frontier back until the next state arrives.
- Generations restart at 1 when a document is created again after a deletion
  (`lib.rs:1176`), while the feed says "a listener orders one document's events
  by generation" (`clerkenwell-events/src/lib.rs:141`): `ListenersSettle` leaves
  a document created again aside (`CreatedAgain`) and fails without that.
- An etag names the content, so a document removed and restored comes to the
  etags it had. An edit prepared from the first one's operations is then taken
  by the fence of the second: it was written against a part of what the fence
  names, and a fence may be moved on from twice (`lib.rs:1381`). `EditFromFence`
  states the whole only until a removal, and beside removals that nothing else
  was written against.
- An update of an authoring state that cannot be read, built or encoded
  (`server.rs:714`, `:718`) is passed over and nobody told: the client stays
  behind until the next change. `CaughtUp` leaves out such a last update.
- Racing recoveries may be on record out of the order of their times: the clock is
  read before the record is appended (`lib.rs:2265`), while the doc of the port
  (`lib.rs:554`) and of the operation (`clerkenwell-ops/src/recovery.rs:146`) has
  the records "oldest first". `AuditTells` says nothing of their order.
- A snapshot that cannot be built in `resync_all` (`server.rs:642`) leaves its
  subscription without what was skipped and nobody told: with `Faults`
  `{"snapshot"}` `NothingMissed` fails.
- `acknowledgeAuthoringOperation` (`authoring-state-machine.ts:166`) takes baseline
  and accepted frontier on also in a session that has stopped for a replaced
  history, whose draft takes nothing, and makes it accept drafts again;
  `rejectAuthoringOperation` says that such a session stays as it is "whatever a
  later rejection says" (`:315`), and overlooks an acceptance. Two saves are in
  flight; the store accepts the first over another writer's edit, is seeded again
  as it is, and refuses the second; the refusal is taken first. The baseline then has
  the other edit and the draft has not. `replaceAuthoringHistory` keeps pending
  edits "when `accepted` is the document they were made from" (`:265`), compares
  with that baseline, and the draft is written over the new history: the next save
  removes the other writer's edit. With `Liberties` `{"overtakes"}` and `MaxEvents` 5
  `OthersKept` fails.
- `discard` goes back to the baseline (`authoring-runtime.ts:832`), and the
  replica, which may hold accepted operations the baseline does not, removes
  them; the next save removes them from the store. With `Liberties`
  `{"discard"}` `OthersKept` fails.
- A snapshot sent after a lag replaces a history the client holds without
  saying so: `resync_all` reads the state for a client that holds nothing, so
  `replaces` is not set, while CHANGELOG.md:498-501 has the server say whether a
  state replaces what was held. The client tells by the history itself.
- A deletion is announced to a subscription though the document was created
  again before (`server.rs:695`), and the new document is sent only with its next
  change: `CaughtUp` leaves out a deletion announced last (`Overtaken`).
- The bytes of another document found at a document's source are judged as the
  envelope they name by a listing (`resident` with no document) and held there;
  a read of the document is then served that envelope without the check of its
  identity that a read of its own makes, and a commit may replace it
  (`lib.rs:978`). `verify` calls such an envelope valid. `FaultsKept` leaves it
  aside.
- A record removed and made again under its identity finds its old containers,
  and optional values it was not given come back; `ReadsBack` leaves such records
  aside. An item moved while another writer removes it comes back.
- A field that is required and has the codec `optionalString` passes the
  validation of a definition and `validate_document`, which asks for a value; an
  empty text is then stored by deleting the key (`substrate.rs:553`), and the
  document reads back without it. `MustsStored`, which `AcceptedIsWhole` supposes,
  leaves out such plans.
- An optional structured list cannot be removed: the edit is refused
  (`substrate.rs:604`) after earlier fields were written into the replica. An
  optional text property that is absent cannot be read back.
- A field unset at the base, set by one writer in a record the other removes, is
  no conflict to the policy, which compares values it finds (`policy.rs:49`). Nor
  is a field that one side set and set back, or whose record it removed and made
  again or moved (`policy.rs:86`): the update is accepted as if the field had not
  changed, and the later write wins the merge, so the field does not end with
  the value the judgement was about. `JudgedMerge` leaves both aside (`SetBack`).
- `check_keyed_sequence_containers` accepts a nested sequence whose identity
  variable has the name of an enclosing one (`validate.rs:832`); records of
  different parents then share a container, which its doc rules out. Distinct
  names do not rule it out either: `resolve_template` (`substrate.rs:851`) puts
  the text of the identities into the template, so with `tags.{card}.{tag}` the
  records `a`, `b.c` and `a.b`, `c` share a container, and `validate_sequence`
  (`substrate.rs:349`) takes both. That records have containers of their own is
  therefore not among the properties; in `Documents` each has. Two fields with one
  container and key, and templates with unknown variables, are accepted too.
- `collect_collaboration_schema_paths` and the sampling of a schema do not end on
  one that requires itself (`validate.rs:1012`, `fixtures.rs:495`).
- `scalar_update_value` returns the sample itself where the schema lists a single
  value (its doc: "other than its sample value"); `collaboration_fixture_value`
  looks at neither bounds nor `const`; the fixture identity is a text whatever
  the type of the identity field.
- An `update` whose target the snapshot may leave out has a fixture case the
  client refuses to apply; `CasesApply` leaves it out. A snapshot with a property
  `kind` overwrites the kind of its own reset patch.
- `change_revision` is past the revisions of the subscriptions there are, not
  past every revision the connection was ever sent.

## Proofs

Each module of proofs extends the module it is about; every theorem is for all
values of the constants its assumptions admit. An invariant a run checks is
seldom inductive: the invariants below are what had to be added, and each was
checked with TLC on the run's instance before it was proved.

### ResidencyProofs

`TypeOK`, `ReadsCurrent`, `VouchedIsStored`, `ReplicaOfEnvelope` and
`GaugeSettles` (`GaugeIsRight`) for any finite set of threads and slots, any
checkpoints and any bounds, from the assumptions of `Residency` (more slots than
can be referred to; `None` is no value of another kind). `ReadsCurrent` is not inductive. The invariant `IInv` adds:

- `HeapStamps`: the content of a resident was stored at some moment since its
  stamp was the port's, so a stamp that is still the port's vouches for what is
  stored, whichever thread wrote it and however late;
- `ThreadStamps`: a thread's stamp was taken after its read began, and at
  `restamp` what it read was stored since;
- `PlacesOK`, `ResultsOK`, `LiveOK`: what a thread's locals are at each place,
  that its result is its resident's content, and that what is referred to is an
  envelope.

`GaugeSettles` rests on an invariant of its own, `Owed`: the counter and the number
of holds still to count are, but for whole turns of the word, the number of
documents held. A hold that replaced a document owes a step down and then one up,
one that replaced nothing a step up.

There is one lemma per action; `NewSlotIsFree` shows by counting that an
allocation never reuses a resident some thread refers to.

### CollaborationStoreProofs

For any number of threads, principals, requests, operations, changes and schema
versions, every set of calls and every number of attempts; `None` and `Refused`
are no values of another kind.

| theorem | states | by the inductive invariant |
| --- | --- | --- |
| `TypeCorrect` | `TypeOK` | `TypeInv`: also, every history named anywhere is of operations made, and a job has at each phase what the next one uses |
| `AcknowledgedStays` | `AcknowledgedIsStored` | `Acknowledged`: what a thread is about to announce is held as well as what was answered |
| `NothingIsOverwritten` | `NothingOverwritten` | `Judgements`: what an import was judged by holds of the envelope it read, which the swap finds stored |
| `ContentionIsProgress` | `ContentionIsReal` | `LosesToChanges`: a read that is out of date has a change behind it already |
| `StoreImplementsHistory` | `HistoryAccepted` | `Minted`: no incarnation is above those minted, so no commit passes for a new history |
| `EnvelopesStaySound` | `EnvelopesSound` | `RetainedOnce` and `Sound`: what is stored, and what any thread read, is valid |
| `BindingsAreKept` | `BindingsKept` | `TypeInv` suffices |
| `MigrationsLoseNothing` | `MigrationLosesNothing` | `MigratesWhole`: while a migration runs the stored document has left the schema it was read at, or is what was read |
| `RefusalsAreAudited` | `Audited` | `RecordedFirst`: a repair or reset is on record from its start |
| `ListenersConverge` | `ListenersSettle` | `Numbered`: until a removed document is created again, the k-th change has generation k |

A step is a swap or quiet (`StepKinds`): a quiet step leaves the stored envelope,
what was minted and the changes alone (the plan too, unless no call is under
way), only adds operations and audit entries, and moves a job only to begin a
call, write operations, pass a judgement, try again or return (`JobMoves`). So an invariant about
what is stored is proved for `Swap` alone (`SwapStores`: each call's candidate
over the envelope it replaced) and one about jobs for the kinds of move.
`HistoryAccepted` is the refinement of `AcceptedHistory`: its initial states are
reached (`AcceptedBegins`) and every step is one of its steps or a stutter
(`AcceptedStep`).

`EnvelopesStaySound` supposes `RetainedOperations # 0`: with a window of zero
every commit builds an envelope the service refuses (divergences). The other
theorems do not.

### EditFenceProofs

`EditsFromFence` states `EditFromFence` of the same store, under the same
assumptions. The property is about the lineage of an edit: the service writes it as
operations on a read of its own, and the fence is judged later against another
read, so what has to be excluded is that the two differ. That needs to be said of
every operation that may still come into the document, wherever it is:
`Circulating` is what is stored, what was ever sent and may be delivered again, and
what the calls under way name. The invariant `IInv`, of this and of the store's own:

- `Earlier`, `Rooted`: an operation follows only ones made before it, and every
  history begins somewhere;
- `StoredFirst`, `Etagged`: a fence is the etag of a document that was stored;
- `Advancing`: while nothing is removed no etag comes back, and no stored document
  is within an earlier one, so what an etag named is not stored again;
- `WrittenOn`: an edit under way is written on the document of its fence or on one
  the fence does not hold, and then the judgement, or the swap, refuses it;
- `Founded`: what an update follows is in the envelope it is to replace;
- `Migrating`: a migration's own operation is nobody else's, and is no edit;
- `Accepting`: an edit circulates only as accepted, on its fence;
- `LeftBehind`: one that is not in the document is of a history the document left,
  by a migration, and the root it follows keeps it out;
- `OneEach`: the second part of the property.

Every step is a swap or only names operations (`StepNames`), and a step that names
operations keeps the invariant once and for all (`NamingKept`). For a swap,
`SwapCirculates` says what comes into circulation: the call's own edit, judged by
its fence over the envelope it replaces.

### ProjectionServerProofs

For any number of connections, subscriptions, commands, modifications and
publications and any window of at least one.

| theorem | states | for which `Faults` |
| --- | --- | --- |
| `ConnectionsCloseAnswered` | `ClosedAnswered` | any |
| `NothingSentTwice` | `SentOnce`, of `UpdatedOnce` | any |
| `UpdatesReachClients` | `UpdatedOnce` | none |
| `AnsweredCallersHold` | `CallersHold` | any but failing snapshots |

A snapshot that fails in a resynchronisation leaves its subscription without what
was skipped, and a hook that panics loses its modification (divergences): the
hypotheses are what the code makes true. The server's own steps keep the order
that everything rests on, and the invariants say which:

- `Typed`: the types, with what a command has at each phase;
- `OutcomesRan`, `ClosingLast`: an outcome is published once its command ran, and
  the closing publication once every command counted has published its own, so
  no outcome comes after it;
- `Answering` (`Accounted`, `Placed`): a connection still awaits a command or
  answered it; an outcome it awaits is ahead of its receiver, or is one it noted
  before a lag skipped past it;
- `Numbering`: each modification saved is at one place only: with the
  application, with the connection that made it, owed by one command, or in one
  publication. `Seated`: what a connection's phase says of its receiver, its
  subscriptions and what it has yet to resynchronise;
- `Sending` (`SentSound`): what a subscription was sent is past its snapshot,
  without repetition, and published by then: behind the receiver or the
  connection's own;
- `Delivering` (`OwnHeld`, `TakenHeld`): what a connection published itself is
  held by its subscriptions, and what its receiver took or skipped as well, but
  for those the resynchronisation under way has not come to;
- `FramesSound`: a frame answers no command, or one of its connection's that ran; a
  connection that lags has gathered nothing but snapshots, and one that is not at its
  `select` or closing has none to send. So a connection closes with every answer sent;
- `Naming`, `Holding`: what a command announced is published before its outcome,
  and a caller's subscriptions are sent it once it is answered;
- `Ordering`: of the frames yet to be sent, none behind an answer brings what was
  announced while its command ran, and no patch ahead of it what its result names.

A step is one of the connection's own or, for that connection, quiet (`NextFor`):
it appends to the publications at most and touches none of the connection's
state. A connection's own step treats each subscription in one of few ways
(`Treats`): keeps it, gives it a new snapshot, or sends it the publication taken.

### DocumentWatchProofs

For any window and number of threads, and any bounds on changes, connections,
resynchronisations and updates that cannot be encoded.

| theorem | states | by |
| --- | --- | --- |
| `TypeCorrect` | `TypeOK` | `Typed`, `Chained`, `Known` |
| `WhatIsHeldIsWhole` | `HeldIsWhole` | `Following` |
| `EveryoneCatchesUp` | `CaughtUp` | `Heard`, at `Quiet` (`HeardAll`) |
| `WhatIsEndedIsGivenUp` | `EndedLeavesNone` | `Kept` (`KeptEnds`) |

One invariant, `Sound`, is preserved by every step (`Stays`). Its parts:

- `Typed`, `Chained`: the types; the stored token is of the last history begun;
- `Handshake`: the subscribe call is at one place, in the inbox, the outbox or
  `accepted`, or done; a connection that granted nothing has nothing to send. It
  is why the first update that reaches a watch belongs to its own subscription;
- `Following`: `Known` (every state named anywhere was the document's),
  `Numbers` (updates are numbered as the subscription is, and one of its revision
  names what it was delivered), `Fit` (each update on its way is a difference
  from what the client has, or will have when it takes it) and `Welcome` (so is
  what a client told it is up to date will take). `HeldIsWhole` alone is not
  inductive: nothing in it says that an update in the outbox starts where the one
  before it ends;
- `Heard`: `NewestLast` (the update of the subscription's revision is the last on
  its way), `Healed` (a resynchronisation the watch asked for has its update
  behind its answer), `Informed` (the client has the last state delivered, is
  about to, was not sent it, or lost its place and is sent it whole) and `Due` (a
  subscription behind the store has a change to take that brings it there, but
  for a deletion announced after the re-creation);
- `Kept`: a subscription has a watch, is on its way to one, or is being given up.

A step is one of the store's or, to a client whose subscription was granted
(`Live`), one of few kinds (`Steps`): it is told an update (`Sent`, `Taken`), is
granted the subscription or joins it (`Granted`, `Joined`), loses it (`Away`), or
sees nothing (`Aside`). There is one lemma per action that says which, and one
per part of the invariant that goes through the kinds; `Due` and `Kept`, which
are about the server's side, go through the actions. `Overtaken` and `unsent`
bound the claim of `CaughtUp` as in the run; under them `Due` would be false.

### RecoveryProofs

For any number of threads, documents, services, calls and faults, and any plan.

| theorem | states | by |
| --- | --- | --- |
| `TypeCorrect` | `TypeOK` | `Sound`, `Numbered` |
| `FaultsAreKept` | `FaultsKept` | `Judged` (`JudgedKept`) |
| `RepairsMend` | `RepairMends` | `RepairsKeep`, `RefusedFaulted` |
| `CommitsAreKept` | `CommitsKept` | `CommitsKeptStep` |
| `AnswersTrue` | `AnswersAreTrue` | one part each, below |

The inductive invariant is `IInv`:

- `Sound`: the types; what a call has at each phase (`Placed`); what a service
  holds under the stored version is the stored envelope, and whole (`HeldOK`):
  versions are not used again, though a reset and a commit may race with a read;
- `Numbered`: calls in progress are known apart, have left no change and have no
  answer yet, and an answer's `since` and `until` are moments there were;
- `Overtaken`: what a call read is still stored, or was changed since it began.
  It is why a refusal as contended is true;
- `Preserving`: a repair about to swap has preserved what it read. It makes
  `RepairMends` inductive, with `Blamed` (bytes a repair cannot mend are stored,
  or were read, only where a fault left such bytes);
- `Judged`: a commit replaces whole envelopes, and a fault leaves none that is
  its document's. `FaultsKept` follows: bytes left by a fault and replaced by a
  commit could only be another document's;
- `Listing`: a listing under way has each source that was stored all along, or
  will come to it, or knows it was cut short, and one cut short has left a source out. `NoneOverlooked` needs in addition
  that the past does not change (`PastStays`: whether a document was stored after
  the first n changes stays what it is), and that the first n of n sources are
  all of them (`AllAreFirst`);
- `OnRecord`: a recovery is on record before it has an effect, under a time since
  it began, or was discarded, which a discard of earlier records keeps
  (`DiscardKeeps`). `AuditTells` follows.

Every step is of one of few kinds (`StepKinds`): a call arrives, is turned away,
goes on or ends, the set of stores or the audit's retention moves, or a fault
comes. One lemma per action says which (`...Kind`); what is stored changes by a
commit, a repair, a removal or a fault alone (`ChangeKinds`), and an answer is a
refusal, a result, or one of the answers the properties are about
(`AnswersKinds`). Each part of the invariant is one lemma over these kinds.

### ReplicaProofs

For any plan, number of writers with replicas, edits and prepared text operations.

| theorem | states | by |
| --- | --- | --- |
| `TypeCorrect` | `TypeOK` | `Shaped`, `Apart` |
| `AcceptedIsWhole` | `AcceptedWhole` | `Whole` (`HistoryIsOne`), `Provided` (`WholeIsValid`) |
| `TextIsKept` | `TextKept` | `Written` |

The inductive invariant `IInv` speaks of every change there is (`All`): accepted,
prepared, or in some replica.

- `Shaped`: the types, and that a document a replica keeps to write against is one
  of the plan (`DocOK`), which every document a writer asks for stays
  (`ModifiedDoc`, `MaterialDoc`);
- `Named`, `Apart`: a name says who made a change, under which peer and as its
  which; no two changes share a name, and no two of a writer a moment, so the last
  write to a register is determined (`RegisterIsLast`);
- `Chained`: a change follows all its peer made before, so a version with one
  counter for each peer tells what is missing (`RestIsHeld`), and a change that
  follows any follows a first one;
- `Held`: a writer holds all it made, and its changes under its present peer are
  the numbers below their count, which is why `NextId` is a new name; what else it
  holds is accepted;
- `Whole`: what the store and each replica hold is closed and has one root, and the
  version an update is made from names a closed set of both;
- `Written`: a change removes only elements of changes it follows, and adds to a
  field only what fits its kind.

`Provided` says of every change that it writes no required scalar as absent and, if
it follows none, writes all of them (`ChangeProvides`, from `validate_document`).

A step makes a change, settles the document the next is written against, shares
changes between a writer and the store, starts a writer over, or prepares or
publishes text (`Makes`, `Settles`, `Shares`, `Drops`, `Prepares`): `NewKind` to
`PrepareKind` say which step is which, and one lemma each that the kind keeps the
invariant. That `Accept` and `Follow` are both `Shares` is the heart of it: the
update and what the other side lacks are computed by different means, and come to
the same changes.

`AcceptedIsWhole` has two hypotheses. `NoneApart`: the absent value is no text, list
or map, which holds of the code's `Option` and which TLC cannot evaluate. And
`MustsStored`, above.

### AuthoringRuntimeProofs

`SessionAgreesAlways`: `SessionAgrees` for any edits, entity, number of edits, copies,
saves and histories, where the application does no more than the runs let it
(`Usual`: no `Liberties` but `"disconnect"` and `"overtakes"`). The other hypothesis, `NoneApart`, is
that no session and no replica is the value that stands for their absence.

`SessionAgrees` is far from inductive. `IInv` says of it what must be true in between:

- `Typed`: every operation there is, wherever it is held, is a copy that was counted
  (`Known`), and every history one the store has had (`Past`), so the document of any
  set of operations is a finite count of each edit;
- `Paired`: of the session and of the persisted one, that what is recorded shows the
  draft and no two queued operations have one id (`Whole`); of the session and its
  replica (`Agree`), that the draft is what the replica holds, when a microtask is owed
  none the less the session takes drafts, a replica that took nothing of a new
  history holds only what is accepted, and no queued operation is of a later history;
- `Calling`: a call that is waited for is the only one of its operation, which is
  being sent, and an accepted answer is of the replica's history, or its operation
  is no longer queued.

The draft comes to be the replica's by writing the one into the other, so the proof
begins with what `ReplaceDraft` writes: copies of an edit are counted by their ranks
(`RankedCount`), and a document written is the document read (`WrittenDocument`); one
that is shown already adds nothing (`ShownAlready`). `SetFine`, `SyncFine`,
`EnsureFine` and `AdoptFine` say what each operation of the controller returns for
any session and replica that fit (`Fits`), whether or not they agreed before;
`PublishFine` that publishing one that agrees keeps `Typed` and `Paired`; and
`CallingKept` what a step may do to calls and queue. There is one lemma per action.

With `"sameTurn"`, `IInv` fails: a transition before the microtask of a bound text
edit writes the older draft over it.

`EditsAreKept`, `OthersAreKept` and `EditsReachOnce` are about entities whose
controllers take no documents, those of text only, with an application that
disconnects a session once before it reconnects it (`TextOnly`; a second disconnect
refutes `EditsKept`, see `authoring_disconnects`). An answer may overtake another:
what that breaks, it breaks by a document written into a replica. Such a session writes
one operation for an edit and none that removes, so of one history an edit has at
most one operation, wherever it has got to. `TextInv` says so with two sets that are
not variables: `T`, of all operations that anything holds, each with the history it
belongs to (`One`), and `F`, of those that are in some accepted state. The store, the
calls, the queued and the recorded operations, the session's accepted frontier and the
replica draw what they hold from `T` and what they were made on from `F` (`Within`),
and of `F` the store has every edit that is still owed (`Offered`), whichever history
it now has. So an answer or a state that comes late shows nothing twice and takes
nothing away. `Quiet` has a session that need not be kept show what was accepted,
`Drawn` what is typed join the draft at the microtask, and `Persists` the persisted
session show the draft, which is what a restart comes back to. `ReseedText` is the
step where histories change: the new one has a new operation for each edit it
keeps. One lemma per action again, each from `IInv` before and after.

### What stays with TLC

- `CommandsAnswered` and `ShutDownEnds`: liveness under fairness is out of the
  prover's reach.
- `ReadsBack` and `JudgedMerge` of `Replica`: both relate the registers and
  elements of every field to documents read from different sets of changes, kind by
  kind, and hold for plans within the instance's (a required `optionalString`
  field, for one, does not read back); no proof was attempted.
- `EditsKept`, `OthersKept` and `EditedOnce` of `AuthoringRuntime` for entities whose
  controllers take documents: a draft written into such a replica removes and
  adds copies, which may meet those of other writers and of earlier saves; no
  proof was attempted. For the other entities they are proved.
- The properties of `Schemas`, `Contracts`, `Fixtures` and `Generator`, whose
  recursion over schemas is written with recursive operators.

## Not modelled

- Of the authoring client: a snapshot another live runtime persisted (`restore`,
  `persistedState` with carried sessions), `rename`, `bootstrap`, versioned
  updates, and sessions with the `optimisticDocument` policy.
- How Loro encodes and orders: a replica's containers are sets of changes, and
  the order of items and of characters is left out. `structuredDocument` fields
  and the codecs of single values are left out too.
- Several authoring subscriptions of a connection, the socket below a watch
  (`rpc-socket.ts`) and its timers, telemetry, the wire shapes (`transport.rs`).
- The text of generated artefacts (`rust.rs`, `typescript.rs`, `layout.rs`,
  `json.rs`, `normalize.rs`), the spelling of identifiers and their collisions
  (`names.rs`, `check_generated_output_names`), and the meta-schema: formatting,
  with nothing a model would tell apart. Different definitions are taken to
  render different artefacts.
- `clerkenwell-notebook` (generated), the typed wrappers of `clerkenwell-schema`,
  the conformance harness, the release tools and the examples.
- The TypeScript replica and conflict policy, which repeat the Rust algorithms
  `Documents` models.
- `resident_checkpoint_bytes`, counted with `resident_documents`.

## Plan

1. `Residency`: done, proved.
2. `CollaborationStore` and `AcceptedHistory`: done, proved.
3. `ProjectionServer`: done, its safety properties proved.
4. `DocumentWatch`: done, proved.
5. `AuthoringSession` and `AuthoringRuntime`: done for one runtime;
   `SessionAgrees` proved, and `EditsKept`, `OthersKept` and `EditedOnce` for
   entities that take no documents. A second runtime sharing the persisted snapshot
   (`restore`) is left.
6. `Recovery`: done, proved.
7. `Documents` and `Replica`: done; `AcceptedWhole` and `TextKept` proved.
8. `Schemas` to `Generator`: done, checked; they stay with TLC.
