-------------------------- MODULE AuthoringRuntime --------------------------
(***************************************************************************)
(* One authored resource of a client: its session, the replica behind it,  *)
(* what is persisted of it, and its calls to the store.                    *)
(* clients/typescript/client/src/authoring-runtime.ts, over the            *)
(* transitions of AuthoringSession; the application drives it as the       *)
(* repository's tests do.                                                  *)
(*                                                                         *)
(* The session is collaborative and its controller records operations; it  *)
(* takes documents (replaceDraft) or only operations.  Every action is one *)
(* turn of the event loop, but a bound text edit, whose draft is           *)
(* materialised in a microtask: what else its turn does comes between.     *)
(* A call that throws and changes nothing is not an action.                *)
(***************************************************************************)
EXTENDS AuthoringSession

CONSTANTS
    Takes,        \* of an entity, whether its controllers take documents
    Blocks,       \* the statuses the application blocks a session with
    Liberties,    \* what the application does beyond the usual
    MaxEdits,     \* bound: edits made, the author's and others'
    MaxCopies,    \* bound: copies written of each edit
    MaxEvents     \* bound: operations queued and histories of the store, together

ASSUME TakesAssumption == Takes \subseteq BOOLEAN
ASSUME BlocksAssumption == Blocks \subseteq BlockedStatuses
ASSUME LibertiesAssumption == Liberties \subseteq {"sameTurn", "discard", "disconnect", "block", "overtakes"}
ASSUME BoundsAssumption == {MaxEdits, MaxCopies, MaxEvents} \subseteq Nat

VARIABLES
    store,       \* the accepted state: its history and its operations
    calls,       \* import calls on their way, and their answers
    session,     \* the session, or None
    controller,  \* OwnedAuthoringController, or None
    disk,        \* the session as it was persisted, or None
    copies,      \* how many copies of each edit were written
    saves,       \* how many operations were queued
    owed         \* history: the edits made, and neither discarded nor reset

vars == <<store, calls, session, controller, disk, copies, saves, owed>>

Operation == [edit: Edits, copy: 1..MaxCopies, removes: BOOLEAN]
Fresh(e) == copies[e] = 0 /\ Cardinality({d \in Edits : copies[d] > 0}) < MaxEdits
Write(e) == [edit |-> e, copy |-> copies[e] + 1, removes |-> FALSE]

-----------------------------------------------------------------------------
(* The replica: what the runtime asks of it.                               *)

(* replaceDocument: the operations that bring `ops` to show `document`.    *)
Surplus(ops, document) ==
    {x \in Live(ops) :
        Cardinality({y \in Live(ops) : y.edit = x.edit /\ y.copy <= x.copy}) > document[x.edit]}
Lacking(ops, document) ==
    UNION {{[edit |-> e, copy |-> copies[e] + n, removes |-> FALSE] :
               n \in 1..(document[e] - Document(ops)[e])} : e \in Edits}
ReplaceDraft(ops, document) ==
    ops \cup {[x EXCEPT !.removes = TRUE] : x \in Surplus(ops, document)}
        \cup Lacking(ops, document)

-----------------------------------------------------------------------------
(* Setting the session.  A pair of a controller and a session is written   *)
(* [c, s].                                                                 *)

(* recordDraftOperations.                                                  *)
Record(c, s) ==
    IF ~Durable(s) THEN [s EXCEPT !.recorded = None]
    ELSE IF c.untaken THEN s
    ELSE [s EXCEPT !.recorded = [history |-> c.history, base |-> c.base,
                                 update |-> c.ops \ c.base]]

(* withoutStaleDraftOperations, of a session without a replica.            *)
WithoutStale(previous, s) ==
    IF Durable(s) /\ previous.draft = s.draft THEN s ELSE [s EXCEPT !.recorded = None]

(* #setSession, `aligns` if it writes the draft to the replica.            *)
Set(c, s, aligns) ==
    IF c = None THEN [c |-> c, s |-> WithoutStale(session, s)]
    ELSE LET ops == IF aligns /\ s.takes THEN ReplaceDraft(c.ops, s.draft) ELSE c.ops
             set == [c EXCEPT !.ops = ops, !.untaken = @ /\ Durable(s)]
         IN [c |-> set, s |-> Record(set, s)]

(* syncControllerDraft.                                                    *)
Sync(c, s) ==
    IF c.untaken \/ ~AcceptsDraft(s) \/ s.draft = Document(c.ops) THEN [c |-> c, s |-> s]
    ELSE Set(c, Modify(s, Document(c.ops)), FALSE)

(* #publish, with the persistence that listens: toPersistedRuntime keeps   *)
(* the session if a reload could not produce it again.                     *)
Persisted(s) == IF s # None /\ Durable(s) THEN s ELSE None
Highest(e, c) == {x.copy : x \in {y \in c.ops : y.edit = e}} \cup {copies[e]}
Counted(c) ==
    [e \in Edits |-> IF c = None THEN copies[e]
                     ELSE CHOOSE n \in Highest(e, c) : \A m \in Highest(e, c) : m <= n]
Count(c) ==
    /\ copies' = Counted(c)
    /\ \A e \in Edits : copies'[e] <= MaxCopies
Publish(pair) ==
    /\ controller' = pair.c
    /\ session' = pair.s
    /\ disk' = Persisted(pair.s)
    /\ Count(pair.c)

(* A turn other than a bound text edit's own.                              *)
Turn == controller # None /\ controller.syncing => "sameTurn" \in Liberties
Attached == session # None /\ controller # None

-----------------------------------------------------------------------------
(* Attaching a replica.                                                    *)

(* What a replica, created of what the store has accepted, takes of a      *)
(* session: its recorded operations as themselves, or its draft as a       *)
(* document, or nothing.  Mutant: what a document lacks is written again,  *)
(* recorded or not.                                                        *)
TakenAgain(s, created) ==
    IF s.takes THEN [created EXCEPT !.ops = @ \cup Lacking(@, s.draft)]
    ELSE IF s.recorded # None THEN [created EXCEPT !.ops = @ \cup s.recorded.update]
    ELSE [created EXCEPT !.untaken = Durable(s)]
Taken(s, created) ==
    IF /\ s.recorded # None
       /\ AcceptsDraft(s) \/ ~s.takes
       /\ s.recorded.history = created.history /\ s.recorded.base \subseteq created.ops
    THEN [created EXCEPT !.ops = @ \cup s.recorded.update]
    ELSE IF s.takes THEN [created EXCEPT !.ops = ReplaceDraft(@, s.draft)]
    ELSE [created EXCEPT !.untaken = Durable(s)]

(* ensureController, with that replica.                                    *)
EnsureController(s) ==
    LET c == Taken(s, [history |-> store.history, ops |-> store.ops, base |-> store.ops,
                       untaken |-> FALSE, syncing |-> FALSE])
        held == IF c.untaken /\ AcceptsDraft(s) THEN Set(c, Block(s, "recoveryRequired"), FALSE)
                ELSE [c |-> c, s |-> s]
        synced == Sync(held.c, held.s)
    IN [c |-> synced.c, s |-> Record(synced.c, synced.s)]

(* open, and ensureController on the same state.                           *)
Open(takes) ==
    /\ session = None
    /\ Publish(EnsureController(Start(store, takes)))
    /\ UNCHANGED <<store, calls, saves, owed>>

(* A session with something pending is attached again; one of another      *)
(* history only if its draft is not written over what the store holds.     *)
Attach ==
    /\ session # None /\ controller = None
    /\ Durable(session)
    /\ session.takes => store.history = session.revision.history
    /\ Publish(EnsureController(session))
    /\ UNCHANGED <<store, calls, saves, owed>>

(* replaceHistory, which the store's answers call for.  The bound text     *)
(* edits of its turn are synchronised first.                               *)
ReplaceController ==
    /\ session # None
    /\ store.history # session.revision.history
    /\ LET live == IF controller = None THEN session ELSE Sync(controller, session).s
       IN Publish(EnsureController(ReplaceHistory(live, store)))
    /\ UNCHANGED <<store, calls, saves, owed>>

(* detachController, while no operation is on its way: a call is sent and  *)
(* settled with the replica attached.                                      *)
Detach ==
    /\ Turn /\ Attached
    /\ \A q \in session.queue : q.state # "sending"
    /\ controller' = None
    /\ UNCHANGED <<store, calls, session, disk, copies, saves, owed>>

-----------------------------------------------------------------------------
(* The author.                                                             *)

(* modify, through replaceDraft: the replica takes the draft even if the   *)
(* session then refuses it.                                                *)
Edit(e) ==
    /\ Turn /\ Attached /\ session.takes
    /\ Fresh(e)
    /\ LET ops == ReplaceDraft(controller.ops, [Document(controller.ops) EXCEPT ![e] = 1])
           edited == [controller EXCEPT !.ops = ops]
       IN IF AcceptsDraft(session)
          THEN /\ Publish(Set(edited, Modify(session, Document(ops)), FALSE))
               /\ owed' = owed \cup {e}
          ELSE /\ controller' = edited
               /\ Count(edited)
               /\ UNCHANGED <<session, disk, owed>>
    /\ UNCHANGED <<store, calls, saves>>

(* A bound text edit, and the microtask that materialises it.              *)
Type(e) ==
    /\ Attached /\ ~controller.syncing
    /\ AcceptsDraft(session) /\ ~controller.untaken
    /\ Fresh(e)
    /\ controller' = [controller EXCEPT !.ops = @ \cup {Write(e)}, !.syncing = TRUE]
    /\ Count(controller')
    /\ owed' = owed \cup {e}
    /\ UNCHANGED <<store, calls, session, disk, saves>>

SyncDraft ==
    /\ Attached /\ controller.syncing
    /\ Publish(Sync([controller EXCEPT !.syncing = FALSE], session))
    /\ UNCHANGED <<store, calls, saves, owed>>

(* A staged text branch is confirmed.                                      *)
ConfirmStage(e) ==
    /\ Turn /\ Attached
    /\ AcceptsDraft(session) /\ ~controller.untaken
    /\ Fresh(e)
    /\ Publish(Sync([controller EXCEPT !.ops = @ \cup {Write(e)}], session))
    /\ owed' = owed \cup {e}
    /\ UNCHANGED <<store, calls, saves>>

(* discard; usually to the newest accepted state the replica has taken,    *)
(* with a controller that can be told.                                     *)
AtAccepted ==
    /\ session.baseline = Document(controller.base)
    /\ \A x \in controller.ops \ controller.base : x.edit \in Own \/ x.removes
DiscardChanges ==
    /\ Turn /\ Attached
    /\ \/ "discard" \in Liberties
       \/ (session.takes \/ controller.untaken) /\ AtAccepted
    /\ Publish(Set(controller, Discard(session), TRUE))
    /\ owed' = owed \ {e \in Own : session.baseline[e] = 0}
    /\ UNCHANGED <<store, calls, saves>>

(* remove, as authoringLeaveDecision allows it.                            *)
Remove ==
    /\ Turn /\ session # None
    /\ ~Durable(session)
    /\ session' = None /\ controller' = None /\ disk' = None
    /\ UNCHANGED <<store, calls, copies, saves, owed>>

-----------------------------------------------------------------------------
(* Saving.  The application exports what the replica holds beyond the      *)
(* accepted revision, queues it, and sends it.                             *)

QueueSave ==
    /\ Turn /\ Attached
    /\ MayQueue(session)
    /\ saves + store.history < MaxEvents
    /\ session.revision.history = controller.history /\ session.revision.ops \subseteq controller.ops
    /\ saves' = saves + 1
    /\ Publish(Set(controller,
                   Queue(session, [id |-> saves', base |-> session.revision, state |-> "queued",
                                   update |-> controller.ops \ session.revision.ops]),
                   TRUE))
    /\ UNCHANGED <<store, calls, owed>>

Send(q) ==
    /\ Turn /\ Attached
    /\ MayReplay(session, q)
    /\ calls' = calls \cup {[id |-> q.id, stage |-> "request", base |-> q.base,
                             update |-> q.update, awaited |-> TRUE]}
    /\ Publish(Set(controller, BeginReplay(session, q), TRUE))
    /\ UNCHANGED <<store, saves, owed>>

(* The store accepts an import whose base it holds, and refuses others.    *)
Answer(k, stage) ==
    calls' = (calls \ {k}) \cup
             {a \in {[k EXCEPT !.stage = stage, !.base = store', !.update = {}]} : k.awaited}

StoreAccepts(k) ==
    /\ k.stage = "request"
    /\ k.base.history = store.history /\ k.base.ops \subseteq store.ops
    /\ store' = [store EXCEPT !.ops = @ \cup k.update]
    /\ Answer(k, "accepted")
    /\ UNCHANGED <<session, controller, disk, copies, saves, owed>>

StoreRefuses(k) ==
    /\ k.stage = "request"
    /\ store' = store
    /\ IF k.base.history = store.history
       THEN \E stage \in {"contended", "refused"} : Answer(k, stage)
       ELSE Answer(k, "resync")
    /\ UNCHANGED <<session, controller, disk, copies, saves, owed>>

(* adoptAccepted, of the state accepted at `frontier`.  Mutant: the draft  *)
(* is left alone while an operation is queued.                             *)
AdoptUnlessQueued(c, s, frontier) ==
    LET taken == [c EXCEPT !.ops = @ \cup frontier.ops, !.base = frontier.ops]
    IN IF ~AcceptsDraft(s) THEN [c |-> c, s |-> s]
       ELSE IF s.queue # {} THEN Set(taken, s, FALSE)
       ELSE Set(taken, Adopt(s, frontier, Document(taken.ops)), TRUE)
AdoptAccepted(c, s, frontier) ==
    LET taken == [c EXCEPT !.ops = @ \cup frontier.ops, !.base = frontier.ops]
        draft == Document(taken.ops)
    IN IF ~AcceptsDraft(s) THEN [c |-> c, s |-> s]
       ELSE IF s.queue # {} THEN Set(taken, Modify(s, draft), FALSE)
       ELSE Set(taken, Adopt(s, frontier, draft), TRUE)

(* An accepted save: its state is adopted and its operation acknowledged,  *)
(* if it is still queued.  A replica of another history takes none of it.  *)
Accepted(k) ==
    /\ Turn /\ session # None
    /\ k.stage = "accepted" /\ k.awaited
    /\ calls' = calls \ {k}
    /\ IF controller # None /\ controller.history # k.base.history
       THEN UNCHANGED <<session, controller, disk, copies>>
       ELSE LET adopted == IF controller = None THEN [c |-> None, s |-> session]
                           ELSE AdoptAccepted(controller, session, k.base)
            IN Publish(IF Queued(adopted.s, k.id)
                       THEN Set(adopted.c, Acknowledge(adopted.s, k.id, k.base), TRUE)
                       ELSE adopted)
    /\ UNCHANGED <<store, saves, owed>>

RejectIfQueued(k, resyncs, retryable) ==
    IF Queued(session, k.id)
    THEN Publish(Set(controller, Reject(session, k.id, resyncs, retryable), TRUE))
    ELSE UNCHANGED <<session, controller, disk, copies>>

(* Usually the answers to calls in flight together come as they were       *)
(* given: what a history accepted before what its successor refuses.       *)
InOrder(k) == k.stage = "resync" => \A l \in calls : l.awaited => l.stage # "accepted"
Rejected(k) ==
    /\ Turn /\ session # None
    /\ k.stage \in {"contended", "refused", "resync"} /\ k.awaited
    /\ "overtakes" \in Liberties \/ InOrder(k)
    /\ calls' = calls \ {k}
    /\ RejectIfQueued(k, k.stage = "resync", k.stage = "contended")
    /\ UNCHANGED <<store, saves, owed>>

(* The socket closes on a call: it is rejected, to be tried again, whether *)
(* or not the store has had it or will.                                    *)
CallFails(k) ==
    /\ Turn /\ session # None
    /\ k.awaited
    /\ calls' = (calls \ {k}) \cup
                {r \in {[k EXCEPT !.awaited = FALSE]} : r.stage = "request"}
    /\ RejectIfQueued(k, FALSE, TRUE)
    /\ UNCHANGED <<store, saves, owed>>

(* An authoring state arrives.                                             *)
Arrives ==
    /\ Turn /\ Attached
    /\ controller.history = store.history
    /\ Publish(AdoptAccepted(controller, session, store))
    /\ UNCHANGED <<store, calls, saves, owed>>

(* supersedeBlocked, and block, usually of a session that is not blocked   *)
(* and has no operation on its way.                                        *)
Supersede ==
    /\ Turn /\ session # None
    /\ "block" \in Liberties \/ AcceptsDraft(session)
    /\ Publish(Set(controller, SupersedeBlocked(session), TRUE))
    /\ UNCHANGED <<store, calls, saves, owed>>

BlockSession(status) ==
    /\ Turn /\ session # None
    /\ Durable(session) /\ session.status \notin BlockedStatuses
    /\ "block" \in Liberties \/ \A q \in session.queue : q.state # "sending"
    /\ Publish(Set(controller, Block(session, status), TRUE))
    /\ UNCHANGED <<store, calls, saves, owed>>

-----------------------------------------------------------------------------
(* The connection, the process, and the store's other writers.             *)

Mapped(s) ==
    /\ session' = s
    /\ disk' = Persisted(s)
    /\ UNCHANGED <<store, calls, controller, copies, saves, owed>>

(* disconnect; usually once for each connection that is lost.              *)
Disconnect ==
    /\ Turn /\ session # None
    /\ "disconnect" \in Liberties
       \/ session.status \notin {"disconnectedReadable", "offlineModified"}
    /\ Mapped(Disconnected(session))
Reconnect ==
    /\ Turn /\ session # None
    /\ session.status \in {"disconnectedReadable", "offlineModified"}
    /\ Mapped(Reconnected(session))

(* The page is closed and opened again: text edits not yet in the draft    *)
(* are gone, and nobody waits for the calls.                               *)
Restart ==
    /\ session # None
    /\ session' = IF disk = None THEN None ELSE Recovered(disk)
    /\ controller' = None
    /\ calls' = {[k EXCEPT !.awaited = FALSE] : k \in {r \in calls : r.stage = "request"}}
    /\ owed' = {e \in owed : controller # None /\ controller.syncing => session.draft[e] > 0}
    /\ UNCHANGED <<store, disk, copies, saves>>

RemoteEdit(e) ==
    /\ Fresh(e)
    /\ store' = [store EXCEPT !.ops = @ \cup {Write(e)}]
    /\ copies' = [copies EXCEPT ![e] = 1]
    /\ owed' = owed \cup {e}
    /\ UNCHANGED <<calls, session, controller, disk, saves>>

(* The document is seeded again, as it is or empty.                        *)
Reseed(document) ==
    /\ saves + store.history < MaxEvents
    /\ store' = [history |-> store.history + 1, ops |-> Lacking({}, document)]
    /\ copies' = [e \in Edits |-> copies[e] + document[e]]
    /\ \A e \in Edits : copies'[e] <= MaxCopies
    /\ owed' = {e \in owed : Document(store.ops)[e] = 0 \/ document[e] > 0}
    /\ UNCHANGED <<calls, session, controller, disk, saves>>

-----------------------------------------------------------------------------

Init ==
    /\ store = [history |-> 1, ops |-> {}]
    /\ calls = {}
    /\ session = None /\ controller = None /\ disk = None
    /\ copies = [e \in Edits |-> 0]
    /\ saves = 0 /\ owed = {}

AuthorNext ==
    \/ \E takes \in Takes : Open(takes)
    \/ \E e \in Own : Edit(e) \/ Type(e) \/ ConfirmStage(e)
    \/ Attach \/ ReplaceController \/ Detach \/ SyncDraft \/ DiscardChanges \/ Remove \/ QueueSave \/ Supersede
    \/ session # None /\ \E q \in session.queue : Send(q)
    \/ \E status \in Blocks : BlockSession(status)

AnswerNext(k) == Accepted(k) \/ Rejected(k) \/ CallFails(k)
StoreNext ==
    \/ \E k \in calls : StoreAccepts(k) \/ StoreRefuses(k)
    \/ \E e \in Others : RemoteEdit(e)
    \/ \E d \in {Document(store.ops), Document({})} : Reseed(d)

Next ==
    \/ AuthorNext \/ StoreNext
    \/ \E k \in calls : AnswerNext(k)
    \/ Arrives \/ Disconnect \/ Reconnect \/ Restart

Spec == Init /\ [][Next]_vars

-----------------------------------------------------------------------------
(* Properties.                                                             *)

SessionOK(s) ==
    /\ s.status \in Statuses
    /\ s.revision.history \in 1..MaxEvents
    /\ {s.baseline, s.draft} \subseteq [Edits -> 0..MaxCopies]
    /\ \A q \in s.queue : q.id \in 1..saves /\ q.state \in {"queued", "sending", "blocked"}
    /\ \A q, r \in s.queue : q.id = r.id => q = r

(* Every variable holds what its declaration says, and the operation ids   *)
(* of a queue are distinct.                                                *)
TypeOK ==
    /\ store.history \in 1..MaxEvents /\ store.ops \subseteq Operation
    /\ \A k \in calls : k.id \in 1..saves
    /\ session # None => SessionOK(session)
    /\ disk # None => SessionOK(disk)
    /\ controller # None => session # None /\ controller.ops \subseteq Operation

(* The author's edits are not lost: each is accepted, or in the draft, or  *)
(* about to be, whatever is lost, refused, replaced or restarted.          *)
EditsKept ==
    \A e \in owed \cap Own :
        \/ Document(store.ops)[e] > 0
        \/ session # None /\ session.draft[e] > 0
        \/ controller # None /\ controller.syncing /\ Document(controller.ops)[e] > 0

(* No save takes out of the store what another writer put there.           *)
OthersKept == \A e \in owed \cap Others : Document(store.ops)[e] > 0

(* An edit reaches the store once, though it is sent again, and written    *)
(* again on other replicas.                                                *)
EditedOnce == \A e \in Edits : Document(store.ops)[e] <= 1

(* The recorded operations extend their base to the state the draft        *)
(* materialises, so a restart that takes them restores the draft.          *)
RecordedIsDraft ==
    session # None /\ session.recorded # None /\ AcceptsDraft(session) =>
        Document(session.recorded.base \cup session.recorded.update) = session.draft

(* The draft of a session that takes edits is what its replica holds.      *)
DraftIsReplicas ==
    Attached /\ AcceptsDraft(session) /\ ~controller.syncing /\ ~controller.untaken =>
        session.draft = Document(controller.ops)

(* An operation being sent is waited for.                                  *)
SendingAwaited ==
    session # None =>
        \A q \in session.queue : q.state = "sending" => \E k \in calls : k.id = q.id /\ k.awaited

(* The session agrees with its replica, with the operations recorded to    *)
(* restore it after a restart, and with the calls in flight.               *)
SessionAgrees == DraftIsReplicas /\ RecordedIsDraft /\ SendingAwaited

=============================================================================
