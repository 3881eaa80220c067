-------------------------- MODULE AuthoringSession --------------------------
(***************************************************************************)
(* The transitions of one authoring session, each a function of the        *)
(* session: clients/typescript/client/src/authoring-state-machine.ts.      *)
(*                                                                         *)
(* A document says how many copies of each edit it shows.  An operation of *)
(* a replica writes a copy of an edit or removes one; a frontier is the    *)
(* set of operations it stands for, with the history they belong to.  A    *)
(* session also keeps `recorded`, its draftOperations, or None.            *)
(***************************************************************************)
EXTENDS Integers, FiniteSets

CONSTANTS
    Own,      \* edits the author makes
    Others,   \* edits other writers make
    None

ASSUME EditsAssumption == None \notin Own \cup Others /\ Own \cap Others = {}

Edits == Own \cup Others

(* The copies a set of operations leaves written.                          *)
Live(ops) == {x \in ops : ~x.removes /\ [x EXCEPT !.removes = TRUE] \notin ops}
Document(ops) == [e \in Edits |-> Cardinality({x \in Live(ops) : x.edit = e})]

-----------------------------------------------------------------------------

(* The statuses blockAuthoringSession sets.                                *)
BlockedStatuses ==
    {"migrationBlocked", "dependencyBlocked", "policyConflict", "resyncRequired",
     "recoveryRequired"}
ModifiableStatuses ==
    {"clean", "live", "modified", "commitPending", "replaying", "commitRejected",
     "disconnectedReadable", "offlineModified", "policyConflict"}
Statuses == BlockedStatuses \cup ModifiableStatuses \cup {"bootstrapping"}

(* authoringSessionAcceptsDraft.                                           *)
AcceptsDraft(s) == s.status \in ModifiableStatuses

(* authoringSessionRequiresDurableRestoration.  Mutant: a rejected commit  *)
(* is not waited for.                                                      *)
DurableUnlessRejected(s) ==
    s.status \notin {"clean", "live", "disconnectedReadable", "commitRejected"}
Durable(s) ==
    \/ s.queue # {}
    \/ s.status \notin {"clean", "live", "disconnectedReadable"}

(* startAuthoringSession, on the state accepted at `frontier`, of an       *)
(* entity whose controllers take documents (replaceDraft) or do not.       *)
Start(frontier, takes) ==
    [takes |-> takes, status |-> "clean", revision |-> frontier,
     baseline |-> Document(frontier.ops), draft |-> Document(frontier.ops), queue |-> {},
     recorded |-> None]

Settled(s, baseline, draft) == IF baseline = draft THEN "clean" ELSE "modified"

(* modifyAuthoringSession; a session that is blocked refuses.              *)
Modify(s, draft) ==
    [s EXCEPT
        !.status = IF s.status \in {"disconnectedReadable", "offlineModified"}
                   THEN IF s.queue # {} \/ s.baseline # draft THEN "offlineModified"
                        ELSE "disconnectedReadable"
                   ELSE IF s.queue # {} THEN "commitPending"
                        ELSE Settled(s, s.baseline, draft),
        !.draft = draft]

(* queueAuthoringOperation.                                                *)
MayQueue(s) ==
    s.status \in {"modified", "commitPending", "offlineModified", "commitRejected",
                  "policyConflict"}
Queue(s, operation) ==
    [s EXCEPT !.status = IF s.status = "offlineModified" THEN "offlineModified" ELSE "commitPending",
              !.queue = @ \cup {operation}]

Queued(s, id) == \E q \in s.queue : q.id = id

(* beginAuthoringReplay.                                                   *)
MayReplay(s, q) ==
    /\ s.status \in {"commitPending", "offlineModified", "commitRejected", "replaying"}
    /\ q.state = "queued"
BeginReplay(s, q) ==
    [s EXCEPT !.status = "replaying",
              !.queue = (@ \ {q}) \cup {[q EXCEPT !.state = "sending"]}]

(* acknowledgeAuthoringOperation of an operation still queued.             *)
Acknowledge(s, id, frontier) ==
    LET document == Document(frontier.ops)
        remaining == {q \in s.queue : q.id # id}
    IN [s EXCEPT
          !.status = IF remaining # {}
                     THEN IF \E q \in remaining : q.state # "blocked" THEN "commitPending"
                          ELSE "commitRejected"
                     ELSE Settled(s, document, s.draft),
          !.revision = frontier,
          !.baseline = document,
          !.queue = remaining]

(* adoptAuthoringBaseline; a session that accepts no draft stays as it is. *)
Adopt(s, frontier, draft) ==
    LET baseline == Document(frontier.ops)
    IN [s EXCEPT !.status = Settled(s, baseline, draft), !.revision = frontier,
                 !.baseline = baseline, !.draft = draft, !.queue = {}]

(* replaceAuthoringHistory.  Mutant: pending edits are always written      *)
(* again.                                                                  *)
ReplaceHistoryAnyway(s, frontier) ==
    LET accepted == Document(frontier.ops)
        draft == IF Durable(s) THEN s.draft ELSE accepted
    IN [s EXCEPT !.revision = frontier, !.baseline = accepted, !.queue = {}, !.recorded = None,
                 !.status = Settled(s, accepted, draft), !.draft = draft]
ReplaceHistory(s, frontier) ==
    LET accepted == Document(frontier.ops)
        replaced == [s EXCEPT !.revision = frontier, !.baseline = accepted, !.queue = {},
                              !.recorded = None]
        editable == AcceptsDraft(s) \/ s.status = "resyncRequired"
    IN IF ~Durable(s) THEN [replaced EXCEPT !.status = "clean", !.draft = accepted]
       ELSE IF editable /\ s.baseline = accepted
            THEN [replaced EXCEPT !.status = Settled(s, accepted, s.draft)]
            ELSE [replaced EXCEPT !.status = "recoveryRequired"]

(* discardAuthoringChanges.                                                *)
Discard(s) == [s EXCEPT !.status = "clean", !.draft = s.baseline, !.queue = {}]

(* rejectAuthoringOperation, with the category that asks for a             *)
(* resynchronisation or another.                                           *)
Reject(s, id, resyncs, retryable) ==
    LET resync == resyncs \/ s.status = "resyncRequired"
    IN [s EXCEPT
          !.status = IF resync THEN "resyncRequired" ELSE "commitRejected",
          !.queue = {IF q.id = id
                     THEN [q EXCEPT !.state = IF retryable /\ ~resync THEN "queued" ELSE "blocked"]
                     ELSE q : q \in s.queue}]

(* supersedeBlockedAuthoringOperations.                                    *)
SupersedeBlocked(s) ==
    LET remaining == {q \in s.queue : q.state # "blocked"}
    IN IF remaining = s.queue THEN s
       ELSE [s EXCEPT !.status = IF remaining # {} THEN "commitPending"
                                 ELSE Settled(s, s.baseline, s.draft),
                      !.queue = remaining]

(* disconnectAuthoringSession and reconnectAuthoringSession.               *)
Disconnected(s) ==
    IF s.status \in BlockedStatuses THEN s
    ELSE [s EXCEPT !.status =
            IF s.status \in {"modified", "commitPending", "commitRejected", "replaying"}
            THEN "offlineModified" ELSE "disconnectedReadable"]
Reconnected(s) ==
    [s EXCEPT !.status =
        IF \E q \in s.queue : q.state = "queued" THEN "replaying"
        ELSE IF \E q \in s.queue : q.state = "blocked" THEN "commitRejected"
        ELSE Settled(s, s.baseline, s.draft)]

(* blockAuthoringSession.                                                  *)
Block(s, status) == [s EXCEPT !.status = status]

(* cloneRuntimeState, as the runtime starts from a persisted snapshot.     *)
Recovered(s) ==
    [s EXCEPT !.status = IF @ = "replaying" THEN "offlineModified" ELSE @,
              !.queue = {[q EXCEPT !.state = IF @ = "sending" THEN "queued" ELSE @] : q \in s.queue}]

=============================================================================
