--------------------------- MODULE DocumentWatch ---------------------------
(***************************************************************************)
(* How a client follows the authoring state of one document through        *)
(* deletions, re-creations, lost connections and a server it falls behind: *)
(* crates/clerkenwell-session/src/{server,subscriptions,authoring}.rs      *)
(* under crates/clerkenwell-axum/src/lib.rs, read by `watchProjection` of  *)
(* clients/typescript/client/src/projection-subscription.ts.               *)
(*                                                                         *)
(* The document's history is a chain: state n of incarnation b holds the   *)
(* operations 1..n of b.  A token [born, last] stands for the schema       *)
(* version, frontier and etag of an AuthoringHeld.  One task serves the    *)
(* connection, so what it reads of the store and what it does with its     *)
(* subscriptions is one step; the store's changes come in between.  A      *)
(* state that cannot be read, or an update that cannot be built or         *)
(* encoded, is not sent, and nothing else tells the client.                *)
(***************************************************************************)
EXTENDS Integers, Sequences, FiniteSets

CONSTANTS
    Window,          \* publication_window
    Threads,         \* threads that change the document at once
    MaxChanges,      \* bound: commits and deletions
    MaxConnections,  \* bound: connections made
    MaxResyncs,      \* bound: resynchronisations the application asks for
    MaxUnsent        \* bound: updates that cannot be read, built or encoded

ASSUME LimitsAssumption == {Window, Threads} \subseteq Nat \ {0}
ASSUME BoundsAssumption == {MaxChanges, MaxConnections, MaxResyncs, MaxUnsent} \subseteq Nat

VARIABLES
    stored,        \* what the store holds of the document, or None
    changes,       \* every change made to it, in order
    racing,        \* the changes whose threads have not announced them yet
    publications,  \* the changes announced, in the order they were
    next,          \* the publication the connection's receiver is at
    subs,          \* the connection's subscriptions
    nextId,        \* next_subscription_id
    inbox,         \* requests on their way to the server
    outbox,        \* frames on their way to the client
    made,          \* connections made
    asked,         \* resynchronisations the application asked for
    watch,         \* the client's watch
    replica,       \* the operations the application took
    unsent         \* history: the failures met, and whether the last update due was not sent

store == <<stored, changes, racing, publications>>
connection == <<next, subs, nextId, inbox, outbox, unsent>>
client == <<watch, replica>>
vars == <<store, connection, made, asked, client>>

None == [born |-> 0, last |-> 0]
Operations(token) == {[born |-> token.born, number |-> n] : n \in 1..token.last}
Births == Cardinality({i \in DOMAIN changes : changes[i].kind = "created"})
Drop(f, x) == [y \in DOMAIN f \ {x} |-> f[y]]

-----------------------------------------------------------------------------
(* The store.  The thread that made a change announces it afterwards, so   *)
(* changes that race are announced in any order.                           *)

Change(kind, state) ==
    /\ Len(changes) < MaxChanges /\ Cardinality(racing) < Threads
    /\ stored' = state
    /\ changes' = Append(changes, [kind |-> kind, after |-> state])
    /\ racing' = racing \cup {Len(changes) + 1}
    /\ UNCHANGED <<publications, connection, made, asked, client>>

Create == stored = None /\ Change("created", [born |-> Births + 1, last |-> 1])
Commit == stored # None /\ Change("committed", [stored EXCEPT !.last = @ + 1])
Delete == stored # None /\ Change("deleted", None)

Announce(n) ==
    /\ racing' = racing \ {n}
    /\ publications' = Append(publications, n)
    /\ UNCHANGED <<stored, changes, connection, made, asked, client>>

(* The state for a peer that holds `held`: the operations after it, or all *)
(* of them, which replace what it holds when that is of another history.   *)
AuthoringState(held) ==
    IF held = None \/ held.born = stored.born
    THEN [at |-> stored, from |-> held.last, replaces |-> FALSE]
    ELSE [at |-> stored, from |-> 0, replaces |-> TRUE]

(* AuthoringStates::state, which reads it for a subscription, refuses a    *)
(* document that is not stored.                                            *)
IsStored == stored # None

Removed == [at |-> None, from |-> 0, replaces |-> FALSE]

-----------------------------------------------------------------------------
(* The connection's subscriptions.                                         *)

CurrentRevision == CHOOSE r \in {1} \cup {subs[s].revision : s \in DOMAIN subs} :
                      \A s \in DOMAIN subs : subs[s].revision <= r

Deliver(s, revision, delivered) ==
    subs' = [subs EXCEPT ![s] = [revision |-> revision, delivered |-> delivered]]

SnapshotEvent(s, revision, state) ==
    [kind |-> "snapshot", id |-> s, from |-> 0, revision |-> revision, state |-> state]
PatchEvent(s, revision, state) ==
    [kind |-> "patch", id |-> s, from |-> revision, revision |-> revision + 1, state |-> state]
Response(op, s, revision, ok, upToDate) ==
    [kind |-> "response", op |-> op, id |-> s, revision |-> revision, ok |-> ok,
     upToDate |-> upToDate]
Refused(op) == Response(op, 0, 0, FALSE, FALSE)

(* The frames of an answer: its response and the updates that follow it.   *)
(* An update that cannot be encoded is not sent.                           *)
Frames(response, events) ==
    \/ /\ outbox' = outbox \o response \o events
       /\ unsent' = [unsent EXCEPT !.last = @ /\ events = <<>>]
    \/ /\ events # <<>> /\ unsent.count < MaxUnsent
       /\ outbox' = outbox \o response
       /\ unsent' = [count |-> unsent.count + 1, last |-> TRUE]
Answer(response) == Frames(<<response>>, <<>>)
Update(event) == Frames(<<>>, <<event>>)
NoFrames == UNCHANGED <<outbox, unsent>>

(* The state cannot be read, or the update it goes into be built.          *)
Fails(due) ==
    /\ unsent.count < MaxUnsent
    /\ unsent' = [count |-> unsent.count + 1, last |-> unsent.last \/ due]
Skipped == Fails(TRUE) /\ UNCHANGED <<subs, outbox>>

Requested(ops) == watch.up /\ inbox # <<>> /\ Head(inbox).op \in ops /\ inbox' = Tail(inbox)

(* insert numbers subscriptions from 1.                                    *)
TakeId == nextId' = nextId + 1

(* Whether the client of a subscription already holds what it would send.  *)
(* Mutant: a client that holds something of the document is up to date.    *)
SameDocument(held, delivered) == held.born = delivered.born
UpToDate(held, delivered) == held # None /\ held = delivered

(* subscribe: an authoring state of a document that is not stored, or that *)
(* cannot be read, is refused.                                             *)
Accept(held) ==
    LET upToDate == UpToDate(held, stored)
    IN /\ IsStored
       /\ TakeId
       /\ subs' = [s \in DOMAIN subs \cup {nextId} |->
                     IF s = nextId THEN [revision |-> CurrentRevision, delivered |-> stored]
                     ELSE subs[s]]
       /\ Frames(<<Response("subscribe", nextId, CurrentRevision, TRUE, upToDate)>>,
                 IF upToDate THEN <<>>
                 ELSE <<SnapshotEvent(nextId, CurrentRevision, AuthoringState(held))>>)
Refuses(op, due) ==
    /\ outbox' = Append(outbox, Refused(op))
    /\ Fails(due)

ServeSubscribe ==
    LET held == Head(inbox).held
    IN /\ Requested({"subscribe"})
       /\ \/ Accept(held)
          \/ ~IsStored /\ Answer(Refused("subscribe")) /\ UNCHANGED <<subs, nextId>>
          \/ IsStored /\ Refuses("subscribe", FALSE) /\ UNCHANGED <<subs, nextId>>
       /\ UNCHANGED <<store, next, made, asked, client>>

(* resync: the whole state, whatever the client holds.                     *)
Resynced(s) == SnapshotEvent(s, subs[s].revision + 1, AuthoringState(None))

ServeResync ==
    LET s == Head(inbox).id
        op == Head(inbox).op
    IN /\ Requested({"resync", "heal"})
       /\ IF s \in DOMAIN subs /\ IsStored
          THEN \/ /\ Deliver(s, subs[s].revision + 1, stored)
                  /\ Frames(<<Response(op, s, subs[s].revision + 1, TRUE, FALSE)>>, <<Resynced(s)>>)
               \/ Refuses(op, TRUE) /\ UNCHANGED subs
          ELSE Answer(Refused(op)) /\ UNCHANGED subs
       /\ UNCHANGED <<store, next, nextId, made, asked, client>>

ServeUnsubscribe ==
    LET s == Head(inbox).id
    IN /\ Requested({"unsubscribe"})
       /\ subs' = Drop(subs, s)
       /\ Answer(Response("unsubscribe", s, 0, TRUE, FALSE))
       /\ UNCHANGED <<store, next, nextId, made, asked, client>>

(* deliver_following, for a subscription left where it was since the state *)
(* was read.  A failure leaves the subscription as it was.                 *)
Follow(s) ==
    IF subs[s].delivered = stored THEN UNCHANGED subs /\ NoFrames
    ELSE \/ /\ Deliver(s, subs[s].revision + 1, stored)
            /\ Update(PatchEvent(s, subs[s].revision, AuthoringState(subs[s].delivered)))
         \/ Skipped

Remove(s) ==
    \/ /\ Deliver(s, subs[s].revision + 1, None)
       /\ Update(PatchEvent(s, subs[s].revision, Removed))
    \/ Skipped

(* deliver_change, to the one subscription the watch has: a deletion is    *)
(* told to a client that holds something; of a commit it is sent the state *)
(* of now, unless the document is gone again.                              *)
Lagged == next + Window <= Len(publications)
TakeChange ==
    LET n == publications[next]
    IN /\ watch.up /\ next <= Len(publications) /\ ~Lagged
       /\ next' = next + 1
       /\ \/ DOMAIN subs = {} /\ UNCHANGED subs /\ NoFrames
          \/ \E s \in DOMAIN subs :
                IF changes[n].kind = "deleted"
                THEN IF subs[s].delivered = None THEN UNCHANGED subs /\ NoFrames ELSE Remove(s)
                ELSE IF IsStored THEN Follow(s) ELSE UNCHANGED subs /\ NoFrames
       /\ UNCHANGED <<store, nextId, inbox, made, asked, client>>

(* The connection fell behind: it starts after what was published by now   *)
(* and sends each subscription the whole state, unless there is none or it *)
(* cannot be read.                                                         *)
Lag ==
    /\ watch.up /\ Lagged
    /\ next' = Len(publications) + 1
    /\ IF ~IsStored
       THEN /\ unsent' = [unsent EXCEPT !.last = @ \/ DOMAIN subs # {}]
            /\ UNCHANGED <<subs, outbox>>
       ELSE \/ DOMAIN subs = {} /\ UNCHANGED subs /\ NoFrames
            \/ \E s \in DOMAIN subs :
                  \/ Deliver(s, subs[s].revision + 1, stored) /\ Update(Resynced(s))
                  \/ Skipped
    /\ UNCHANGED <<store, nextId, inbox, made, asked, client>>

-----------------------------------------------------------------------------
(* The client's watch.  `accepted` is a subscription that was accepted and *)
(* whose promise has not resumed the watch yet: events that arrive before  *)
(* it does are kept.                                                       *)

NotAccepted == [id |-> 0, revision |-> 0, upToDate |-> FALSE]
Disconnected ==
    [watch EXCEPT !.up = FALSE, !.id = 0, !.connecting = FALSE, !.resyncing = FALSE,
                  !.revision = 0, !.early = <<>>, !.accepted = NotAccepted, !.asking = 0]
Subscribing == watch.connecting \/ watch.id # 0

Send(request) == inbox' = Append(inbox, request)

(* The socket opens, on a connection the server admits anew.               *)
Connect ==
    /\ ~watch.up /\ made < MaxConnections
    /\ made' = made + 1
    /\ next' = Len(publications) + 1
    /\ subs' = <<>> /\ nextId' = 1 /\ outbox' = <<>>
    /\ unsent' = [unsent EXCEPT !.last = FALSE]
    /\ IF watch.disposed
       THEN watch' = [watch EXCEPT !.up = TRUE] /\ inbox' = <<>>
       ELSE /\ watch' = [watch EXCEPT !.up = TRUE, !.connecting = TRUE, !.resumeFrom = watch.held]
            /\ inbox' = <<[op |-> "subscribe", id |-> 0, held |-> watch.held]>>
    /\ UNCHANGED <<store, asked, replica>>

(* The connection is lost with whatever was under way.                     *)
Disconnect ==
    /\ watch.up
    /\ watch' = Disconnected
    /\ subs' = <<>> /\ inbox' = <<>> /\ outbox' = <<>>
    /\ UNCHANGED <<store, next, nextId, unsent, made, asked, replica>>

(* What the application's replica holds once it took a state: a history    *)
(* that is not its own replaces it.                                        *)
Unrelated(state) ==
    \E operation \in replica : operation.born # state.at.born
Lacking(state) == {operation \in Operations(state.at) : operation.number > state.from}
Imported(state) ==
    IF state.at = None \/ state.replaces \/ Unrelated(state) THEN Lacking(state)
    ELSE replica \cup Lacking(state)

(* onValue.                                                                *)
Apply(state) == replica' = Imported(state)

(* receive, of an event for the subscription the watch `w` has: one it     *)
(* holds already is dropped, one that does not follow what it holds makes  *)
(* it resynchronise.  Mutant: it is applied whatever it holds.             *)
FollowsAnything(w, event) == TRUE
Follows(w, event) == event.kind = "snapshot" \/ w.revision = event.from
Stale(w, event) == event.id # w.id \/ (w.revision # 0 /\ event.revision <= w.revision)
Received(w, event) ==
    [w EXCEPT !.revision = event.revision, !.held = event.state.at, !.settled = TRUE]

Receive(w, event) ==
    IF Stale(w, event) THEN watch' = w /\ UNCHANGED <<inbox, replica>>
    ELSE IF Follows(w, event)
    THEN watch' = Received(w, event) /\ Apply(event.state) /\ UNCHANGED inbox
    ELSE /\ watch' = [w EXCEPT !.held = None, !.resyncing = TRUE]
         /\ IF w.resyncing THEN UNCHANGED inbox
            ELSE Send([op |-> "heal", id |-> w.id, held |-> None])
         /\ UNCHANGED <<replica>>

(* The early events are taken before anything that arrives later.          *)
Draining == watch.id # 0 /\ watch.early # <<>>

Take == outbox # <<>> /\ outbox' = Tail(outbox)

TakeEvent ==
    /\ Take /\ Head(outbox).kind # "response" /\ ~Draining
    /\ IF watch.disposed THEN UNCHANGED <<watch, inbox, replica>>
       ELSE IF watch.id = 0
       THEN /\ watch' = [watch EXCEPT !.early = Append(@, Head(outbox))]
            /\ UNCHANGED <<inbox, replica>>
       ELSE Receive(watch, Head(outbox))
    /\ UNCHANGED <<store, next, subs, nextId, unsent, made, asked>>

(* A refused subscription fails a watch that has had no value yet, and     *)
(* leaves another without a subscription.                                  *)
TakeResponse ==
    LET response == Head(outbox)
    IN /\ Take /\ response.kind = "response"
       /\ watch' = CASE response.op = "subscribe" /\ response.ok ->
                        [watch EXCEPT !.accepted = [id |-> response.id,
                                                    revision |-> response.revision,
                                                    upToDate |-> response.upToDate]]
                     [] response.op = "subscribe" /\ ~response.ok ->
                        [watch EXCEPT !.connecting = FALSE, !.asking = 0,
                                      !.disposed = @ \/ ~watch.settled]
                     [] response.op = "heal" -> [watch EXCEPT !.resyncing = FALSE]
                     [] OTHER -> watch
       /\ UNCHANGED <<store, next, subs, nextId, inbox, unsent, made, asked, replica>>

(* connect resumes: a watch that was ended meanwhile gives the             *)
(* subscription up, another takes it.  Mutant: an ended watch keeps it.    *)
ResumeRegardless ==
    /\ watch.accepted # NotAccepted /\ watch.disposed
    /\ watch' = [watch EXCEPT !.accepted = NotAccepted, !.connecting = FALSE]
    /\ UNCHANGED <<store, connection, made, asked, replica>>
ResumeDisposed ==
    /\ watch.accepted # NotAccepted /\ watch.disposed
    /\ Send([op |-> "unsubscribe", id |-> watch.accepted.id, held |-> None])
    /\ watch' = [watch EXCEPT !.accepted = NotAccepted, !.connecting = FALSE]
    /\ UNCHANGED <<store, next, subs, nextId, outbox, unsent, made, asked, replica>>

(* A watch the server says is up to date keeps its value at the            *)
(* subscription's revision.                                                *)
Resumed(w) ==
    [w EXCEPT !.id = w.accepted.id, !.connecting = FALSE, !.accepted = NotAccepted,
              !.revision = IF w.accepted.upToDate /\ w.resumeFrom # None
                           THEN w.accepted.revision ELSE @]

Resume ==
    /\ watch.accepted # NotAccepted /\ ~watch.disposed
    /\ watch' = Resumed(watch)
    /\ UNCHANGED <<store, connection, made, asked, replica>>

(* Then it takes the events that came early, one after the other.          *)
TakeEarly ==
    /\ Draining
    /\ Receive([watch EXCEPT !.early = Tail(@)], Head(watch.early))
    /\ UNCHANGED <<store, next, subs, nextId, outbox, unsent, made, asked>>

(* ProjectionWatch::resync: a watch without a subscription subscribes, and *)
(* once there is one it is asked to resynchronise.                         *)
AskResync ==
    /\ watch.up /\ ~watch.disposed /\ ~Draining /\ asked < MaxResyncs
    /\ asked' = asked + 1
    /\ IF Subscribing
       THEN watch' = [watch EXCEPT !.asking = @ + 1] /\ UNCHANGED inbox
       ELSE /\ Send([op |-> "subscribe", id |-> 0, held |-> watch.held])
            /\ watch' = [watch EXCEPT !.asking = @ + 1, !.connecting = TRUE,
                                      !.resumeFrom = watch.held]
    /\ UNCHANGED <<store, next, subs, nextId, outbox, unsent, made, replica>>

RequestResync ==
    /\ watch.asking > 0 /\ watch.id # 0 /\ ~Draining
    /\ watch' = [watch EXCEPT !.asking = @ - 1]
    /\ Send([op |-> "resync", id |-> watch.id, held |-> None])
    /\ UNCHANGED <<store, next, subs, nextId, outbox, unsent, made, asked, replica>>

(* The application ends the watch, or the wait for its first snapshot does. *)
Dispose ==
    /\ ~watch.disposed /\ ~Draining
    /\ watch' = [watch EXCEPT !.disposed = TRUE, !.id = 0, !.asking = 0]
    /\ IF watch.id # 0
       THEN Send([op |-> "unsubscribe", id |-> watch.id, held |-> None])
       ELSE UNCHANGED inbox
    /\ UNCHANGED <<store, next, subs, nextId, outbox, unsent, made, asked, replica>>

-----------------------------------------------------------------------------

Init ==
    /\ stored = None /\ changes = <<>> /\ racing = {} /\ publications = <<>>
    /\ next = 1 /\ subs = <<>> /\ nextId = 1 /\ inbox = <<>> /\ outbox = <<>>
    /\ made = 0 /\ asked = 0
    /\ watch = [up |-> FALSE, disposed |-> FALSE, settled |-> FALSE, id |-> 0,
                connecting |-> FALSE, accepted |-> NotAccepted, resumeFrom |-> None,
                resyncing |-> FALSE, revision |-> 0, held |-> None, early |-> <<>>, asking |-> 0]
    /\ replica = {}
    /\ unsent = [count |-> 0, last |-> FALSE]

StoreNext == Create \/ Commit \/ Delete
AnnounceNext == \E n \in racing : Announce(n)
ServerNext == ServeSubscribe \/ ServeResync \/ ServeUnsubscribe \/ TakeChange \/ Lag
WatchNext ==
    TakeEvent \/ TakeResponse \/ Resume \/ ResumeDisposed \/ TakeEarly \/ RequestResync
ClientNext == Connect \/ Disconnect \/ AskResync \/ Dispose

Next == StoreNext \/ AnnounceNext \/ ServerNext \/ WatchNext \/ ClientNext

Spec == Init /\ [][Next]_vars

-----------------------------------------------------------------------------
(* Properties.                                                             *)

Token == [born: 0..MaxChanges, last: 0..MaxChanges]

(* Every variable holds what its declaration says.                         *)
TypeOK ==
    /\ stored \in Token
    /\ changes \in Seq([kind: {"created", "committed", "deleted"}, after: Token])
    /\ racing \subseteq DOMAIN changes
    /\ publications \in Seq(DOMAIN changes)
    /\ next \in 1..Len(publications) + 1
    /\ \A s \in DOMAIN subs :
          s < nextId /\ subs[s] \in [revision: Nat, delivered: Token]
    /\ made \in 0..MaxConnections /\ asked \in 0..MaxResyncs
    /\ watch.held \in Token /\ watch.revision \in Nat /\ watch.asking \in Nat
    /\ replica \subseteq [born: 1..MaxChanges, number: 1..MaxChanges]
    /\ unsent \in [count: 0..MaxUnsent, last: BOOLEAN]

(* Nothing is on its way to the client, and its watch has a subscription.  *)
Quiet ==
    /\ racing = {} /\ watch.up /\ next > Len(publications)
    /\ inbox = <<>> /\ outbox = <<>> /\ watch.early = <<>> /\ watch.accepted = NotAccepted
    /\ watch.id # 0

(* A deletion was announced last though the document was created anew.     *)
Overtaken ==
    /\ stored # None /\ publications # <<>>
    /\ changes[publications[Len(publications)]].kind = "deleted"

(* Whatever update a client takes leaves it holding every operation of the *)
(* state the update names, of one history: no update supposes operations   *)
(* it lacks, though the document may be deleted and created anew, the      *)
(* connection lost, a state not be read, and updates not sent or taken     *)
(* before the subscription they belong to is known.                        *)
HeldIsWhole == watch.held # None => replica = Operations(watch.held)

(* Once every change reached the connection, the client holds the stored   *)
(* state, or none: the state a delivery reads is never older than the      *)
(* change, a reconnected client is sent what it lacks, and one that misses *)
(* an update has it made up for at the next.  A last update that could not *)
(* be read, built or encoded leaves the client behind, and it is told      *)
(* nothing.                                                                *)
CaughtUp == Quiet /\ ~unsent.last /\ ~Overtaken => watch.held = stored

(* A watch that was ended leaves no subscription behind, however its end   *)
(* and the answer to its subscribe request cross.                          *)
EndedLeavesNone ==
    watch.disposed /\ watch.up /\ inbox = <<>> /\ outbox = <<>> /\ watch.accepted = NotAccepted
        => subs = <<>>

=============================================================================
