-------------------------- MODULE ProjectionServer --------------------------
(***************************************************************************)
(* How the projection server brings every connection the modifications the *)
(* application saves, runs commands and shuts down:                        *)
(* crates/clerkenwell-axum/src/lib.rs over                                 *)
(* crates/clerkenwell-session/src/{server,subscriptions}.rs.               *)
(*                                                                         *)
(* Each connection is a task that, at its select, serves one request or    *)
(* takes one publication, and then sends the frames that come of it, one   *)
(* after the other, before it is back at its select.  It awaits the host   *)
(* inside the first and its client in the second, and meanwhile the tasks  *)
(* of other connections, of commands and of the application save           *)
(* modifications and publish.  A request that changes nothing (refused,    *)
(* failed or malformed) is not an action.                                  *)
(*                                                                         *)
(* Every modification touches every projection subscribed to; a number of  *)
(* 0 stands for a result that names no modification.  Subscriptions to     *)
(* authoring states, which take the changes of the store instead, are not  *)
(* in this module.                                                         *)
(***************************************************************************)
EXTENDS Integers, Sequences, FiniteSets, Functions

CONSTANTS
    Connections,       \* the connections that are made
    Application,       \* NO_CONNECTION, the origin of what the application does itself
    Window,            \* publication_window
    CommandLimit,      \* command_limit
    Faults,            \* what may fail: a snapshot, or a host's patch hook that panics
    MaxModifications,  \* bound: modifications saved
    MaxCommands,       \* bound: commands started
    MaxSubscriptions   \* bound: subscriptions opened on each connection

ASSUME OriginAssumption == Application \notin Connections
ASSUME LimitsAssumption == {Window, CommandLimit} \subseteq Nat \ {0}
ASSUME FaultsAssumption == Faults \subseteq {"snapshot", "panic"}
ASSUME MaxAssumption == {MaxModifications, MaxCommands, MaxSubscriptions} \subseteq Nat

VARIABLES
    saved,         \* ModificationCounter::last
    unpublished,   \* what the application saved itself and has not published yet
    publications,  \* every publication sent; its place is its number
    commands,      \* every command started
    permits,       \* command permits left
    lifecycle,     \* Lifecycle: stopping, and the commands and connections counted
    closingAt,     \* the number of the closing publication, or 0
    phase,         \* where each connection's task is
    next,          \* the number of the publication its receiver is at
    subs,          \* its subscriptions
    opened,        \* how many it opened
    made,          \* the modification its mutation saved
    running,       \* its commands that are to be answered
    ran,           \* of its commands, the number each one's outcome was published as
    lag,           \* once it fell behind: what it skipped, and what is left to resynchronise
    frames         \* what its task has yet to send to its client

connection == <<phase, next, subs, opened, made, running, ran, lag, frames>>
server == <<publications, commands, permits, lifecycle, closingAt>>
vars == <<saved, unpublished, server, connection>>

Origins == Connections \cup {Application}
Modification == 1..MaxModifications
Numbered == 0..MaxModifications
Command == 1..MaxCommands
SubscriptionId == 1..MaxSubscriptions

Drop(f, S) == [x \in DOMAIN f \ S |-> f[x]]
Largest(S) == CHOOSE x \in S : \A y \in S : y <= x

-----------------------------------------------------------------------------
(* Modifications and publications.                                         *)

(* ModificationCounter::take, as the host calls it while it saves.         *)
Save == saved < MaxModifications /\ saved' = saved + 1

(* A change made under `origin`: Served, or Announced by the application.  *)
Change(origin, modification) ==
    [kind |-> "change", origin |-> origin, command |-> 0, modification |-> modification]
Ran(k) ==
    [kind |-> "ran", origin |-> commands[k].origin, command |-> k,
     modification |-> commands[k].modification]
Closing == [kind |-> "closing", origin |-> Application, command |-> 0, modification |-> 0]

(* Publications::send.                                                     *)
Send(publication) == publications' = Append(publications, publication)
Last == Len(publications)

-----------------------------------------------------------------------------
(* A connection's subscriptions.  `patches` is history: the modifications  *)
(* made into frames for the client since its snapshot.                     *)

Snapshot(revision) == [through |-> saved, revision |-> revision, patches |-> <<>>]

(* What the client of subscription s of connection c holds, once it has    *)
(* the frames on their way to it.                                          *)
Held(c, s) == 1..subs[c][s].through \cup Range(subs[c][s].patches)

CurrentRevision(c) == Largest({1} \cup {subs[c][s].revision : s \in DOMAIN subs[c]})

(* change_revision of a change that publishes.                             *)
ChangeRevision(c) == CurrentRevision(c) + 1

(* The subscriptions a modification is sent to.  Mutant: those whose       *)
(* snapshot holds it too.                                                  *)
AffectedAnyway(c, n) == IF n = 0 THEN {} ELSE DOMAIN subs[c]
Affected(c, n) ==
    IF n = 0 THEN {} ELSE {s \in DOMAIN subs[c] : n > subs[c][s].through}

(* deliver: connection c's subscriptions once they were sent modification  *)
(* n, all of them at one revision past the highest.                        *)
Delivered(c, n) ==
    [s \in DOMAIN subs[c] |->
        IF s \in Affected(c, n)
        THEN [subs[c][s] EXCEPT !.revision = ChangeRevision(c), !.patches = Append(@, n)]
        ELSE subs[c][s]]

SetSubs(c, new) == subs' = [subs EXCEPT ![c] = new]
Deliver(c, n) == SetSubs(c, Delivered(c, n))

At(c, p) == phase[c] = p
Go(c, p) == phase' = [phase EXCEPT ![c] = p]

(* A task is back at its select once it sent every frame.                  *)
Idle(c) == At(c, "select") /\ frames[c] = <<>>

-----------------------------------------------------------------------------
(* Frames: a reply to a request, the answer to a command, and the updates  *)
(* of one subscription with the modifications they bring.                  *)

Reply == [kind |-> "reply", command |-> 0, changes |-> {}]
AnswerTo(k) == [kind |-> "answer", command |-> k, changes |-> {}]
Patch(n) == [kind |-> "patch", command |-> 0, changes |-> {n}]
WholeState == [kind |-> "snapshot", command |-> 0, changes |-> 1..saved]

(* The updates a modification is sent in, one for each subscription.       *)
Patches(c, n) == [i \in 1..Cardinality(Affected(c, n)) |-> Patch(n)]

(* What is sent is added to what a lagging connection has gathered.        *)
Compose(c, sent) == frames' = [frames EXCEPT ![c] = @ \o sent]

(* sink.send of the next frame, which waits for a client that does not     *)
(* read.                                                                   *)
SendFrame(c) ==
    /\ At(c, "select") \/ At(c, "closing")
    /\ frames[c] # <<>>
    /\ frames' = [frames EXCEPT ![c] = Tail(@)]
    /\ UNCHANGED <<saved, unpublished, server, phase, next, subs, opened, made, running, ran, lag>>

-----------------------------------------------------------------------------
(* The application changes its state outside any request, and then calls   *)
(* ProjectionServer::mutate's publication or AnnouncementFeed::announce:   *)
(* what was saved first may be published last.                             *)

ApplicationSaves ==
    /\ Save
    /\ unpublished' = unpublished \cup {saved'}
    /\ UNCHANGED <<server, connection>>

ApplicationPublishes(n) ==
    /\ n \in unpublished
    /\ unpublished' = unpublished \ {n}
    /\ Send(Change(Application, n))
    /\ UNCHANGED <<saved, commands, permits, lifecycle, closingAt, connection>>

-----------------------------------------------------------------------------
(* Commands.                                                               *)

Running(k) == commands[k].phase = "running"

(* start: refused once the server is stopping or has no permit left.       *)
StartCommand(origin) ==
    /\ Len(commands) < MaxCommands
    /\ origin # Application => Idle(origin)
    /\ ~lifecycle.stopping
    /\ permits > 0
    /\ permits' = permits - 1
    /\ lifecycle' = [lifecycle EXCEPT !.running = @ + 1]
    /\ commands' = Append(commands, [origin |-> origin, phase |-> "running", unannounced |-> 0,
                                     announced |-> {}, modification |-> 0, replied |-> FALSE])
    /\ running' = IF origin = Application THEN running
                  ELSE [running EXCEPT ![origin] = @ \cup {Len(commands) + 1}]
    /\ UNCHANGED <<saved, unpublished, publications, closingAt, phase, next, subs, opened, made,
                   ran, lag, frames>>

(* The host saves a modification, which it announces while the command     *)
(* runs or names in its result.                                            *)
CommandSaves(k) ==
    /\ Running(k) /\ commands[k].unannounced = 0
    /\ Save
    /\ commands' = [commands EXCEPT ![k].unannounced = saved']
    /\ UNCHANGED <<unpublished, publications, permits, lifecycle, closingAt, connection>>

CommandAnnounces(k) ==
    LET n == commands[k].unannounced
    IN /\ Running(k) /\ n # 0
       /\ Send(Change(Application, n))
       /\ commands' = [commands EXCEPT ![k].unannounced = 0, ![k].announced = @ \cup {n}]
       /\ UNCHANGED <<saved, unpublished, permits, lifecycle, closingAt, connection>>

(* The host returns, fails or panics; the permit is given back.  Of a      *)
(* failure nothing is published but the refusal, like of a result that     *)
(* names no modification.                                                  *)
CommandReturns(k) ==
    /\ Running(k)
    /\ commands' = [commands EXCEPT ![k].phase = "returned", ![k].unannounced = 0,
                                    ![k].modification = commands[k].unannounced]
    /\ permits' = permits + 1
    /\ UNCHANGED <<saved, unpublished, publications, lifecycle, closingAt, connection>>

(* Its outcome is published, and handed to whoever answers it as it is     *)
(* numbered.                                                               *)
CommandPublishes(k) ==
    LET origin == commands[k].origin
    IN /\ commands[k].phase = "returned"
       /\ Send(Ran(k))
       /\ commands' = [commands EXCEPT ![k].phase = "published",
                                       ![k].replied = origin = Application]
       /\ ran' = IF origin = Application THEN ran
                 ELSE [ran EXCEPT ![origin] =
                          [j \in DOMAIN @ \cup {k} |-> IF j = k THEN Last + 1 ELSE @[j]]]
       /\ UNCHANGED <<saved, unpublished, permits, lifecycle, closingAt, phase, next, subs,
                      opened, made, running, lag, frames>>

(* ... and only then is it no longer counted.                              *)
CommandEnds(k) ==
    /\ commands[k].phase = "published"
    /\ commands' = [commands EXCEPT ![k].phase = "ended"]
    /\ lifecycle' = [lifecycle EXCEPT !.running = @ - 1]
    /\ UNCHANGED <<saved, unpublished, publications, permits, closingAt, connection>>

-----------------------------------------------------------------------------
(* Connections.                                                            *)

(* admit: a receiver is subscribed, and then the connection counted.       *)
AdmitSubscribes(c) ==
    /\ At(c, "away")
    /\ next' = [next EXCEPT ![c] = Last + 1]
    /\ Go(c, "admitting")
    /\ UNCHANGED <<saved, unpublished, server, subs, opened, made, running, ran, lag, frames>>

AdmitCounts(c) ==
    /\ At(c, "admitting")
    /\ IF lifecycle.stopping
       THEN /\ Go(c, "refused")
            /\ UNCHANGED lifecycle
       ELSE /\ Go(c, "select")
            /\ lifecycle' = [lifecycle EXCEPT !.serving = @ + 1]
    /\ UNCHANGED <<saved, unpublished, publications, commands, permits, closingAt, next, subs,
                   opened, made, running, ran, lag, frames>>

(* subscribe: nothing else reaches the connection between the moment the   *)
(* host reads the snapshot and the moment the subscription is accepted.    *)
Subscribe(c) ==
    /\ Idle(c)
    /\ opened[c] < MaxSubscriptions
    /\ opened' = [opened EXCEPT ![c] = @ + 1]
    /\ SetSubs(c, [s \in DOMAIN subs[c] \cup {opened[c] + 1} |->
                     IF s \in DOMAIN subs[c] THEN subs[c][s] ELSE Snapshot(CurrentRevision(c))])
    /\ Compose(c, <<Reply, WholeState>>)
    /\ UNCHANGED <<saved, unpublished, server, phase, next, made, running, ran, lag>>

Resynced(c, s) == [subs[c] EXCEPT ![s] = Snapshot(subs[c][s].revision + 1)]

(* Bound: a client does not ask for the snapshot it already has.           *)
Resync(c, s) ==
    /\ Idle(c)
    /\ s \in DOMAIN subs[c]
    /\ subs[c][s].through # saved \/ subs[c][s].patches # <<>>
    /\ SetSubs(c, Resynced(c, s))
    /\ Compose(c, <<Reply, WholeState>>)
    /\ UNCHANGED <<saved, unpublished, server, phase, next, opened, made, running, ran, lag>>

Unsubscribe(c, s) ==
    /\ Idle(c)
    /\ s \in DOMAIN subs[c]
    /\ SetSubs(c, Drop(subs[c], {s}))
    /\ Compose(c, <<Reply>>)
    /\ UNCHANGED <<saved, unpublished, server, phase, next, opened, made, running, ran, lag>>

(* mutate: the host saves the modification, ...                            *)
MutateSaves(c) ==
    /\ Idle(c)
    /\ Save
    /\ made' = [made EXCEPT ![c] = saved']
    /\ Go(c, "mutating")
    /\ UNCHANGED <<unpublished, server, next, subs, opened, running, ran, lag, frames>>

(* ... the connection's own subscriptions are brought it, and then it is   *)
(* published for the others, before the response and the updates are sent. *)
MutateResponds(c) ==
    /\ At(c, "mutating")
    /\ Deliver(c, made[c])
    /\ Compose(c, <<Reply>> \o Patches(c, made[c]))
    /\ Send(Change(c, made[c]))
    /\ made' = [made EXCEPT ![c] = 0]
    /\ Go(c, "select")
    /\ UNCHANGED <<saved, unpublished, commands, permits, lifecycle, closingAt, next, opened,
                   running, ran, lag>>

(* A patch hook panics: receive refuses the request, though it was saved.  *)
(* What the hook had built for the subscriptions before s is not sent.     *)
MutatePanics(c, s) ==
    LET n == made[c]
    IN /\ "panic" \in Faults
       /\ At(c, "mutating")
       /\ s \in Affected(c, n)
       /\ SetSubs(c, [t \in DOMAIN subs[c] |->
                        IF t \in Affected(c, n) /\ t < s
                        THEN [subs[c][t] EXCEPT !.revision = ChangeRevision(c)]
                        ELSE subs[c][t]])
       /\ Compose(c, <<Reply>>)
       /\ made' = [made EXCEPT ![c] = 0]
       /\ Go(c, "select")
       /\ UNCHANGED <<saved, unpublished, server, next, opened, running, ran, lag>>

(* The broadcast channel keeps the last Window publications: a receiver    *)
(* at an earlier one has fallen behind.                                    *)
Lagged(c) == next[c] + Window <= Last
Receives(c) == Idle(c) /\ next[c] <= Last /\ ~Lagged(c)
Taken(c) == publications[next[c]]
Advance(c) == next' = [next EXCEPT ![c] = @ + 1]

(* take: a change of another connection, of a command of another, or of    *)
(* the application; a change of its own was delivered when it was made.    *)
TakeChange(c) ==
    /\ Receives(c)
    /\ Taken(c).kind = "change" \/ (Taken(c).kind = "ran" /\ Taken(c).origin # c)
    /\ IF Taken(c).origin = c THEN UNCHANGED <<subs, frames>>
       ELSE /\ Deliver(c, Taken(c).modification)
            /\ Compose(c, Patches(c, Taken(c).modification))
    /\ Advance(c)
    /\ UNCHANGED <<saved, unpublished, server, phase, opened, made, running, ran, lag>>

(* `ks` are replied to, each if its request is still to be answered: the   *)
(* answers are in frames, which are yet to be sent.                        *)
Answer(c, ks) ==
    /\ commands' = [k \in DOMAIN commands |->
                       IF k \in ks \cap running[c] THEN [commands[k] EXCEPT !.replied = TRUE]
                       ELSE commands[k]]
    /\ running' = [running EXCEPT ![c] = @ \ ks]
    /\ ran' = [ran EXCEPT ![c] = Drop(@, ks)]

(* A command of its own is answered at its place among the publications,   *)
(* and the updates its result brings follow.                               *)
TakeOwnCommand(c) ==
    /\ Receives(c)
    /\ Taken(c).kind = "ran" /\ Taken(c).origin = c
    /\ Answer(c, {Taken(c).command})
    /\ Deliver(c, Taken(c).modification)
    /\ Compose(c, <<AnswerTo(Taken(c).command)>> \o Patches(c, Taken(c).modification))
    /\ Advance(c)
    /\ UNCHANGED <<saved, unpublished, publications, permits, lifecycle, closingAt, phase, opened,
                   made, lag>>

Uncount == lifecycle' = [lifecycle EXCEPT !.serving = @ - 1]

TakeClosing(c) ==
    /\ Receives(c)
    /\ Taken(c).kind = "closing"
    /\ Go(c, "closing")
    /\ UNCHANGED <<saved, unpublished, server, next, subs, opened, made, running, ran, lag, frames>>

(* The Close frame, after every other.                                     *)
Closes(c) ==
    /\ At(c, "closing")
    /\ frames[c] = <<>>
    /\ Go(c, "closed")
    /\ Uncount
    /\ UNCHANGED <<saved, unpublished, publications, commands, permits, closingAt, next, subs,
                   opened, made, running, ran, lag, frames>>

(* The answers to `ks`, in the order their outcomes were published.        *)
AnswersTo(c, ks) ==
    {[i \in DOMAIN order |-> AnswerTo(order[i])] :
        order \in {o \in [1..Cardinality(ks) -> ks] :
                     \A i, j \in DOMAIN o : i < j => ran[c][o[i]] < ran[c][o[j]]}}

(* The receiver has fallen behind: a new one starts after what was sent by *)
(* now.  Mutant: the commands that ran are answered before its clients are *)
(* sent what was skipped.                                                  *)
LagSkipsAnswering(c) ==
    /\ Idle(c)
    /\ Lagged(c)
    /\ lag' = [lag EXCEPT ![c] = [skipped |-> Last, todo |-> DOMAIN subs[c]]]
    /\ next' = [next EXCEPT ![c] = Last + 1]
    /\ Answer(c, DOMAIN ran[c])
    /\ \E answers \in AnswersTo(c, DOMAIN ran[c] \cap running[c]) : Compose(c, answers)
    /\ Go(c, "lagging")
    /\ UNCHANGED <<saved, unpublished, publications, permits, lifecycle, closingAt, subs, opened,
                   made>>
LagSkips(c) ==
    /\ Idle(c)
    /\ Lagged(c)
    /\ lag' = [lag EXCEPT ![c] = [skipped |-> Last, todo |-> DOMAIN subs[c]]]
    /\ next' = [next EXCEPT ![c] = Last + 1]
    /\ Go(c, "lagging")
    /\ UNCHANGED <<saved, unpublished, server, subs, opened, made, running, ran, frames>>

(* resync_all: one subscription after the other is sent a snapshot, unless *)
(* its snapshot cannot be built.                                           *)
LagResyncs(c, s) ==
    /\ At(c, "lagging")
    /\ s \in lag[c].todo
    /\ \A t \in lag[c].todo : s <= t
    /\ lag' = [lag EXCEPT ![c].todo = @ \ {s}]
    /\ \/ SetSubs(c, Resynced(c, s)) /\ Compose(c, <<WholeState>>)
       \/ "snapshot" \in Faults /\ UNCHANGED <<subs, frames>>
    /\ UNCHANGED <<saved, unpublished, server, phase, next, opened, made, running, ran>>

(* Whether the closing publication was among those skipped.  Mutant: a     *)
(* closing that was skipped is not looked for.                             *)
ClosingOverlooked(c) == FALSE
SkippedClosing(c) == closingAt # 0 /\ closingAt <= lag[c].skipped

(* The commands whose outcomes were skipped.  Mutant: none.                *)
SkippedNone(c) == {}
Skipped(c) == {k \in DOMAIN ran[c] : ran[c][k] <= lag[c].skipped}

(* answer_skipped, and the connection ends if the server is closing.       *)
LagAnswers(c) ==
    /\ At(c, "lagging")
    /\ lag[c].todo = {}
    /\ Answer(c, Skipped(c))
    /\ \E answers \in AnswersTo(c, Skipped(c) \cap running[c]) : Compose(c, answers)
    /\ lag' = [lag EXCEPT ![c].skipped = 0]
    /\ Go(c, IF SkippedClosing(c) THEN "closing" ELSE "select")
    /\ UNCHANGED <<saved, unpublished, publications, permits, lifecycle, closingAt, next, subs,
                   opened, made>>

(* The client goes away, the socket fails, before or while a frame is      *)
(* sent, or the upgrade does; or the host panics over a snapshot.  What    *)
(* was the connection's own is dropped, with the frames it had yet to      *)
(* send.                                                                   *)
Break(c) ==
    /\ \/ At(c, "select") \/ At(c, "closing")
       \/ "panic" \in Faults /\ At(c, "lagging")
    /\ Go(c, "broken")
    /\ Uncount
    /\ subs' = [subs EXCEPT ![c] = <<>>]
    /\ running' = [running EXCEPT ![c] = {}]
    /\ ran' = [ran EXCEPT ![c] = <<>>]
    /\ lag' = [lag EXCEPT ![c] = [skipped |-> 0, todo |-> {}]]
    /\ frames' = [frames EXCEPT ![c] = <<>>]
    /\ UNCHANGED <<saved, unpublished, publications, commands, permits, closingAt, next, opened,
                   made>>

-----------------------------------------------------------------------------
(* shut_down, and the task it spawns, which publishes the closing once no  *)
(* command is counted any more.                                            *)

ShutDown ==
    /\ ~lifecycle.stopping
    /\ lifecycle' = [lifecycle EXCEPT !.stopping = TRUE]
    /\ UNCHANGED <<saved, unpublished, publications, commands, permits, closingAt, connection>>

(* Mutant: commands are not waited for.                                    *)
CloseAtOnce ==
    /\ lifecycle.stopping
    /\ closingAt = 0
    /\ Send(Closing)
    /\ closingAt' = Last + 1
    /\ UNCHANGED <<saved, unpublished, commands, permits, lifecycle, connection>>
Close ==
    /\ lifecycle.stopping /\ lifecycle.running = 0
    /\ closingAt = 0
    /\ Send(Closing)
    /\ closingAt' = Last + 1
    /\ UNCHANGED <<saved, unpublished, commands, permits, lifecycle, connection>>

-----------------------------------------------------------------------------

Init ==
    /\ saved = 0 /\ unpublished = {}
    /\ publications = <<>>
    /\ commands = <<>> /\ permits = CommandLimit
    /\ lifecycle = [stopping |-> FALSE, running |-> 0, serving |-> 0]
    /\ closingAt = 0
    /\ phase = [c \in Connections |-> "away"]
    /\ next = [c \in Connections |-> 1]
    /\ subs = [c \in Connections |-> <<>>]
    /\ opened = [c \in Connections |-> 0]
    /\ made = [c \in Connections |-> 0]
    /\ running = [c \in Connections |-> {}]
    /\ ran = [c \in Connections |-> <<>>]
    /\ lag = [c \in Connections |-> [skipped |-> 0, todo |-> {}]]
    /\ frames = [c \in Connections |-> <<>>]

ApplicationNext == ApplicationSaves \/ \E n \in unpublished : ApplicationPublishes(n)

(* What a command's task does once it was started, its host's part first.  *)
HostNext(k) == CommandSaves(k) \/ CommandAnnounces(k)
CommandNext(k) == CommandReturns(k) \/ CommandPublishes(k) \/ CommandEnds(k)

RequestNext(c) ==
    \/ Subscribe(c) \/ MutateSaves(c)
    \/ \E s \in DOMAIN subs[c] : Resync(c, s) \/ Unsubscribe(c, s)

(* What a connection's task does without being asked to.                   *)
ServeNext(c) ==
    \/ MutateResponds(c) \/ \E s \in DOMAIN subs[c] : MutatePanics(c, s)
    \/ TakeChange(c) \/ TakeOwnCommand(c) \/ TakeClosing(c)
    \/ LagSkips(c) \/ \E s \in DOMAIN subs[c] : LagResyncs(c, s)
    \/ LagAnswers(c)

(* ... and what it does as its client reads.                               *)
SendNext(c) == SendFrame(c) \/ Closes(c)

ConnectionNext(c) ==
    \/ AdmitSubscribes(c) \/ AdmitCounts(c) \/ RequestNext(c) \/ ServeNext(c)
    \/ SendNext(c) \/ Break(c)

Next ==
    \/ ApplicationNext
    \/ \E o \in Origins : StartCommand(o)
    \/ \E k \in DOMAIN commands : HostNext(k) \/ CommandNext(k)
    \/ \E c \in Connections : ConnectionNext(c)
    \/ ShutDown \/ Close

Spec == Init /\ [][Next]_vars

(* A host's command returns in the end, tokio runs every task that can go  *)
(* on, and its select, which picks among what is ready at random, does not *)
(* pass a publication over for ever.  No request need ever be made, and no *)
(* frame be taken: sink.send waits, without a limit, for a client that     *)
(* does not read.                                                          *)
FairSpec ==
    /\ Spec
    /\ \A c \in Connections : WF_vars(AdmitCounts(c)) /\ WF_vars(ServeNext(c))
    /\ \A k \in Command : WF_vars(k \in DOMAIN commands /\ CommandNext(k))
    /\ WF_vars(Close)

-----------------------------------------------------------------------------
(* Properties.                                                             *)

Phases == {"away", "admitting", "refused", "select", "mutating", "lagging", "closing",
           "closed", "broken"}
Publication ==
    [kind: {"change", "ran", "closing"}, origin: Origins, command: 0..MaxCommands,
     modification: Numbered]
Frame ==
    [kind: {"reply", "answer", "patch", "snapshot"}, command: 0..MaxCommands,
     changes: SUBSET Modification]

(* Every variable holds what its declaration says.                         *)
TypeOK ==
    /\ saved \in Numbered
    /\ unpublished \subseteq 1..saved
    /\ publications \in Seq(Publication)
    /\ commands \in Seq([origin: Origins, phase: {"running", "returned", "published", "ended"},
                         unannounced: Numbered, announced: SUBSET Modification,
                         modification: Numbered, replied: BOOLEAN])
    /\ permits \in 0..CommandLimit
    /\ lifecycle \in [stopping: BOOLEAN, running: 0..MaxCommands,
                      serving: 0..Cardinality(Connections)]
    /\ closingAt \in 0..Last
    /\ phase \in [Connections -> Phases]
    /\ \A c \in Connections :
          /\ next[c] \in 1..Last + 1
          /\ DOMAIN subs[c] \subseteq 1..opened[c]
          /\ \A s \in DOMAIN subs[c] :
                subs[c][s] \in [through: Numbered, revision: Nat, patches: Seq(Modification)]
          /\ opened[c] \in 0..MaxSubscriptions
          /\ made[c] \in Numbered
          /\ running[c] \cup DOMAIN ran[c] \subseteq DOMAIN commands
          /\ lag[c] \in [skipped: 0..Last, todo: SUBSET DOMAIN subs[c]]
          /\ frames[c] \in Seq(Frame)

(* A subscription is sent no modification twice, nor one its snapshot      *)
(* holds: not by its connection's own mutations and commands, the          *)
(* publications queued behind a snapshot, or those a lagging connection    *)
(* finds after it resynchronised.                                          *)
SentOnce ==
    \A c \in Connections : \A s \in DOMAIN subs[c] :
        LET patches == subs[c][s].patches
        IN /\ \A i \in DOMAIN patches : patches[i] > subs[c][s].through
           /\ \A i, j \in DOMAIN patches : patches[i] = patches[j] => i = j

(* What a connection has taken or skipped of the publications, its clients *)
(* hold, except for the subscriptions it has yet to resynchronise: no      *)
(* publication falls between a snapshot and the receiver.                  *)
TakenIsHeld ==
    \A c \in Connections : \A s \in DOMAIN subs[c] \ lag[c].todo :
        \A i \in 1..next[c] - 1 :
            publications[i].modification \in {0} \cup Held(c, s)

(* Nothing that was saved is on its way to being published.                *)
Settled ==
    /\ unpublished = {}
    /\ \A c \in Connections : made[c] = 0
    /\ \A k \in DOMAIN commands : commands[k].phase \in {"published", "ended"}

(* A subscription is sent each modification after its snapshot: once a     *)
(* connection took every publication, its clients hold all that was saved. *)
NothingMissed ==
    Settled =>
        \A c \in Connections : At(c, "select") /\ next[c] > Last =>
            \A s \in DOMAIN subs[c] : Held(c, s) = 1..saved

(* A subscription is sent each modification after its snapshot exactly     *)
(* once, however its connection's own changes, the publications behind a   *)
(* snapshot and a resynchronisation fall.                                  *)
UpdatedOnce == SentOnce /\ TakenIsHeld /\ NothingMissed

(* A caller has read every change announced while its command ran before   *)
(* it reads the answer, though the answer may have been found among        *)
(* skipped publications; the change the command made itself follows the    *)
(* answer as a patch, unless a snapshot already brought it.                *)
CallersHold ==
    \A k \in DOMAIN commands :
        LET c == commands[k].origin
            command == commands[k]
        IN command.replied /\ c # Application =>
              /\ \A s \in DOMAIN subs[c] :
                    command.announced \cup ({command.modification} \ {0}) \subseteq Held(c, s)
              /\ \A i, j \in DOMAIN frames[c] : frames[c][i].command = k =>
                    /\ j > i => frames[c][j].changes \cap command.announced = {}
                    /\ j < i /\ frames[c][j].kind = "patch" =>
                          command.modification \notin frames[c][j].changes

(* The answer to a command was sent.                                       *)
AnswerSent(k) ==
    /\ commands[k].replied
    /\ \A c \in Connections : \A i \in DOMAIN frames[c] : frames[c][i].command # k

(* A connection the server closes has been sent the answer to every        *)
(* command it started.                                                     *)
ClosedAnswered ==
    \A c \in Connections : At(c, "closed") =>
        /\ running[c] = {}
        /\ \A k \in DOMAIN commands : commands[k].origin = c => AnswerSent(k)

(* A client that reads what it is sent, as long as it does.                *)
Reads(c) == WF_vars(SendNext(c))

(* A command that was started is replied to in the end, however far its    *)
(* connection falls behind, unless the connection breaks or its client     *)
(* leaves a frame unread for ever; a client that reads is sent the answer. *)
CommandsAnswered ==
    \A k \in Command : \A c \in Origins :
        LET started == k \in DOMAIN commands /\ commands[k].origin = c
        IN (c \in Connections => Reads(c)) =>
              (started ~> started /\ (AnswerSent(k) \/ (c \in Connections /\ At(c, "broken"))))

(* A connection whose client has yet to take what it is sent.              *)
AwaitsClient(c) == At(c, "closing") \/ (At(c, "select") /\ frames[c] # <<>>)
CountedConnections ==
    {c \in Connections : phase[c] \in {"select", "mutating", "lagging", "closing"}}

(* A shutdown ends: no command stays counted and no connection, but those  *)
(* whose clients do not read; if every client reads none does.             *)
ShutDownEnds ==
    /\ lifecycle.stopping
         ~> lifecycle.running = 0 /\ \A c \in CountedConnections : AwaitsClient(c)
    /\ (\A c \in Connections : Reads(c)) =>
          (lifecycle.stopping ~> lifecycle.running = 0 /\ lifecycle.serving = 0)

=============================================================================
