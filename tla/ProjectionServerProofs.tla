----------------------- MODULE ProjectionServerProofs -----------------------
(***************************************************************************)
(* For every number of connections, modifications, commands and            *)
(* subscriptions, and every window: what the projection server sends the   *)
(* clients of a connection, and when it answers their commands.            *)
(***************************************************************************)
EXTENDS ProjectionServer, FiniteSetTheorems, SequenceTheorems, TLAPS

CommandRecord ==
    [origin: Origins, phase: {"running", "returned", "published", "ended"},
     unannounced: Numbered, announced: SUBSET Modification, modification: Numbered,
     replied: BOOLEAN]

(* A subscription, but for its revision, which nothing here depends on.    *)
IsSubscription(x) ==
    /\ DOMAIN x = {"through", "revision", "patches"}
    /\ x.through \in Numbered
    /\ x.patches \in Seq(Modification)

SubsTyped(c) ==
    /\ DOMAIN subs[c] \subseteq Nat /\ IsFiniteSet(DOMAIN subs[c])
    /\ \A s \in DOMAIN subs[c] : IsSubscription(subs[c][s])

(* What the variables hold, as far as what follows reads them.             *)
Typed ==
    /\ saved \in Numbered
    /\ unpublished \subseteq 1..saved
    /\ publications \in Seq(Publication)
    /\ commands \in Seq(CommandRecord) /\ Len(commands) <= MaxCommands
    /\ lifecycle \in [stopping: BOOLEAN, running: Int, serving: Int]
    /\ closingAt \in 0..Last
    /\ phase \in [Connections -> Phases]
    /\ next \in [Connections -> Nat \ {0}]
    /\ DOMAIN subs = Connections /\ \A c \in Connections : SubsTyped(c)
    /\ opened \in [Connections -> Nat]
    /\ made \in [Connections -> Numbered]
    /\ running \in [Connections -> SUBSET Nat]
    /\ DOMAIN ran = Connections /\ \A c \in Connections : ran[c] \in [DOMAIN ran[c] -> Nat]
    /\ lag \in [Connections -> [skipped: Nat, todo: SUBSET Nat]]

-----------------------------------------------------------------------------
(* What is sent to a connection's subscriptions.                           *)

LEMMA DeliveredOK ==
    ASSUME NEW c \in Connections, SubsTyped(c), NEW n \in Numbered
    PROVE  /\ DOMAIN Delivered(c, n) = DOMAIN subs[c]
           /\ \A s \in DOMAIN subs[c] :
                 /\ IsSubscription(Delivered(c, n)[s])
                 /\ Delivered(c, n)[s].through = subs[c][s].through
                 /\ Delivered(c, n)[s].patches =
                       IF n # 0 /\ n > subs[c][s].through THEN Append(subs[c][s].patches, n)
                       ELSE subs[c][s].patches
<1>1. DOMAIN Delivered(c, n) = DOMAIN subs[c]
    BY DEF Delivered
<1>2. ASSUME NEW s \in DOMAIN subs[c]
      PROVE  /\ IsSubscription(Delivered(c, n)[s])
             /\ Delivered(c, n)[s].through = subs[c][s].through
             /\ Delivered(c, n)[s].patches =
                   IF n # 0 /\ n > subs[c][s].through THEN Append(subs[c][s].patches, n)
                   ELSE subs[c][s].patches
    <2>1. IsSubscription(subs[c][s])
        BY DEF SubsTyped
    <2>2. s \in Affected(c, n) <=> n # 0 /\ n > subs[c][s].through
        BY DEF Affected
    <2>3. CASE s \in Affected(c, n)
        <3>1. n \in Modification
            BY <2>2, <2>3 DEF Numbered, Modification
        <3>2. Append(subs[c][s].patches, n) \in Seq(Modification)
            BY <2>1, <3>1 DEF IsSubscription
        <3> DEFINE r == ChangeRevision(c)
        <3>3. Delivered(c, n)[s] = [subs[c][s] EXCEPT !.revision = r, !.patches = Append(@, n)]
            BY <2>3 DEF Delivered
        <3> HIDE DEF r
        <3> QED BY <2>1, <2>2, <2>3, <3>2, <3>3 DEF IsSubscription
    <2>4. CASE s \notin Affected(c, n)
        BY <2>1, <2>2, <2>4 DEF Delivered
    <2> QED BY <2>3, <2>4
<1> QED BY <1>1, <1>2

LEMMA SnapshotOK ==
    ASSUME NEW revision, saved \in Numbered
    PROVE  /\ IsSubscription(Snapshot(revision))
           /\ Snapshot(revision).through = saved
           /\ Snapshot(revision).patches = <<>>
BY DEF Snapshot, IsSubscription

-----------------------------------------------------------------------------
(* What the steps do to the commands.                                      *)

(* The commands of which nothing but the answers may have changed.         *)
SameCommands ==
    /\ commands' \in Seq(CommandRecord) /\ DOMAIN commands' = DOMAIN commands
    /\ \A k \in DOMAIN commands :
          /\ commands'[k].origin = commands[k].origin
          /\ commands'[k].phase = commands[k].phase
          /\ commands'[k].unannounced = commands[k].unannounced
          /\ commands'[k].announced = commands[k].announced
          /\ commands'[k].modification = commands[k].modification

LEMMA AnswerOK ==
    ASSUME Typed, NEW c \in Connections, NEW ks, Answer(c, ks)
    PROVE  /\ SameCommands
           /\ \A k \in DOMAIN commands :
                 commands'[k].replied = (commands[k].replied \/ k \in ks \cap running[c])
           /\ running' \in [Connections -> SUBSET Nat] /\ running'[c] = running[c] \ ks
           /\ DOMAIN ran' = Connections /\ DOMAIN ran'[c] = DOMAIN ran[c] \ ks
           /\ \A k \in DOMAIN ran'[c] : ran'[c][k] = ran[c][k]
           /\ \A d \in Connections : ran'[d] \in [DOMAIN ran'[d] -> Nat]
           /\ \A d \in Connections \ {c} : running'[d] = running[d] /\ ran'[d] = ran[d]
<1>1. /\ commands \in Seq(CommandRecord) /\ running \in [Connections -> SUBSET Nat]
      /\ DOMAIN ran = Connections /\ \A d \in Connections : ran[d] \in [DOMAIN ran[d] -> Nat]
    BY DEF Typed
<1>2. /\ DOMAIN commands = 1..Len(commands) /\ Len(commands) \in Nat
      /\ \A k \in DOMAIN commands : commands[k] \in CommandRecord
    BY <1>1, LenProperties, ElementOfSeq
<1>3. /\ DOMAIN commands' = DOMAIN commands
      /\ \A k \in DOMAIN commands :
            commands'[k] = IF k \in ks \cap running[c] THEN [commands[k] EXCEPT !.replied = TRUE]
                           ELSE commands[k]
    BY DEF Answer
<1>5. ASSUME NEW k \in DOMAIN commands
      PROVE  /\ commands'[k] \in CommandRecord
             /\ commands'[k].origin = commands[k].origin
             /\ commands'[k].phase = commands[k].phase
             /\ commands'[k].unannounced = commands[k].unannounced
             /\ commands'[k].announced = commands[k].announced
             /\ commands'[k].modification = commands[k].modification
             /\ commands'[k].replied = (commands[k].replied \/ k \in ks \cap running[c])
    <2>1. commands[k] \in CommandRecord
        BY <1>2
    <2>2. CASE k \in ks \cap running[c]
        <3>1. commands'[k] = [commands[k] EXCEPT !.replied = TRUE]
            BY <1>3, <2>2
        <3> QED BY <2>1, <2>2, <3>1 DEF CommandRecord
    <2>3. CASE k \notin ks \cap running[c]
        BY <1>3, <2>1, <2>3 DEF CommandRecord
    <2> QED BY <2>2, <2>3
<1>6. commands' = [k \in 1..Len(commands) |-> commands'[k]]
    <2>1. commands' = [k \in DOMAIN commands' |-> commands'[k]]
        BY DEF Answer
    <2> QED BY <1>2, <1>3, <2>1
<1>7. commands' \in Seq(CommandRecord)
    BY <1>2, <1>5, <1>6
<1>8. SameCommands
    BY <1>3, <1>5, <1>7 DEF SameCommands
<1>9. /\ running' \in [Connections -> SUBSET Nat] /\ running'[c] = running[c] \ ks
      /\ \A d \in Connections \ {c} : running'[d] = running[d]
    BY <1>1 DEF Answer
<1>10. /\ DOMAIN ran' = Connections /\ ran'[c] = Drop(ran[c], ks)
       /\ \A d \in Connections \ {c} : ran'[d] = ran[d]
    BY <1>1 DEF Answer
<1>11. /\ DOMAIN ran'[c] = DOMAIN ran[c] \ ks
       /\ \A k \in DOMAIN ran'[c] : ran'[c][k] = ran[c][k]
    BY <1>10 DEF Drop
<1>12. ran'[c] \in [DOMAIN ran'[c] -> Nat]
    BY <1>1, <1>10, <1>11 DEF Drop
<1> QED BY <1>1, <1>5, <1>8, <1>9, <1>10, <1>11, <1>12

LEMMA SameCommandsOK ==
    ASSUME Typed, UNCHANGED commands
    PROVE  SameCommands
BY DEF Typed, SameCommands

LEMMA AppendedTo ==
    ASSUME NEW S, NEW q \in Seq(S), NEW e \in S
    PROVE  /\ Append(q, e) \in Seq(S) /\ Len(q) \in Nat
           /\ Len(Append(q, e)) = Len(q) + 1
           /\ DOMAIN q = 1..Len(q) /\ DOMAIN Append(q, e) = 1..Len(q) + 1
           /\ \A i \in 1..Len(q) : Append(q, e)[i] = q[i]
           /\ Append(q, e)[Len(q) + 1] = e
BY AppendProperties, LenProperties

LEMMA ZeroNumbered == 0 \in Numbered
BY MaxAssumption DEF Numbered

(* Only command k changes, to r.                                           *)
Becomes(k, r) ==
    /\ commands' \in Seq(CommandRecord) /\ DOMAIN commands' = DOMAIN commands
    /\ commands'[k] = r
    /\ \A j \in DOMAIN commands \ {k} : commands'[j] = commands[j]

LEMMA BecomesOK ==
    ASSUME Typed, NEW k \in DOMAIN commands, NEW r \in CommandRecord,
           commands' = [commands EXCEPT ![k] = r]
    PROVE  Becomes(k, r)
<1>1. /\ commands \in Seq(CommandRecord) /\ DOMAIN commands = 1..Len(commands)
      /\ Len(commands) \in Nat /\ \A j \in DOMAIN commands : commands[j] \in CommandRecord
    BY LenProperties, ElementOfSeq DEF Typed
<1>2. /\ DOMAIN commands' = DOMAIN commands
      /\ \A j \in DOMAIN commands : commands'[j] \in CommandRecord
    BY <1>1
<1>3. commands' = [j \in 1..Len(commands) |-> commands'[j]]
    BY <1>1, <1>2
<1>4. commands' \in Seq(CommandRecord)
    BY <1>1, <1>2, <1>3
<1> QED BY <1>1, <1>2, <1>4 DEF Becomes

LEMMA CommandTyped ==
    ASSUME Typed, NEW k \in DOMAIN commands
    PROVE  /\ commands[k] \in CommandRecord
           /\ commands[k] = [origin |-> commands[k].origin, phase |-> commands[k].phase,
                             unannounced |-> commands[k].unannounced,
                             announced |-> commands[k].announced,
                             modification |-> commands[k].modification,
                             replied |-> commands[k].replied]
           /\ commands[k].origin \in Origins
           /\ commands[k].phase \in {"running", "returned", "published", "ended"}
           /\ commands[k].unannounced \in Numbered
           /\ commands[k].announced \in SUBSET Modification
           /\ commands[k].modification \in Numbered
           /\ commands[k].replied \in BOOLEAN
<1>1. commands[k] \in CommandRecord
    BY LenProperties, ElementOfSeq DEF Typed
<1> QED BY <1>1 DEF CommandRecord

LEMMA CommandSavesOK ==
    ASSUME Typed, NEW k \in DOMAIN commands, CommandSaves(k)
    PROVE  /\ Becomes(k, [commands[k] EXCEPT !.unannounced = saved'])
           /\ saved' = saved + 1 /\ saved' \in Modification
<1>1. saved' = saved + 1 /\ saved' \in Modification /\ saved' \in Numbered
    BY MaxAssumption DEF Typed, CommandSaves, Save, Numbered, Modification
<1>2. commands[k] \in CommandRecord
    BY CommandTyped
<1> DEFINE r == [commands[k] EXCEPT !.unannounced = saved']
<1>3. r \in CommandRecord
    BY <1>1, <1>2 DEF CommandRecord
<1>4. commands' = [commands EXCEPT ![k] = r]
    BY <1>2 DEF CommandSaves
<1> QED BY <1>1, <1>3, <1>4, BecomesOK

LEMMA CommandAnnouncesOK ==
    ASSUME Typed, NEW k \in DOMAIN commands, CommandAnnounces(k)
    PROVE  Becomes(k, [commands[k] EXCEPT !.unannounced = 0,
                                          !.announced = @ \cup {commands[k].unannounced}])
<1>1. commands[k] \in CommandRecord
    BY CommandTyped
<1>2. commands[k].unannounced \in Modification
    BY CommandTyped, MaxAssumption DEF CommandAnnounces, Numbered, Modification
<1> DEFINE r == [commands[k] EXCEPT !.unannounced = 0,
                                    !.announced = @ \cup {commands[k].unannounced}]
<1>3. r \in CommandRecord
    BY <1>1, <1>2, ZeroNumbered DEF CommandRecord
<1>4. commands' = [commands EXCEPT ![k] = r]
    BY <1>1 DEF CommandAnnounces
<1> QED BY <1>3, <1>4, BecomesOK

LEMMA CommandReturnsOK ==
    ASSUME Typed, NEW k \in DOMAIN commands, CommandReturns(k)
    PROVE  Becomes(k, [commands[k] EXCEPT !.phase = "returned", !.unannounced = 0,
                                          !.modification = commands[k].unannounced])
<1>1. commands[k] \in CommandRecord
    BY CommandTyped
<1> DEFINE r == [commands[k] EXCEPT !.phase = "returned", !.unannounced = 0,
                                    !.modification = commands[k].unannounced]
<1>2. r \in CommandRecord
    BY <1>1, ZeroNumbered DEF CommandRecord
<1>3. commands' = [commands EXCEPT ![k] = r]
    BY <1>1 DEF CommandReturns
<1> QED BY <1>2, <1>3, BecomesOK

LEMMA CommandPublishesOK ==
    ASSUME Typed, NEW k \in DOMAIN commands, CommandPublishes(k)
    PROVE  Becomes(k, [commands[k] EXCEPT !.phase = "published",
                                          !.replied = commands[k].origin = Application])
<1>1. commands[k] \in CommandRecord
    BY CommandTyped
<1> DEFINE answered == commands[k].origin = Application
           r == [commands[k] EXCEPT !.phase = "published", !.replied = answered]
<1>2. answered \in BOOLEAN
    OBVIOUS
<1>3. commands' = [commands EXCEPT ![k] = r]
    BY <1>1 DEF CommandPublishes
<1> HIDE DEF answered
<1>4. r \in CommandRecord
    BY <1>1, <1>2 DEF CommandRecord
<1>5. Becomes(k, r)
    BY <1>3, <1>4, BecomesOK
<1> QED BY <1>5 DEF answered

LEMMA CommandEndsOK ==
    ASSUME Typed, NEW k \in DOMAIN commands, CommandEnds(k)
    PROVE  Becomes(k, [commands[k] EXCEPT !.phase = "ended"])
<1>1. commands[k] \in CommandRecord
    BY CommandTyped
<1> DEFINE r == [commands[k] EXCEPT !.phase = "ended"]
<1>2. r \in CommandRecord
    BY <1>1 DEF CommandRecord
<1>3. commands' = [commands EXCEPT ![k] = r]
    BY <1>1 DEF CommandEnds
<1> QED BY <1>2, <1>3, BecomesOK

(* The command StartCommand adds.                                          *)
Started(origin) ==
    [origin |-> origin, phase |-> "running", unannounced |-> 0, announced |-> {},
     modification |-> 0, replied |-> FALSE]

LEMMA StartCommandOK ==
    ASSUME Typed, NEW origin \in Origins, StartCommand(origin)
    PROVE  /\ commands' \in Seq(CommandRecord)
           /\ DOMAIN commands = 1..Len(commands) /\ DOMAIN commands' = 1..Len(commands) + 1
           /\ Len(commands) \in Nat
           /\ commands'[Len(commands) + 1] = Started(origin)
           /\ \A j \in DOMAIN commands : commands'[j] = commands[j]
<1>1. Started(origin) \in CommandRecord
    BY ZeroNumbered DEF Started, CommandRecord
<1>2. commands' = Append(commands, Started(origin))
    BY DEF StartCommand, Started
<1> QED BY <1>1, <1>2, AppendedTo DEF Typed

-----------------------------------------------------------------------------
(* What the steps do to the publications.                                  *)

LEMMA SendOK ==
    ASSUME Typed, NEW p \in Publication, Send(p)
    PROVE  /\ publications' \in Seq(Publication)
           /\ Last \in Nat /\ Last' = Last + 1
           /\ DOMAIN publications = 1..Last /\ DOMAIN publications' = 1..Last + 1
           /\ \A i \in 1..Last : publications'[i] = publications[i]
           /\ publications'[Last + 1] = p
BY AppendedTo DEF Typed, Send, Last

LEMMA PublicationsOK ==
    ASSUME Typed
    PROVE  /\ Last \in Nat /\ DOMAIN publications = 1..Last
           /\ \A i \in 1..Last : publications[i] \in Publication
BY LenProperties, ElementOfSeq DEF Typed, Last

LEMMA ChangeOK ==
    ASSUME NEW origin \in Origins, NEW n \in Numbered
    PROVE  Change(origin, n) \in Publication
BY MaxAssumption DEF Change, Publication

LEMMA RanOK ==
    ASSUME Typed, NEW k \in DOMAIN commands
    PROVE  Ran(k) \in Publication
<1>1. k \in 0..MaxCommands
    BY LenProperties, MaxAssumption DEF Typed
<1> QED BY <1>1, CommandTyped DEF Ran, Publication

LEMMA ClosingOK == Closing \in Publication
BY ZeroNumbered, MaxAssumption DEF Closing, Publication, Origins

-----------------------------------------------------------------------------
(* The types are kept.                                                     *)

LEMMA SavedOK ==
    ASSUME Typed
    PROVE  /\ saved \in Nat /\ MaxModifications \in Nat /\ saved <= MaxModifications
           /\ \A n \in unpublished : n \in Numbered /\ n \in Modification /\ n <= saved
<1>1. saved \in 0..MaxModifications /\ unpublished \subseteq 1..saved
    BY DEF Typed, Numbered
<1> QED BY <1>1, MaxAssumption DEF Numbered, Modification

LEMMA SaveOK ==
    ASSUME Typed, Save
    PROVE  /\ saved' = saved + 1
           /\ saved' \in Numbered /\ saved' \in Modification
           /\ \A n \in Nat : n <= saved => n # saved'
           /\ 1..saved \subseteq 1..saved' /\ saved' \in 1..saved'
BY SavedOK DEF Save, Numbered, Modification

LEMMA LifecycleOK ==
    ASSUME Typed
    PROVE  /\ lifecycle.stopping \in BOOLEAN
           /\ lifecycle.running \in Int /\ lifecycle.serving \in Int
           /\ \A n \in Int : [lifecycle EXCEPT !.running = n]
                                \in [stopping: BOOLEAN, running: Int, serving: Int]
           /\ \A n \in Int : [lifecycle EXCEPT !.serving = n]
                                \in [stopping: BOOLEAN, running: Int, serving: Int]
           /\ [lifecycle EXCEPT !.stopping = TRUE]
                   \in [stopping: BOOLEAN, running: Int, serving: Int]
<1>1. lifecycle \in [stopping: BOOLEAN, running: Int, serving: Int]
    BY DEF Typed
<1> QED BY <1>1

LEMMA ApplicationTyped == ASSUME Typed, ApplicationNext PROVE Typed'
<1>1. CASE ApplicationSaves
    <2>1. saved' \in Numbered /\ unpublished' \subseteq 1..saved'
        BY <1>1, SaveOK DEF ApplicationSaves, Typed
    <2> QED BY <1>1, <2>1 DEF ApplicationSaves, Typed, server, connection, SubsTyped, Last
<1>2. ASSUME NEW n \in unpublished, ApplicationPublishes(n) PROVE Typed'
    <2>1. n \in Numbered
        BY SavedOK
    <2>2. Change(Application, n) \in Publication
        BY <2>1, ChangeOK DEF Origins
    <2>3. /\ publications' \in Seq(Publication) /\ Last \in Nat /\ Last' = Last + 1
        BY <1>2, <2>2, SendOK DEF ApplicationPublishes
    <2> QED BY <1>2, <2>3 DEF ApplicationPublishes, Typed, connection, SubsTyped
<1> QED BY <1>1, <1>2 DEF ApplicationNext

LEMMA StartCommandTyped ==
    ASSUME Typed, NEW origin \in Origins, StartCommand(origin)
    PROVE  Typed'
<1>1. commands' \in Seq(CommandRecord) /\ Len(commands) \in Nat
    BY StartCommandOK
<1>2. lifecycle' \in [stopping: BOOLEAN, running: Int, serving: Int]
    BY LifecycleOK DEF StartCommand
<1>3. running' \in [Connections -> SUBSET Nat]
    <2>1. running \in [Connections -> SUBSET Nat]
        BY DEF Typed
    <2> QED BY <1>1, <2>1 DEF StartCommand, Origins
<1>4. Len(commands') <= MaxCommands
    <2>1. Len(commands) < MaxCommands /\ DOMAIN commands' = 1..Len(commands) + 1
        BY StartCommandOK DEF StartCommand
    <2>2. Len(commands') \in Nat /\ DOMAIN commands' = 1..Len(commands')
        BY <1>1, LenProperties
    <2> QED BY <1>1, <2>1, <2>2, MaxAssumption
<1> QED BY <1>1, <1>2, <1>3, <1>4 DEF StartCommand, Typed, SubsTyped, Last

(* Where the outcome of a command is noted for the connection that started *)
(* it.                                                                     *)
LEMMA RanAfter ==
    ASSUME Typed, NEW k \in DOMAIN commands, CommandPublishes(k)
    PROVE  /\ DOMAIN ran' = Connections
           /\ \A c \in Connections : ran'[c] \in [DOMAIN ran'[c] -> Nat]
           /\ \A c \in Connections : c # commands[k].origin => ran'[c] = ran[c]
           /\ \A c \in Connections : c = commands[k].origin =>
                 /\ DOMAIN ran'[c] = DOMAIN ran[c] \cup {k}
                 /\ ran'[c][k] = Last + 1
                 /\ \A j \in DOMAIN ran[c] \ {k} : ran'[c][j] = ran[c][j]
<1>1. /\ DOMAIN ran = Connections /\ \A c \in Connections : ran[c] \in [DOMAIN ran[c] -> Nat]
      /\ Last \in Nat /\ commands[k].origin \in Origins
    BY PublicationsOK, CommandTyped DEF Typed
<1>2. CASE commands[k].origin = Application
    BY <1>1, <1>2, OriginAssumption DEF CommandPublishes
<1>3. CASE commands[k].origin \in Connections
    <2> DEFINE o == commands[k].origin
               noted == [j \in DOMAIN ran[o] \cup {k} |-> IF j = k THEN Last + 1 ELSE ran[o][j]]
    <2>1. o # Application
        BY <1>3, OriginAssumption
    <2>2. ran' = [ran EXCEPT ![o] = noted]
        BY <2>1 DEF CommandPublishes
    <2>3. /\ DOMAIN noted = DOMAIN ran[o] \cup {k} /\ noted[k] = Last + 1
          /\ \A j \in DOMAIN ran[o] \ {k} : noted[j] = ran[o][j]
          /\ noted \in [DOMAIN noted -> Nat]
        BY <1>1, <1>3
    <2> HIDE DEF noted
    <2> QED BY <1>1, <1>3, <2>2, <2>3
<1> QED BY <1>1, <1>2, <1>3 DEF Origins

LEMMA CommandTypedKept ==
    ASSUME Typed, NEW k \in DOMAIN commands, HostNext(k) \/ CommandNext(k)
    PROVE  Typed'
<1>1. CASE CommandSaves(k)
    <2>1. saved' \in Numbered /\ unpublished' \subseteq 1..saved'
        BY <1>1, SaveOK DEF CommandSaves, Typed
    <2>2. commands' \in Seq(CommandRecord)
        BY <1>1, CommandSavesOK DEF Becomes
    <2> QED BY <1>1, <2>1, <2>2 DEF CommandSaves, Typed, connection, SubsTyped, Last
<1>2. CASE CommandAnnounces(k)
    <2>1. Change(Application, commands[k].unannounced) \in Publication
        BY ChangeOK, CommandTyped DEF Origins
    <2>2. publications' \in Seq(Publication) /\ Last \in Nat /\ Last' = Last + 1
        BY <1>2, <2>1, SendOK DEF CommandAnnounces
    <2>3. commands' \in Seq(CommandRecord)
        BY <1>2, CommandAnnouncesOK DEF Becomes
    <2> QED BY <1>2, <2>2, <2>3 DEF CommandAnnounces, Typed, connection, SubsTyped
<1>3. CASE CommandReturns(k)
    <2>1. commands' \in Seq(CommandRecord)
        BY <1>3, CommandReturnsOK DEF Becomes
    <2> QED BY <1>3, <2>1 DEF CommandReturns, Typed, connection, SubsTyped, Last
<1>4. CASE CommandPublishes(k)
    <2>1. publications' \in Seq(Publication) /\ Last \in Nat /\ Last' = Last + 1
        BY <1>4, RanOK, SendOK DEF CommandPublishes
    <2>2. commands' \in Seq(CommandRecord)
        BY <1>4, CommandPublishesOK DEF Becomes
    <2>3. DOMAIN ran' = Connections /\ \A c \in Connections : ran'[c] \in [DOMAIN ran'[c] -> Nat]
        BY <1>4, <2>1, RanAfter
    <2> QED BY <1>4, <2>1, <2>2, <2>3 DEF CommandPublishes, Typed, SubsTyped
<1>5. CASE CommandEnds(k)
    <2>1. commands' \in Seq(CommandRecord)
        BY <1>5, CommandEndsOK DEF Becomes
    <2>2. lifecycle' \in [stopping: BOOLEAN, running: Int, serving: Int]
        BY <1>5, LifecycleOK DEF CommandEnds
    <2> QED BY <1>5, <2>1, <2>2 DEF CommandEnds, Typed, connection, SubsTyped, Last
<1> QED BY <1>1, <1>2, <1>3, <1>4, <1>5 DEF HostNext, CommandNext

(* What Deliver leaves of the subscriptions.                               *)
LEMMA DeliverOK ==
    ASSUME Typed, NEW c \in Connections, NEW n \in Numbered, Deliver(c, n)
    PROVE  /\ DOMAIN subs' = Connections /\ \A d \in Connections : SubsTyped(d)'
           /\ subs'[c] = Delivered(c, n)
           /\ \A d \in Connections \ {c} : subs'[d] = subs[d]
<1>1. /\ DOMAIN subs = Connections /\ \A d \in Connections : SubsTyped(d)
    BY DEF Typed
<1>2. /\ DOMAIN subs' = Connections /\ subs'[c] = Delivered(c, n)
      /\ \A d \in Connections \ {c} : subs'[d] = subs[d]
    BY <1>1 DEF Deliver, SetSubs
<1>3. SubsTyped(c)'
    <2>1. /\ DOMAIN Delivered(c, n) = DOMAIN subs[c]
          /\ \A s \in DOMAIN subs[c] : IsSubscription(Delivered(c, n)[s])
        BY <1>1, DeliveredOK
    <2>2. DOMAIN subs[c] \subseteq Nat /\ IsFiniteSet(DOMAIN subs[c])
        BY <1>1 DEF SubsTyped
    <2>3. DOMAIN subs'[c] = DOMAIN subs[c]
        BY <1>2, <2>1
    <2> QED BY <1>2, <2>1, <2>2, <2>3 DEF SubsTyped
<1>4. \A d \in Connections \ {c} : SubsTyped(d)'
    BY <1>1, <1>2 DEF SubsTyped
<1> QED BY <1>2, <1>3, <1>4

(* Subscription s of connection c is new, or is sent a snapshot.           *)
Renewed(c, s) == subs'[c][s].through = saved /\ subs'[c][s].patches = <<>>

LEMMA SubscribeOK ==
    ASSUME Typed, NEW c \in Connections, Subscribe(c)
    PROVE  /\ DOMAIN subs' = Connections /\ \A d \in Connections : SubsTyped(d)'
           /\ \A s \in DOMAIN subs'[c] : \/ s \in DOMAIN subs[c] /\ subs'[c][s] = subs[c][s]
                                         \/ Renewed(c, s)
           /\ \A d \in Connections \ {c} : subs'[d] = subs[d]
<1>1. /\ DOMAIN subs = Connections /\ (\A d \in Connections : SubsTyped(d)) /\ saved \in Numbered
    BY DEF Typed
<1> DEFINE r == CurrentRevision(c)
           new == [s \in DOMAIN subs[c] \cup {opened[c] + 1} |->
                     IF s \in DOMAIN subs[c] THEN subs[c][s] ELSE Snapshot(r)]
<1>2. subs' = [subs EXCEPT ![c] = new]
    BY DEF Subscribe, SetSubs
<1> HIDE DEF r
<1>3. \A s \in DOMAIN new : \/ s \in DOMAIN subs[c] /\ new[s] = subs[c][s]
                            \/ new[s] = Snapshot(r)
    OBVIOUS
<1> HIDE DEF new
<1>4. /\ DOMAIN subs' = Connections /\ subs'[c] = new
      /\ \A d \in Connections \ {c} : subs'[d] = subs[d]
    BY <1>1, <1>2
<1>5. \A s \in DOMAIN new : IsSubscription(new[s])
    BY <1>1, <1>3, SnapshotOK DEF SubsTyped
<1>6. \A s \in DOMAIN new : \/ s \in DOMAIN subs[c] /\ new[s] = subs[c][s]
                            \/ new[s].through = saved /\ new[s].patches = <<>>
    BY <1>1, <1>3, SnapshotOK
<1>7. DOMAIN new \subseteq Nat /\ IsFiniteSet(DOMAIN new)
    <2>1. DOMAIN new = DOMAIN subs[c] \cup {opened[c] + 1} /\ opened[c] \in Nat
        BY DEF new, Typed
    <2>2. DOMAIN subs[c] \subseteq Nat /\ IsFiniteSet(DOMAIN subs[c])
        BY <1>1 DEF SubsTyped
    <2>3. IsFiniteSet(DOMAIN subs[c] \cup {opened[c] + 1})
        BY <2>2, FS_AddElement
    <2> QED BY <2>1, <2>2, <2>3
<1> QED BY <1>1, <1>4, <1>5, <1>6, <1>7 DEF SubsTyped, Renewed

LEMMA ResyncedOK ==
    ASSUME Typed, NEW c \in Connections, NEW s \in DOMAIN subs[c], SetSubs(c, Resynced(c, s))
    PROVE  /\ DOMAIN subs' = Connections /\ \A d \in Connections : SubsTyped(d)'
           /\ DOMAIN subs'[c] = DOMAIN subs[c]
           /\ \A t \in DOMAIN subs[c] \ {s} : subs'[c][t] = subs[c][t]
           /\ Renewed(c, s)
           /\ \A d \in Connections \ {c} : subs'[d] = subs[d]
<1>1. /\ DOMAIN subs = Connections /\ (\A d \in Connections : SubsTyped(d)) /\ saved \in Numbered
    BY DEF Typed
<1> DEFINE new == Snapshot(subs[c][s].revision + 1)
<1>2. /\ DOMAIN subs' = Connections /\ subs'[c] = [subs[c] EXCEPT ![s] = new]
      /\ \A d \in Connections \ {c} : subs'[d] = subs[d]
    BY <1>1 DEF SetSubs, Resynced
<1>3. IsSubscription(new) /\ new.through = saved /\ new.patches = <<>>
    BY <1>1, SnapshotOK
<1> HIDE DEF new
<1>4. /\ DOMAIN subs'[c] = DOMAIN subs[c]
      /\ \A t \in DOMAIN subs[c] \ {s} : subs'[c][t] = subs[c][t]
      /\ subs'[c][s] = new
    BY <1>2
<1> QED BY <1>1, <1>2, <1>3, <1>4 DEF SubsTyped, Renewed

LEMMA MutatePanicsOK ==
    ASSUME Typed, NEW c \in Connections, NEW s \in DOMAIN subs[c], MutatePanics(c, s)
    PROVE  /\ DOMAIN subs' = Connections /\ \A d \in Connections : SubsTyped(d)'
           /\ DOMAIN subs'[c] = DOMAIN subs[c]
           /\ \A t \in DOMAIN subs[c] : /\ subs'[c][t].through = subs[c][t].through
                                        /\ subs'[c][t].patches = subs[c][t].patches
           /\ \A d \in Connections \ {c} : subs'[d] = subs[d]
<1>1. /\ DOMAIN subs = Connections /\ \A d \in Connections : SubsTyped(d)
    BY DEF Typed
<1> DEFINE r == ChangeRevision(c)
           n == made[c]
           new == [t \in DOMAIN subs[c] |->
                        IF t \in Affected(c, n) /\ t < s
                        THEN [subs[c][t] EXCEPT !.revision = r]
                        ELSE subs[c][t]]
<1>2. subs' = [subs EXCEPT ![c] = new]
    BY DEF MutatePanics, SetSubs
<1> HIDE DEF r
<1>3. /\ DOMAIN new = DOMAIN subs[c]
      /\ \A t \in DOMAIN subs[c] : \/ new[t] = subs[c][t]
                                   \/ new[t] = [subs[c][t] EXCEPT !.revision = r]
    OBVIOUS
<1> HIDE DEF new
<1>4. \A t \in DOMAIN subs[c] : /\ IsSubscription(new[t])
                                /\ new[t].through = subs[c][t].through
                                /\ new[t].patches = subs[c][t].patches
    BY <1>1, <1>3 DEF SubsTyped, IsSubscription
<1>5. /\ DOMAIN subs' = Connections /\ subs'[c] = new
      /\ \A d \in Connections \ {c} : subs'[d] = subs[d]
    BY <1>1, <1>2
<1> QED BY <1>1, <1>3, <1>4, <1>5 DEF SubsTyped

(* The publication a connection takes.                                     *)
LEMMA TakenOK ==
    ASSUME Typed, NEW c \in Connections, Receives(c)
    PROVE  /\ next[c] \in 1..Last /\ Last \in Nat /\ Taken(c) = publications[next[c]]
           /\ Taken(c) \in Publication /\ Taken(c).modification \in Numbered
           /\ At(c, "select")
<1>1. next[c] \in 1..Last /\ Last \in Nat /\ At(c, "select")
    BY PublicationsOK DEF Typed, Receives, Idle
<1>2. Taken(c) \in Publication
    BY <1>1, PublicationsOK DEF Taken
<1> QED BY <1>1, <1>2 DEF Publication, Taken

LEMMA RequestTyped ==
    ASSUME Typed, NEW c \in Connections, RequestNext(c) \/ AdmitSubscribes(c) \/ AdmitCounts(c)
    PROVE  Typed'
<1>1. CASE Subscribe(c)
    <2>1. DOMAIN subs' = Connections /\ \A d \in Connections : SubsTyped(d)'
        BY <1>1, SubscribeOK
    <2>2. opened' \in [Connections -> Nat]
        BY <1>1 DEF Subscribe, Typed
    <2> QED BY <1>1, <2>1, <2>2 DEF Subscribe, Typed, server, Last
<1>2. ASSUME NEW s \in DOMAIN subs[c], Resync(c, s) PROVE Typed'
    <2>1. DOMAIN subs' = Connections /\ \A d \in Connections : SubsTyped(d)'
        BY <1>2, ResyncedOK DEF Resync
    <2> QED BY <1>2, <2>1 DEF Resync, Typed, server, Last
<1>3. ASSUME NEW s \in DOMAIN subs[c], Unsubscribe(c, s) PROVE Typed'
    <2>1. DOMAIN subs = Connections /\ \A d \in Connections : SubsTyped(d)
        BY DEF Typed
    <2>2. DOMAIN subs' = Connections /\ \A d \in Connections : SubsTyped(d)'
        <3>1. /\ subs'[c] = Drop(subs[c], {s}) /\ DOMAIN subs' = Connections
              /\ \A d \in Connections \ {c} : subs'[d] = subs[d]
            BY <1>3, <2>1 DEF Unsubscribe, SetSubs
        <3>2. IsFiniteSet(DOMAIN subs[c] \ {s})
            BY <2>1, FS_RemoveElement DEF SubsTyped
        <3>3. SubsTyped(c)'
            BY <2>1, <3>1, <3>2 DEF Drop, SubsTyped
        <3> QED BY <2>1, <3>1, <3>3 DEF SubsTyped
    <2> QED BY <1>3, <2>2 DEF Unsubscribe, Typed, server, Last
<1>4. CASE MutateSaves(c)
    <2>1. saved' \in Numbered /\ unpublished' \subseteq 1..saved'
        BY <1>4, SaveOK DEF MutateSaves, Typed
    <2>2. /\ made' \in [Connections -> Numbered]
          /\ phase' \in [Connections -> Phases]
        BY <1>4, <2>1 DEF MutateSaves, Go, Typed, Phases
    <2> QED BY <1>4, <2>1, <2>2 DEF MutateSaves, Typed, server, Last, SubsTyped
<1>5. CASE AdmitSubscribes(c)
    <2>1. Last + 1 \in Nat \ {0}
        BY PublicationsOK
    <2>2. next' \in [Connections -> Nat \ {0}] /\ phase' \in [Connections -> Phases]
        BY <1>5, <2>1 DEF AdmitSubscribes, Go, Typed, Phases
    <2> QED BY <1>5, <2>2 DEF AdmitSubscribes, Typed, server, Last, SubsTyped
<1>6. CASE AdmitCounts(c)
    <2>1. phase' \in [Connections -> Phases]
        BY <1>6 DEF AdmitCounts, Go, Typed, Phases
    <2>2. lifecycle' \in [stopping: BOOLEAN, running: Int, serving: Int]
        <3>1. CASE lifecycle.stopping
            BY <1>6, <3>1 DEF AdmitCounts, Typed
        <3>2. CASE ~lifecycle.stopping
            BY <1>6, <3>2, LifecycleOK DEF AdmitCounts
        <3> QED BY <3>1, <3>2
    <2> QED BY <1>6, <2>1, <2>2 DEF AdmitCounts, Typed, Last, SubsTyped
<1> QED BY <1>1, <1>2, <1>3, <1>4, <1>5, <1>6 DEF RequestNext

LEMMA NextNumber ==
    ASSUME Typed, NEW c \in Connections, Advance(c) \/ next' = [next EXCEPT ![c] = Last + 1]
    PROVE  next' \in [Connections -> Nat \ {0}]
<1>1. next \in [Connections -> Nat \ {0}] /\ Last \in Nat
    BY PublicationsOK DEF Typed
<1>2. next[c] + 1 \in Nat \ {0} /\ Last + 1 \in Nat \ {0}
    BY <1>1
<1> QED BY <1>1, <1>2 DEF Advance

LEMMA UncountOK ==
    ASSUME Typed, Uncount
    PROVE  lifecycle' \in [stopping: BOOLEAN, running: Int, serving: Int]
BY LifecycleOK DEF Uncount

LEMMA AnsweredTyped ==
    ASSUME Typed, NEW c \in Connections, NEW ks, Answer(c, ks)
    PROVE  /\ commands' \in Seq(CommandRecord) /\ Len(commands') <= MaxCommands
           /\ running' \in [Connections -> SUBSET Nat]
           /\ DOMAIN ran' = Connections
           /\ \A d \in Connections : ran'[d] \in [DOMAIN ran'[d] -> Nat]
<1>1. /\ commands \in Seq(CommandRecord) /\ Len(commands) <= MaxCommands
      /\ commands' \in Seq(CommandRecord) /\ DOMAIN commands' = DOMAIN commands
    BY AnswerOK DEF SameCommands, Typed
<1>2. Len(commands') = Len(commands)
    BY <1>1, LenProperties
<1> QED BY <1>1, <1>2, AnswerOK

LEMMA ServeTyped == ASSUME Typed, NEW c \in Connections, ServeNext(c) \/ Break(c) PROVE Typed'
<1>1. CASE MutateResponds(c)
    <2>1. made[c] \in Numbered
        BY DEF Typed
    <2>2. publications' \in Seq(Publication) /\ Last \in Nat /\ Last' = Last + 1
        BY <1>1, <2>1, ChangeOK, SendOK DEF MutateResponds, Origins
    <2>3. DOMAIN subs' = Connections /\ \A d \in Connections : SubsTyped(d)'
        BY <1>1, <2>1, DeliverOK DEF MutateResponds
    <2>4. made' \in [Connections -> Numbered] /\ phase' \in [Connections -> Phases]
        BY <1>1, ZeroNumbered DEF MutateResponds, Go, Typed, Phases
    <2> QED BY <1>1, <2>2, <2>3, <2>4 DEF MutateResponds, Typed
<1>2. ASSUME NEW s \in DOMAIN subs[c], MutatePanics(c, s) PROVE Typed'
    <2>1. DOMAIN subs' = Connections /\ \A d \in Connections : SubsTyped(d)'
        BY <1>2, MutatePanicsOK
    <2>2. made' \in [Connections -> Numbered] /\ phase' \in [Connections -> Phases]
        BY <1>2, ZeroNumbered DEF MutatePanics, Go, Typed, Phases
    <2> QED BY <1>2, <2>1, <2>2 DEF MutatePanics, Typed, server, Last
<1>3. CASE TakeChange(c)
    <2>1. next' \in [Connections -> Nat \ {0}]
        BY <1>3, NextNumber DEF TakeChange
    <2>2. DOMAIN subs' = Connections /\ \A d \in Connections : SubsTyped(d)'
        <3>1. CASE UNCHANGED subs
            BY <3>1 DEF Typed, SubsTyped
        <3>2. CASE Deliver(c, Taken(c).modification)
            BY <1>3, <3>2, TakenOK, DeliverOK DEF TakeChange
        <3> QED BY <1>3, <3>1, <3>2 DEF TakeChange
    <2> QED BY <1>3, <2>1, <2>2 DEF TakeChange, Typed, server, Last
<1>4. CASE TakeOwnCommand(c)
    <2>1. next' \in [Connections -> Nat \ {0}]
        BY <1>4, NextNumber DEF TakeOwnCommand
    <2>2. DOMAIN subs' = Connections /\ \A d \in Connections : SubsTyped(d)'
        BY <1>4, TakenOK, DeliverOK DEF TakeOwnCommand
    <2>3. Answer(c, {Taken(c).command})
        BY <1>4 DEF TakeOwnCommand
    <2> QED BY <1>4, <2>1, <2>2, <2>3, AnsweredTyped DEF TakeOwnCommand, Typed, Last
<1>5. CASE TakeClosing(c)
    <2>1. phase' \in [Connections -> Phases]
        BY <1>5 DEF TakeClosing, Go, Typed, Phases
    <2> QED BY <1>5, <2>1 DEF TakeClosing, server, Typed, Last, SubsTyped
<1>6. CASE LagSkips(c)
    <2>1. next' \in [Connections -> Nat \ {0}]
        BY <1>6, NextNumber DEF LagSkips
    <2>2. lag' \in [Connections -> [skipped: Nat, todo: SUBSET Nat]]
        <3>1. /\ lag \in [Connections -> [skipped: Nat, todo: SUBSET Nat]]
              /\ DOMAIN subs[c] \in SUBSET Nat /\ Last \in Nat
            BY PublicationsOK DEF Typed, SubsTyped
        <3> QED BY <1>6, <3>1 DEF LagSkips
    <2>3. phase' \in [Connections -> Phases]
        BY <1>6 DEF LagSkips, Go, Typed, Phases
    <2> QED BY <1>6, <2>1, <2>2, <2>3 DEF LagSkips, Typed, server, Last, SubsTyped
<1>7. ASSUME NEW s \in DOMAIN subs[c], LagResyncs(c, s) PROVE Typed'
    <2>1. DOMAIN subs' = Connections /\ \A d \in Connections : SubsTyped(d)'
        <3>1. CASE UNCHANGED subs
            BY <3>1 DEF Typed, SubsTyped
        <3> QED BY <1>7, <3>1, ResyncedOK DEF LagResyncs
    <2>2. lag' \in [Connections -> [skipped: Nat, todo: SUBSET Nat]]
        <3>1. lag' = [lag EXCEPT ![c] = [lag[c] EXCEPT !.todo = lag[c].todo \ {s}]]
            BY <1>7 DEF LagResyncs
        <3>2. lag \in [Connections -> [skipped: Nat, todo: SUBSET Nat]]
            BY DEF Typed
        <3>3. [lag[c] EXCEPT !.todo = lag[c].todo \ {s}] \in [skipped: Nat, todo: SUBSET Nat]
            BY <3>2
        <3> QED BY <3>1, <3>2, <3>3
    <2> QED BY <1>7, <2>1, <2>2 DEF LagResyncs, Typed, server, Last
<1>8. CASE LagAnswers(c)
    <2>1. lag' \in [Connections -> [skipped: Nat, todo: SUBSET Nat]]
        BY <1>8 DEF LagAnswers, Typed
    <2>2. phase' \in [Connections -> Phases]
        BY <1>8 DEF LagAnswers, Go, Typed, Phases
    <2>3. Answer(c, Skipped(c))
        BY <1>8 DEF LagAnswers
    <2> QED BY <1>8, <2>1, <2>2, <2>3, AnsweredTyped DEF LagAnswers, Typed, Last, SubsTyped
<1>9. CASE Break(c)
    <2>1. /\ phase' \in [Connections -> Phases]
          /\ lifecycle' \in [stopping: BOOLEAN, running: Int, serving: Int]
        BY <1>9, UncountOK DEF Break, Go, Typed, Phases
    <2>2. DOMAIN subs' = Connections /\ \A d \in Connections : SubsTyped(d)'
        BY <1>9, FS_EmptySet DEF Break, Typed, SubsTyped
    <2>3. /\ running' \in [Connections -> SUBSET Nat]
          /\ lag' \in [Connections -> [skipped: Nat, todo: SUBSET Nat]]
        BY <1>9 DEF Break, Typed
    <2>4. DOMAIN ran' = Connections /\ \A d \in Connections : ran'[d] \in [DOMAIN ran'[d] -> Nat]
        BY <1>9 DEF Break, Typed
    <2> QED BY <1>9, <2>1, <2>2, <2>3, <2>4 DEF Break, Typed, Last
<1> QED BY <1>1, <1>2, <1>3, <1>4, <1>5, <1>6, <1>7, <1>8, <1>9 DEF ServeNext

LEMMA SendTyped == ASSUME Typed, NEW c \in Connections, SendNext(c) PROVE Typed'
<1>1. CASE SendFrame(c)
    BY <1>1 DEF SendFrame, server, Typed, SubsTyped, Last
<1>2. CASE Closes(c)
    <2>1. /\ phase' \in [Connections -> Phases]
          /\ lifecycle' \in [stopping: BOOLEAN, running: Int, serving: Int]
        BY <1>2, UncountOK DEF Closes, Go, Typed, Phases
    <2> QED BY <1>2, <2>1 DEF Closes, Typed, SubsTyped, Last
<1> QED BY <1>1, <1>2 DEF SendNext

LEMMA NextTyped == Typed /\ [Next]_vars => Typed'
<1> SUFFICES ASSUME Typed, [Next]_vars PROVE Typed'
    OBVIOUS
<1>1. CASE UNCHANGED vars
    BY <1>1 DEF vars, server, connection, Typed, SubsTyped, Last
<1>2. ASSUME NEW c \in Connections, ConnectionNext(c) PROVE Typed'
    BY <1>2, RequestTyped, ServeTyped, SendTyped DEF ConnectionNext
<1>3. CASE ShutDown
    BY <1>3, LifecycleOK DEF ShutDown, connection, Typed, SubsTyped, Last
<1>4. CASE Close
    <2>1. publications' \in Seq(Publication) /\ Last \in Nat /\ Last' = Last + 1
        BY <1>4, ClosingOK, SendOK DEF Close
    <2> QED BY <1>4, <2>1 DEF Close, connection, Typed, SubsTyped
<1> QED BY <1>1, <1>2, <1>3, <1>4, ApplicationTyped, StartCommandTyped, CommandTypedKept DEF Next

LEMMA InitTyped == Init => Typed
<1> SUFFICES ASSUME Init PROVE Typed
    OBVIOUS
<1>1. publications = <<>> /\ commands = <<>> /\ Last = 0
    BY DEF Init, Last
<1> QED BY <1>1, ZeroNumbered, MaxAssumption, FS_EmptySet DEF Init, Typed, SubsTyped, Phases

LEMMA TypedAlways == Spec => []Typed
BY InitTyped, NextTyped, PTL DEF Spec

-----------------------------------------------------------------------------
(* What every step keeps of the publications and the commands.             *)

Done == {"published", "ended"}

Extends ==
    /\ Last' \in {Last, Last + 1}
    /\ \A i \in 1..Last : publications'[i] = publications[i]

Progresses ==
    \A k \in DOMAIN commands :
        /\ k \in DOMAIN commands'
        /\ commands'[k].origin = commands[k].origin
        /\ commands[k].phase \in Done =>
              /\ commands'[k].phase \in Done
              /\ commands'[k].modification = commands[k].modification
              /\ commands'[k].announced = commands[k].announced
              /\ commands[k].replied => commands'[k].replied
        /\ commands[k].phase = "ended" => commands'[k].phase = "ended"

LEMMA SameProgress ==
    ASSUME SameCommands,
           \A k \in DOMAIN commands : commands[k].replied => commands'[k].replied
    PROVE  Progresses
BY DEF SameCommands, Progresses, Done

LEMMA UnchangedProgress == UNCHANGED commands => Progresses
BY DEF Progresses, Done

LEMMA BecomesProgress ==
    ASSUME Typed, NEW k \in DOMAIN commands, NEW r, Becomes(k, r),
           r.origin = commands[k].origin,
           commands[k].phase \in Done =>
              /\ r.phase \in Done
              /\ r.modification = commands[k].modification
              /\ r.announced = commands[k].announced
              /\ commands[k].replied => r.replied,
           commands[k].phase = "ended" => r.phase = "ended"
    PROVE  Progresses
BY DEF Becomes, Progresses, Done

LEMMA CommandProgress ==
    ASSUME Typed, NEW k \in DOMAIN commands, HostNext(k) \/ CommandNext(k)
    PROVE  Progresses
<1> DEFINE command == commands[k]
<1>1. command \in CommandRecord
    BY CommandTyped
<1>2. CASE CommandSaves(k)
    <2> DEFINE r == [command EXCEPT !.unannounced = saved']
    <2>1. Becomes(k, r) /\ command.phase = "running"
        BY <1>2, CommandSavesOK DEF CommandSaves, Running
    <2>2. r.origin = command.origin
        BY <1>1 DEF CommandRecord
    <2> HIDE DEF r
    <2> QED BY <2>1, <2>2, BecomesProgress DEF Done
<1>3. CASE CommandAnnounces(k)
    <2> DEFINE r == [command EXCEPT !.unannounced = 0,
                                    !.announced = @ \cup {command.unannounced}]
    <2>1. Becomes(k, r) /\ command.phase = "running"
        BY <1>3, CommandAnnouncesOK DEF CommandAnnounces, Running
    <2>2. r.origin = command.origin
        BY <1>1 DEF CommandRecord
    <2> HIDE DEF r
    <2> QED BY <2>1, <2>2, BecomesProgress DEF Done
<1>4. CASE CommandReturns(k)
    <2> DEFINE r == [command EXCEPT !.phase = "returned", !.unannounced = 0,
                                    !.modification = command.unannounced]
    <2>1. Becomes(k, r) /\ command.phase = "running"
        BY <1>4, CommandReturnsOK DEF CommandReturns, Running
    <2>2. r.origin = command.origin
        BY <1>1 DEF CommandRecord
    <2> HIDE DEF r
    <2> QED BY <2>1, <2>2, BecomesProgress DEF Done
<1>5. CASE CommandPublishes(k)
    <2> DEFINE r == [command EXCEPT !.phase = "published",
                                    !.replied = command.origin = Application]
    <2>1. Becomes(k, r) /\ command.phase = "returned"
        BY <1>5, CommandPublishesOK DEF CommandPublishes
    <2>2. r.origin = command.origin
        BY <1>1 DEF CommandRecord
    <2> HIDE DEF r
    <2> QED BY <2>1, <2>2, BecomesProgress DEF Done
<1>6. CASE CommandEnds(k)
    <2> DEFINE r == [command EXCEPT !.phase = "ended"]
    <2>1. Becomes(k, r)
        BY <1>6, CommandEndsOK
    <2>2. /\ r.origin = command.origin /\ r.phase = "ended"
          /\ r.modification = command.modification /\ r.announced = command.announced
          /\ r.replied = command.replied
        BY <1>1 DEF CommandRecord
    <2> HIDE DEF r
    <2> QED BY <2>1, <2>2, BecomesProgress DEF Done
<1> QED BY <1>2, <1>3, <1>4, <1>5, <1>6 DEF HostNext, CommandNext

LEMMA UnsentExtends == Typed /\ UNCHANGED publications => Extends
BY PublicationsOK DEF Extends, Last

LEMMA SendExtends ==
    ASSUME Typed, NEW p \in Publication, Send(p)
    PROVE  Extends /\ Last' = Last + 1 /\ publications'[Last + 1] = p
BY SendOK DEF Extends

LEMMA StartProgress ==
    ASSUME Typed, NEW origin \in Origins, StartCommand(origin)
    PROVE  Progresses /\ Extends
<1>1. Progresses
    BY StartCommandOK DEF Progresses, Done
<1> QED BY <1>1, UnsentExtends DEF StartCommand

(* What a connection's own steps leave to the commands, to the closing and *)
(* to the other connections.                                               *)
Answers(c) == \E ks : Answer(c, ks)

LEMMA Uncounted ==
    ASSUME Typed, Uncount
    PROVE  \E n \in Int : lifecycle' = [lifecycle EXCEPT !.serving = n]
<1>1. lifecycle.serving - 1 \in Int
    BY LifecycleOK
<1> QED BY <1>1 DEF Uncount

LEMMA ConnectionSteps ==
    ASSUME Typed, NEW c \in Connections, ConnectionNext(c)
    PROVE  /\ UNCHANGED <<commands, running, ran>> \/ Break(c) \/ Answers(c)
           /\ UNCHANGED publications \/ Send(Change(c, made[c]))
           /\ UNCHANGED closingAt
           /\ \/ UNCHANGED lifecycle
              \/ \E n \in Int : lifecycle' = [lifecycle EXCEPT !.serving = n]
           /\ \A d \in Connections \ {c} :
                 /\ phase'[d] = phase[d] /\ next'[d] = next[d] /\ lag'[d] = lag[d]
                 /\ subs'[d] = subs[d] /\ made'[d] = made[d]
<1>1. CASE AdmitSubscribes(c)
    BY <1>1 DEF AdmitSubscribes, Go, server, Typed
<1>2. CASE AdmitCounts(c)
    BY <1>2, LifecycleOK DEF AdmitCounts, Go, Typed
<1>3. CASE Subscribe(c)
    BY <1>3 DEF Subscribe, SetSubs, server, Typed
<1>4. ASSUME NEW s, Resync(c, s) \/ Unsubscribe(c, s)
      PROVE  /\ UNCHANGED <<commands, running, ran, publications, closingAt, lifecycle>>
             /\ UNCHANGED <<phase, next, lag, made>>
             /\ \A d \in Connections \ {c} : subs'[d] = subs[d]
    BY <1>4 DEF Resync, Unsubscribe, SetSubs, server, Typed
<1>5. CASE MutateSaves(c)
    BY <1>5 DEF MutateSaves, Go, server, Typed
<1>6. CASE MutateResponds(c)
    BY <1>6 DEF MutateResponds, Deliver, SetSubs, Go, Typed
<1>7. ASSUME NEW s, MutatePanics(c, s)
      PROVE  /\ UNCHANGED <<commands, running, ran, publications, closingAt, lifecycle>>
             /\ UNCHANGED <<next, lag>>
             /\ \A d \in Connections \ {c} :
                   phase'[d] = phase[d] /\ made'[d] = made[d] /\ subs'[d] = subs[d]
    BY <1>7 DEF MutatePanics, SetSubs, Go, server, Typed
<1>8. CASE TakeChange(c)
    BY <1>8 DEF TakeChange, Deliver, SetSubs, Advance, server, Typed
<1>9. CASE TakeOwnCommand(c)
    <2>1. Answer(c, {Taken(c).command})
        BY <1>9 DEF TakeOwnCommand
    <2>2. Answers(c)
        BY <2>1 DEF Answers
    <2> QED BY <1>9, <2>2 DEF TakeOwnCommand, Deliver, SetSubs, Advance, Typed
<1>10. CASE TakeClosing(c)
    BY <1>10 DEF TakeClosing, Go, server, Typed
<1>11. CASE LagSkips(c)
    BY <1>11 DEF LagSkips, Go, server, Typed
<1>12. ASSUME NEW s, LagResyncs(c, s)
      PROVE  /\ UNCHANGED <<commands, running, ran, publications, closingAt, lifecycle>>
             /\ UNCHANGED <<phase, next, made>>
             /\ \A d \in Connections \ {c} : lag'[d] = lag[d] /\ subs'[d] = subs[d]
    BY <1>12 DEF LagResyncs, SetSubs, server, Typed
<1>13. CASE LagAnswers(c)
    <2>1. Answer(c, Skipped(c))
        BY <1>13 DEF LagAnswers
    <2>2. Answers(c)
        BY <2>1 DEF Answers
    <2>3. UNCHANGED <<publications, lifecycle, closingAt, next, subs, made>>
        BY <1>13 DEF LagAnswers
    <2>4. \A d \in Connections \ {c} : phase'[d] = phase[d] /\ lag'[d] = lag[d]
        BY <1>13 DEF LagAnswers, Go, Typed
    <2> QED BY <2>2, <2>3, <2>4
<1>14. CASE Break(c)
    <2>1. Break(c) /\ Uncount /\ UNCHANGED <<publications, closingAt, made>>
        BY <1>14 DEF Break
    <2>2. \A d \in Connections \ {c} : /\ phase'[d] = phase[d] /\ next'[d] = next[d]
                                       /\ lag'[d] = lag[d] /\ subs'[d] = subs[d]
        BY <1>14 DEF Break, Go, Typed
    <2> QED BY <2>1, <2>2, Uncounted
<1>15. CASE SendFrame(c)
    BY <1>15 DEF SendFrame, server
<1>16. CASE Closes(c)
    <2>1. /\ UNCHANGED <<commands, running, ran, publications, closingAt, next, lag, subs, made>>
          /\ Uncount
          /\ \A d \in Connections \ {c} : phase'[d] = phase[d]
        BY <1>16 DEF Closes, Go, Typed
    <2> QED BY <2>1, Uncounted
<1> QED BY <1>1, <1>2, <1>3, <1>4, <1>5, <1>6, <1>7, <1>8, <1>9, <1>10, <1>11, <1>12, <1>13,
           <1>14, <1>15, <1>16 DEF ConnectionNext, RequestNext, ServeNext, SendNext

LEMMA ConnectionProgress ==
    ASSUME Typed, NEW c \in Connections, ConnectionNext(c)
    PROVE  /\ SameCommands /\ Progresses /\ Extends
           /\ \A i \in Last + 1..Last' : publications'[i].kind = "change"
           /\ UNCHANGED closingAt
           /\ lifecycle'.stopping = lifecycle.stopping
           /\ lifecycle'.running = lifecycle.running
           /\ \A d \in Connections \ {c} :
                 /\ phase'[d] = phase[d] /\ next'[d] = next[d] /\ lag'[d] = lag[d]
                 /\ running'[d] = running[d] /\ ran'[d] = ran[d]
<1>1. SameCommands /\ Progresses
    <2>1. CASE UNCHANGED commands
        BY <2>1, SameCommandsOK, UnchangedProgress
    <2>2. ASSUME NEW ks, Answer(c, ks) PROVE SameCommands /\ Progresses
        BY <2>2, AnswerOK, SameProgress
    <2> QED BY <2>1, <2>2, ConnectionSteps DEF Answers, Break
<1>2. Extends /\ \A i \in Last + 1..Last' : publications'[i].kind = "change"
    <2>1. CASE UNCHANGED publications
        BY <2>1, UnsentExtends, PublicationsOK DEF Last
    <2>2. CASE Send(Change(c, made[c]))
        <3>1. Change(c, made[c]) \in Publication
            BY ChangeOK DEF Typed, Origins
        <3>2. Change(c, made[c]).kind = "change"
            BY DEF Change
        <3> QED BY <2>2, <3>1, <3>2, SendExtends, PublicationsOK
    <2> QED BY <2>1, <2>2, ConnectionSteps
<1>3. /\ lifecycle'.stopping = lifecycle.stopping
      /\ lifecycle'.running = lifecycle.running
    <2>1. lifecycle \in [stopping: BOOLEAN, running: Int, serving: Int]
        BY DEF Typed
    <2> QED BY <2>1, ConnectionSteps
<1>4. \A d \in Connections \ {c} : running'[d] = running[d] /\ ran'[d] = ran[d]
    <2>1. CASE Break(c)
        BY <2>1 DEF Break, Typed
    <2>2. ASSUME NEW ks, Answer(c, ks)
          PROVE  \A d \in Connections \ {c} : running'[d] = running[d] /\ ran'[d] = ran[d]
        BY <2>2, AnswerOK
    <2> QED BY <2>1, <2>2, ConnectionSteps DEF Answers
<1> QED BY <1>1, <1>2, <1>3, <1>4, ConnectionSteps

-----------------------------------------------------------------------------
(* The outcomes published, and the closing.                                *)

(* An outcome is published once its command returned.                      *)
OutcomeOf(p) ==
    p.kind = "ran" =>
        /\ p.command \in DOMAIN commands
        /\ commands[p.command].phase \in Done
        /\ commands[p.command].origin = p.origin
        /\ commands[p.command].modification = p.modification
OutcomesRan == \A i \in 1..Last : OutcomeOf(publications[i])

(* The commands counted, which the closing publication waits for.          *)
Counted == {k \in DOMAIN commands : commands[k].phase # "ended"}

ClosingLast ==
    /\ lifecycle.running = Cardinality(Counted)
    /\ closingAt # 0 => /\ lifecycle.stopping /\ Counted = {}
                        /\ \A i \in 1..Last : publications[i].kind = "ran" => i < closingAt
    /\ \A i \in 1..Last : publications[i].kind = "closing" => i = closingAt

LEMMA CountedFinite == Typed => IsFiniteSet(Counted)
<1> SUFFICES ASSUME Typed PROVE IsFiniteSet(Counted)
    OBVIOUS
<1>1. Len(commands) \in Nat /\ DOMAIN commands = 1..Len(commands)
    BY LenProperties DEF Typed
<1>2. IsFiniteSet(1..Len(commands))
    BY <1>1, FS_Interval
<1> QED BY <1>1, <1>2, FS_Subset DEF Counted

LEMMA OutcomesKept ==
    ASSUME Typed, OutcomesRan, Progresses, Extends,
           \A i \in Last + 1..Last' : OutcomeOf(publications[i])'
    PROVE  OutcomesRan'
<1> SUFFICES ASSUME NEW i \in 1..Last' PROVE OutcomeOf(publications[i])'
    BY DEF OutcomesRan
<1>1. Last \in Nat /\ Last' \in Nat
    BY PublicationsOK DEF Extends
<1>2. CASE i \in 1..Last
    <2>1. publications'[i] = publications[i] /\ OutcomeOf(publications[i])
        BY <1>2 DEF Extends, OutcomesRan
    <2> QED BY <2>1 DEF OutcomeOf, Progresses
<1>3. CASE i \in Last + 1..Last'
    BY <1>3
<1> QED BY <1>1, <1>2, <1>3

LEMMA NextOutcomes == Typed /\ OutcomesRan /\ [Next]_vars => OutcomesRan'
<1> SUFFICES ASSUME Typed, OutcomesRan, [Next]_vars PROVE OutcomesRan'
    OBVIOUS
<1>1. ASSUME Progresses, Extends, \A i \in Last + 1..Last' : publications'[i].kind # "ran"
      PROVE  OutcomesRan'
    BY <1>1, OutcomesKept DEF OutcomeOf
<1>2. ASSUME UNCHANGED publications, Progresses PROVE OutcomesRan'
    BY <1>1, <1>2, UnsentExtends, PublicationsOK DEF Last
<1>3. CASE UNCHANGED vars
    BY <1>2, <1>3, UnchangedProgress DEF vars, server
<1>4. CASE ApplicationNext
    <2>1. CASE ApplicationSaves
        BY <1>2, <2>1, UnchangedProgress DEF ApplicationSaves, server
    <2>2. ASSUME NEW n \in unpublished, ApplicationPublishes(n) PROVE OutcomesRan'
        <3>1. Change(Application, n) \in Publication /\ Send(Change(Application, n))
            BY <2>2, SavedOK, ChangeOK DEF Origins, ApplicationPublishes
        <3> QED BY <1>1, <2>2, <3>1, SendExtends, PublicationsOK, UnchangedProgress
                DEF ApplicationPublishes, Change
    <2> QED BY <1>4, <2>1, <2>2 DEF ApplicationNext
<1>5. ASSUME NEW o \in Origins, StartCommand(o) PROVE OutcomesRan'
    BY <1>2, <1>5, StartProgress DEF StartCommand
<1>6. ASSUME NEW k \in DOMAIN commands, HostNext(k) \/ CommandNext(k) PROVE OutcomesRan'
    <2>1. Progresses
        BY <1>6, CommandProgress
    <2>2. CASE CommandSaves(k) \/ CommandReturns(k) \/ CommandEnds(k)
        BY <1>2, <2>1, <2>2 DEF CommandSaves, CommandReturns, CommandEnds
    <2>3. CASE CommandAnnounces(k)
        <3> DEFINE p == Change(Application, commands[k].unannounced)
        <3>1. p \in Publication /\ Send(p) /\ p.kind # "ran"
            BY <2>3, ChangeOK, CommandTyped DEF Origins, CommandAnnounces, Change
        <3> HIDE DEF p
        <3> QED BY <1>1, <2>1, <3>1, SendExtends, PublicationsOK
    <2>4. CASE CommandPublishes(k)
        <3>1. Ran(k) \in Publication /\ Send(Ran(k))
            BY <2>4, RanOK DEF CommandPublishes
        <3>2. /\ Extends /\ Last' = Last + 1 /\ publications'[Last + 1] = Ran(k) /\ Last \in Nat
            BY <3>1, SendExtends, PublicationsOK
        <3>3. /\ k \in DOMAIN commands' /\ commands'[k].phase = "published"
              /\ commands'[k].origin = commands[k].origin
              /\ commands'[k].modification = commands[k].modification
            <4> DEFINE answered == commands[k].origin = Application
                       r == [commands[k] EXCEPT !.phase = "published", !.replied = answered]
            <4>1. Becomes(k, r)
                BY <2>4, CommandPublishesOK
            <4> HIDE DEF answered
            <4>2. commands[k] \in CommandRecord
                BY CommandTyped
            <4>3. /\ r.phase = "published" /\ r.origin = commands[k].origin
                  /\ r.modification = commands[k].modification
                BY <4>2 DEF CommandRecord
            <4> HIDE DEF r
            <4> QED BY <4>1, <4>3 DEF Becomes
        <3>4. ASSUME NEW i \in Last + 1..Last' PROVE OutcomeOf(publications[i])'
            <4>1. publications'[i] = Ran(k)
                BY <3>2
            <4> QED BY <3>3, <4>1 DEF OutcomeOf, Ran, Done
        <3> QED BY <2>1, <3>2, <3>4, OutcomesKept
    <2> QED BY <1>6, <2>2, <2>3, <2>4 DEF HostNext, CommandNext
<1>7. ASSUME NEW c \in Connections, ConnectionNext(c) PROVE OutcomesRan'
    BY <1>1, <1>7, ConnectionProgress
<1>8. CASE ShutDown
    BY <1>2, <1>8, UnchangedProgress DEF ShutDown
<1>9. CASE Close
    BY <1>1, <1>9, ClosingOK, SendExtends, PublicationsOK, UnchangedProgress DEF Close, Closing
<1> QED BY <1>3, <1>4, <1>5, <1>6, <1>7, <1>8, <1>9 DEF Next

(* The phase a step of its task leaves a command in.                       *)
LEMMA HostPhase ==
    ASSUME Typed, NEW k \in DOMAIN commands, HostNext(k)
    PROVE  /\ DOMAIN commands' = DOMAIN commands
           /\ \A j \in DOMAIN commands \ {k} : commands'[j] = commands[j]
           /\ commands[k].phase = "running" /\ commands'[k].phase = "running"
           /\ commands'[k].origin = commands[k].origin
           /\ commands'[k].replied = commands[k].replied
           /\ commands'[k].modification = commands[k].modification
<1> DEFINE command == commands[k]
<1>1. command \in CommandRecord
    BY CommandTyped
<1>2. CASE CommandSaves(k)
    <2> DEFINE r == [command EXCEPT !.unannounced = saved']
    <2>1. Becomes(k, r) /\ command.phase = "running"
        BY <1>2, CommandSavesOK DEF CommandSaves, Running
    <2>2. /\ r.origin = command.origin /\ r.phase = command.phase
          /\ r.replied = command.replied /\ r.modification = command.modification
        BY <1>1 DEF CommandRecord
    <2> HIDE DEF r
    <2> QED BY <2>1, <2>2 DEF Becomes
<1>3. CASE CommandAnnounces(k)
    <2> DEFINE r == [command EXCEPT !.unannounced = 0,
                                    !.announced = @ \cup {command.unannounced}]
    <2>1. Becomes(k, r) /\ command.phase = "running"
        BY <1>3, CommandAnnouncesOK DEF CommandAnnounces, Running
    <2>2. /\ r.origin = command.origin /\ r.phase = command.phase
          /\ r.replied = command.replied /\ r.modification = command.modification
        BY <1>1 DEF CommandRecord
    <2> HIDE DEF r
    <2> QED BY <2>1, <2>2 DEF Becomes
<1> QED BY <1>2, <1>3 DEF HostNext

LEMMA ReturnsPhase ==
    ASSUME Typed, NEW k \in DOMAIN commands, CommandReturns(k)
    PROVE  /\ DOMAIN commands' = DOMAIN commands
           /\ \A j \in DOMAIN commands \ {k} : commands'[j] = commands[j]
           /\ commands[k].phase = "running" /\ commands'[k].phase = "returned"
           /\ commands'[k].origin = commands[k].origin
           /\ commands'[k].modification = commands[k].unannounced
           /\ commands'[k].unannounced = 0
           /\ commands'[k].announced = commands[k].announced
           /\ commands'[k].replied = commands[k].replied
<1> DEFINE r == [commands[k] EXCEPT !.phase = "returned", !.unannounced = 0,
                                    !.modification = commands[k].unannounced]
<1>1. Becomes(k, r) /\ commands[k].phase = "running" /\ commands[k] \in CommandRecord
    BY CommandReturnsOK, CommandTyped DEF CommandReturns, Running
<1>2. /\ r.origin = commands[k].origin /\ r.phase = "returned"
      /\ r.unannounced = 0 /\ r.modification = commands[k].unannounced
      /\ r.announced = commands[k].announced /\ r.replied = commands[k].replied
    BY <1>1 DEF CommandRecord
<1> HIDE DEF r
<1> QED BY <1>1, <1>2 DEF Becomes

LEMMA PublishesPhase ==
    ASSUME Typed, NEW k \in DOMAIN commands, CommandPublishes(k)
    PROVE  /\ DOMAIN commands' = DOMAIN commands
           /\ \A j \in DOMAIN commands \ {k} : commands'[j] = commands[j]
           /\ commands[k].phase = "returned" /\ commands'[k].phase = "published"
           /\ commands'[k].origin = commands[k].origin
           /\ commands'[k].modification = commands[k].modification
           /\ commands'[k].announced = commands[k].announced
           /\ commands'[k].replied = (commands[k].origin = Application)
<1> DEFINE answered == commands[k].origin = Application
           r == [commands[k] EXCEPT !.phase = "published", !.replied = answered]
<1>1. Becomes(k, r) /\ commands[k].phase = "returned" /\ commands[k] \in CommandRecord
    BY CommandPublishesOK, CommandTyped DEF CommandPublishes
<1> HIDE DEF answered
<1>2. /\ r.origin = commands[k].origin /\ r.phase = "published"
      /\ r.modification = commands[k].modification
      /\ r.announced = commands[k].announced
      /\ r.replied = answered
    BY <1>1 DEF CommandRecord
<1> HIDE DEF r
<1> QED BY <1>1, <1>2 DEF Becomes, answered

LEMMA EndsPhase ==
    ASSUME Typed, NEW k \in DOMAIN commands, CommandEnds(k)
    PROVE  /\ DOMAIN commands' = DOMAIN commands
           /\ \A j \in DOMAIN commands \ {k} : commands'[j] = commands[j]
           /\ commands[k].phase = "published" /\ commands'[k].phase = "ended"
           /\ commands'[k].origin = commands[k].origin
           /\ commands'[k].modification = commands[k].modification
           /\ commands'[k].announced = commands[k].announced
           /\ commands'[k].replied = commands[k].replied
<1> DEFINE r == [commands[k] EXCEPT !.phase = "ended"]
<1>1. Becomes(k, r) /\ commands[k].phase = "published" /\ commands[k] \in CommandRecord
    BY CommandEndsOK, CommandTyped DEF CommandEnds
<1>2. /\ r.origin = commands[k].origin /\ r.phase = "ended"
      /\ r.modification = commands[k].modification
      /\ r.announced = commands[k].announced
      /\ r.replied = commands[k].replied
    BY <1>1 DEF CommandRecord
<1> HIDE DEF r
<1> QED BY <1>1, <1>2 DEF Becomes

LEMMA ClosingKept ==
    ASSUME Typed, ClosingLast, Extends, Counted' = Counted,
           lifecycle'.running = lifecycle.running,
           lifecycle.stopping => lifecycle'.stopping,
           UNCHANGED closingAt,
           \A i \in Last + 1..Last' : /\ publications'[i].kind # "closing"
                                      /\ publications'[i].kind = "ran" => Counted # {}
    PROVE  ClosingLast'
<1>1. Last \in Nat /\ Last' \in Nat
    BY PublicationsOK DEF Extends
<1>2. ASSUME NEW i \in 1..Last' PROVE \/ i \in 1..Last /\ publications'[i] = publications[i]
                                      \/ i \in Last + 1..Last'
    BY <1>1 DEF Extends
<1> QED BY <1>2 DEF ClosingLast

LEMMA NextClosing == Typed /\ ClosingLast /\ [Next]_vars => ClosingLast'
<1> SUFFICES ASSUME Typed, ClosingLast, [Next]_vars PROVE ClosingLast'
    OBVIOUS
<1>1. ASSUME UNCHANGED <<publications, closingAt>>, Counted' = Counted,
             lifecycle'.running = lifecycle.running, lifecycle.stopping => lifecycle'.stopping
      PROVE  ClosingLast'
    BY <1>1, ClosingKept, UnsentExtends, PublicationsOK DEF Last
<1>2. UNCHANGED commands => Counted' = Counted
    BY DEF Counted
<1>3. CASE UNCHANGED vars
    BY <1>1, <1>2, <1>3 DEF vars, server
<1>4. CASE ApplicationNext
    <2>1. CASE ApplicationSaves
        BY <1>1, <1>2, <2>1 DEF ApplicationSaves, server
    <2>2. ASSUME NEW n \in unpublished, ApplicationPublishes(n) PROVE ClosingLast'
        <3>1. Change(Application, n) \in Publication /\ Send(Change(Application, n))
            BY <2>2, SavedOK, ChangeOK DEF Origins, ApplicationPublishes
        <3>2. /\ Extends /\ Last \in Nat /\ Last' = Last + 1
              /\ publications'[Last + 1].kind = "change"
            BY <3>1, SendExtends, PublicationsOK DEF Change
        <3> QED BY <1>2, <2>2, <3>2, ClosingKept DEF ApplicationPublishes
    <2> QED BY <1>4, <2>1, <2>2 DEF ApplicationNext
<1>5. ASSUME NEW o \in Origins, StartCommand(o) PROVE ClosingLast'
    <2> DEFINE k == Len(commands) + 1
    <2>1. Counted' = Counted \cup {k} /\ k \notin Counted
        <3>1. /\ DOMAIN commands = 1..Len(commands) /\ Len(commands) \in Nat
              /\ DOMAIN commands' = 1..Len(commands) + 1
              /\ \A j \in DOMAIN commands : commands'[j] = commands[j]
            BY <1>5, StartCommandOK
        <3>2. commands'[k].phase = "running"
            <4>1. commands'[k] = Started(o)
                BY <1>5, StartCommandOK
            <4> QED BY <4>1 DEF Started
        <3>3. DOMAIN commands' = DOMAIN commands \cup {k} /\ k \notin DOMAIN commands
            BY <3>1
        <3> HIDE DEF k
        <3> QED BY <3>1, <3>2, <3>3 DEF Counted
    <2>2. Cardinality(Counted') = Cardinality(Counted) + 1
        BY <2>1, CountedFinite, FS_AddElement
    <2>3. lifecycle'.running = lifecycle.running + 1 /\ lifecycle'.stopping = lifecycle.stopping
        <3>1. lifecycle \in [stopping: BOOLEAN, running: Int, serving: Int]
            BY DEF Typed
        <3> QED BY <1>5, <3>1 DEF StartCommand
    <2>4. UNCHANGED <<publications, closingAt>> /\ ~lifecycle.stopping
        BY <1>5 DEF StartCommand
    <2> QED BY <2>2, <2>3, <2>4 DEF ClosingLast, Last
<1>6. ASSUME NEW k \in DOMAIN commands, HostNext(k) \/ CommandNext(k) PROVE ClosingLast'
    <2>1. CASE HostNext(k)
        <3>1. Counted' = Counted
            BY <2>1, HostPhase DEF Counted
        <3>2. UNCHANGED <<closingAt, lifecycle>>
            BY <2>1 DEF HostNext, CommandSaves, CommandAnnounces
        <3>3. CASE UNCHANGED publications
            BY <1>1, <3>1, <3>2, <3>3
        <3>4. CASE CommandAnnounces(k)
            <4> DEFINE p == Change(Application, commands[k].unannounced)
            <4>1. p \in Publication /\ Send(p) /\ p.kind = "change"
                BY <3>4, ChangeOK, CommandTyped DEF Origins, CommandAnnounces, Change
            <4> HIDE DEF p
            <4>2. /\ Extends /\ Last \in Nat /\ Last' = Last + 1
                  /\ publications'[Last + 1].kind = "change"
                BY <4>1, SendExtends, PublicationsOK
            <4> QED BY <3>1, <3>2, <4>2, ClosingKept
        <3> QED BY <2>1, <3>3, <3>4 DEF HostNext, CommandSaves
    <2>2. CASE CommandReturns(k)
        <3>1. Counted' = Counted
            BY <2>2, ReturnsPhase DEF Counted
        <3> QED BY <1>1, <2>2, <3>1 DEF CommandReturns
    <2>3. CASE CommandPublishes(k)
        <3>1. Counted' = Counted /\ k \in Counted
            BY <2>3, PublishesPhase DEF Counted
        <3>2. Ran(k) \in Publication /\ Send(Ran(k)) /\ Ran(k).kind = "ran"
            BY <2>3, RanOK DEF CommandPublishes, Ran
        <3>3. /\ Extends /\ Last \in Nat /\ Last' = Last + 1
              /\ publications'[Last + 1].kind = "ran"
            BY <3>2, SendExtends, PublicationsOK
        <3> QED BY <2>3, <3>1, <3>3, ClosingKept DEF CommandPublishes
    <2>4. CASE CommandEnds(k)
        <3>1. Counted' = Counted \ {k} /\ k \in Counted
            BY <2>4, EndsPhase DEF Counted
        <3>2. Cardinality(Counted') = Cardinality(Counted) - 1
            BY <3>1, CountedFinite, FS_RemoveElement
        <3>3. lifecycle'.running = lifecycle.running - 1 /\ lifecycle'.stopping = lifecycle.stopping
            <4>1. lifecycle \in [stopping: BOOLEAN, running: Int, serving: Int]
                BY DEF Typed
            <4> QED BY <2>4, <4>1 DEF CommandEnds
        <3>4. UNCHANGED <<publications, closingAt>>
            BY <2>4 DEF CommandEnds
        <3> QED BY <3>1, <3>2, <3>3, <3>4 DEF ClosingLast, Last
    <2> QED BY <1>6, <2>1, <2>2, <2>3, <2>4 DEF CommandNext
<1>7. ASSUME NEW c \in Connections, ConnectionNext(c) PROVE ClosingLast'
    <2>1. Counted' = Counted
        BY <1>7, ConnectionProgress DEF SameCommands, Counted
    <2> QED BY <1>7, <2>1, ConnectionProgress, ClosingKept
<1>8. CASE ShutDown
    <2>1. lifecycle'.running = lifecycle.running /\ lifecycle'.stopping
        <3>1. lifecycle \in [stopping: BOOLEAN, running: Int, serving: Int]
            BY DEF Typed
        <3> QED BY <1>8, <3>1 DEF ShutDown
    <2> QED BY <1>1, <1>2, <1>8, <2>1 DEF ShutDown
<1>9. CASE Close
    <2>1. Counted = {}
        <3>1. Cardinality(Counted) = 0
            BY <1>9 DEF Close, ClosingLast
        <3> QED BY <3>1, CountedFinite, FS_EmptySet
    <2>2. /\ Last \in Nat /\ Last' = Last + 1 /\ publications'[Last + 1] = Closing
          /\ \A i \in 1..Last : publications'[i] = publications[i]
        BY <1>9, ClosingOK, SendOK DEF Close
    <2>3. /\ closingAt = 0 /\ closingAt' = Last + 1 /\ lifecycle.stopping
          /\ UNCHANGED <<lifecycle, commands>>
        BY <1>9 DEF Close
    <2>4. ASSUME NEW i \in 1..Last'
          PROVE  /\ publications'[i].kind = "ran" => i < closingAt'
                 /\ publications'[i].kind = "closing" => i = closingAt'
        <3>1. CASE i = Last + 1
            BY <2>2, <2>3, <3>1 DEF Closing
        <3>2. CASE i \in 1..Last
            BY <2>2, <2>3, <3>2 DEF ClosingLast
        <3> QED BY <2>2, <3>1, <3>2
    <2> QED BY <1>2, <2>1, <2>3, <2>4 DEF ClosingLast
<1> QED BY <1>3, <1>4, <1>5, <1>6, <1>7, <1>8, <1>9 DEF Next

LEMMA InitOutcomes == Init => OutcomesRan /\ ClosingLast
<1> SUFFICES ASSUME Init PROVE OutcomesRan /\ ClosingLast
    OBVIOUS
<1>1. publications = <<>> /\ commands = <<>> /\ Last = 0 /\ closingAt = 0
    BY DEF Init, Last
<1>2. lifecycle.running = 0
    BY DEF Init
<1>3. Counted = {}
    BY <1>1 DEF Counted
<1>4. Cardinality(Counted) = 0
    BY <1>3, FS_EmptySet
<1> QED BY <1>1, <1>2, <1>4 DEF OutcomesRan, ClosingLast

LEMMA OutcomesAlways == Spec => [](OutcomesRan /\ ClosingLast)
<1>1. Init => OutcomesRan /\ ClosingLast
    BY InitOutcomes
<1>2. Typed /\ (OutcomesRan /\ ClosingLast) /\ [Next]_vars => (OutcomesRan /\ ClosingLast)'
    BY NextOutcomes, NextClosing
<1> QED BY <1>1, <1>2, TypedAlways, PTL DEF Spec

-----------------------------------------------------------------------------
(* What a connection was answered.                                         *)

(* Each command of connection c is to be answered, or was answered once it *)
(* ran; and where the outcome of one to be answered is.                    *)
Accounted(c) ==
    /\ \A k \in DOMAIN commands : commands[k].origin = c =>
          k \in running[c] \/ (commands[k].replied /\ commands[k].phase \in Done)
    /\ \A k \in running[c] :
          /\ k \in DOMAIN commands
          /\ commands[k].origin = c
          /\ commands[k].phase \in Done => k \in DOMAIN ran[c]
    /\ \A k \in DOMAIN ran[c] :
          /\ ran[c][k] \in 1..Last
          /\ publications[ran[c][k]].kind = "ran"
          /\ publications[ran[c][k]].command = k
          /\ publications[ran[c][k]].origin = c

(* Where its receiver is, compared with those outcomes.                    *)
Placed(c) ==
    /\ next[c] <= Last + 1
    /\ phase[c] \in {"away", "admitting", "refused"} =>
          \A k \in DOMAIN commands : commands[k].origin # c
    /\ phase[c] \in {"select", "mutating"} => \A k \in DOMAIN ran[c] : ran[c][k] >= next[c]
    /\ phase[c] = "lagging" => next[c] = lag[c].skipped + 1
    /\ phase[c] \in {"closing", "closed"} => running[c] = {}

Answering == \A c \in Connections : phase[c] # "broken" => Accounted(c) /\ Placed(c)

(* No command of connection c was started, or its outcome published.       *)
Calm(c) ==
    \A k \in DOMAIN commands' : commands'[k].origin = c =>
        /\ k \in DOMAIN commands
        /\ commands'[k].phase \in Done => commands[k].phase \in Done

LEMMA Undisturbed ==
    ASSUME Typed, Answering, Extends, Progresses, NEW c \in Connections, Calm(c),
           phase'[c] = phase[c], next'[c] = next[c], lag'[c] = lag[c],
           running'[c] = running[c], ran'[c] = ran[c], phase'[c] # "broken"
    PROVE  Accounted(c)' /\ Placed(c)'
<1>1. Accounted(c) /\ Placed(c) /\ Last \in Nat /\ Last' \in Nat /\ Last <= Last' /\ next[c] \in Nat
    BY PublicationsOK DEF Answering, Extends, Typed
<1>2. \A k \in DOMAIN commands' : commands'[k].origin = c =>
         /\ k \in DOMAIN commands /\ commands[k].origin = c
         /\ commands'[k].phase \in Done => commands[k].phase \in Done
    BY DEF Calm, Progresses
<1>3. \A k \in DOMAIN commands' : commands'[k].origin = c =>
          k \in running'[c] \/ (commands'[k].replied /\ commands'[k].phase \in Done)
    BY <1>1, <1>2 DEF Accounted, Progresses
<1>4. \A k \in running'[c] :
          /\ k \in DOMAIN commands'
          /\ commands'[k].origin = c
          /\ commands'[k].phase \in Done => k \in DOMAIN ran'[c]
    BY <1>1, <1>2 DEF Accounted, Progresses
<1>5. \A k \in DOMAIN ran'[c] :
          /\ ran'[c][k] \in 1..Last'
          /\ publications'[ran'[c][k]].kind = "ran"
          /\ publications'[ran'[c][k]].command = k
          /\ publications'[ran'[c][k]].origin = c
    BY <1>1 DEF Accounted, Extends
<1>6. phase'[c] \in {"away", "admitting", "refused"} =>
          \A k \in DOMAIN commands' : commands'[k].origin # c
    BY <1>1, <1>2 DEF Placed
<1>7. next'[c] <= Last' + 1
    BY <1>1 DEF Placed
<1> QED BY <1>1, <1>3, <1>4, <1>5, <1>6, <1>7 DEF Accounted, Placed

(* The steps that are of no connection.                                    *)
LEMMA AloneAnswering ==
    ASSUME Typed, Answering, Extends, Progresses, UNCHANGED connection,
           \A c \in Connections : Calm(c)
    PROVE  Answering'
<1>1. UNCHANGED <<phase, next, lag, running, ran>>
    BY DEF connection
<1> QED BY <1>1, Undisturbed DEF Answering

LEMMA UnchangedCalm == UNCHANGED commands => \A c : Calm(c)
BY DEF Calm

LEMMA SameCalm == SameCommands => \A c : Calm(c)
BY DEF SameCommands, Calm

(* A command is started.                                                   *)
LEMMA StartAnswering ==
    ASSUME Typed, Answering, NEW origin \in Origins, StartCommand(origin)
    PROVE  Answering'
<1> SUFFICES ASSUME NEW c \in Connections, phase'[c] # "broken"
             PROVE  Accounted(c)' /\ Placed(c)'
    BY DEF Answering
<1>1. Progresses /\ Extends
    BY StartProgress
<1>2. UNCHANGED <<publications, phase, next, ran, lag>>
    BY DEF StartCommand
<1> DEFINE n == Len(commands) + 1
<1>3. /\ DOMAIN commands = 1..Len(commands) /\ DOMAIN commands' = 1..n
      /\ Len(commands) \in Nat
      /\ \A j \in DOMAIN commands : commands'[j] = commands[j]
    BY StartCommandOK
<1>4. commands'[n].origin = origin /\ commands'[n].phase = "running"
    <2>1. commands'[n] = Started(origin)
        BY StartCommandOK
    <2> QED BY <2>1 DEF Started
<1>5. DOMAIN commands' = DOMAIN commands \cup {n} /\ n \notin DOMAIN commands
    BY <1>3
<1> HIDE DEF n
<1>6. CASE c # origin
    <2>1. Calm(c)
        BY <1>3, <1>4, <1>5, <1>6 DEF Calm
    <2>2. running'[c] = running[c]
        <3>1. running \in [Connections -> SUBSET Nat]
            BY DEF Typed
        <3> QED BY <1>6, <3>1 DEF StartCommand
    <2> QED BY <1>1, <1>2, <2>1, <2>2, Undisturbed
<1>7. CASE c = origin
    <2>1. running'[c] = running[c] \cup {n} /\ phase[c] = "select"
        <3>1. running \in [Connections -> SUBSET Nat] /\ c # Application
            BY OriginAssumption DEF Typed
        <3> QED BY <1>7, <3>1 DEF StartCommand, Idle, At, n
    <2>2. Accounted(c) /\ Placed(c)
        BY <1>2 DEF Answering
    <2>3. \A k \in DOMAIN commands' : commands'[k].origin = c =>
              k \in running'[c] \/ (commands'[k].replied /\ commands'[k].phase \in Done)
        BY <1>3, <1>5, <2>1, <2>2 DEF Accounted
    <2>4. \A k \in running'[c] :
              /\ k \in DOMAIN commands'
              /\ commands'[k].origin = c
              /\ commands'[k].phase \in Done => k \in DOMAIN ran'[c]
        <3>1. CASE running'[c] = running[c] \cup {n}
            <4>1. \A k \in running[c] : commands'[k] = commands[k]
                BY <1>3, <2>2 DEF Accounted
            <4>2. ran'[c] = ran[c] /\ commands'[n].phase \notin Done
                BY <1>2, <1>4 DEF Done
            <4> QED BY <1>4, <1>5, <1>7, <2>2, <3>1, <4>1, <4>2 DEF Accounted
        <3> QED BY <2>1, <3>1
    <2>5. \A k \in DOMAIN ran'[c] :
              /\ ran'[c][k] \in 1..Last'
              /\ publications'[ran'[c][k]].kind = "ran"
              /\ publications'[ran'[c][k]].command = k
              /\ publications'[ran'[c][k]].origin = c
        BY <1>2, <2>2 DEF Accounted, Last
    <2>6. Placed(c)'
        BY <1>2, <2>1, <2>2 DEF Placed, Last
    <2> QED BY <2>3, <2>4, <2>5, <2>6 DEF Accounted
<1> QED BY <1>6, <1>7

(* The outcome of a command is published.                                  *)
LEMMA PublishAnswering ==
    ASSUME Typed, Answering, NEW k \in DOMAIN commands, CommandPublishes(k)
    PROVE  Answering'
<1> SUFFICES ASSUME NEW c \in Connections, phase'[c] # "broken"
             PROVE  Accounted(c)' /\ Placed(c)'
    BY DEF Answering
<1>1. Progresses
    BY CommandProgress DEF CommandNext
<1>2. Ran(k) \in Publication /\ Send(Ran(k))
    BY RanOK DEF CommandPublishes
<1>3. /\ Extends /\ Last' = Last + 1 /\ publications'[Last + 1] = Ran(k)
      /\ Last \in Nat
    BY <1>2, SendExtends, PublicationsOK
<1>4. UNCHANGED <<phase, next, running, lag>>
    BY DEF CommandPublishes
<1>5. /\ DOMAIN commands' = DOMAIN commands
      /\ \A j \in DOMAIN commands \ {k} : commands'[j] = commands[j]
      /\ commands[k].phase = "returned" /\ commands'[k].phase = "published"
      /\ commands'[k].origin = commands[k].origin
    BY PublishesPhase
<1>6. CASE c # commands[k].origin
    <2>1. Calm(c)
        BY <1>5, <1>6 DEF Calm
    <2>2. ran'[c] = ran[c]
        BY <1>6, RanAfter
    <2> QED BY <1>1, <1>3, <1>4, <2>1, <2>2, Undisturbed
<1>7. CASE c = commands[k].origin
    <2>1. Accounted(c) /\ Placed(c) /\ next[c] \in Nat
        BY <1>4 DEF Answering, Typed
    <2>2. /\ DOMAIN ran'[c] = DOMAIN ran[c] \cup {k}
          /\ ran'[c][k] = Last + 1
          /\ \A j \in DOMAIN ran[c] \ {k} : ran'[c][j] = ran[c][j]
        BY <1>7, RanAfter
    <2>3. k \in running[c]
        BY <1>5, <1>7, <2>1 DEF Accounted, Done
    <2>4. \A j \in DOMAIN commands' : commands'[j].origin = c =>
              j \in running'[c] \/ (commands'[j].replied /\ commands'[j].phase \in Done)
        BY <1>4, <1>5, <2>1, <2>3 DEF Accounted
    <2>5. \A j \in running'[c] :
              /\ j \in DOMAIN commands'
              /\ commands'[j].origin = c
              /\ commands'[j].phase \in Done => j \in DOMAIN ran'[c]
        BY <1>4, <1>5, <1>7, <2>1, <2>2 DEF Accounted
    <2>6. ASSUME NEW j \in DOMAIN ran'[c]
          PROVE  /\ ran'[c][j] \in 1..Last'
                 /\ publications'[ran'[c][j]].kind = "ran"
                 /\ publications'[ran'[c][j]].command = j
                 /\ publications'[ran'[c][j]].origin = c
        <3>1. CASE j = k
            <4>1. ran'[c][j] = Last + 1 /\ publications'[ran'[c][j]] = Ran(k)
                BY <1>3, <2>2, <3>1
            <4>2. Ran(k).kind = "ran" /\ Ran(k).command = k /\ Ran(k).origin = c
                BY <1>7 DEF Ran
            <4> QED BY <1>3, <3>1, <4>1, <4>2
        <3>2. CASE j # k
            BY <1>3, <2>1, <2>2, <3>2 DEF Accounted, Extends
        <3> QED BY <3>1, <3>2
    <2>7. next'[c] <= Last' + 1
        BY <1>3, <1>4, <2>1 DEF Placed
    <2>8. phase[c] \notin {"away", "admitting", "refused", "closing", "closed"}
        BY <1>7, <2>1, <2>3 DEF Placed
    <2>9. ASSUME phase[c] \in {"select", "mutating"}, NEW j \in DOMAIN ran'[c]
          PROVE  ran'[c][j] >= next'[c]
        BY <1>3, <1>4, <2>1, <2>2, <2>9 DEF Placed
    <2>10. Placed(c)'
        BY <1>4, <2>1, <2>7, <2>8, <2>9 DEF Placed
    <2> QED BY <2>4, <2>5, <2>6, <2>10 DEF Accounted
<1> QED BY <1>6, <1>7

LEMMA UnansweredAccounted ==
    ASSUME Typed, NEW c \in Connections, Accounted(c), Extends,
           UNCHANGED <<commands, running, ran>>
    PROVE  Accounted(c)'
<1>1. Last \in Nat /\ Last' \in Nat /\ Last <= Last'
    BY PublicationsOK DEF Extends
<1>2. \A k \in DOMAIN ran[c] :
          /\ ran'[c][k] \in 1..Last'
          /\ publications'[ran[c][k]] = publications[ran[c][k]]
    BY <1>1 DEF Accounted, Extends
<1> QED BY <1>2 DEF Accounted

LEMMA AnsweredAccounted ==
    ASSUME Typed, NEW c \in Connections, Accounted(c), NEW ks, Answer(c, ks),
           UNCHANGED publications,
           \A k \in ks \cap running[c] : commands[k].phase \in Done
    PROVE  /\ Accounted(c)'
           /\ running'[c] = running[c] \ ks
           /\ DOMAIN ran'[c] = DOMAIN ran[c] \ ks
           /\ \A k \in DOMAIN ran'[c] : ran'[c][k] = ran[c][k]
<1>1. /\ DOMAIN commands' = DOMAIN commands
      /\ \A k \in DOMAIN commands : /\ commands'[k].origin = commands[k].origin
                                    /\ commands'[k].phase = commands[k].phase
    BY AnswerOK DEF SameCommands
<1>2. \A k \in DOMAIN commands :
          commands'[k].replied = (commands[k].replied \/ k \in ks \cap running[c])
    BY AnswerOK
<1>3. /\ running'[c] = running[c] \ ks
      /\ DOMAIN ran'[c] = DOMAIN ran[c] \ ks
      /\ \A k \in DOMAIN ran'[c] : ran'[c][k] = ran[c][k]
    BY AnswerOK
<1>4. \A k \in DOMAIN commands' : commands'[k].origin = c =>
          k \in running'[c] \/ (commands'[k].replied /\ commands'[k].phase \in Done)
    BY <1>1, <1>2, <1>3 DEF Accounted
<1>5. \A k \in running'[c] :
          /\ k \in DOMAIN commands'
          /\ commands'[k].origin = c
          /\ commands'[k].phase \in Done => k \in DOMAIN ran'[c]
    BY <1>1, <1>3 DEF Accounted
<1>6. \A k \in DOMAIN ran'[c] :
          /\ ran'[c][k] \in 1..Last'
          /\ publications'[ran'[c][k]].kind = "ran"
          /\ publications'[ran'[c][k]].command = k
          /\ publications'[ran'[c][k]].origin = c
    BY <1>3 DEF Accounted, Last
<1> QED BY <1>3, <1>4, <1>5, <1>6 DEF Accounted

(* A connection has no outcome to be answered before it is admitted.       *)
LEMMA NoneAwaited ==
    ASSUME Typed, OutcomesRan, NEW c \in Connections, Accounted(c),
           \A k \in DOMAIN commands : commands[k].origin # c
    PROVE  DOMAIN ran[c] = {}
<1> SUFFICES ASSUME NEW k \in DOMAIN ran[c] PROVE FALSE
    OBVIOUS
<1>1. /\ ran[c][k] \in 1..Last
      /\ publications[ran[c][k]].kind = "ran"
      /\ publications[ran[c][k]].command = k
      /\ publications[ran[c][k]].origin = c
    BY DEF Accounted
<1>2. OutcomeOf(publications[ran[c][k]])
    BY <1>1 DEF OutcomesRan
<1> QED BY <1>1, <1>2 DEF OutcomeOf

(* All that is to be answered has its outcome noted once the closing was   *)
(* published, before it.                                                   *)
LEMMA NotedByClosing ==
    ASSUME Typed, ClosingLast, closingAt # 0, NEW c \in Connections, Accounted(c)
    PROVE  /\ running[c] \subseteq DOMAIN ran[c]
           /\ \A k \in DOMAIN ran[c] : ran[c][k] < closingAt
<1>1. Counted = {} /\ \A i \in 1..Last : publications[i].kind = "ran" => i < closingAt
    BY DEF ClosingLast
<1>2. \A k \in running[c] : k \in DOMAIN ran[c]
    BY <1>1 DEF Counted, Accounted, Done
<1> QED BY <1>1, <1>2 DEF Accounted

(* What a connection takes or skips, it is not left waiting for.           *)
LEMMA OwnAnswering ==
    ASSUME Typed, OutcomesRan, ClosingLast, Answering,
           NEW c \in Connections, ConnectionNext(c), phase'[c] # "broken"
    PROVE  Accounted(c)' /\ Placed(c)'
<1> DEFINE Unanswered == UNCHANGED <<commands, running, ran>>
<1>1. phase[c] # "broken"
    BY DEF ConnectionNext, RequestNext, ServeNext, AdmitSubscribes, AdmitCounts, Subscribe, Resync,
           Unsubscribe, MutateSaves, MutateResponds, MutatePanics, TakeChange, TakeOwnCommand,
           TakeClosing, Receives, LagSkips, LagResyncs, LagAnswers, SendNext, SendFrame, Closes,
           Break, Idle, At
<1>2. Accounted(c) /\ Placed(c)
    BY <1>1 DEF Answering
<1>3. Extends
    BY ConnectionProgress
<1>4. Unanswered => Accounted(c)'
    BY <1>2, <1>3, UnansweredAccounted
<1>5. /\ Last \in Nat /\ Last' \in Nat /\ Last <= Last' /\ next[c] \in Nat
      /\ phase \in [Connections -> Phases] /\ next \in [Connections -> Nat \ {0}]
      /\ lag \in [Connections -> [skipped: Nat, todo: SUBSET Nat]]
    BY <1>3, PublicationsOK DEF Extends, Typed
<1> HIDE DEF Unanswered
<1>6. CASE AdmitSubscribes(c)
    <2>1. /\ Unanswered /\ UNCHANGED publications
          /\ phase[c] = "away" /\ phase'[c] = "admitting" /\ next'[c] = Last + 1
        BY <1>5, <1>6 DEF AdmitSubscribes, At, Go, server, Unanswered
    <2> QED BY <1>2, <1>4, <1>5, <2>1 DEF Placed, Last, Unanswered
<1>7. CASE AdmitCounts(c)
    <2>1. /\ Unanswered /\ UNCHANGED <<publications, next, lag>>
          /\ phase[c] = "admitting" /\ phase'[c] \in {"refused", "select"}
        BY <1>5, <1>7 DEF AdmitCounts, At, Go, Unanswered
    <2>2. DOMAIN ran[c] = {}
        BY <1>2, <2>1, NoneAwaited DEF Placed
    <2> QED BY <1>2, <1>4, <2>1, <2>2 DEF Placed, Last, Unanswered
<1>8. ASSUME UNCHANGED <<phase, next, lag, publications>>, Unanswered
      PROVE  Accounted(c)' /\ Placed(c)'
    BY <1>2, <1>4, <1>8 DEF Placed, Last, Unanswered
<1>9. CASE RequestNext(c)
    <2>1. CASE MutateSaves(c)
        <3>1. /\ Unanswered /\ UNCHANGED <<publications, next, lag>>
              /\ phase[c] = "select" /\ phase'[c] = "mutating"
            BY <1>5, <2>1 DEF MutateSaves, Idle, At, Go, server, Unanswered
        <3> QED BY <1>2, <1>4, <3>1 DEF Placed, Last, Unanswered
    <2> QED BY <1>8, <1>9, <2>1 DEF RequestNext, Subscribe, Resync, Unsubscribe, server, Unanswered
<1>10. CASE MutateResponds(c)
    <2>1. /\ Unanswered /\ UNCHANGED <<next, lag>>
          /\ phase[c] = "mutating" /\ phase'[c] = "select"
        BY <1>5, <1>10 DEF MutateResponds, At, Go, Unanswered
    <2> QED BY <1>2, <1>4, <1>5, <2>1 DEF Placed, Unanswered
<1>11. ASSUME NEW s, MutatePanics(c, s) PROVE Accounted(c)' /\ Placed(c)'
    <2>1. /\ Unanswered /\ UNCHANGED <<publications, next, lag>>
          /\ phase[c] = "mutating" /\ phase'[c] = "select"
        BY <1>5, <1>11 DEF MutatePanics, At, Go, server, Unanswered
    <2> QED BY <1>2, <1>4, <2>1 DEF Placed, Last, Unanswered
<1>12. CASE TakeChange(c)
    <2>1. /\ Unanswered /\ UNCHANGED <<phase, lag, publications>> /\ Receives(c)
          /\ Taken(c).kind = "change" \/ (Taken(c).kind = "ran" /\ Taken(c).origin # c)
          /\ next'[c] = next[c] + 1
        BY <1>5, <1>12 DEF TakeChange, Advance, server, Unanswered
    <2>2. next[c] \in 1..Last /\ Taken(c) = publications[next[c]] /\ phase[c] = "select"
        BY <2>1, TakenOK DEF At
    <2>3. \A k \in DOMAIN ran[c] : ran[c][k] >= next[c] /\ ran[c][k] # next[c] /\ ran[c][k] \in Nat
        BY <1>2, <2>1, <2>2 DEF Placed, Accounted
    <2>4. ASSUME NEW k \in DOMAIN ran'[c] PROVE ran'[c][k] >= next'[c]
        <3>1. k \in DOMAIN ran[c] /\ ran'[c][k] = ran[c][k]
            BY <2>1, <2>4 DEF Unanswered
        <3>2. ran[c][k] >= next[c] /\ ran[c][k] # next[c] /\ ran[c][k] \in Nat
            BY <2>3, <3>1
        <3> QED BY <1>5, <2>1, <3>1, <3>2
    <2> QED BY <1>2, <1>4, <1>5, <2>1, <2>2, <2>4 DEF Placed, Last, Unanswered
<1>13. CASE TakeOwnCommand(c)
    <2> DEFINE k == Taken(c).command
    <2>1. /\ UNCHANGED <<phase, lag, publications>> /\ Receives(c)
          /\ Taken(c).kind = "ran" /\ Taken(c).origin = c
          /\ next'[c] = next[c] + 1 /\ Answer(c, {k})
        BY <1>5, <1>13 DEF TakeOwnCommand, Advance
    <2>2. next[c] \in 1..Last /\ Taken(c) = publications[next[c]] /\ phase[c] = "select"
        BY <2>1, TakenOK DEF At
    <2>3. commands[k].phase \in Done
        BY <2>1, <2>2 DEF OutcomesRan, OutcomeOf
    <2>4. /\ Accounted(c)'
          /\ DOMAIN ran'[c] = DOMAIN ran[c] \ {k}
          /\ \A j \in DOMAIN ran'[c] : ran'[c][j] = ran[c][j]
        BY <1>2, <2>1, <2>3, AnsweredAccounted
    <2>5. \A j \in DOMAIN ran[c] \ {k} :
              ran[c][j] >= next[c] /\ ran[c][j] # next[c] /\ ran[c][j] \in Nat
        BY <1>2, <2>2 DEF Placed, Accounted
    <2> HIDE DEF k
    <2>6. ASSUME NEW j \in DOMAIN ran'[c] PROVE ran'[c][j] >= next'[c]
        <3>1. j \in DOMAIN ran[c] \ {k} /\ ran'[c][j] = ran[c][j]
            BY <2>4, <2>6
        <3>2. ran[c][j] >= next[c] /\ ran[c][j] # next[c] /\ ran[c][j] \in Nat
            BY <2>5, <3>1
        <3>3. next'[c] = next[c] + 1 /\ next[c] \in Nat
            BY <1>5, <2>1
        <3>4. ran[c][j] >= next'[c]
            BY <3>2, <3>3
        <3> QED BY <3>1, <3>4
    <2> QED BY <1>2, <1>5, <2>1, <2>2, <2>4, <2>6 DEF Placed, Last
<1>14. CASE TakeClosing(c)
    <2>1. /\ Unanswered /\ UNCHANGED <<publications, next, lag>> /\ Receives(c)
          /\ Taken(c).kind = "closing" /\ phase'[c] = "closing"
        BY <1>5, <1>14 DEF TakeClosing, Go, server, Unanswered
    <2>2. next[c] \in 1..Last /\ Taken(c) = publications[next[c]] /\ phase[c] = "select"
        BY <2>1, TakenOK DEF At
    <2>3. next[c] = closingAt /\ closingAt # 0
        BY <2>1, <2>2 DEF ClosingLast
    <2>4. running[c] \subseteq DOMAIN ran[c] /\ \A k \in DOMAIN ran[c] : ran[c][k] < next[c]
        BY <1>2, <2>3, NotedByClosing
    <2>5. \A k \in DOMAIN ran[c] : ran[c][k] >= next[c] /\ ran[c][k] \in Nat
        BY <1>2, <2>2 DEF Placed, Accounted
    <2>6. running[c] = {}
        BY <1>5, <2>4, <2>5
    <2> QED BY <1>2, <1>4, <2>1, <2>6 DEF Placed, Last, Unanswered
<1>15. CASE LagSkips(c)
    <2>1. /\ Unanswered /\ UNCHANGED publications /\ phase'[c] = "lagging"
          /\ next'[c] = Last + 1 /\ lag'[c].skipped = Last
        BY <1>5, <1>15 DEF LagSkips, Go, server, Unanswered
    <2> QED BY <1>4, <1>5, <2>1 DEF Placed, Last, Unanswered
<1>16. ASSUME NEW s, LagResyncs(c, s) PROVE Accounted(c)' /\ Placed(c)'
    <2>1. /\ Unanswered /\ UNCHANGED <<phase, publications, next>> /\ phase[c] = "lagging"
          /\ lag'[c].skipped = lag[c].skipped
        BY <1>5, <1>16 DEF LagResyncs, At, server, Unanswered
    <2> QED BY <1>2, <1>4, <2>1 DEF Placed, Last, Unanswered
<1>17. CASE LagAnswers(c)
    <2>1. /\ UNCHANGED <<publications, next>> /\ phase[c] = "lagging"
          /\ Answer(c, Skipped(c))
          /\ phase'[c] = IF SkippedClosing(c) THEN "closing" ELSE "select"
        BY <1>5, <1>17 DEF LagAnswers, At, Go
    <2>2. \A k \in Skipped(c) : commands[k].phase \in Done
        <3> SUFFICES ASSUME NEW k \in DOMAIN ran[c] PROVE commands[k].phase \in Done
            BY DEF Skipped
        <3>1. /\ ran[c][k] \in 1..Last /\ publications[ran[c][k]].kind = "ran"
              /\ publications[ran[c][k]].command = k
            BY <1>2 DEF Accounted
        <3> QED BY <3>1 DEF OutcomesRan, OutcomeOf
    <2>3. /\ Accounted(c)'
          /\ running'[c] = running[c] \ Skipped(c)
          /\ DOMAIN ran'[c] = DOMAIN ran[c] \ Skipped(c)
          /\ \A k \in DOMAIN ran'[c] : ran'[c][k] = ran[c][k]
        BY <1>2, <2>1, <2>2, AnsweredAccounted
    <2>4. next[c] = lag[c].skipped + 1 /\ lag[c].skipped \in Nat
        BY <1>2, <1>5, <2>1 DEF Placed
    <2>5. \A k \in DOMAIN ran'[c] : ran'[c][k] >= next'[c]
        <3>1. \A k \in DOMAIN ran[c] : ran[c][k] \in Nat
            BY <1>2 DEF Accounted
        <3> QED BY <2>1, <2>3, <2>4, <3>1 DEF Skipped
    <2>6. SkippedClosing(c) => running'[c] = {}
        <3> SUFFICES ASSUME SkippedClosing(c) PROVE running[c] \subseteq Skipped(c)
            BY <2>3
        <3>1. closingAt # 0 /\ closingAt <= lag[c].skipped /\ closingAt \in Nat
            BY <1>5 DEF SkippedClosing, Typed
        <3>2. running[c] \subseteq DOMAIN ran[c] /\ \A k \in DOMAIN ran[c] : ran[c][k] < closingAt
            BY <1>2, <3>1, NotedByClosing
        <3>3. \A k \in DOMAIN ran[c] : ran[c][k] \in Nat
            BY <1>2 DEF Accounted
        <3> QED BY <2>4, <3>1, <3>2, <3>3 DEF Skipped
    <2> QED BY <1>2, <2>1, <2>3, <2>5, <2>6 DEF Placed, Last
<1>18. CASE Break(c)
    <2>1. phase'[c] = "broken"
        BY <1>5, <1>18 DEF Break, Go
    <2> QED BY <2>1
<1>19. CASE SendFrame(c)
    <2>1. Unanswered /\ UNCHANGED <<phase, next, lag, publications>>
        BY <1>19 DEF SendFrame, server, Unanswered
    <2> QED BY <1>8, <2>1
<1>20. CASE Closes(c)
    <2>1. /\ Unanswered /\ UNCHANGED <<publications, next, lag>>
          /\ phase[c] = "closing" /\ phase'[c] = "closed"
        BY <1>5, <1>20 DEF Closes, At, Go, Unanswered
    <2> QED BY <1>2, <1>4, <2>1 DEF Placed, Last, Unanswered
<1> QED BY <1>6, <1>7, <1>9, <1>10, <1>11, <1>12, <1>13, <1>14, <1>15, <1>16, <1>17, <1>18,
           <1>19, <1>20
        DEF ConnectionNext, ServeNext, SendNext

(* What the application sends for itself, and what a command's task sends. *)
LEMMA ApplicationKeeps ==
    ASSUME Typed, ApplicationNext
    PROVE  Extends /\ UNCHANGED <<commands, permits, lifecycle, closingAt, connection>>
<1>1. CASE ApplicationSaves
    BY <1>1, UnsentExtends DEF ApplicationSaves, server
<1>2. ASSUME NEW n \in unpublished, ApplicationPublishes(n)
      PROVE  Extends /\ UNCHANGED <<commands, permits, lifecycle, closingAt, connection>>
    <2>1. Change(Application, n) \in Publication
        BY SavedOK, ChangeOK DEF Origins
    <2> QED BY <1>2, <2>1, SendExtends DEF ApplicationPublishes
<1> QED BY <1>1, <1>2 DEF ApplicationNext

LEMMA HostExtends ==
    ASSUME Typed, NEW k \in DOMAIN commands, HostNext(k)
    PROVE  Extends /\ UNCHANGED <<unpublished, permits, lifecycle, closingAt, connection>>
<1>1. CASE CommandSaves(k)
    BY <1>1, UnsentExtends DEF CommandSaves
<1>2. CASE CommandAnnounces(k)
    <2>1. Change(Application, commands[k].unannounced) \in Publication
        BY ChangeOK, CommandTyped DEF Origins
    <2> QED BY <1>2, <2>1, SendExtends DEF CommandAnnounces
<1> QED BY <1>1, <1>2 DEF HostNext

LEMMA NextAnswering ==
    Typed /\ OutcomesRan /\ ClosingLast /\ Answering /\ [Next]_vars => Answering'
<1> SUFFICES ASSUME Typed, OutcomesRan, ClosingLast, Answering, [Next]_vars PROVE Answering'
    OBVIOUS
<1>1. CASE UNCHANGED vars
    <2>1. UNCHANGED <<commands, publications, connection>>
        BY <1>1 DEF vars, server
    <2> QED BY <2>1, UnsentExtends, UnchangedProgress, UnchangedCalm, AloneAnswering
<1>2. CASE ApplicationNext
    BY <1>2, ApplicationKeeps, UnchangedProgress, UnchangedCalm, AloneAnswering
<1>3. ASSUME NEW k \in DOMAIN commands, HostNext(k) \/ CommandNext(k) PROVE Answering'
    <2>1. Progresses
        BY <1>3, CommandProgress
    <2>2. CASE HostNext(k)
        <3>1. \A c \in Connections : Calm(c)
            BY <2>2, HostPhase DEF Calm, Done
        <3> QED BY <2>1, <2>2, <3>1, HostExtends, AloneAnswering
    <2>3. CASE CommandReturns(k)
        <3>1. \A c \in Connections : Calm(c)
            BY <2>3, ReturnsPhase DEF Calm, Done
        <3>2. UNCHANGED publications /\ UNCHANGED connection
            BY <2>3 DEF CommandReturns
        <3> QED BY <2>1, <3>1, <3>2, UnsentExtends, AloneAnswering
    <2>4. CASE CommandEnds(k)
        <3>1. \A c \in Connections : Calm(c)
            BY <2>4, EndsPhase DEF Calm, Done
        <3>2. UNCHANGED publications /\ UNCHANGED connection
            BY <2>4 DEF CommandEnds
        <3> QED BY <2>1, <3>1, <3>2, UnsentExtends, AloneAnswering
    <2> QED BY <1>3, <2>2, <2>3, <2>4, PublishAnswering DEF CommandNext
<1>4. ASSUME NEW c \in Connections, ConnectionNext(c) PROVE Answering'
    <2> SUFFICES ASSUME NEW d \in Connections, phase'[d] # "broken"
                 PROVE  Accounted(d)' /\ Placed(d)'
        BY DEF Answering
    <2>1. CASE d = c
        BY <1>4, <2>1, OwnAnswering
    <2>2. CASE d # c
        <3>1. /\ phase'[d] = phase[d] /\ next'[d] = next[d] /\ lag'[d] = lag[d]
              /\ running'[d] = running[d] /\ ran'[d] = ran[d]
            BY <1>4, <2>2, ConnectionProgress
        <3>2. Extends /\ Progresses /\ Calm(d)
            BY <1>4, ConnectionProgress, SameCalm
        <3> QED BY <3>1, <3>2, Undisturbed
    <2> QED BY <2>1, <2>2
<1>5. CASE ShutDown
    <2>1. UNCHANGED <<commands, publications, connection>>
        BY <1>5 DEF ShutDown
    <2> QED BY <2>1, UnsentExtends, UnchangedProgress, UnchangedCalm, AloneAnswering
<1>6. CASE Close
    <2>1. UNCHANGED <<commands, connection>> /\ Extends
        BY <1>6, ClosingOK, SendExtends DEF Close
    <2> QED BY <2>1, UnchangedProgress, UnchangedCalm, AloneAnswering
<1> QED BY <1>1, <1>2, <1>3, <1>4, <1>5, <1>6, StartAnswering DEF Next

LEMMA InitAnswering == Init => Answering
<1> SUFFICES ASSUME Init, NEW c \in Connections PROVE Accounted(c) /\ Placed(c)
    BY DEF Answering
<1>1. publications = <<>> /\ commands = <<>> /\ Last = 0
    BY DEF Init, Last
<1>2. phase[c] = "away" /\ next[c] = 1 /\ running[c] = {} /\ ran[c] = <<>>
    BY DEF Init
<1> QED BY <1>1, <1>2 DEF Accounted, Placed

LEMMA AnsweringAlways == Spec => []Answering
<1>1. Init => Answering
    BY InitAnswering
<1>2. Typed /\ (OutcomesRan /\ ClosingLast) /\ Answering /\ [Next]_vars => Answering'
    BY NextAnswering
<1> QED BY <1>1, <1>2, TypedAlways, OutcomesAlways, PTL DEF Spec

-----------------------------------------------------------------------------
(* The frames a connection has yet to send.                                *)

AnyFrame ==
    [kind: {"reply", "answer", "patch", "snapshot"}, command: Nat, changes: SUBSET Nat]

(* A frame that answers no command, and one that answers command k, which  *)
(* connection c started and which ran.                                     *)
Plain(f) == f.command = 0
AnswersOwn(c, f) ==
    /\ f.command \in DOMAIN commands
    /\ commands[f.command].origin = c
    /\ commands[f.command].replied /\ commands[f.command].phase \in Done

(* What each phase of a connection says of its frames: a lagging one has   *)
(* gathered nothing but snapshots.                                         *)
FramesAt(c) ==
    /\ frames[c] \in Seq(AnyFrame)
    /\ \A i \in DOMAIN frames[c] : Plain(frames[c][i]) \/ AnswersOwn(c, frames[c][i])
    /\ phase[c] \notin {"select", "lagging", "closing"} => frames[c] = <<>>
    /\ phase[c] = "lagging" =>
          \A i \in DOMAIN frames[c] : frames[c][i].kind = "snapshot" /\ Plain(frames[c][i])
FramesSound == DOMAIN frames = Connections /\ \A c \in Connections : FramesAt(c)

LEMMA FrameKinds ==
    ASSUME Typed
    PROVE  /\ Reply \in AnyFrame /\ Plain(Reply)
           /\ WholeState \in AnyFrame /\ Plain(WholeState) /\ WholeState.kind = "snapshot"
           /\ \A n \in Numbered : Patch(n) \in AnyFrame /\ Plain(Patch(n))
           /\ \A k \in Nat : /\ AnswerTo(k) \in AnyFrame /\ AnswerTo(k).command = k
                             /\ AnswerTo(k).kind = "answer" /\ AnswerTo(k).changes = {}
<1>1. saved \in Nat /\ Numbered \subseteq Nat
    BY SavedOK, MaxAssumption DEF Numbered
<1>2. Reply \in AnyFrame /\ Plain(Reply)
    BY DEF Reply, AnyFrame, Plain
<1>3. WholeState \in AnyFrame /\ Plain(WholeState) /\ WholeState.kind = "snapshot"
    BY <1>1 DEF WholeState, AnyFrame, Plain
<1>4. \A n \in Numbered : Patch(n) \in AnyFrame /\ Plain(Patch(n))
    BY <1>1 DEF Patch, AnyFrame, Plain
<1>5. \A k \in Nat : /\ AnswerTo(k) \in AnyFrame /\ AnswerTo(k).command = k
                     /\ AnswerTo(k).kind = "answer" /\ AnswerTo(k).changes = {}
    BY DEF AnswerTo, AnyFrame
<1> QED BY <1>2, <1>3, <1>4, <1>5

LEMMA PatchesOK ==
    ASSUME Typed, NEW c \in Connections, NEW n \in Numbered
    PROVE  /\ Patches(c, n) \in Seq(AnyFrame)
           /\ \A i \in DOMAIN Patches(c, n) : Patches(c, n)[i] = Patch(n) /\ n # 0
<1>1. IsFiniteSet(DOMAIN subs[c]) /\ Affected(c, n) \subseteq DOMAIN subs[c]
    BY DEF Typed, SubsTyped, Affected
<1>2. Cardinality(Affected(c, n)) \in Nat
    BY <1>1, FS_Subset, FS_CardinalityType
<1>3. ASSUME n = 0 PROVE Cardinality(Affected(c, n)) = 0
    <2>1. Affected(c, n) = {}
        BY <1>3 DEF Affected
    <2> QED BY <2>1, FS_EmptySet
<1>4. Patch(n) \in AnyFrame
    BY FrameKinds
<1> DEFINE many == Cardinality(Affected(c, n))
<1>5. Patches(c, n) = [i \in 1..many |-> Patch(n)]
    BY DEF Patches
<1> HIDE DEF many
<1>6. many \in Nat /\ (n = 0 => many = 0)
    BY <1>2, <1>3 DEF many
<1> QED BY <1>4, <1>5, <1>6

LEMMA AnswersOK ==
    ASSUME Typed, NEW c \in Connections, NEW ks, ks \subseteq DOMAIN commands,
           NEW answers \in AnswersTo(c, ks)
    PROVE  /\ answers \in Seq(AnyFrame)
           /\ \A i \in DOMAIN answers : \E k \in ks : answers[i] = AnswerTo(k)
<1>1. DOMAIN commands = 1..Len(commands) /\ Len(commands) \in Nat
    BY LenProperties DEF Typed
<1>2. IsFiniteSet(DOMAIN commands)
    BY <1>1, FS_Interval
<1>3. Cardinality(ks) \in Nat
    BY <1>2, FS_Subset, FS_CardinalityType
<1> DEFINE many == Cardinality(ks)
<1>4. PICK order \in [1..many -> ks] : answers = [i \in DOMAIN order |-> AnswerTo(order[i])]
    BY DEF AnswersTo
<1>5. many \in Nat
    BY <1>3
<1> HIDE DEF many
<1>6. \A k \in ks : AnswerTo(k) \in AnyFrame
    BY <1>1, FrameKinds
<1>7. answers = [i \in 1..many |-> AnswerTo(order[i])]
    BY <1>4
<1> QED BY <1>4, <1>5, <1>6, <1>7

(* What is composed follows what a connection has yet to send.             *)
Follows(c, sent) ==
    /\ frames'[c] \in Seq(AnyFrame)
    /\ \A i \in DOMAIN frames'[c] :
          \/ i \in DOMAIN frames[c] /\ frames'[c][i] = frames[c][i]
          \/ /\ i \notin DOMAIN frames[c]
             /\ i - Len(frames[c]) \in DOMAIN sent
             /\ frames'[c][i] = sent[i - Len(frames[c])]

LEMMA Composed ==
    ASSUME NEW c \in Connections, DOMAIN frames = Connections, frames[c] \in Seq(AnyFrame),
           NEW sent \in Seq(AnyFrame), Compose(c, sent)
    PROVE  Follows(c, sent)
<1>1. frames'[c] = frames[c] \o sent
    BY DEF Compose
<1>2. /\ frames'[c] \in Seq(AnyFrame) /\ Len(frames'[c]) = Len(frames[c]) + Len(sent)
      /\ \A i \in 1..Len(frames[c]) + Len(sent) :
            frames'[c][i] = IF i <= Len(frames[c]) THEN frames[c][i] ELSE sent[i - Len(frames[c])]
    BY <1>1, ConcatProperties
<1>3. /\ DOMAIN frames'[c] = 1..Len(frames'[c])
      /\ DOMAIN frames[c] = 1..Len(frames[c]) /\ Len(frames[c]) \in Nat
      /\ DOMAIN sent = 1..Len(sent) /\ Len(sent) \in Nat
    BY <1>2, LenProperties
<1>4. DOMAIN frames'[c] = 1..Len(frames[c]) + Len(sent)
    BY <1>2, <1>3
<1>5. ASSUME NEW i \in DOMAIN frames'[c]
      PROVE  \/ i \in DOMAIN frames[c] /\ frames'[c][i] = frames[c][i]
             \/ /\ i \notin DOMAIN frames[c]
                /\ i - Len(frames[c]) \in DOMAIN sent
                /\ frames'[c][i] = sent[i - Len(frames[c])]
    <2>1. i \in 1..Len(frames[c]) + Len(sent) /\ Len(frames[c]) \in Nat /\ Len(sent) \in Nat
        BY <1>3, <1>4
    <2>2. CASE i <= Len(frames[c])
        <3>1. i \in 1..Len(frames[c]) /\ frames'[c][i] = frames[c][i]
            BY <1>2, <2>1, <2>2
        <3> QED BY <1>3, <3>1
    <2>3. CASE ~(i <= Len(frames[c]))
        <3>1. i \notin 1..Len(frames[c]) /\ i - Len(frames[c]) \in 1..Len(sent)
            BY <2>1, <2>3
        <3>2. frames'[c][i] = sent[i - Len(frames[c])]
            BY <1>2, <2>1, <2>3
        <3> QED BY <1>3, <3>1, <3>2
    <2> QED BY <2>2, <2>3
<1> QED BY <1>2, <1>5 DEF Follows

LEMMA FramesKept ==
    ASSUME Progresses, NEW c \in Connections, FramesAt(c), frames'[c] = frames[c],
           \/ frames[c] = <<>>
           \/ phase'[c] = phase[c]
           \/ phase[c] # "lagging" /\ phase'[c] \in {"select", "closing"}
    PROVE  FramesAt(c)'
<1>1. ASSUME NEW i \in DOMAIN frames[c], frames[c][i].command # 0
      PROVE  /\ frames[c][i].command \in DOMAIN commands'
             /\ commands'[frames[c][i].command].origin = c
             /\ commands'[frames[c][i].command].replied
             /\ commands'[frames[c][i].command].phase \in Done
    BY <1>1 DEF FramesAt, Plain, AnswersOwn, Progresses
<1> QED BY <1>1 DEF FramesAt, Plain, AnswersOwn

LEMMA FramesFollow ==
    ASSUME Progresses, NEW c \in Connections, FramesAt(c), NEW sent \in Seq(AnyFrame),
           Follows(c, sent),
           \A j \in DOMAIN sent : Plain(sent[j]) \/ AnswersOwn(c, sent[j])',
           \/ phase'[c] \in {"select", "closing"}
           \/ /\ phase'[c] = "lagging" /\ phase[c] = "lagging"
              /\ \A j \in DOMAIN sent : sent[j].kind = "snapshot" /\ Plain(sent[j])
    PROVE  FramesAt(c)'
<1>1. /\ frames'[c] \in Seq(AnyFrame)
      /\ \A i \in DOMAIN frames'[c] :
            \/ i \in DOMAIN frames[c] /\ frames'[c][i] = frames[c][i]
            \/ \E j \in DOMAIN sent : frames'[c][i] = sent[j]
    BY DEF Follows
<1>2. ASSUME NEW i \in DOMAIN frames'[c], frames'[c][i].command # 0
      PROVE  /\ frames'[c][i].command \in DOMAIN commands'
             /\ commands'[frames'[c][i].command].origin = c
             /\ commands'[frames'[c][i].command].replied
             /\ commands'[frames'[c][i].command].phase \in Done
    <2>1. CASE i \in DOMAIN frames[c] /\ frames'[c][i] = frames[c][i]
        BY <1>2, <2>1 DEF FramesAt, Plain, AnswersOwn, Progresses
    <2>2. ASSUME NEW j \in DOMAIN sent, frames'[c][i] = sent[j]
          PROVE  /\ frames'[c][i].command \in DOMAIN commands'
                 /\ commands'[frames'[c][i].command].origin = c
                 /\ commands'[frames'[c][i].command].replied
                 /\ commands'[frames'[c][i].command].phase \in Done
        BY <1>2, <2>2 DEF Plain, AnswersOwn
    <2> QED BY <1>1, <2>1, <2>2
<1>3. ASSUME phase'[c] = "lagging", NEW i \in DOMAIN frames'[c]
      PROVE  frames'[c][i].kind = "snapshot" /\ Plain(frames'[c][i])
    BY <1>1, <1>3 DEF FramesAt
<1> QED BY <1>1, <1>2, <1>3 DEF FramesAt, Plain, AnswersOwn

(* The frames of the other connections stay as they are.                   *)
LEMMA OthersFrames ==
    ASSUME DOMAIN frames = Connections, NEW c \in Connections, ConnectionNext(c)
    PROVE  /\ DOMAIN frames' = Connections
           /\ \A d \in Connections \ {c} : frames'[d] = frames[d]
<1>1. UNCHANGED frames \/ \E q : frames' = [frames EXCEPT ![c] = q]
    <2>1. ASSUME NEW sent, Compose(c, sent) PROVE \E q : frames' = [frames EXCEPT ![c] = q]
        BY <2>1 DEF Compose
    <2>2. CASE SendFrame(c) \/ Closes(c) \/ Break(c)
        BY <2>2 DEF SendFrame, Closes, Break
    <2>3. CASE RequestNext(c) \/ AdmitSubscribes(c) \/ AdmitCounts(c)
        BY <2>1, <2>3 DEF RequestNext, Subscribe, Resync, Unsubscribe, MutateSaves,
           AdmitSubscribes, AdmitCounts
    <2>4. CASE ServeNext(c)
        BY <2>1, <2>4 DEF ServeNext, MutateResponds, MutatePanics, TakeChange, TakeOwnCommand,
           TakeClosing, LagSkips, LagResyncs, LagAnswers
    <2> QED BY <2>2, <2>3, <2>4 DEF ConnectionNext, SendNext
<1> QED BY <1>1

(* A connection that answers no command in the step adds no answer to its  *)
(* frames.                                                                 *)
Answerless(c) ==
    \/ frames'[c] = frames[c]
    \/ \A i \in DOMAIN frames'[c] : Plain(frames'[c][i])
    \/ TakeOwnCommand(c) \/ LagAnswers(c) \/ SendFrame(c)

LEMMA OwnFrames ==
    ASSUME Typed, OutcomesRan, Answering, FramesSound, NEW c \in Connections, ConnectionNext(c)
    PROVE  FramesAt(c)' /\ Answerless(c)
<1>1. /\ Progresses /\ DOMAIN frames = Connections /\ FramesAt(c) /\ frames[c] \in Seq(AnyFrame)
      /\ phase \in [Connections -> Phases] /\ made[c] \in Numbered
    BY ConnectionProgress DEF FramesSound, FramesAt, Typed
<1>2. ASSUME NEW sent \in Seq(AnyFrame), Compose(c, sent), phase'[c] \in {"select", "closing"},
             \A j \in DOMAIN sent : Plain(sent[j]) \/ AnswersOwn(c, sent[j])'
      PROVE  FramesAt(c)'
    BY <1>1, <1>2, Composed, FramesFollow
<1>3. ASSUME NEW sent \in Seq(AnyFrame), Compose(c, sent), phase'[c] \in {"select", "closing"},
             \A j \in DOMAIN sent : Plain(sent[j]), frames[c] = <<>>
      PROVE  FramesAt(c)' /\ Answerless(c)
    <2>1. Follows(c, sent)
        BY <1>1, <1>3, Composed
    <2>2. Len(frames[c]) = 0 /\ DOMAIN frames[c] = {}
        BY <1>3
    <2>3. \A i \in DOMAIN frames'[c] : Plain(frames'[c][i])
        BY <1>3, <2>1, <2>2 DEF Follows
    <2> QED BY <1>2, <1>3, <2>3 DEF Answerless
<1>4. CASE AdmitSubscribes(c) \/ AdmitCounts(c) \/ MutateSaves(c) \/ TakeClosing(c) \/ LagSkips(c)
    <2>1. UNCHANGED frames /\ (frames[c] = <<>> \/ phase[c] = phase'[c])
        BY <1>1, <1>4 DEF AdmitSubscribes, AdmitCounts, MutateSaves, TakeClosing, Receives,
           LagSkips, Idle, At, FramesAt
    <2> QED BY <1>1, <2>1, FramesKept DEF Answerless
<1>5. CASE Subscribe(c) \/ \E s : Resync(c, s) \/ Unsubscribe(c, s)
    <2>1. phase'[c] = "select" /\ frames[c] = <<>>
        BY <1>5 DEF Subscribe, Resync, Unsubscribe, Idle, At
    <2>2. PICK sent \in Seq(AnyFrame) : Compose(c, sent) /\ \A j \in DOMAIN sent : Plain(sent[j])
        <3>1. /\ <<Reply>> \in Seq(AnyFrame) /\ \A j \in DOMAIN <<Reply>> : Plain(<<Reply>>[j])
            BY FrameKinds
        <3>2. PICK whole \in AnyFrame : whole = WholeState /\ Plain(whole)
            BY FrameKinds
        <3>3. /\ <<Reply, whole>> \in Seq(AnyFrame)
              /\ \A j \in DOMAIN <<Reply, whole>> : Plain(<<Reply, whole>>[j])
            BY <3>2, FrameKinds
        <3>4. Compose(c, <<Reply>>) \/ Compose(c, <<Reply, whole>>)
            BY <1>5, <3>2 DEF Subscribe, Resync, Unsubscribe
        <3> QED BY <3>1, <3>3, <3>4
    <2> QED BY <1>3, <2>1, <2>2
<1>6. ASSUME NEW n \in Numbered, NEW head \in AnyFrame, Compose(c, <<head>> \o Patches(c, n)),
             phase'[c] \in {"select", "closing"}, frames[c] = <<>>,
             Plain(head) \/ AnswersOwn(c, head)'
      PROVE  FramesAt(c)' /\ (Plain(head) => Answerless(c))
    <2>1. PICK patches \in Seq(AnyFrame) :
              /\ patches = Patches(c, n)
              /\ \A i \in DOMAIN patches : Plain(patches[i])
        BY PatchesOK, FrameKinds
    <2>2. PICK sent : sent = <<head>> \o patches
        OBVIOUS
    <2>3. /\ sent \in Seq(AnyFrame) /\ Len(sent) = 1 + Len(patches)
          /\ \A i \in 1..1 + Len(patches) : sent[i] = IF i <= 1 THEN head ELSE patches[i - 1]
        BY <2>2, ConcatProperties
    <2>4. Len(patches) \in Nat /\ DOMAIN patches = 1..Len(patches) /\ DOMAIN sent = 1..Len(sent)
        BY <2>3, LenProperties
    <2>5. ASSUME NEW i \in DOMAIN sent
          PROVE  /\ Plain(sent[i]) \/ AnswersOwn(c, sent[i])'
                 /\ Plain(head) => Plain(sent[i])
        <3>1. CASE i = 1
            BY <1>6, <2>3, <2>4, <3>1
        <3>2. CASE i # 1
            <4>1. i - 1 \in DOMAIN patches /\ sent[i] = patches[i - 1]
                BY <2>3, <2>4, <3>2
            <4> QED BY <2>1, <4>1
        <3> QED BY <3>1, <3>2
    <2>6. Compose(c, sent)
        BY <1>6, <2>1, <2>2
    <2> QED BY <1>2, <1>3, <1>6, <2>3, <2>5, <2>6
<1>7. CASE MutateResponds(c) \/ \E s : MutatePanics(c, s)
    <2>1. phase'[c] = "select" /\ frames[c] = <<>>
        BY <1>1, <1>7 DEF MutateResponds, MutatePanics, Go, At, FramesAt
    <2>2. CASE MutateResponds(c)
        <3>1. Compose(c, <<Reply>> \o Patches(c, made[c]))
            BY <2>2 DEF MutateResponds
        <3> QED BY <1>1, <1>6, <2>1, <3>1, FrameKinds
    <2>3. CASE \E s : MutatePanics(c, s)
        <3>1. Compose(c, <<Reply>>)
            BY <2>3 DEF MutatePanics
        <3>2. <<Reply>> \in Seq(AnyFrame) /\ \A j \in DOMAIN <<Reply>> : Plain(<<Reply>>[j])
            BY FrameKinds
        <3> QED BY <1>3, <2>1, <3>1, <3>2
    <2> QED BY <1>7, <2>2, <2>3
<1>8. CASE TakeChange(c)
    <2>1. /\ Taken(c).modification \in Numbered /\ phase'[c] = "select" /\ phase[c] = "select"
          /\ frames[c] = <<>>
        BY <1>8, TakenOK DEF TakeChange, Receives, Idle, At
    <2>2. UNCHANGED frames \/ Compose(c, Patches(c, Taken(c).modification))
        BY <1>8 DEF TakeChange
    <2>3. CASE UNCHANGED frames
        BY <1>1, <2>1, <2>3, FramesKept DEF Answerless
    <2>4. CASE Compose(c, Patches(c, Taken(c).modification))
        <3>1. PICK patches \in Seq(AnyFrame) :
                  /\ patches = Patches(c, Taken(c).modification)
                  /\ \A i \in DOMAIN patches : Plain(patches[i])
            BY <2>1, PatchesOK, FrameKinds
        <3> QED BY <1>3, <2>1, <2>4, <3>1
    <2> QED BY <2>2, <2>3, <2>4
<1>9. CASE TakeOwnCommand(c)
    <2>1. /\ Taken(c).modification \in Numbered /\ phase'[c] = "select" /\ phase[c] = "select"
          /\ next[c] \in 1..Last /\ Taken(c) = publications[next[c]] /\ frames[c] = <<>>
          /\ Taken(c).kind = "ran" /\ Taken(c).origin = c
        BY <1>9, TakenOK DEF TakeOwnCommand, Receives, Idle, At
    <2>2. PICK k : k = Taken(c).command
        OBVIOUS
    <2>3. k \in DOMAIN commands /\ commands[k].phase \in Done /\ commands[k].origin = c
        BY <2>1, <2>2 DEF OutcomesRan, OutcomeOf
    <2>4. Answer(c, {k})
        BY <1>9, <2>2 DEF TakeOwnCommand
    <2>5. /\ SameCommands
          /\ commands'[k].replied = (commands[k].replied \/ k \in {k} \cap running[c])
        BY <2>3, <2>4, AnswerOK
    <2>6. commands[k].replied \/ k \in running[c]
        BY <2>1, <2>3 DEF Answering, Accounted
    <2>7. k \in Nat /\ AnswerTo(k) \in AnyFrame /\ AnswerTo(k).command = k
        BY <2>3, LenProperties, FrameKinds DEF Typed
    <2>8. AnswersOwn(c, AnswerTo(k))'
        BY <2>3, <2>5, <2>6, <2>7 DEF AnswersOwn, SameCommands, AnswerTo
    <2>9. Compose(c, <<AnswerTo(k)>> \o Patches(c, Taken(c).modification))
        BY <1>9, <2>2 DEF TakeOwnCommand
    <2>10. PICK n \in Numbered : n = Taken(c).modification
        BY <2>1
    <2>11. PICK head \in AnyFrame : head = AnswerTo(k)
        BY <2>7
    <2>12. Compose(c, <<head>> \o Patches(c, n))
        BY <2>9, <2>10, <2>11
    <2>13. AnswersOwn(c, head)'
        BY <2>8, <2>11 DEF AnswersOwn
    <2> QED BY <1>6, <1>9, <2>1, <2>12, <2>13 DEF Answerless
<1>10. ASSUME NEW s, LagResyncs(c, s) PROVE FramesAt(c)' /\ Answerless(c)
    <2>1. phase[c] = "lagging" /\ phase'[c] = "lagging"
        BY <1>10 DEF LagResyncs, At
    <2>2. CASE UNCHANGED frames
        BY <1>1, <2>1, <2>2, FramesKept DEF Answerless
    <2>3. CASE Compose(c, <<WholeState>>)
        <3>1. PICK whole \in AnyFrame : whole = WholeState /\ Plain(whole) /\ whole.kind = "snapshot"
            BY FrameKinds
        <3>2. PICK sent \in Seq(AnyFrame) : sent = <<whole>> /\ \A j \in DOMAIN sent : sent[j] = whole
            <4>1. <<whole>> \in Seq(AnyFrame) /\ \A j \in DOMAIN <<whole>> : <<whole>>[j] = whole
                BY <3>1
            <4> QED BY <4>1
        <3>3. Follows(c, sent)
            BY <1>1, <2>3, <3>1, <3>2, Composed
        <3>4. FramesAt(c)'
            BY <1>1, <2>1, <3>1, <3>2, <3>3, FramesFollow
        <3> QED BY <2>1, <3>4 DEF FramesAt, Answerless, Plain
    <2> QED BY <1>10, <2>2, <2>3 DEF LagResyncs
<1>11. CASE LagAnswers(c)
    <2>1. phase[c] = "lagging" /\ phase'[c] \in {"select", "closing"}
        BY <1>1, <1>11 DEF LagAnswers, At, Go
    <2>2. Accounted(c)
        BY <2>1 DEF Answering
    <2>3. PICK ks : ks = Skipped(c) \cap running[c]
        OBVIOUS
    <2>4. PICK sent \in AnswersTo(c, ks) : Compose(c, sent)
        BY <1>11, <2>3 DEF LagAnswers
    <2>5. ks \subseteq DOMAIN commands
        BY <2>2, <2>3 DEF Accounted
    <2>6. sent \in Seq(AnyFrame) /\ \A i \in DOMAIN sent : \E k \in ks : sent[i] = AnswerTo(k)
        BY <2>5, AnswersOK
    <2>7. Answer(c, Skipped(c))
        BY <1>11 DEF LagAnswers
    <2>8. /\ SameCommands
          /\ \A k \in ks : commands'[k].replied
        BY <2>3, <2>5, <2>7, AnswerOK
    <2>9. ASSUME NEW k \in ks PROVE AnswersOwn(c, AnswerTo(k))'
        <3>1. /\ k \in DOMAIN ran[c] /\ ran[c][k] \in 1..Last
              /\ publications[ran[c][k]].kind = "ran" /\ publications[ran[c][k]].command = k
              /\ commands[k].origin = c
            BY <2>2, <2>3 DEF Accounted, Skipped
        <3>2. commands[k].phase \in Done
            BY <3>1 DEF OutcomesRan, OutcomeOf
        <3> QED BY <2>5, <2>8, <3>1, <3>2 DEF AnswersOwn, SameCommands, AnswerTo
    <2>10. ASSUME NEW i \in DOMAIN sent PROVE AnswersOwn(c, sent[i])'
        <3>1. PICK k \in ks : sent[i] = AnswerTo(k)
            BY <2>6
        <3>2. AnswersOwn(c, AnswerTo(k))'
            BY <2>9
        <3> QED BY <3>1, <3>2 DEF AnswersOwn
    <2> QED BY <1>2, <1>11, <2>1, <2>4, <2>6, <2>10 DEF Answerless
<1>12. CASE SendFrame(c)
    <2>1. /\ frames[c] # <<>> /\ frames'[c] = Tail(frames[c])
          /\ phase'[c] = phase[c] /\ phase[c] \in {"select", "closing"} /\ UNCHANGED commands
        BY <1>1, <1>12 DEF SendFrame, At, server
    <2>2. /\ Tail(frames[c]) \in Seq(AnyFrame) /\ Len(Tail(frames[c])) = Len(frames[c]) - 1
          /\ \A i \in 1..Len(Tail(frames[c])) : Tail(frames[c])[i] = frames[c][i + 1]
        BY <1>1, <2>1, HeadTailProperties
    <2>3. /\ DOMAIN frames[c] = 1..Len(frames[c]) /\ Len(frames[c]) \in Nat
          /\ DOMAIN Tail(frames[c]) = 1..Len(Tail(frames[c]))
        BY <1>1, <2>2, LenProperties
    <2>4. \A i \in DOMAIN frames'[c] :
              i + 1 \in DOMAIN frames[c] /\ frames'[c][i] = frames[c][i + 1]
        BY <2>1, <2>2, <2>3
    <2>5. frames'[c] \in Seq(AnyFrame)
        BY <2>1, <2>2
    <2> QED BY <1>1, <1>12, <2>1, <2>4, <2>5 DEF FramesAt, Plain, AnswersOwn, Answerless
<1>13. CASE Closes(c)
    <2>1. UNCHANGED frames /\ frames[c] = <<>>
        BY <1>13 DEF Closes
    <2> QED BY <1>1, <2>1, FramesKept DEF Answerless
<1>14. CASE Break(c)
    <2>1. frames'[c] = <<>> /\ phase'[c] = "broken"
        BY <1>1, <1>14 DEF Break, Go
    <2> QED BY <2>1 DEF FramesAt, Answerless
<1> QED BY <1>4, <1>5, <1>7, <1>8, <1>9, <1>10, <1>11, <1>12, <1>13, <1>14
        DEF ConnectionNext, RequestNext, ServeNext, SendNext

LEMMA NextFrames ==
    Typed /\ OutcomesRan /\ Answering /\ FramesSound /\ [Next]_vars => FramesSound'
<1> SUFFICES ASSUME Typed, OutcomesRan, Answering, FramesSound, [Next]_vars PROVE FramesSound'
    OBVIOUS
<1>1. ASSUME Progresses, UNCHANGED <<phase, frames>> PROVE FramesSound'
    BY <1>1, FramesKept DEF FramesSound
<1>2. CASE UNCHANGED vars
    BY <1>1, <1>2, UnchangedProgress DEF vars, server, connection
<1>3. CASE ApplicationNext
    BY <1>1, <1>3, ApplicationKeeps, UnchangedProgress DEF connection
<1>4. ASSUME NEW o \in Origins, StartCommand(o) PROVE FramesSound'
    BY <1>1, <1>4, StartProgress DEF StartCommand
<1>5. ASSUME NEW k \in DOMAIN commands, HostNext(k) \/ CommandNext(k) PROVE FramesSound'
    <2>1. Progresses
        BY <1>5, CommandProgress
    <2>2. UNCHANGED <<phase, frames>>
        BY <1>5 DEF HostNext, CommandNext, CommandSaves, CommandAnnounces, CommandReturns,
           CommandPublishes, CommandEnds, connection
    <2> QED BY <1>1, <2>1, <2>2
<1>6. ASSUME NEW c \in Connections, ConnectionNext(c) PROVE FramesSound'
    <2>1. DOMAIN frames = Connections
        BY DEF FramesSound
    <2>2. /\ DOMAIN frames' = Connections
          /\ \A d \in Connections \ {c} : frames'[d] = frames[d]
        BY <1>6, <2>1, OthersFrames
    <2>3. FramesAt(c)'
        BY <1>6, OwnFrames
    <2>4. Progresses /\ \A d \in Connections \ {c} : phase'[d] = phase[d]
        BY <1>6, ConnectionProgress
    <2>5. ASSUME NEW d \in Connections \ {c} PROVE FramesAt(d)'
        <3>1. FramesAt(d) /\ frames'[d] = frames[d] /\ phase'[d] = phase[d]
            BY <2>2, <2>4 DEF FramesSound
        <3> QED BY <2>4, <3>1, FramesKept
    <2> QED BY <2>2, <2>3, <2>5 DEF FramesSound
<1>7. CASE ShutDown \/ Close
    BY <1>1, <1>7, UnchangedProgress DEF ShutDown, Close, connection
<1> QED BY <1>2, <1>3, <1>4, <1>5, <1>6, <1>7 DEF Next

LEMMA FramesAlways == Spec => []FramesSound
<1>1. Init => FramesSound
    BY DEF Init, FramesSound, FramesAt
<1>2. Typed /\ (OutcomesRan /\ ClosingLast) /\ Answering /\ FramesSound /\ [Next]_vars
      => FramesSound'
    BY NextFrames
<1> QED BY <1>1, <1>2, TypedAlways, OutcomesAlways, AnsweringAlways, PTL DEF Spec

(* A connection the server closes has been sent the answer to every        *)
(* command it started, though the closing may have overtaken it: whether   *)
(* it takes the closing publication or skips it, every outcome was         *)
(* published before that, and taken or looked for among what was skipped,  *)
(* and its answer sent before the Close frame (lib.rs, take,               *)
(* answer_skipped and serve_admitted).                                      *)
THEOREM ConnectionsCloseAnswered == Spec => []ClosedAnswered
<1>1. Typed /\ Answering /\ FramesSound => ClosedAnswered
    <2> SUFFICES ASSUME Typed, Answering, FramesSound, NEW c \in Connections, phase[c] = "closed"
                 PROVE  /\ running[c] = {}
                        /\ \A k \in DOMAIN commands : commands[k].origin = c => AnswerSent(k)
        BY DEF ClosedAnswered, At
    <2>1. Accounted(c) /\ running[c] = {} /\ frames[c] = <<>>
        BY DEF Answering, Placed, FramesSound, FramesAt
    <2>2. ASSUME NEW k \in DOMAIN commands, commands[k].origin = c PROVE AnswerSent(k)
        <3>1. commands[k].replied /\ k # 0
            <4>1. DOMAIN commands = 1..Len(commands) /\ Len(commands) \in Nat
                BY LenProperties DEF Typed
            <4> QED BY <2>1, <2>2, <4>1 DEF Accounted
        <3>2. ASSUME NEW d \in Connections, NEW i \in DOMAIN frames[d], frames[d][i].command = k
              PROVE  FALSE
            <4>1. d = c
                BY <2>2, <3>1, <3>2 DEF FramesSound, FramesAt, Plain, AnswersOwn
            <4> QED BY <2>1, <3>2, <4>1
        <3> QED BY <3>1, <3>2 DEF AnswerSent
    <2> QED BY <2>1, <2>2
<1> QED BY <1>1, TypedAlways, AnsweringAlways, FramesAlways, PTL

-----------------------------------------------------------------------------
(* Where each modification is between its being saved and published.       *)

(* What command k will publish yet.                                        *)
Owes(k) ==
    IF commands[k].phase = "running" THEN commands[k].unannounced
    ELSE IF commands[k].phase = "returned" THEN commands[k].modification
    ELSE 0

(* Whose mutation saved modification n, which commands owe it, and where   *)
(* it was published.                                                       *)
Makers(n) == {c \in Connections : made[c] = n}
Owers(n) == {k \in DOMAIN commands : Owes(k) = n}
Sends(n) == {i \in 1..Last : publications[i].modification = n}

Nowhere(n) == n \notin unpublished /\ Makers(n) = {} /\ Owers(n) = {} /\ Sends(n) = {}

Single(S) == \A x, y \in S : x = y
OneSource(n) ==
    /\ Single(Makers(n)) /\ Single(Owers(n)) /\ Single(Sends(n))
    /\ n \in unpublished => Makers(n) = {} /\ Owers(n) = {} /\ Sends(n) = {}
    /\ Makers(n) # {} => Owers(n) = {} /\ Sends(n) = {}
    /\ Owers(n) # {} => Sends(n) = {}

(* A modification is at one place, from when it is saved; only a hook that *)
(* panics loses one.                                                       *)
Numbering ==
    \A n \in Modification :
        /\ OneSource(n)
        /\ n > saved => Nowhere(n)
        /\ "panic" \notin Faults /\ n <= saved => ~Nowhere(n)

(* The step moves no other modification.                                   *)
Elsewhere(n) ==
    \A m \in Modification \ {n} :
        /\ m \in unpublished' <=> m \in unpublished
        /\ Makers(m)' = Makers(m) /\ Owers(m)' = Owers(m) /\ Sends(m)' = Sends(m)

LEMMA Moves ==
    ASSUME Typed, Numbering, NEW n, Elsewhere(n),
           saved' = saved \/ (saved' = saved + 1 /\ n = saved'),
           n \in Modification => /\ n <= saved' /\ OneSource(n)'
                                 /\ "panic" \notin Faults => ~Nowhere(n)'
    PROVE  Numbering'
<1> SUFFICES ASSUME NEW m \in Modification
             PROVE  /\ OneSource(m)'
                    /\ m > saved' => Nowhere(m)'
                    /\ "panic" \notin Faults /\ m <= saved' => ~Nowhere(m)'
    BY DEF Numbering
<1>1. m \in Nat /\ saved \in Nat
    BY SavedOK, MaxAssumption DEF Modification
<1>2. CASE m = n
    BY <1>1, <1>2
<1>3. CASE m # n
    <2>1. /\ m \in unpublished' <=> m \in unpublished
          /\ Makers(m)' = Makers(m) /\ Owers(m)' = Owers(m) /\ Sends(m)' = Sends(m)
        BY <1>3 DEF Elsewhere
    <2>2. /\ OneSource(m)
          /\ m > saved => Nowhere(m)
          /\ "panic" \notin Faults /\ m <= saved => ~Nowhere(m)
        BY DEF Numbering
    <2>3. OneSource(m)' /\ (Nowhere(m)' <=> Nowhere(m))
        BY <2>1, <2>2 DEF OneSource, Nowhere
    <2> QED BY <1>1, <1>3, <2>2, <2>3
<1> QED BY <1>2, <1>3

LEMMA SendsAfter ==
    ASSUME Typed, NEW p \in Publication, Send(p)
    PROVE  \A m : Sends(m)' = Sends(m) \cup (IF p.modification = m THEN {Last + 1} ELSE {})
<1>1. /\ Last \in Nat /\ Last' = Last + 1 /\ publications'[Last + 1] = p
      /\ \A i \in 1..Last : publications'[i] = publications[i]
    BY SendOK
<1>2. 1..Last' = 1..Last \cup {Last + 1} /\ Last + 1 \notin 1..Last
    BY <1>1
<1> SUFFICES ASSUME NEW m
             PROVE  Sends(m)' = Sends(m) \cup (IF p.modification = m THEN {Last + 1} ELSE {})
    OBVIOUS
<1>3. Sends(m)' = {i \in 1..Last' : publications'[i].modification = m}
    BY DEF Sends
<1> QED BY <1>1, <1>2, <1>3 DEF Sends

LEMMA SendsSame == UNCHANGED publications => \A m : Sends(m)' = Sends(m)
BY DEF Sends, Last

LEMMA OwersAfter ==
    ASSUME NEW k \in DOMAIN commands, DOMAIN commands' = DOMAIN commands,
           \A j \in DOMAIN commands \ {k} : commands'[j] = commands[j]
    PROVE  \A m : Owers(m)' = (Owers(m) \ {k}) \cup (IF Owes(k)' = m THEN {k} ELSE {})
<1>1. \A j \in DOMAIN commands \ {k} : Owes(j)' = Owes(j)
    BY DEF Owes
<1> SUFFICES ASSUME NEW m
             PROVE  Owers(m)' = (Owers(m) \ {k}) \cup (IF Owes(k)' = m THEN {k} ELSE {})
    OBVIOUS
<1>2. Owers(m)' = {j \in DOMAIN commands : Owes(j)' = m}
    BY DEF Owers
<1> QED BY <1>1, <1>2 DEF Owers

LEMMA OwersSame ==
    ASSUME UNCHANGED commands \/ SameCommands
    PROVE  \A m : Owers(m)' = Owers(m)
<1>1. /\ DOMAIN commands' = DOMAIN commands
      /\ \A k \in DOMAIN commands : Owes(k)' = Owes(k)
    BY DEF SameCommands, Owes
<1> SUFFICES ASSUME NEW m PROVE Owers(m)' = Owers(m)
    OBVIOUS
<1>2. Owers(m)' = {k \in DOMAIN commands' : Owes(k)' = m}
    BY DEF Owers
<1> QED BY <1>1, <1>2 DEF Owers

LEMMA MakersAfter ==
    ASSUME Typed, NEW c \in Connections, NEW n, made' = [made EXCEPT ![c] = n]
    PROVE  \A m : Makers(m)' = (Makers(m) \ {c}) \cup (IF n = m THEN {c} ELSE {})
<1>1. made'[c] = n /\ \A d \in Connections \ {c} : made'[d] = made[d]
    BY DEF Typed
<1> SUFFICES ASSUME NEW m
             PROVE  Makers(m)' = (Makers(m) \ {c}) \cup (IF n = m THEN {c} ELSE {})
    OBVIOUS
<1>2. Makers(m)' = {d \in Connections : made'[d] = m}
    BY DEF Makers
<1> QED BY <1>1, <1>2 DEF Makers

LEMMA MakersSame == UNCHANGED made => \A m : Makers(m)' = Makers(m)
BY DEF Makers

LEMMA ZeroNoModification == 0 \notin Modification
BY MaxAssumption DEF Modification

(* A step that moves none.                                                 *)
LEMMA NothingMoves ==
    ASSUME Typed, Numbering, saved' = saved, unpublished' = unpublished,
           \A m \in Modification : /\ Makers(m)' = Makers(m) /\ Owers(m)' = Owers(m)
                                   /\ Sends(m)' = Sends(m)
    PROVE  Numbering'
BY Moves, ZeroNoModification DEF Elsewhere

LEMMA ApplicationNumbers ==
    ASSUME Typed, Numbering, ApplicationNext
    PROVE  Numbering'
<1>1. CASE ApplicationSaves
    <2>1. /\ saved' = saved + 1 /\ saved' \in Modification /\ unpublished' = unpublished \cup {saved'}
          /\ UNCHANGED <<publications, commands, made>> /\ saved \in Nat
        BY <1>1, SaveOK, SavedOK DEF ApplicationSaves, server, connection
    <2>2. \A m : Makers(m)' = Makers(m) /\ Owers(m)' = Owers(m) /\ Sends(m)' = Sends(m)
        BY <2>1, SendsSame, OwersSame, MakersSame
    <2>3. PICK n \in Modification : n = saved'
        BY <2>1
    <2>4. Nowhere(n)
        BY <2>1, <2>3 DEF Numbering
    <2>5. Elsewhere(n)
        BY <2>1, <2>2, <2>3 DEF Elsewhere
    <2>6. n \in unpublished' /\ Makers(n)' = {} /\ Owers(n)' = {} /\ Sends(n)' = {}
        BY <2>1, <2>2, <2>3, <2>4 DEF Nowhere
    <2>7. OneSource(n)' /\ ~Nowhere(n)'
        BY <2>6 DEF OneSource, Single, Nowhere
    <2> QED BY <2>1, <2>3, <2>5, <2>7, Moves
<1>2. ASSUME NEW n \in unpublished, ApplicationPublishes(n) PROVE Numbering'
    <2>1. n \in Modification /\ n \in Numbered /\ n <= saved
        BY SavedOK
    <2>2. Change(Application, n) \in Publication /\ Change(Application, n).modification = n
        BY <2>1, ChangeOK DEF Origins, Change
    <2>3. \A m : Sends(m)' = Sends(m) \cup (IF n = m THEN {Last + 1} ELSE {})
        BY <1>2, <2>2, SendsAfter DEF ApplicationPublishes
    <2>4. \A m : Makers(m)' = Makers(m) /\ Owers(m)' = Owers(m)
        BY <1>2, OwersSame, MakersSame DEF ApplicationPublishes, connection
    <2>5. unpublished' = unpublished \ {n} /\ saved' = saved
        BY <1>2 DEF ApplicationPublishes
    <2>6. Elsewhere(n)
        BY <2>3, <2>4, <2>5 DEF Elsewhere
    <2>7. Makers(n) = {} /\ Owers(n) = {} /\ Sends(n) = {}
        BY <2>1 DEF Numbering, OneSource
    <2>8. OneSource(n)' /\ ~Nowhere(n)'
        BY <2>3, <2>4, <2>5, <2>7 DEF OneSource, Single, Nowhere
    <2> QED BY <2>1, <2>5, <2>6, <2>8, Moves
<1> QED BY <1>1, <1>2 DEF ApplicationNext

LEMMA CommandNumbers ==
    ASSUME Typed, Numbering, NEW k \in DOMAIN commands, HostNext(k) \/ CommandNext(k)
    PROVE  Numbering'
<1>1. CASE CommandSaves(k)
    <2>1. /\ saved' = saved + 1 /\ saved' \in Modification /\ saved \in Nat
          /\ UNCHANGED <<unpublished, publications, made>>
        BY <1>1, SaveOK, SavedOK DEF CommandSaves, connection
    <2>2. PICK n \in Modification : n = saved'
        BY <2>1
    <2>3. Becomes(k, [commands[k] EXCEPT !.unannounced = n]) /\ Owes(k) = 0
        BY <1>1, <2>2, CommandSavesOK DEF CommandSaves, Running, Owes
    <2>4. Owes(k)' = n
        <3>1. commands[k].phase = "running" /\ commands[k] \in CommandRecord
            BY <1>1, CommandTyped DEF CommandSaves, Running
        <3>2. commands'[k] = [commands[k] EXCEPT !.unannounced = n]
            BY <2>3 DEF Becomes
        <3>3. commands'[k].phase = "running" /\ commands'[k].unannounced = n
            BY <3>1, <3>2 DEF CommandRecord
        <3> QED BY <3>3 DEF Owes
    <2>5. \A m : Owers(m)' = (Owers(m) \ {k}) \cup (IF n = m THEN {k} ELSE {})
        BY <2>3, <2>4, OwersAfter DEF Becomes
    <2>6. \A m : Makers(m)' = Makers(m) /\ Sends(m)' = Sends(m)
        BY <2>1, SendsSame, MakersSame
    <2>7. Nowhere(n)
        BY <2>1, <2>2 DEF Numbering
    <2>8. Elsewhere(n)
        BY <2>1, <2>3, <2>5, <2>6, ZeroNoModification DEF Elsewhere, Owers
    <2>9. n \notin unpublished' /\ Makers(n)' = {} /\ Owers(n)' = {k} /\ Sends(n)' = {}
        BY <2>1, <2>5, <2>6, <2>7 DEF Nowhere
    <2>10. OneSource(n)' /\ ~Nowhere(n)'
        BY <2>9 DEF OneSource, Single, Nowhere
    <2> QED BY <2>1, <2>2, <2>8, <2>10, Moves
<1>2. CASE CommandAnnounces(k) \/ CommandPublishes(k)
    <2>1. PICK n \in Numbered : n = Owes(k)
        BY CommandTyped, ZeroNumbered DEF Owes
    <2>2. PICK p \in Publication : Send(p) /\ p.modification = n
        <3>1. CASE CommandAnnounces(k)
            <4>1. n = commands[k].unannounced /\ Send(Change(Application, n))
                BY <2>1, <3>1 DEF CommandAnnounces, Running, Owes
            <4>2. Change(Application, n) \in Publication /\ Change(Application, n).modification = n
                BY <2>1, ChangeOK DEF Change, Origins
            <4> QED BY <4>1, <4>2
        <3>2. CASE CommandPublishes(k)
            <4>1. n = commands[k].modification /\ Send(Ran(k))
                BY <2>1, <3>2 DEF CommandPublishes, Owes
            <4>2. Ran(k) \in Publication /\ Ran(k).modification = n
                BY <4>1, RanOK DEF Ran
            <4> QED BY <4>1, <4>2
        <3> QED BY <1>2, <3>1, <3>2
    <2>3. Owes(k)' = 0
        <3>1. CASE CommandAnnounces(k)
            <4> DEFINE r == [commands[k] EXCEPT !.unannounced = 0,
                                               !.announced = @ \cup {commands[k].unannounced}]
            <4>1. Becomes(k, r) /\ commands[k] \in CommandRecord /\ commands[k].phase = "running"
                BY <3>1, CommandAnnouncesOK, CommandTyped DEF CommandAnnounces, Running
            <4>2. r.phase = "running" /\ r.unannounced = 0
                BY <4>1 DEF CommandRecord
            <4> HIDE DEF r
            <4> QED BY <4>1, <4>2 DEF Becomes, Owes
        <3>2. CASE CommandPublishes(k)
            BY <3>2, PublishesPhase DEF Owes
        <3> QED BY <1>2, <3>1, <3>2
    <2>4. /\ DOMAIN commands' = DOMAIN commands
          /\ \A j \in DOMAIN commands \ {k} : commands'[j] = commands[j]
        BY <1>2, HostPhase, PublishesPhase DEF HostNext
    <2>5. \A m : Owers(m)' = (Owers(m) \ {k}) \cup (IF 0 = m THEN {k} ELSE {})
        BY <2>3, <2>4, OwersAfter
    <2>6. \A m : Sends(m)' = Sends(m) \cup (IF n = m THEN {Last + 1} ELSE {})
        BY <2>2, SendsAfter
    <2>7. saved' = saved /\ unpublished' = unpublished /\ UNCHANGED made
        BY <1>2 DEF CommandAnnounces, CommandPublishes, connection
    <2>8. \A m : Makers(m)' = Makers(m)
        BY <2>7, MakersSame
    <2>9. \A m : k \in Owers(m) <=> m = n
        BY <2>1 DEF Owers
    <2>10. Elsewhere(n)
        <3> SUFFICES ASSUME NEW m \in Modification \ {n}
                     PROVE  Owers(m)' = Owers(m) /\ Sends(m)' = Sends(m)
            BY <2>7, <2>8 DEF Elsewhere
        <3>1. m # 0 /\ m # n /\ k \notin Owers(m)
            BY <2>9, ZeroNoModification
        <3>2. Owers(m)' = Owers(m) \ {k}
            BY <2>5, <3>1
        <3>3. Sends(m)' = Sends(m)
            BY <2>6, <3>1
        <3> QED BY <3>1, <3>2, <3>3
    <2>11. ASSUME n \in Modification PROVE n <= saved' /\ OneSource(n)' /\ ~Nowhere(n)'
        <3>1. k \in Owers(n) /\ OneSource(n) /\ (n > saved => Nowhere(n))
            BY <2>9, <2>11 DEF Numbering
        <3>2. n \notin unpublished /\ Makers(n) = {} /\ Owers(n) = {k} /\ Sends(n) = {}
            BY <3>1 DEF OneSource, Single
        <3>3. n \notin unpublished' /\ Makers(n)' = {} /\ Owers(n)' = {} /\ Sends(n)' = {Last + 1}
            BY <2>5, <2>6, <2>7, <2>8, <2>11, <3>2, ZeroNoModification
        <3>4. n <= saved
            <4>1. n \in Nat /\ saved \in Nat
                BY <2>11, SavedOK DEF Modification
            <4> QED BY <3>1, <4>1 DEF Nowhere
        <3> QED BY <2>7, <3>3, <3>4 DEF OneSource, Single, Nowhere
    <2> QED BY <2>7, <2>10, <2>11, Moves
<1>3. CASE CommandReturns(k) \/ CommandEnds(k)
    <2>1. Owes(k)' = Owes(k)
        BY <1>3, ReturnsPhase, EndsPhase DEF Owes
    <2>2. /\ DOMAIN commands' = DOMAIN commands
          /\ \A j \in DOMAIN commands \ {k} : commands'[j] = commands[j]
        BY <1>3, ReturnsPhase, EndsPhase
    <2>3. \A m : Owers(m)' = Owers(m)
        <3>1. \A m : Owers(m)' = (Owers(m) \ {k}) \cup (IF Owes(k) = m THEN {k} ELSE {})
            BY <2>1, <2>2, OwersAfter
        <3>2. \A m : k \in Owers(m) <=> Owes(k) = m
            BY DEF Owers
        <3> QED BY <3>1, <3>2
    <2>4. UNCHANGED <<saved, unpublished, publications, made>>
        BY <1>3 DEF CommandReturns, CommandEnds, connection
    <2> QED BY <2>3, <2>4, NothingMoves, SendsSame, MakersSame
<1> QED BY <1>1, <1>2, <1>3 DEF HostNext, CommandNext

LEMMA StartNumbers ==
    ASSUME Typed, Numbering, NEW origin \in Origins, StartCommand(origin)
    PROVE  Numbering'
<1> PICK n : n = Len(commands) + 1
    OBVIOUS
<1>1. /\ DOMAIN commands = 1..Len(commands) /\ DOMAIN commands' = 1..n
      /\ Len(commands) \in Nat
      /\ \A j \in DOMAIN commands : commands'[j] = commands[j]
    BY StartCommandOK
<1>2. commands'[n].phase = "running" /\ commands'[n].unannounced = 0
    <2>1. commands'[n] = Started(origin)
        BY StartCommandOK
    <2> QED BY <2>1 DEF Started
<1>3. DOMAIN commands' = DOMAIN commands \cup {n}
    BY <1>1
<1>4. ASSUME NEW m \in Modification PROVE Owers(m)' = Owers(m)
    <2>1. Owes(n)' = 0 /\ \A j \in DOMAIN commands : Owes(j)' = Owes(j)
        BY <1>1, <1>2 DEF Owes
    <2>2. Owers(m)' = {j \in DOMAIN commands' : Owes(j)' = m}
        BY DEF Owers
    <2>3. m # 0
        BY ZeroNoModification
    <2> QED BY <1>3, <2>1, <2>2, <2>3 DEF Owers
<1>5. UNCHANGED <<saved, unpublished, publications, made>>
    BY DEF StartCommand
<1> QED BY <1>4, <1>5, NothingMoves, SendsSame, MakersSame

-----------------------------------------------------------------------------
(* What each phase of a connection says of its state.                      *)

SeatedAt(c) ==
    /\ next[c] <= Last + 1
    /\ phase[c] \in {"away", "admitting", "refused"} => DOMAIN subs[c] = {}
    /\ phase[c] # "lagging" => lag[c].todo = {}
    /\ phase[c] # "mutating" => made[c] = 0
Seated == \A c \in Connections : SeatedAt(c)

LEMMA SeatKept ==
    ASSUME Typed, NEW c \in Connections, SeatedAt(c), Extends, phase'[c] = phase[c],
           next'[c] = next[c], subs'[c] = subs[c], made'[c] = made[c], lag'[c] = lag[c]
    PROVE  SeatedAt(c)'
<1>1. Last \in Nat /\ Last' \in Nat /\ Last <= Last' /\ next[c] \in Nat
    BY PublicationsOK DEF Extends, Typed
<1> QED BY <1>1 DEF SeatedAt

LEMMA OwnSeated ==
    ASSUME Typed, NEW c \in Connections, SeatedAt(c), ConnectionNext(c)
    PROVE  SeatedAt(c)'
<1>1. /\ Last \in Nat /\ Last' \in Nat /\ Last <= Last' /\ next[c] \in Nat
      /\ phase \in [Connections -> Phases] /\ next \in [Connections -> Nat \ {0}]
      /\ made \in [Connections -> Numbered] /\ DOMAIN subs = Connections
      /\ lag \in [Connections -> [skipped: Nat, todo: SUBSET Nat]]
    <2>1. Extends
        BY ConnectionProgress
    <2> QED BY <2>1, PublicationsOK DEF Extends, Typed
<1>2. CASE AdmitSubscribes(c)
    <2>1. /\ UNCHANGED <<publications, subs, made, lag>>
          /\ phase[c] = "away" /\ phase'[c] = "admitting" /\ next'[c] = Last + 1
        BY <1>1, <1>2 DEF AdmitSubscribes, At, Go, server
    <2> QED BY <1>1, <2>1 DEF SeatedAt, Last
<1>3. CASE AdmitCounts(c)
    <2>1. /\ UNCHANGED <<publications, next, subs, made, lag>>
          /\ phase[c] = "admitting" /\ phase'[c] \in {"refused", "select"}
        BY <1>1, <1>3 DEF AdmitCounts, At, Go
    <2> QED BY <1>1, <2>1 DEF SeatedAt, Last
<1>4. CASE RequestNext(c)
    <2>1. CASE MutateSaves(c)
        <3>1. /\ UNCHANGED <<publications, next, subs, lag>>
              /\ phase[c] = "select" /\ phase'[c] = "mutating"
            BY <1>1, <2>1 DEF MutateSaves, Idle, At, Go, server
        <3> QED BY <1>1, <3>1 DEF SeatedAt, Last
    <2>2. CASE ~MutateSaves(c)
        <3>1. UNCHANGED <<publications, phase, next, made, lag>> /\ phase[c] = "select"
            BY <1>4, <2>2 DEF RequestNext, Subscribe, Resync, Unsubscribe, server, Idle, At
        <3> QED BY <1>1, <3>1 DEF SeatedAt, Last
    <2> QED BY <2>1, <2>2
<1>5. CASE MutateResponds(c)
    <2>1. UNCHANGED <<next, lag>> /\ phase[c] = "mutating" /\ phase'[c] = "select" /\ made'[c] = 0
        BY <1>1, <1>5 DEF MutateResponds, At, Go
    <2> QED BY <1>1, <2>1 DEF SeatedAt
<1>6. ASSUME NEW s, MutatePanics(c, s) PROVE SeatedAt(c)'
    <2>1. /\ UNCHANGED <<publications, next, lag>>
          /\ phase[c] = "mutating" /\ phase'[c] = "select" /\ made'[c] = 0
        BY <1>1, <1>6 DEF MutatePanics, At, Go, server
    <2> QED BY <1>1, <2>1 DEF SeatedAt, Last
<1>7. CASE TakeChange(c) \/ TakeOwnCommand(c)
    <2>1. /\ UNCHANGED <<phase, made, lag, publications>> /\ Receives(c)
          /\ next'[c] = next[c] + 1
        BY <1>1, <1>7 DEF TakeChange, TakeOwnCommand, Advance, server
    <2>2. next[c] \in 1..Last /\ phase[c] = "select"
        BY <2>1, TakenOK DEF At
    <2> QED BY <1>1, <2>1, <2>2 DEF SeatedAt, Last
<1>8. CASE TakeClosing(c)
    <2>1. /\ UNCHANGED <<publications, next, lag, made, subs>> /\ Receives(c)
          /\ phase'[c] = "closing"
        BY <1>1, <1>8 DEF TakeClosing, Go, server
    <2>2. phase[c] = "select"
        BY <2>1, TakenOK DEF At
    <2> QED BY <1>1, <2>1, <2>2 DEF SeatedAt, Last
<1>9. CASE LagSkips(c)
    <2>1. /\ UNCHANGED <<publications, made>> /\ phase[c] = "select" /\ phase'[c] = "lagging"
          /\ next'[c] = Last + 1
        BY <1>1, <1>9 DEF LagSkips, Idle, At, Go, server
    <2> QED BY <1>1, <2>1 DEF SeatedAt, Last
<1>10. ASSUME NEW s, LagResyncs(c, s) PROVE SeatedAt(c)'
    <2>1. UNCHANGED <<phase, publications, next, made>> /\ phase[c] = "lagging"
        BY <1>10 DEF LagResyncs, At, server
    <2> QED BY <1>1, <2>1 DEF SeatedAt, Last
<1>11. CASE LagAnswers(c)
    <2>1. /\ UNCHANGED <<publications, next, made>> /\ phase[c] = "lagging"
          /\ phase'[c] \in {"closing", "select"} /\ lag[c].todo = {} /\ lag'[c].todo = lag[c].todo
        BY <1>1, <1>11 DEF LagAnswers, At, Go
    <2> QED BY <1>1, <2>1 DEF SeatedAt, Last
<1>12. CASE Break(c)
    <2>1. /\ UNCHANGED <<publications, next, made>>
          /\ phase[c] # "mutating" /\ phase'[c] = "broken" /\ lag'[c].todo = {}
        BY <1>1, <1>12 DEF Break, At, Go
    <2> QED BY <1>1, <2>1 DEF SeatedAt, Last
<1>13. CASE SendFrame(c)
    <2>1. UNCHANGED <<phase, publications, next, subs, made, lag>>
        BY <1>13 DEF SendFrame, server
    <2> QED BY <1>1, <2>1 DEF SeatedAt, Last
<1>14. CASE Closes(c)
    <2>1. /\ UNCHANGED <<publications, next, subs, made, lag>>
          /\ phase[c] = "closing" /\ phase'[c] = "closed"
        BY <1>1, <1>14 DEF Closes, At, Go
    <2> QED BY <1>1, <2>1 DEF SeatedAt, Last
<1> QED BY <1>2, <1>3, <1>4, <1>5, <1>6, <1>7, <1>8, <1>9, <1>10, <1>11, <1>12, <1>13, <1>14
        DEF ConnectionNext, ServeNext, SendNext

(* The steps that are of no connection leave its subscriptions and its     *)
(* place alone, and only extend the publications.                          *)
Apart == /\ Extends /\ Progresses
         /\ UNCHANGED <<phase, next, subs, made, lag>>

LEMMA OthersApart ==
    ASSUME Typed,
           \/ UNCHANGED vars \/ ApplicationNext \/ ShutDown \/ Close
           \/ \E o \in Origins : StartCommand(o)
           \/ \E k \in DOMAIN commands : HostNext(k) \/ CommandNext(k)
    PROVE  Apart
<1>1. CASE UNCHANGED vars
    BY <1>1, UnsentExtends, UnchangedProgress DEF vars, server, connection, Apart
<1>2. CASE ApplicationNext
    BY <1>2, ApplicationKeeps, UnchangedProgress DEF connection, Apart
<1>3. CASE ShutDown
    BY <1>3, UnsentExtends, UnchangedProgress DEF ShutDown, connection, Apart
<1>4. CASE Close
    BY <1>4, ClosingOK, SendExtends, UnchangedProgress DEF Close, connection, Apart
<1>5. ASSUME NEW o \in Origins, StartCommand(o) PROVE Apart
    BY <1>5, StartProgress DEF StartCommand, Apart
<1>6. ASSUME NEW k \in DOMAIN commands, HostNext(k) \/ CommandNext(k) PROVE Apart
    <2>1. Progresses
        BY <1>6, CommandProgress
    <2>2. CASE HostNext(k)
        BY <2>1, <2>2, HostExtends DEF connection, Apart
    <2>3. CASE CommandReturns(k)
        BY <2>1, <2>3, UnsentExtends DEF CommandReturns, connection, Apart
    <2>4. CASE CommandPublishes(k)
        BY <2>1, <2>4, RanOK, SendExtends DEF CommandPublishes, Apart
    <2>5. CASE CommandEnds(k)
        BY <2>1, <2>5, UnsentExtends DEF CommandEnds, connection, Apart
    <2> QED BY <1>6, <2>2, <2>3, <2>4, <2>5 DEF CommandNext
<1> QED BY <1>1, <1>2, <1>3, <1>4, <1>5, <1>6

LEMMA NextCases ==
    ASSUME Typed, [Next]_vars
    PROVE  \/ Apart
           \/ \E c \in Connections :
                 /\ ConnectionNext(c) /\ Extends /\ Progresses /\ SameCommands
                 /\ \A d \in Connections \ {c} :
                       /\ phase'[d] = phase[d] /\ next'[d] = next[d] /\ lag'[d] = lag[d]
                       /\ subs'[d] = subs[d] /\ made'[d] = made[d]
<1>1. ASSUME NEW c \in Connections, ConnectionNext(c)
      PROVE  /\ Extends /\ Progresses /\ SameCommands
             /\ \A d \in Connections \ {c} :
                   /\ phase'[d] = phase[d] /\ next'[d] = next[d] /\ lag'[d] = lag[d]
                   /\ subs'[d] = subs[d] /\ made'[d] = made[d]
    BY <1>1, ConnectionProgress, ConnectionSteps
<1> QED BY <1>1, OthersApart DEF Next

LEMMA NextSeated == Typed /\ Seated /\ [Next]_vars => Seated'
<1> SUFFICES ASSUME Typed, Seated, [Next]_vars, NEW d \in Connections PROVE SeatedAt(d)'
    BY DEF Seated
<1>1. SeatedAt(d)
    BY DEF Seated
<1>2. CASE Apart
    BY <1>1, <1>2, SeatKept DEF Apart
<1>3. ASSUME NEW c \in Connections, ConnectionNext(c), Extends,
             \A e \in Connections \ {c} :
                 /\ phase'[e] = phase[e] /\ next'[e] = next[e] /\ lag'[e] = lag[e]
                 /\ subs'[e] = subs[e] /\ made'[e] = made[e]
      PROVE  SeatedAt(d)'
    <2>1. CASE d = c
        BY <1>1, <1>3, <2>1, OwnSeated
    <2>2. CASE d # c
        BY <1>1, <1>3, <2>2, SeatKept
    <2> QED BY <2>1, <2>2
<1> QED BY <1>2, <1>3, NextCases

LEMMA ConnectionNumbers ==
    ASSUME Typed, Numbering, Seated, NEW c \in Connections, ConnectionNext(c)
    PROVE  Numbering'
<1>1. \A m : Owers(m)' = Owers(m)
    BY ConnectionProgress, OwersSame
<1>2. UNCHANGED unpublished
    BY DEF ConnectionNext, RequestNext, ServeNext, AdmitSubscribes, AdmitCounts, Subscribe, Resync,
           Unsubscribe, MutateSaves, MutateResponds, MutatePanics, TakeChange, TakeOwnCommand,
           TakeClosing, LagSkips, LagResyncs, LagAnswers, SendNext, SendFrame, Closes, Break
<1>3. CASE MutateSaves(c)
    <2>1. /\ saved' = saved + 1 /\ saved' \in Modification /\ saved \in Nat
          /\ UNCHANGED publications
        BY <1>3, SaveOK, SavedOK DEF MutateSaves, server
    <2>2. PICK n \in Modification : n = saved'
        BY <2>1
    <2>3. made[c] = 0 /\ made' = [made EXCEPT ![c] = n]
        BY <1>3, <2>2 DEF MutateSaves, Idle, At, Seated, SeatedAt
    <2>4. \A m : Makers(m)' = (Makers(m) \ {c}) \cup (IF n = m THEN {c} ELSE {})
        BY <2>3, MakersAfter
    <2>5. \A m : Sends(m)' = Sends(m)
        BY <2>1, SendsSame
    <2>6. Nowhere(n)
        BY <2>1, <2>2 DEF Numbering
    <2>7. \A m \in Modification : c \notin Makers(m)
        BY <2>3, ZeroNoModification DEF Makers
    <2>8. Elsewhere(n)
        BY <1>1, <1>2, <2>4, <2>5, <2>7 DEF Elsewhere
    <2>9. n \notin unpublished' /\ Makers(n)' = {c} /\ Owers(n)' = {} /\ Sends(n)' = {}
        BY <1>1, <1>2, <2>4, <2>5, <2>6 DEF Nowhere
    <2>10. OneSource(n)' /\ ~Nowhere(n)'
        BY <2>9 DEF OneSource, Single, Nowhere
    <2> QED BY <2>1, <2>2, <2>8, <2>10, Moves
<1>4. ASSUME NEW n \in Numbered, n = made[c], saved' = saved, made' = [made EXCEPT ![c] = 0],
             \/ Send(Change(c, n))
             \/ "panic" \in Faults /\ UNCHANGED publications
      PROVE  Numbering'
    <2>1. \A m : Makers(m)' = (Makers(m) \ {c}) \cup (IF 0 = m THEN {c} ELSE {})
        BY <1>4, MakersAfter
    <2>2. \/ \A m : Sends(m)' = Sends(m) \cup (IF n = m THEN {Last + 1} ELSE {})
          \/ "panic" \in Faults /\ \A m : Sends(m)' = Sends(m)
        <3>1. CASE Send(Change(c, n))
            <4>1. Change(c, n) \in Publication /\ Change(c, n).modification = n
                BY ChangeOK DEF Change, Origins
            <4> QED BY <3>1, <4>1, SendsAfter
        <3> QED BY <1>4, <3>1, SendsSame
    <2>3. \A m : c \in Makers(m) <=> m = n
        BY <1>4 DEF Makers
    <2>4. Elsewhere(n)
        <3> SUFFICES ASSUME NEW m \in Modification \ {n}
                     PROVE  Makers(m)' = Makers(m) /\ Sends(m)' = Sends(m)
            BY <1>1, <1>2 DEF Elsewhere
        <3>1. m # 0 /\ m # n /\ c \notin Makers(m)
            BY <2>3, ZeroNoModification
        <3>2. Makers(m)' = Makers(m) \ {c}
            BY <2>1, <3>1
        <3>3. Sends(m)' = Sends(m)
            BY <2>2, <3>1
        <3> QED BY <3>1, <3>2, <3>3
    <2>5. ASSUME n \in Modification
          PROVE  n <= saved' /\ OneSource(n)' /\ ("panic" \notin Faults => ~Nowhere(n)')
        <3>1. c \in Makers(n) /\ OneSource(n) /\ (n > saved => Nowhere(n)) /\ n # 0
            BY <2>3, <2>5, ZeroNoModification DEF Numbering
        <3>2. n \notin unpublished /\ Makers(n) = {c} /\ Owers(n) = {} /\ Sends(n) = {}
            BY <3>1 DEF OneSource, Single
        <3>3. n \notin unpublished' /\ Makers(n)' = {} /\ Owers(n)' = {}
            BY <1>1, <1>2, <2>1, <3>1, <3>2
        <3>4. Sends(n)' = {Last + 1} \/ ("panic" \in Faults /\ Sends(n)' = {})
            BY <2>2, <3>2
        <3>5. n <= saved
            <4>1. n \in Nat /\ saved \in Nat
                BY <2>5, SavedOK DEF Modification
            <4> QED BY <3>1, <4>1 DEF Nowhere
        <3> QED BY <1>4, <3>3, <3>4, <3>5 DEF OneSource, Single, Nowhere
    <2> QED BY <1>4, <2>4, <2>5, Moves
<1>5. CASE MutateResponds(c)
    <2>1. made[c] \in Numbered
        BY DEF Typed
    <2> QED BY <1>4, <1>5, <2>1 DEF MutateResponds
<1>6. ASSUME NEW s, MutatePanics(c, s) PROVE Numbering'
    <2>1. made[c] \in Numbered
        BY DEF Typed
    <2> QED BY <1>4, <1>6, <2>1 DEF MutatePanics, server
<1>7. ASSUME UNCHANGED <<saved, publications, made>> PROVE Numbering'
    BY <1>1, <1>2, <1>7, NothingMoves, SendsSame, MakersSame
<1> QED BY <1>3, <1>5, <1>6, <1>7
        DEF ConnectionNext, RequestNext, ServeNext, AdmitSubscribes, AdmitCounts, Subscribe, Resync,
            Unsubscribe, TakeChange, TakeOwnCommand, TakeClosing, LagSkips, LagResyncs, LagAnswers,
            SendNext, SendFrame, Closes, Break, server

LEMMA NextNumbering == Typed /\ Numbering /\ Seated /\ [Next]_vars => Numbering'
<1> SUFFICES ASSUME Typed, Numbering, Seated, [Next]_vars PROVE Numbering'
    OBVIOUS
<1>1. ASSUME UNCHANGED <<saved, unpublished, publications, commands, made>> PROVE Numbering'
    BY <1>1, NothingMoves, SendsSame, OwersSame, MakersSame
<1>2. CASE UNCHANGED vars
    BY <1>1, <1>2 DEF vars, server, connection
<1>3. CASE ShutDown
    BY <1>1, <1>3 DEF ShutDown, connection
<1>4. CASE Close
    <2>1. Send(Closing) /\ Closing \in Publication /\ Closing.modification = 0
        BY <1>4, ClosingOK DEF Close, Closing
    <2>2. \A m \in Modification : Sends(m)' = Sends(m)
        BY <2>1, SendsAfter, ZeroNoModification
    <2> QED BY <1>4, <2>2, NothingMoves, OwersSame, MakersSame DEF Close, connection
<1> QED BY <1>2, <1>3, <1>4, ApplicationNumbers, CommandNumbers, StartNumbers, ConnectionNumbers
        DEF Next

LEMMA InitNumbering == Init => Numbering /\ Seated
<1> SUFFICES ASSUME Init PROVE Numbering /\ Seated
    OBVIOUS
<1>1. /\ publications = <<>> /\ commands = <<>> /\ Last = 0 /\ saved = 0 /\ unpublished = {}
      /\ \A c \in Connections : /\ made[c] = 0 /\ next[c] = 1 /\ subs[c] = <<>>
                                /\ lag[c].todo = {} /\ phase[c] = "away"
    BY DEF Init, Last
<1>2. Seated
    BY <1>1 DEF Seated, SeatedAt
<1>3. ASSUME NEW n \in Modification
      PROVE  OneSource(n) /\ Nowhere(n) /\ n \in Nat /\ n > 0
    <2>1. Makers(n) = {} /\ Owers(n) = {} /\ Sends(n) = {}
        BY <1>1, ZeroNoModification DEF Makers, Owers, Sends
    <2> QED BY <1>1, <2>1 DEF OneSource, Single, Nowhere, Modification
<1> QED BY <1>1, <1>2, <1>3 DEF Numbering

LEMMA NumberingAlways == Spec => [](Numbering /\ Seated)
<1>1. Init => Numbering /\ Seated
    BY InitNumbering
<1>2. Typed /\ (Numbering /\ Seated) /\ [Next]_vars => (Numbering /\ Seated)'
    BY NextNumbering, NextSeated
<1> QED BY <1>1, <1>2, TypedAlways, PTL DEF Spec

(* What was published was saved.                                           *)
LEMMA PublishedSaved ==
    ASSUME Typed, Numbering, NEW i \in 1..Last
    PROVE  publications[i].modification \in {0} \cup 1..saved
<1> DEFINE n == publications[i].modification
<1>1. n \in Numbered
    BY PublicationsOK DEF Publication
<1>2. CASE n \in Modification
    <2>1. i \in Sends(n)
        BY DEF Sends
    <2>2. ~(n > saved)
        BY <1>2, <2>1 DEF Numbering, Nowhere
    <2>3. n \in Nat \ {0} /\ saved \in Nat
        BY <1>2, SavedOK, MaxAssumption DEF Modification
    <2> HIDE DEF n
    <2>4. n \in 1..saved
        BY <2>2, <2>3
    <2> QED BY <2>4 DEF n
<1>3. CASE n = 0
    BY <1>3
<1>4. n \in Modification \/ n = 0
    BY <1>1, MaxAssumption DEF Numbered, Modification
<1> QED BY <1>2, <1>3, <1>4

-----------------------------------------------------------------------------
(* What the steps of a connection do to its subscriptions.                 *)

Kept(c, s) ==
    /\ s \in DOMAIN subs[c]
    /\ subs'[c][s].through = subs[c][s].through
    /\ subs'[c][s].patches = subs[c][s].patches

(* Subscription s is sent modification n, unless its snapshot holds it.    *)
SentTo(c, s, n) ==
    /\ s \in DOMAIN subs[c]
    /\ subs'[c][s].through = subs[c][s].through
    /\ subs'[c][s].patches = IF n # 0 /\ n > subs[c][s].through THEN Append(subs[c][s].patches, n)
                             ELSE subs[c][s].patches

OwnChange(c, i) == publications[i].kind = "change" /\ publications[i].origin = c

Stays(c) == UNCHANGED publications /\ next'[c] = next[c]
Takes(c) ==
    /\ UNCHANGED publications /\ next'[c] = next[c] + 1
    /\ next[c] \in 1..Last

(* How a step of connection c leaves subscription s.                       *)
Treats(c, s) ==
    \/ Renewed(c, s) /\ UNCHANGED <<saved, publications>>
    \/ Kept(c, s) /\ Stays(c) /\ (s \in lag[c].todo => s \in lag'[c].todo)
    \/ /\ Kept(c, s) /\ UNCHANGED publications
       /\ s \in lag'[c].todo /\ next'[c] = Last + 1
    \/ Kept(c, s) /\ Takes(c) /\ lag'[c] = lag[c] /\ OwnChange(c, next[c])
    \/ /\ SentTo(c, s, publications[next[c]].modification)
       /\ Takes(c) /\ lag'[c] = lag[c] /\ ~OwnChange(c, next[c])
    \/ /\ SentTo(c, s, made[c]) /\ Send(Change(c, made[c]))
       /\ next'[c] = next[c] /\ lag'[c] = lag[c]
    \/ "snapshot" \in Faults /\ Kept(c, s) /\ Stays(c)

LEMMA DeliverSends ==
    ASSUME Typed, NEW c \in Connections, NEW n \in Numbered, Deliver(c, n),
           NEW s \in DOMAIN subs'[c]
    PROVE  SentTo(c, s, n)
<1>1. subs'[c] = Delivered(c, n) /\ SubsTyped(c)
    BY DeliverOK DEF Typed
<1>2. /\ DOMAIN Delivered(c, n) = DOMAIN subs[c]
      /\ \A t \in DOMAIN subs[c] :
            /\ Delivered(c, n)[t].through = subs[c][t].through
            /\ Delivered(c, n)[t].patches =
                  IF n # 0 /\ n > subs[c][t].through THEN Append(subs[c][t].patches, n)
                  ELSE subs[c][t].patches
    BY <1>1, DeliveredOK
<1> QED BY <1>1, <1>2 DEF SentTo

LEMMA TreatsOK ==
    ASSUME Typed, Seated, NEW c \in Connections, ConnectionNext(c), NEW s \in DOMAIN subs'[c]
    PROVE  Treats(c, s)
<1>1. /\ phase \in [Connections -> Phases] /\ next \in [Connections -> Nat \ {0}]
      /\ DOMAIN subs = Connections
      /\ lag \in [Connections -> [skipped: Nat, todo: SUBSET Nat]]
    BY DEF Typed
<1>2. UNCHANGED <<subs, publications, next, lag>> => Treats(c, s)
    BY DEF Treats, Kept, Stays
<1>3. CASE AdmitSubscribes(c)
    BY <1>3 DEF AdmitSubscribes, At, Seated, SeatedAt
<1>4. CASE AdmitCounts(c) \/ MutateSaves(c) \/ TakeClosing(c)
    BY <1>2, <1>4 DEF AdmitCounts, MutateSaves, TakeClosing, server
<1>5. CASE Subscribe(c)
    <2>1. \/ s \in DOMAIN subs[c] /\ subs'[c][s] = subs[c][s]
          \/ Renewed(c, s)
        BY <1>5, SubscribeOK
    <2>2. UNCHANGED <<saved, publications, next, lag>>
        BY <1>5 DEF Subscribe, server
    <2> QED BY <2>1, <2>2 DEF Treats, Kept, Stays
<1>6. ASSUME NEW t \in DOMAIN subs[c], Resync(c, t) PROVE Treats(c, s)
    <2>1. /\ DOMAIN subs'[c] = DOMAIN subs[c]
          /\ \A u \in DOMAIN subs[c] \ {t} : subs'[c][u] = subs[c][u]
          /\ Renewed(c, t)
        BY <1>6, ResyncedOK DEF Resync
    <2>2. UNCHANGED <<saved, publications, next, lag>>
        BY <1>6 DEF Resync, server
    <2> QED BY <2>1, <2>2 DEF Treats, Kept, Stays
<1>7. ASSUME NEW t \in DOMAIN subs[c], Unsubscribe(c, t) PROVE Treats(c, s)
    <2>1. s \in DOMAIN subs[c] /\ subs'[c][s] = subs[c][s]
        BY <1>1, <1>7 DEF Unsubscribe, SetSubs, Drop
    <2>2. UNCHANGED <<publications, next, lag>>
        BY <1>7 DEF Unsubscribe, server
    <2> QED BY <2>1, <2>2 DEF Treats, Kept, Stays
<1>8. CASE MutateResponds(c)
    <2>1. made[c] \in Numbered
        BY DEF Typed
    <2>2. /\ Deliver(c, made[c]) /\ Send(Change(c, made[c]))
          /\ next'[c] = next[c] /\ lag'[c] = lag[c]
        BY <1>8 DEF MutateResponds
    <2>3. SentTo(c, s, made[c])
        BY <2>1, <2>2, DeliverSends
    <2> QED BY <2>2, <2>3 DEF Treats
<1>9. ASSUME NEW t \in DOMAIN subs[c], MutatePanics(c, t) PROVE Treats(c, s)
    <2>1. /\ DOMAIN subs'[c] = DOMAIN subs[c]
          /\ \A u \in DOMAIN subs[c] : /\ subs'[c][u].through = subs[c][u].through
                                       /\ subs'[c][u].patches = subs[c][u].patches
        BY <1>9, MutatePanicsOK
    <2>2. UNCHANGED <<publications, next, lag>>
        BY <1>9 DEF MutatePanics, server
    <2> QED BY <2>1, <2>2 DEF Treats, Kept, Stays
<1>10. CASE TakeChange(c)
    <2>1. /\ Receives(c) /\ Advance(c) /\ UNCHANGED <<publications, lag>>
          /\ Taken(c).kind = "change" \/ (Taken(c).kind = "ran" /\ Taken(c).origin # c)
          /\ IF Taken(c).origin = c THEN UNCHANGED subs ELSE Deliver(c, Taken(c).modification)
        BY <1>10 DEF TakeChange, server
    <2>2. /\ Taken(c) = publications[next[c]] /\ next[c] \in 1..Last
          /\ Taken(c).modification \in Numbered
        BY <2>1, TakenOK
    <2>3. Takes(c) /\ lag'[c] = lag[c]
        BY <1>1, <2>1, <2>2 DEF Advance, Takes
    <2>4. CASE Taken(c).origin = c
        BY <2>1, <2>2, <2>3, <2>4 DEF Treats, Kept, OwnChange
    <2>5. CASE Taken(c).origin # c
        <3>1. SentTo(c, s, publications[next[c]].modification)
            BY <2>1, <2>2, <2>5, DeliverSends
        <3> QED BY <2>2, <2>3, <2>5, <3>1 DEF Treats, OwnChange
    <2> QED BY <2>4, <2>5
<1>11. CASE TakeOwnCommand(c)
    <2>1. /\ Receives(c) /\ Advance(c) /\ UNCHANGED <<publications, lag>>
          /\ Taken(c).kind = "ran" /\ Deliver(c, Taken(c).modification)
        BY <1>11 DEF TakeOwnCommand
    <2>2. /\ Taken(c) = publications[next[c]] /\ next[c] \in 1..Last
          /\ Taken(c).modification \in Numbered
        BY <2>1, TakenOK
    <2>3. Takes(c) /\ lag'[c] = lag[c]
        BY <1>1, <2>1, <2>2 DEF Advance, Takes
    <2>4. SentTo(c, s, publications[next[c]].modification)
        BY <2>1, <2>2, DeliverSends
    <2> QED BY <2>1, <2>2, <2>3, <2>4 DEF Treats, OwnChange
<1>12. CASE LagSkips(c)
    <2>1. UNCHANGED <<subs, publications>> /\ next'[c] = Last + 1 /\ lag'[c].todo = DOMAIN subs[c]
        BY <1>1, <1>12 DEF LagSkips, server
    <2> QED BY <2>1 DEF Treats, Kept
<1>13. ASSUME NEW t \in DOMAIN subs[c], LagResyncs(c, t) PROVE Treats(c, s)
    <2>1. /\ UNCHANGED <<saved, publications, next>> /\ lag'[c].todo = lag[c].todo \ {t}
          /\ SetSubs(c, Resynced(c, t)) \/ ("snapshot" \in Faults /\ UNCHANGED subs)
        BY <1>1, <1>13 DEF LagResyncs, server
    <2>2. CASE SetSubs(c, Resynced(c, t))
        <3>1. /\ DOMAIN subs'[c] = DOMAIN subs[c]
              /\ \A u \in DOMAIN subs[c] \ {t} : subs'[c][u] = subs[c][u]
              /\ Renewed(c, t)
            BY <2>2, ResyncedOK
        <3> QED BY <2>1, <3>1 DEF Treats, Kept, Stays
    <2>3. CASE "snapshot" \in Faults /\ UNCHANGED subs
        BY <2>1, <2>3 DEF Treats, Kept, Stays
    <2> QED BY <2>1, <2>2, <2>3
<1>14. CASE LagAnswers(c)
    <2>1. UNCHANGED <<subs, publications, next>> /\ lag'[c].todo = lag[c].todo
        BY <1>1, <1>14 DEF LagAnswers
    <2> QED BY <2>1 DEF Treats, Kept, Stays
<1>15. CASE Break(c)
    <2>1. subs'[c] = <<>>
        BY <1>1, <1>15 DEF Break
    <2> QED BY <2>1
<1>16. CASE SendFrame(c) \/ Closes(c)
    BY <1>2, <1>16 DEF SendFrame, Closes, server
<1> QED BY <1>3, <1>4, <1>5, <1>6, <1>7, <1>8, <1>9, <1>10, <1>11, <1>12, <1>13, <1>14, <1>15,
           <1>16
        DEF ConnectionNext, RequestNext, ServeNext, SendNext

LEMMA RenewedHolds ==
    ASSUME NEW c, NEW s, Renewed(c, s)
    PROVE  Held(c, s)' = 1..saved
<1>1. Range(<<>>) = {}
    BY DEF Range
<1> QED BY <1>1 DEF Renewed, Held

LEMMA KeptHolds ==
    ASSUME NEW c, NEW s, Kept(c, s)
    PROVE  Held(c, s)' = Held(c, s)
BY DEF Kept, Held

LEMMA RangeAppended ==
    ASSUME NEW S, NEW q \in Seq(S), NEW n \in S
    PROVE  Range(Append(q, n)) = Range(q) \cup {n}
<1>1. /\ Len(q) \in Nat /\ DOMAIN q = 1..Len(q) /\ DOMAIN Append(q, n) = 1..Len(q) + 1
      /\ \A i \in 1..Len(q) : Append(q, n)[i] = q[i]
      /\ Append(q, n)[Len(q) + 1] = n
    BY AppendedTo
<1>2. DOMAIN Append(q, n) = DOMAIN q \cup {Len(q) + 1}
    BY <1>1
<1> QED BY <1>1, <1>2 DEF Range

LEMMA SentHolds ==
    ASSUME Typed, NEW c \in Connections, NEW s, NEW n \in Numbered, SentTo(c, s, n)
    PROVE  Held(c, s) \subseteq Held(c, s)' /\ n \in {0} \cup Held(c, s)'
<1>1. IsSubscription(subs[c][s]) /\ subs'[c][s].through = subs[c][s].through
    BY DEF SentTo, Typed, SubsTyped
<1>2. subs[c][s].through \in Nat /\ n \in Nat /\ subs[c][s].patches \in Seq(Modification)
    BY <1>1, MaxAssumption DEF IsSubscription, Numbered
<1>3. CASE n # 0 /\ n > subs[c][s].through
    <2>1. n \in Modification
        BY <1>3, MaxAssumption DEF Numbered, Modification
    <2>2. subs'[c][s].patches = Append(subs[c][s].patches, n)
        BY <1>3 DEF SentTo
    <2>3. Range(subs'[c][s].patches) = Range(subs[c][s].patches) \cup {n}
        BY <1>2, <2>1, <2>2, RangeAppended
    <2> QED BY <1>1, <2>3 DEF Held
<1>4. CASE ~(n # 0 /\ n > subs[c][s].through)
    <2>1. subs'[c][s].patches = subs[c][s].patches
        BY <1>4 DEF SentTo
    <2>2. n \in {0} \cup 1..subs[c][s].through
        BY <1>2, <1>4
    <2> QED BY <1>1, <2>1, <2>2 DEF Held
<1> QED BY <1>3, <1>4

-----------------------------------------------------------------------------
(* What the clients of a connection hold.                                  *)

(* A step that is not of connection c.                                     *)
Quiet(c) ==
    /\ Extends
    /\ phase'[c] = phase[c] /\ next'[c] = next[c] /\ lag'[c] = lag[c]
    /\ subs'[c] = subs[c] /\ made'[c] = made[c]
    /\ \A i \in Last + 1..Last' : ~OwnChange(c, i)'

LEMMA AlienChanges ==
    ASSUME Typed,
           \/ UNCHANGED vars \/ ApplicationNext \/ ShutDown \/ Close
           \/ \E o \in Origins : StartCommand(o)
           \/ \E k \in DOMAIN commands : HostNext(k) \/ CommandNext(k),
           NEW c \in Connections, NEW i \in Last + 1..Last'
    PROVE  ~OwnChange(c, i)'
<1>1. ASSUME UNCHANGED publications PROVE FALSE
    BY <1>1, PublicationsOK DEF Last
<1>2. ASSUME NEW p \in Publication, Send(p), p.kind # "change" \/ p.origin = Application
      PROVE  ~OwnChange(c, i)'
    <2>1. Last \in Nat /\ Last' = Last + 1 /\ publications'[Last + 1] = p
        BY <1>2, SendOK
    <2>2. publications'[i] = p
        BY <2>1
    <2> QED BY <1>2, <2>2, OriginAssumption DEF OwnChange
<1>3. ASSUME NEW n \in Numbered, Send(Change(Application, n)) PROVE ~OwnChange(c, i)'
    <2>1. Change(Application, n) \in Publication /\ Change(Application, n).origin = Application
        BY ChangeOK DEF Change, Origins
    <2> QED BY <1>2, <1>3, <2>1
<1>4. CASE ApplicationNext
    BY <1>1, <1>3, <1>4, SavedOK
       DEF ApplicationNext, ApplicationSaves, ApplicationPublishes, server
<1>5. CASE Close
    BY <1>2, <1>5, ClosingOK DEF Close, Closing
<1>6. ASSUME NEW o \in Origins, StartCommand(o) PROVE ~OwnChange(c, i)'
    BY <1>1, <1>6 DEF StartCommand
<1>7. ASSUME NEW k \in DOMAIN commands, HostNext(k) \/ CommandNext(k) PROVE ~OwnChange(c, i)'
    <2>1. CASE CommandAnnounces(k)
        BY <1>3, <2>1, CommandTyped DEF CommandAnnounces
    <2>2. CASE CommandPublishes(k)
        BY <1>2, <2>2, RanOK DEF CommandPublishes, Ran
    <2> QED BY <1>1, <1>7, <2>1, <2>2
            DEF HostNext, CommandNext, CommandSaves, CommandReturns, CommandEnds
<1> QED BY <1>1, <1>4, <1>5, <1>6, <1>7 DEF ShutDown, vars, server

LEMMA NextFor ==
    ASSUME Typed, [Next]_vars, NEW c \in Connections
    PROVE  ConnectionNext(c) \/ Quiet(c)
<1>1. ASSUME NEW d \in Connections, d # c, ConnectionNext(d) PROVE Quiet(c)
    <2>1. /\ Extends
          /\ phase'[c] = phase[c] /\ next'[c] = next[c] /\ lag'[c] = lag[c]
          /\ subs'[c] = subs[c] /\ made'[c] = made[c]
          /\ UNCHANGED publications \/ Send(Change(d, made[d]))
        BY <1>1, ConnectionProgress, ConnectionSteps
    <2>2. ASSUME NEW i \in Last + 1..Last' PROVE ~OwnChange(c, i)'
        <3>1. Send(Change(d, made[d]))
            BY <2>1, PublicationsOK DEF Last
        <3>2. Change(d, made[d]) \in Publication /\ Change(d, made[d]).origin = d
            BY ChangeOK DEF Typed, Change, Origins
        <3>3. Last \in Nat /\ Last' = Last + 1 /\ publications'[Last + 1] = Change(d, made[d])
            BY <3>1, <3>2, SendOK
        <3>4. publications'[i].origin = d
            BY <3>2, <3>3
        <3> QED BY <1>1, <3>4 DEF OwnChange
    <2> QED BY <2>1, <2>2 DEF Quiet
<1>2. ASSUME \/ UNCHANGED vars \/ ApplicationNext \/ ShutDown \/ Close
             \/ \E o \in Origins : StartCommand(o)
             \/ \E k \in DOMAIN commands : HostNext(k) \/ CommandNext(k)
      PROVE  Quiet(c)
    BY <1>2, OthersApart, AlienChanges DEF Apart, Quiet
<1> QED BY <1>1, <1>2 DEF Next

(* What connection c changed itself its clients hold, and what it took or  *)
(* skipped, but for the subscriptions it is yet to resynchronise.          *)
OwnHeld(c) ==
    \A s \in DOMAIN subs[c] : \A i \in 1..Last :
        OwnChange(c, i) => publications[i].modification \in {0} \cup Held(c, s)

TakenHeld(c) ==
    \A s \in DOMAIN subs[c] \ lag[c].todo : \A i \in 1..next[c] - 1 :
        publications[i].modification \in {0} \cup Held(c, s)

LEMMA QuietHeld ==
    ASSUME Typed, Seated, NEW c \in Connections, Quiet(c)
    PROVE  (OwnHeld(c) => OwnHeld(c)') /\ (TakenHeld(c) => TakenHeld(c)')
<1>1. /\ Last \in Nat /\ Last' \in Nat /\ next[c] \in Nat /\ next[c] <= Last + 1
      /\ \A i \in 1..Last : publications'[i] = publications[i]
      /\ subs'[c] = subs[c] /\ next'[c] = next[c] /\ lag'[c] = lag[c]
      /\ \A i \in Last + 1..Last' : ~OwnChange(c, i)'
    BY PublicationsOK DEF Quiet, Extends, Typed, Seated, SeatedAt
<1>2. \A s : Held(c, s)' = Held(c, s)
    BY <1>1 DEF Held
<1>3. ASSUME OwnHeld(c) PROVE OwnHeld(c)'
    <2> SUFFICES ASSUME NEW s \in DOMAIN subs'[c], NEW i \in 1..Last', OwnChange(c, i)'
                 PROVE  publications'[i].modification \in {0} \cup Held(c, s)'
        BY DEF OwnHeld
    <2>1. i \in 1..Last
        BY <1>1
    <2>2. publications'[i] = publications[i] /\ OwnChange(c, i)
        BY <1>1, <2>1 DEF OwnChange
    <2> QED BY <1>1, <1>2, <1>3, <2>1, <2>2 DEF OwnHeld
<1>4. ASSUME TakenHeld(c) PROVE TakenHeld(c)'
    <2> SUFFICES ASSUME NEW s \in DOMAIN subs'[c] \ lag'[c].todo, NEW i \in 1..next'[c] - 1
                 PROVE  publications'[i].modification \in {0} \cup Held(c, s)'
        BY DEF TakenHeld
    <2>1. i \in 1..Last /\ i \in 1..next[c] - 1
        BY <1>1
    <2> QED BY <1>1, <1>2, <1>4, <2>1 DEF TakenHeld
<1> QED BY <1>3, <1>4

LEMMA OwnTaken ==
    ASSUME Typed, Seated, Numbering, Seated', NEW c \in Connections, ConnectionNext(c),
           OwnHeld(c)
    PROVE  /\ OwnHeld(c)'
           /\ "snapshot" \notin Faults /\ TakenHeld(c) => TakenHeld(c)'
<1>1. /\ Last \in Nat /\ Last' \in Nat /\ next[c] \in Nat /\ next[c] <= Last + 1
      /\ \A i \in 1..Last : publications'[i] = publications[i]
      /\ next'[c] <= Last' + 1 /\ next' \in [Connections -> Nat \ {0}]
    <2>1. Extends /\ Typed'
        BY ConnectionProgress, NextTyped DEF Next
    <2>2. /\ Last \in Nat /\ Last' \in Nat
          /\ \A i \in 1..Last : publications'[i] = publications[i]
        BY <2>1, PublicationsOK DEF Extends
    <2>3. next[c] \in Nat /\ next' \in [Connections -> Nat \ {0}]
        BY <2>1 DEF Typed
    <2>4. next[c] <= Last + 1 /\ next'[c] <= Last' + 1
        BY DEF Seated, SeatedAt
    <2> QED BY <2>2, <2>3, <2>4
<1>2. \A i \in 1..Last : publications[i].modification \in {0} \cup 1..saved
    BY PublishedSaved
<1>3. ASSUME NEW s \in DOMAIN subs'[c], NEW i \in 1..Last', OwnChange(c, i)'
      PROVE  publications'[i].modification \in {0} \cup Held(c, s)'
    <2>1. Treats(c, s)
        BY TreatsOK
    <2>2. CASE Renewed(c, s) /\ UNCHANGED <<saved, publications>>
        BY <1>2, <2>2, RenewedHolds DEF Last
    <2>3. ASSUME i \in 1..Last, s \in DOMAIN subs[c], Held(c, s) \subseteq Held(c, s)'
          PROVE  publications'[i].modification \in {0} \cup Held(c, s)'
        <3>1. publications'[i] = publications[i] /\ OwnChange(c, i)
            BY <1>1, <1>3, <2>3 DEF OwnChange
        <3> QED BY <2>3, <3>1 DEF OwnHeld
    <2>4. CASE Kept(c, s) /\ UNCHANGED publications
        BY <2>3, <2>4, KeptHolds DEF Last, Kept
    <2>5. CASE SentTo(c, s, publications[next[c]].modification) /\ Takes(c)
        <3>1. publications[next[c]].modification \in Numbered
            BY <2>5, PublicationsOK DEF Takes, Publication
        <3> QED BY <2>3, <2>5, <3>1, SentHolds DEF Last, SentTo, Takes
    <2>6. CASE SentTo(c, s, made[c]) /\ Send(Change(c, made[c]))
        <3>1. made[c] \in Numbered
            BY DEF Typed
        <3>2. Held(c, s) \subseteq Held(c, s)' /\ made[c] \in {0} \cup Held(c, s)'
            BY <2>6, <3>1, SentHolds
        <3>3. /\ Change(c, made[c]) \in Publication
              /\ Change(c, made[c]).modification = made[c]
            BY <3>1, ChangeOK DEF Change, Origins
        <3>4. Last' = Last + 1 /\ publications'[Last + 1].modification = made[c]
            BY <2>6, <3>3, SendOK
        <3>5. CASE i = Last + 1
            BY <3>2, <3>4, <3>5
        <3>6. CASE i \in 1..Last
            BY <2>3, <2>6, <3>2, <3>6 DEF SentTo
        <3> QED BY <1>1, <3>4, <3>5, <3>6
    <2> QED BY <2>1, <2>2, <2>4, <2>5, <2>6 DEF Treats, Stays, Takes
<1>4. ASSUME "snapshot" \notin Faults, TakenHeld(c),
             NEW s \in DOMAIN subs'[c] \ lag'[c].todo, NEW i \in 1..next'[c] - 1
      PROVE  publications'[i].modification \in {0} \cup Held(c, s)'
    <2>1. Treats(c, s)
        BY TreatsOK
    <2>2. i \in 1..Last'
        BY <1>1
    <2>3. CASE Renewed(c, s) /\ UNCHANGED <<saved, publications>>
        BY <1>2, <2>2, <2>3, RenewedHolds DEF Last
    <2>4. ASSUME i \in 1..next[c] - 1, s \in DOMAIN subs[c] \ lag[c].todo,
                 Held(c, s) \subseteq Held(c, s)'
          PROVE  publications'[i].modification \in {0} \cup Held(c, s)'
        <3>1. i \in 1..Last
            BY <1>1, <2>4
        <3> QED BY <1>1, <1>4, <2>4, <3>1 DEF TakenHeld
    <2>5. CASE Kept(c, s) /\ Stays(c) /\ (s \in lag[c].todo => s \in lag'[c].todo)
        BY <2>4, <2>5, KeptHolds DEF Kept, Stays
    <2>6. CASE Kept(c, s) /\ Takes(c) /\ lag'[c] = lag[c] /\ OwnChange(c, next[c])
        <3>1. CASE i = next[c]
            <4>1. publications[i].modification \in {0} \cup Held(c, s)
                BY <2>6, <3>1 DEF OwnHeld, Kept, Takes
            <4> QED BY <2>6, <4>1, KeptHolds DEF Takes
        <3>2. CASE i \in 1..next[c] - 1
            BY <2>4, <2>6, <3>2, KeptHolds DEF Kept
        <3> QED BY <1>1, <2>6, <3>1, <3>2 DEF Takes
    <2>7. CASE SentTo(c, s, publications[next[c]].modification) /\ Takes(c) /\ lag'[c] = lag[c]
        <3>1. publications[next[c]].modification \in Numbered
            BY <2>7, PublicationsOK DEF Takes, Publication
        <3>2. /\ Held(c, s) \subseteq Held(c, s)'
              /\ publications[next[c]].modification \in {0} \cup Held(c, s)'
            BY <2>7, <3>1, SentHolds
        <3>3. CASE i = next[c]
            BY <2>7, <3>2, <3>3 DEF Takes
        <3>4. CASE i \in 1..next[c] - 1
            BY <2>4, <2>7, <3>2, <3>4 DEF SentTo
        <3> QED BY <1>1, <2>7, <3>3, <3>4 DEF Takes
    <2>8. CASE SentTo(c, s, made[c]) /\ next'[c] = next[c] /\ lag'[c] = lag[c]
        <3>1. made[c] \in Numbered
            BY DEF Typed
        <3> QED BY <2>4, <2>8, <3>1, SentHolds DEF SentTo
    <2> QED BY <1>4, <2>1, <2>3, <2>5, <2>6, <2>7, <2>8 DEF Treats
<1> QED BY <1>3, <1>4 DEF OwnHeld, TakenHeld

Delivering ==
    \A c \in Connections : OwnHeld(c) /\ ("snapshot" \notin Faults => TakenHeld(c))

LEMMA NextDelivering ==
    Typed /\ Numbering /\ Seated /\ Delivering /\ [Next]_vars => Delivering'
<1> SUFFICES ASSUME Typed, Numbering, Seated, Delivering, [Next]_vars, NEW c \in Connections
             PROVE  OwnHeld(c)' /\ ("snapshot" \notin Faults => TakenHeld(c)')
    BY DEF Delivering
<1>1. OwnHeld(c) /\ ("snapshot" \notin Faults => TakenHeld(c)) /\ Seated'
    BY NextSeated DEF Delivering
<1>2. CASE ConnectionNext(c)
    BY <1>1, <1>2, OwnTaken
<1>3. CASE Quiet(c)
    BY <1>1, <1>3, QuietHeld
<1> QED BY <1>2, <1>3, NextFor

LEMMA DeliveringAlways == Spec => []Delivering
<1>1. Init => Delivering
    <2> SUFFICES ASSUME Init, NEW c \in Connections PROVE OwnHeld(c) /\ TakenHeld(c)
        BY DEF Delivering
    <2>1. subs[c] = <<>>
        BY DEF Init
    <2> QED BY <2>1 DEF OwnHeld, TakenHeld
<1>2. Typed /\ (Numbering /\ Seated) /\ Delivering /\ [Next]_vars => Delivering'
    BY NextDelivering
<1> QED BY <1>1, <1>2, TypedAlways, NumberingAlways, PTL DEF Spec

-----------------------------------------------------------------------------
(* What was sent to a subscription was published before the connection's   *)
(* receiver, or was its own change, and it was sent it once.               *)

Sound(through, patches) ==
    /\ \A i \in DOMAIN patches : patches[i] > through
    /\ \A i, j \in DOMAIN patches : patches[i] = patches[j] => i = j

SentAt(c, n) == \E i \in Sends(n) : i < next[c] \/ OwnChange(c, i)

SentSound(c) ==
    \A s \in DOMAIN subs[c] :
        /\ subs[c][s].through <= saved
        /\ Sound(subs[c][s].through, subs[c][s].patches)
        /\ \A n \in Range(subs[c][s].patches) : SentAt(c, n)

LEMMA SentAtKept ==
    ASSUME Typed, Extends, NEW c \in Connections, next[c] <= next'[c], next'[c] \in Nat,
           NEW n, SentAt(c, n)
    PROVE  SentAt(c, n)'
<1>1. Last \in Nat /\ Last' \in Nat /\ Last <= Last' /\ next[c] \in Nat
    BY PublicationsOK DEF Extends, Typed
<1>2. PICK i \in Sends(n) : i < next[c] \/ OwnChange(c, i)
    BY DEF SentAt
<1>3. i \in 1..Last /\ publications'[i] = publications[i]
    BY <1>2 DEF Sends, Extends
<1>4. i \in Sends(n)' /\ (i < next'[c] \/ OwnChange(c, i)')
    BY <1>1, <1>2, <1>3 DEF Sends, OwnChange
<1> QED BY <1>4 DEF SentAt

LEMMA SoundAppended ==
    ASSUME NEW S, NEW q \in Seq(S), NEW n \in S, NEW through, Sound(through, q), n > through,
           n \notin Range(q)
    PROVE  Sound(through, Append(q, n))
<1>1. /\ Len(q) \in Nat /\ DOMAIN q = 1..Len(q) /\ DOMAIN Append(q, n) = 1..Len(q) + 1
      /\ \A i \in 1..Len(q) : Append(q, n)[i] = q[i]
      /\ Append(q, n)[Len(q) + 1] = n
    BY AppendedTo
<1>2. \A i \in DOMAIN Append(q, n) :
          i = Len(q) + 1 \/ (i \in DOMAIN q /\ Append(q, n)[i] = q[i])
    BY <1>1
<1>3. \A i \in DOMAIN q : q[i] # n
    BY DEF Range
<1> QED BY <1>1, <1>2, <1>3 DEF Sound

(* Subscription s is sent a modification it was not sent before.           *)
LEMMA SentNew ==
    ASSUME Typed, Extends, NEW c \in Connections, next[c] <= next'[c], next'[c] \in Nat,
           SentSound(c), saved' = saved, NEW n \in Numbered, NEW s, SentTo(c, s, n),
           n \in Modification => ~SentAt(c, n) /\ SentAt(c, n)'
    PROVE  /\ subs'[c][s].through <= saved'
           /\ Sound(subs'[c][s].through, subs'[c][s].patches)
           /\ \A m \in Range(subs'[c][s].patches) : SentAt(c, m)'
<1>1. /\ s \in DOMAIN subs[c] /\ IsSubscription(subs[c][s])
      /\ subs'[c][s].through = subs[c][s].through
    BY DEF SentTo, Typed, SubsTyped
<1>2. /\ subs[c][s].through <= saved
      /\ Sound(subs[c][s].through, subs[c][s].patches)
      /\ \A m \in Range(subs[c][s].patches) : SentAt(c, m)
    BY <1>1 DEF SentSound
<1>3. \A m \in Range(subs[c][s].patches) : SentAt(c, m)'
    BY <1>2, SentAtKept
<1>4. CASE n # 0 /\ n > subs[c][s].through
    <2>1. n \in Modification /\ subs[c][s].patches \in Seq(Modification)
        BY <1>1, <1>4, MaxAssumption DEF Numbered, Modification, IsSubscription
    <2>2. subs'[c][s].patches = Append(subs[c][s].patches, n)
        BY <1>4 DEF SentTo
    <2>3. n \notin Range(subs[c][s].patches)
        BY <1>2, <2>1
    <2>4. Range(subs'[c][s].patches) = Range(subs[c][s].patches) \cup {n}
        BY <2>1, <2>2, RangeAppended
    <2>5. Sound(subs'[c][s].through, subs'[c][s].patches)
        BY <1>1, <1>2, <1>4, <2>1, <2>2, <2>3, SoundAppended
    <2> QED BY <1>1, <1>2, <1>3, <2>1, <2>4, <2>5
<1>5. CASE ~(n # 0 /\ n > subs[c][s].through)
    <2>1. subs'[c][s].patches = subs[c][s].patches
        BY <1>5 DEF SentTo
    <2> QED BY <1>1, <1>2, <1>3, <2>1
<1> QED BY <1>4, <1>5

LEMMA QuietSent ==
    ASSUME Typed, NEW c \in Connections, SentSound(c), Quiet(c), saved' \in Nat, saved <= saved'
    PROVE  SentSound(c)'
<1>1. /\ Extends /\ next'[c] = next[c] /\ subs'[c] = subs[c] /\ next[c] \in Nat
    BY DEF Quiet, Typed
<1> SUFFICES ASSUME NEW s \in DOMAIN subs'[c]
             PROVE  /\ subs'[c][s].through <= saved'
                    /\ Sound(subs'[c][s].through, subs'[c][s].patches)
                    /\ \A n \in Range(subs'[c][s].patches) : SentAt(c, n)'
    BY DEF SentSound
<1>2. /\ subs[c][s].through <= saved
      /\ Sound(subs[c][s].through, subs[c][s].patches)
      /\ \A n \in Range(subs[c][s].patches) : SentAt(c, n)
    BY <1>1 DEF SentSound
<1>3. subs[c][s].through \in Nat /\ saved \in Nat
    <2>1. IsSubscription(subs[c][s]) /\ s \in DOMAIN subs[c]
        BY <1>1 DEF Typed, SubsTyped
    <2> QED BY <2>1, SavedOK, MaxAssumption DEF IsSubscription, Numbered
<1>4. \A n \in Range(subs[c][s].patches) : SentAt(c, n)'
    BY <1>1, <1>2, SentAtKept
<1> QED BY <1>1, <1>2, <1>3, <1>4

LEMMA OwnSent ==
    ASSUME Typed, Seated, Numbering, Seated', NEW c \in Connections, ConnectionNext(c),
           SentSound(c), saved' \in Nat, saved <= saved'
    PROVE  SentSound(c)'
<1>1. /\ Extends /\ Last \in Nat /\ next[c] \in Nat /\ next[c] <= Last + 1 /\ saved \in Nat
    BY ConnectionProgress, PublicationsOK, SavedOK DEF Typed, Seated, SeatedAt
<1> SUFFICES ASSUME NEW s \in DOMAIN subs'[c]
             PROVE  /\ subs'[c][s].through <= saved'
                    /\ Sound(subs'[c][s].through, subs'[c][s].patches)
                    /\ \A n \in Range(subs'[c][s].patches) : SentAt(c, n)'
    BY DEF SentSound
<1>2. Treats(c, s)
    BY TreatsOK
<1>3. CASE Renewed(c, s) /\ UNCHANGED <<saved, publications>>
    BY <1>1, <1>3 DEF Renewed, Sound, Range
<1>4. ASSUME Kept(c, s), next[c] <= next'[c], next'[c] \in Nat
      PROVE  /\ subs'[c][s].through <= saved'
             /\ Sound(subs'[c][s].through, subs'[c][s].patches)
             /\ \A n \in Range(subs'[c][s].patches) : SentAt(c, n)'
    <2>1. /\ s \in DOMAIN subs[c]
          /\ subs'[c][s].through = subs[c][s].through
          /\ subs'[c][s].patches = subs[c][s].patches
        BY <1>4 DEF Kept
    <2>2. /\ subs[c][s].through <= saved
          /\ Sound(subs[c][s].through, subs[c][s].patches)
          /\ \A n \in Range(subs[c][s].patches) : SentAt(c, n)
        BY <2>1 DEF SentSound
    <2>3. subs[c][s].through \in Nat
        <3>1. IsSubscription(subs[c][s])
            BY <2>1 DEF Typed, SubsTyped
        <3> QED BY <3>1, MaxAssumption DEF IsSubscription, Numbered
    <2>4. \A n \in Range(subs[c][s].patches) : SentAt(c, n)'
        BY <1>1, <1>4, <2>2, SentAtKept
    <2> QED BY <1>1, <2>1, <2>2, <2>3, <2>4
<1>5. CASE Kept(c, s) /\ (Stays(c) \/ Takes(c) \/ next'[c] = Last + 1)
    <2>1. next[c] <= next'[c] /\ next'[c] \in Nat
        BY <1>1, <1>5 DEF Stays, Takes
    <2> QED BY <1>4, <1>5, <2>1
<1>6. CASE /\ SentTo(c, s, publications[next[c]].modification)
           /\ Takes(c) /\ lag'[c] = lag[c] /\ ~OwnChange(c, next[c])
    <2>1. PICK n \in Numbered : n = publications[next[c]].modification
        BY <1>6, PublicationsOK DEF Takes, Publication
    <2>2. next[c] \in Sends(n) /\ next'[c] = next[c] + 1 /\ UNCHANGED publications
        BY <1>6, <2>1 DEF Takes, Sends
    <2>3. ASSUME n \in Modification, SentAt(c, n) PROVE FALSE
        <3>1. PICK i \in Sends(n) : i < next[c] \/ OwnChange(c, i)
            BY <2>3 DEF SentAt
        <3>2. i = next[c]
            BY <2>2, <2>3, <3>1 DEF Numbering, OneSource, Single
        <3> QED BY <1>1, <1>6, <3>1, <3>2
    <2>4. SentAt(c, n)'
        <3>1. next[c] \in Sends(n)' /\ next[c] < next'[c]
            BY <1>1, <2>2 DEF Sends, Last
        <3> QED BY <3>1 DEF SentAt
    <2>5. saved' = saved
        <3>1. CASE MutateSaves(c)
            BY <1>1, <2>2, <3>1 DEF MutateSaves
        <3>2. CASE ~MutateSaves(c)
            BY <3>2
               DEF ConnectionNext, RequestNext, ServeNext, AdmitSubscribes, AdmitCounts, Subscribe,
                   Resync, Unsubscribe, MutateResponds, MutatePanics, TakeChange, TakeOwnCommand,
                   TakeClosing, LagSkips, LagResyncs, LagAnswers, SendNext, SendFrame, Closes,
                   Break
        <3> QED BY <3>1, <3>2
    <2>6. SentTo(c, s, n) /\ next[c] <= next'[c] /\ next'[c] \in Nat
        BY <1>1, <1>6, <2>1, <2>2
    <2> QED BY <1>1, <2>3, <2>4, <2>5, <2>6, SentNew
<1>7. CASE /\ SentTo(c, s, made[c]) /\ Send(Change(c, made[c]))
           /\ next'[c] = next[c] /\ lag'[c] = lag[c]
    <2>1. PICK n \in Numbered : n = made[c]
        BY DEF Typed
    <2>2. /\ Change(c, n) \in Publication /\ Change(c, n).modification = n
          /\ Change(c, n).kind = "change" /\ Change(c, n).origin = c
        BY ChangeOK DEF Change, Origins
    <2>3. Last' = Last + 1 /\ publications'[Last + 1] = Change(c, n)
        BY <1>7, <2>1, <2>2, SendOK
    <2>4. n \in Modification => ~SentAt(c, n)
        BY <2>1 DEF Numbering, OneSource, Makers, SentAt
    <2>5. SentAt(c, n)'
        <3> PICK i : i = Last + 1
            OBVIOUS
        <3>1. i \in 1..Last' /\ publications'[i] = Change(c, n)
            BY <1>1, <2>3
        <3>2. i \in Sends(n)' /\ OwnChange(c, i)'
            BY <2>2, <3>1 DEF Sends, OwnChange
        <3> QED BY <3>2 DEF SentAt
    <2>6. saved' = saved
        <3>1. CASE MutateSaves(c)
            BY <1>1, <2>3, <3>1 DEF MutateSaves, server, Last
        <3>2. CASE ~MutateSaves(c)
            BY <3>2
               DEF ConnectionNext, RequestNext, ServeNext, AdmitSubscribes, AdmitCounts, Subscribe,
                   Resync, Unsubscribe, MutateResponds, MutatePanics, TakeChange, TakeOwnCommand,
                   TakeClosing, LagSkips, LagResyncs, LagAnswers, SendNext, SendFrame, Closes,
                   Break
        <3> QED BY <3>1, <3>2
    <2>7. SentTo(c, s, n) /\ next[c] <= next'[c] /\ next'[c] \in Nat
        BY <1>1, <1>7, <2>1
    <2> QED BY <1>1, <2>4, <2>5, <2>6, <2>7, SentNew
<1> QED BY <1>2, <1>3, <1>5, <1>6, <1>7 DEF Treats

Sending == \A c \in Connections : SentSound(c)

LEMMA SavedGrows ==
    ASSUME Typed, [Next]_vars
    PROVE  saved \in Nat /\ saved' \in Nat /\ saved <= saved'
<1>1. ASSUME NEW c \in Connections, ConnectionNext(c) PROVE saved' = saved \/ Save
    BY <1>1 DEF ConnectionNext, RequestNext, ServeNext, AdmitSubscribes, AdmitCounts, Subscribe,
           Resync, Unsubscribe, MutateSaves, MutateResponds, MutatePanics, TakeChange,
           TakeOwnCommand, TakeClosing, LagSkips, LagResyncs, LagAnswers, SendNext, SendFrame,
           Closes, Break
<1>2. ASSUME NEW k \in DOMAIN commands, HostNext(k) \/ CommandNext(k)
      PROVE  saved' = saved \/ Save
    BY <1>2 DEF HostNext, CommandNext, CommandSaves, CommandAnnounces, CommandReturns,
           CommandPublishes, CommandEnds
<1>3. saved' = saved \/ Save
    BY <1>1, <1>2 DEF Next, ApplicationNext, ApplicationSaves, ApplicationPublishes, StartCommand,
           ShutDown, Close, vars
<1> QED BY <1>3, SavedOK DEF Save

LEMMA NextSending == Typed /\ Numbering /\ Seated /\ Sending /\ [Next]_vars => Sending'
<1> SUFFICES ASSUME Typed, Numbering, Seated, Sending, [Next]_vars, NEW c \in Connections
             PROVE  SentSound(c)'
    BY DEF Sending
<1>1. SentSound(c) /\ Seated' /\ saved' \in Nat /\ saved <= saved'
    BY NextSeated, SavedGrows DEF Sending
<1>2. CASE ConnectionNext(c)
    BY <1>1, <1>2, OwnSent
<1>3. CASE Quiet(c)
    BY <1>1, <1>3, QuietSent
<1> QED BY <1>2, <1>3, NextFor

LEMMA SendingAlways == Spec => []Sending
<1>1. Init => Sending
    <2> SUFFICES ASSUME Init, NEW c \in Connections PROVE SentSound(c)
        BY DEF Sending
    <2>1. subs[c] = <<>>
        BY DEF Init
    <2> QED BY <2>1 DEF SentSound
<1>2. Typed /\ (Numbering /\ Seated) /\ Sending /\ [Next]_vars => Sending'
    BY NextSending
<1> QED BY <1>1, <1>2, TypedAlways, NumberingAlways, PTL DEF Spec

(* A subscription is sent no modification twice, nor one its snapshot      *)
(* holds, whatever fails: the changes of its connection's own mutations    *)
(* are skipped when the receiver comes to them (server.rs, deliver;        *)
(* lib.rs, take).                                                          *)
THEOREM NothingSentTwice == Spec => []SentOnce
<1>1. Sending => SentOnce
    BY DEF Sending, SentSound, Sound, SentOnce
<1> QED BY <1>1, SendingAlways, PTL

(* A connection that took every publication while nothing is on its way    *)
(* holds all that was saved.                                               *)
LEMMA AllHeld ==
    ASSUME Faults = {}, Typed, Numbering, Seated, Delivering, Sending
    PROVE  NothingMissed
<1> SUFFICES ASSUME Settled, NEW c \in Connections, phase[c] = "select", next[c] > Last,
                    NEW s \in DOMAIN subs[c]
             PROVE  Held(c, s) = 1..saved
    BY DEF NothingMissed, At
<1>1. /\ saved \in Nat /\ saved <= MaxModifications /\ MaxModifications \in Nat
      /\ Last \in Nat /\ next[c] \in Nat
    BY SavedOK, PublicationsOK DEF Typed
<1>2. TakenHeld(c) /\ lag[c].todo = {} /\ SentSound(c)
    BY DEF Delivering, Seated, SeatedAt, Sending
<1>3. ASSUME NEW n \in 1..saved PROVE n \in Held(c, s)
    <2>1. n \in Modification /\ n <= saved /\ n # 0
        BY <1>1 DEF Modification
    <2>2. ~Nowhere(n)
        BY <2>1 DEF Numbering
    <2>3. n \notin unpublished /\ Makers(n) = {} /\ Owers(n) = {}
        <3>1. n \notin unpublished /\ Makers(n) = {}
            BY <2>1 DEF Settled, Makers
        <3>2. \A k \in DOMAIN commands : Owes(k) = 0
            BY DEF Settled, Owes
        <3> QED BY <2>1, <3>1, <3>2 DEF Owers
    <2>4. PICK i \in 1..Last : publications[i].modification = n
        BY <2>2, <2>3 DEF Nowhere, Sends
    <2>5. i \in 1..next[c] - 1
        BY <1>1
    <2> QED BY <1>2, <2>1, <2>4, <2>5 DEF TakenHeld
<1>4. ASSUME NEW n \in Held(c, s) PROVE n \in 1..saved
    <2>1. IsSubscription(subs[c][s]) /\ subs[c][s].through <= saved
        BY <1>2 DEF Typed, SubsTyped, SentSound
    <2>2. subs[c][s].through \in Nat
        BY <2>1, MaxAssumption DEF IsSubscription, Numbered
    <2>3. CASE n \in 1..subs[c][s].through
        BY <1>1, <2>1, <2>2, <2>3
    <2>4. CASE n \in Range(subs[c][s].patches)
        <3>1. n \in Modification
            BY <2>1, <2>4, ElementOfSeq, LenProperties DEF IsSubscription, Range
        <3>2. PICK i \in 1..Last : publications[i].modification = n
            BY <1>2, <2>4 DEF SentSound, SentAt, Sends
        <3>3. n # 0
            BY <3>1, ZeroNoModification
        <3> QED BY <3>2, <3>3, PublishedSaved
    <2> QED BY <2>3, <2>4 DEF Held
<1> QED BY <1>3, <1>4

(* A subscription is sent each modification after its snapshot exactly     *)
(* once: none twice, none past its receiver, and all of them once its      *)
(* connection took every publication.  A snapshot that cannot be built     *)
(* leaves a subscription behind, and a hook that panics loses the          *)
(* modification: neither is supposed here.                                 *)
THEOREM UpdatesReachClients == ASSUME Faults = {} PROVE Spec => []UpdatedOnce
<1>1. Typed /\ (Numbering /\ Seated) /\ Delivering /\ Sending => UpdatedOnce
    <2> SUFFICES ASSUME Typed, Numbering, Seated, Delivering, Sending PROVE UpdatedOnce
        OBVIOUS
    <2>1. SentOnce
        BY DEF Sending, SentSound, Sound, SentOnce
    <2>2. TakenIsHeld
        BY DEF Delivering, TakenHeld, TakenIsHeld
    <2>3. NothingMissed
        BY AllHeld
    <2> QED BY <2>1, <2>2, <2>3 DEF UpdatedOnce
<1> QED BY <1>1, TypedAlways, NumberingAlways, DeliveringAlways, SendingAlways, PTL

-----------------------------------------------------------------------------
(* What the caller of a command holds when it is answered.                 *)

(* What a command announced was published before its outcome.              *)
AnnouncedFirst(k) ==
    \A n \in commands[k].announced :
        \E i \in Sends(n) : \A j \in 1..Last :
            publications[j].kind = "ran" /\ publications[j].command = k => i < j

(* A command is answered once it ran, and what it names was saved.         *)
Named(k) ==
    /\ commands[k].replied => commands[k].phase \in Done
    /\ commands[k].modification \in {0} \cup 1..saved
    /\ AnnouncedFirst(k)

Naming == \A k \in DOMAIN commands : Named(k)

LEMMA AnnouncedKept ==
    ASSUME Typed, Extends, NEW k \in DOMAIN commands, AnnouncedFirst(k),
           commands'[k].announced = commands[k].announced
    PROVE  AnnouncedFirst(k)'
<1>1. Last \in Nat /\ Last' \in Nat /\ Last <= Last'
    BY PublicationsOK DEF Extends
<1> SUFFICES ASSUME NEW n \in commands'[k].announced
             PROVE  \E i \in Sends(n)' : \A j \in 1..Last' :
                       publications'[j].kind = "ran" /\ publications'[j].command = k => i < j
    BY DEF AnnouncedFirst
<1>2. PICK i \in Sends(n) : \A j \in 1..Last :
          publications[j].kind = "ran" /\ publications[j].command = k => i < j
    BY DEF AnnouncedFirst
<1>3. i \in 1..Last /\ i \in Sends(n)'
    BY <1>1, <1>2 DEF Sends, Extends
<1>4. ASSUME NEW j \in 1..Last', publications'[j].kind = "ran", publications'[j].command = k
      PROVE  i < j
    <2>1. CASE j \in 1..Last
        BY <1>2, <1>4, <2>1 DEF Extends
    <2>2. CASE j = Last + 1
        BY <1>1, <1>3, <2>2
    <2> QED BY <1>1, <2>1, <2>2 DEF Extends
<1> QED BY <1>3, <1>4

(* A command is left alone, but for its answer and its phase.              *)
LEMMA NamedKept ==
    ASSUME Typed, Extends, NEW k \in DOMAIN commands, Named(k), saved' \in Nat, saved <= saved',
           commands'[k].announced = commands[k].announced,
           commands'[k].modification = commands[k].modification,
           commands'[k].replied => commands'[k].phase \in Done
    PROVE  Named(k)'
<1>1. AnnouncedFirst(k)'
    BY AnnouncedKept DEF Named
<1>2. saved \in Nat
    BY SavedOK
<1>3. commands'[k].modification \in {0} \cup 1..saved'
    BY <1>2 DEF Named
<1> QED BY <1>1, <1>3 DEF Named

(* What a connection answers is its own, ran, and was taken or skipped.    *)
LEMMA NewlyAnswered ==
    ASSUME Typed, OutcomesRan, Answering, NEW c \in Connections, ConnectionNext(c),
           NEW k \in DOMAIN commands, commands'[k].replied, ~commands[k].replied
    PROVE  /\ commands[k].origin = c /\ commands[k].phase \in Done
           /\ \E i \in 1..Last :
                 /\ publications[i].kind = "ran" /\ publications[i].command = k
                 /\ publications[i].modification = commands[k].modification
                 /\ \/ TakeOwnCommand(c) /\ i = next[c]
                    \/ LagAnswers(c) /\ i < next[c]
<1>1. TakeOwnCommand(c) \/ LagAnswers(c)
    BY DEF ConnectionNext, RequestNext, ServeNext, AdmitSubscribes, AdmitCounts, Subscribe, Resync,
           Unsubscribe, MutateSaves, MutateResponds, MutatePanics, TakeChange, TakeClosing,
           LagSkips, LagResyncs, SendNext, SendFrame, Closes, Break, server
<1>2. phase[c] # "broken"
    BY <1>1 DEF TakeOwnCommand, LagAnswers, Receives, Idle, At
<1>3. Accounted(c) /\ Placed(c)
    BY <1>2 DEF Answering
<1>4. ASSUME NEW i \in 1..Last, publications[i].kind = "ran", publications[i].command = k
      PROVE  /\ commands[k].phase \in Done
             /\ publications[i].modification = commands[k].modification
    BY <1>4 DEF OutcomesRan, OutcomeOf
<1>5. CASE TakeOwnCommand(c)
    <2>1. Answer(c, {Taken(c).command}) /\ Receives(c) /\ Taken(c).kind = "ran"
        BY <1>5 DEF TakeOwnCommand
    <2>2. k = Taken(c).command /\ k \in running[c]
        <3> DEFINE ks == {Taken(c).command}
        <3>1. Answer(c, ks)
            BY <2>1
        <3> HIDE DEF ks
        <3>2. k \in ks \cap running[c]
            BY <3>1, AnswerOK
        <3> QED BY <3>2 DEF ks
    <2>3. next[c] \in 1..Last /\ Taken(c) = publications[next[c]]
        BY <2>1, TakenOK
    <2> QED BY <1>3, <1>4, <1>5, <2>1, <2>2, <2>3 DEF Accounted
<1>6. CASE LagAnswers(c)
    <2>1. Answer(c, Skipped(c)) /\ phase[c] = "lagging"
        BY <1>6 DEF LagAnswers, At
    <2>2. k \in Skipped(c) /\ k \in running[c]
        BY <2>1, AnswerOK
    <2>3. /\ ran[c][k] \in 1..Last /\ publications[ran[c][k]].kind = "ran"
          /\ publications[ran[c][k]].command = k
        BY <1>3, <2>2 DEF Skipped, Accounted
    <2>4. ran[c][k] < next[c]
        <3>1. lag[c].skipped \in Nat /\ next[c] = lag[c].skipped + 1 /\ ran[c][k] <= lag[c].skipped
            BY <1>3, <2>1, <2>2 DEF Typed, Placed, Skipped
        <3> QED BY <2>3, <3>1
    <2> QED BY <1>3, <1>4, <1>6, <2>2, <2>3, <2>4 DEF Accounted
<1> QED BY <1>1, <1>5, <1>6

LEMMA OthersNamed ==
    ASSUME Typed, Extends, Naming, saved' \in Nat, saved <= saved', NEW k \in DOMAIN commands,
           DOMAIN commands' = DOMAIN commands,
           \A j \in DOMAIN commands \ {k} : commands'[j] = commands[j],
           Named(k)'
    PROVE  Naming'
<1> SUFFICES ASSUME NEW j \in DOMAIN commands' PROVE Named(j)'
    BY DEF Naming
<1>1. CASE j # k
    <2>1. Named(j) /\ commands'[j] = commands[j] /\ j \in DOMAIN commands
        BY <1>1 DEF Naming
    <2> QED BY <2>1, NamedKept DEF Named
<1> QED BY <1>1

LEMMA CommandNaming ==
    ASSUME Typed, OutcomesRan, Numbering, Naming, saved' \in Nat, saved <= saved',
           NEW k \in DOMAIN commands, HostNext(k) \/ CommandNext(k)
    PROVE  Naming'
<1>1. Named(k) /\ commands[k] \in CommandRecord /\ Extends
    BY CommandTyped, OthersApart DEF Naming, Apart
<1>2. CASE CommandSaves(k)
    <2> DEFINE r == [commands[k] EXCEPT !.unannounced = saved']
    <2>1. Becomes(k, r)
        BY <1>2, CommandSavesOK
    <2>2. /\ r.announced = commands[k].announced /\ r.modification = commands[k].modification
          /\ r.replied = commands[k].replied /\ r.phase = commands[k].phase
        BY <1>1 DEF CommandRecord
    <2> HIDE DEF r
    <2>3. Named(k)'
        BY <1>1, <2>1, <2>2, NamedKept DEF Becomes, Named
    <2> QED BY <1>1, <2>1, <2>3, OthersNamed DEF Becomes
<1>3. CASE CommandAnnounces(k)
    <2>1. PICK n \in Numbered : n = commands[k].unannounced
        BY CommandTyped
    <2>2. /\ Send(Change(Application, n)) /\ saved' = saved
          /\ Change(Application, n) \in Publication
          /\ Change(Application, n).modification = n /\ Change(Application, n).kind = "change"
          /\ commands[k].phase = "running"
        BY <1>3, <2>1, ChangeOK DEF CommandAnnounces, Running, Change, Origins
    <2>3. /\ Last \in Nat /\ Last' = Last + 1 /\ publications'[Last + 1] = Change(Application, n)
          /\ \A i \in 1..Last : publications'[i] = publications[i]
        BY <2>2, SendOK
    <2> DEFINE r == [commands[k] EXCEPT !.unannounced = 0, !.announced = @ \cup {n}]
    <2>4. Becomes(k, r)
        BY <1>3, <2>1, CommandAnnouncesOK
    <2>5. /\ r.announced = commands[k].announced \cup {n}
          /\ r.modification = commands[k].modification
          /\ r.replied = commands[k].replied /\ r.phase = "running"
        BY <1>1, <2>2 DEF CommandRecord
    <2> HIDE DEF r
    <2>6. ASSUME NEW j \in 1..Last'
          PROVE  ~(publications'[j].kind = "ran" /\ publications'[j].command = k)
        <3>1. CASE j \in 1..Last
            <4>1. OutcomeOf(publications[j]) /\ publications'[j] = publications[j]
                BY <2>3, <3>1 DEF OutcomesRan
            <4> QED BY <2>2, <4>1 DEF OutcomeOf, Done
        <3>2. CASE j = Last + 1
            BY <2>2, <2>3, <3>2
        <3> QED BY <2>3, <3>1, <3>2
    <2>7. AnnouncedFirst(k)'
        <3>1. \A m : Sends(m)' = Sends(m) \cup (IF n = m THEN {Last + 1} ELSE {})
            BY <2>2, SendsAfter
        <3>2. \A m \in commands[k].announced : Sends(m) # {}
            BY <1>1 DEF Named, AnnouncedFirst
        <3>3. \A m \in commands'[k].announced : Sends(m)' # {}
            BY <2>4, <2>5, <3>1, <3>2 DEF Becomes
        <3> QED BY <2>6, <3>3 DEF AnnouncedFirst
    <2>8. Named(k)'
        BY <1>1, <2>2, <2>4, <2>5, <2>7 DEF Becomes, Named, Done
    <2> QED BY <1>1, <2>4, <2>8, OthersNamed DEF Becomes
<1>4. CASE CommandReturns(k)
    <2>1. /\ DOMAIN commands' = DOMAIN commands
          /\ \A j \in DOMAIN commands \ {k} : commands'[j] = commands[j]
          /\ commands[k].phase = "running"
          /\ commands'[k].modification = commands[k].unannounced
          /\ commands'[k].announced = commands[k].announced
          /\ commands'[k].replied = commands[k].replied
        BY <1>4, ReturnsPhase
    <2>2. commands[k].unannounced \in {0} \cup 1..saved /\ saved' = saved
        <3>1. PICK n \in Numbered : n = commands[k].unannounced
            BY CommandTyped
        <3>2. n \in Modification => n <= saved /\ n \in Nat \ {0}
            <4>1. k \in Owers(n)
                BY <2>1, <3>1 DEF Owers, Owes
            <4> QED BY <4>1, SavedOK, MaxAssumption DEF Numbering, Nowhere, Modification
        <3>3. n \in Modification \/ n = 0
            BY MaxAssumption DEF Numbered, Modification
        <3>4. n \in {0} \cup 1..saved
            BY <3>2, <3>3, SavedOK
        <3> QED BY <1>4, <3>1, <3>4 DEF CommandReturns
    <2>3. AnnouncedFirst(k)'
        BY <1>1, <2>1, AnnouncedKept DEF Named
    <2>4. Named(k)'
        BY <1>1, <2>1, <2>2, <2>3 DEF Named, Done
    <2> QED BY <1>1, <2>1, <2>4, OthersNamed
<1>5. CASE CommandPublishes(k)
    <2>1. /\ DOMAIN commands' = DOMAIN commands
          /\ \A j \in DOMAIN commands \ {k} : commands'[j] = commands[j]
          /\ commands'[k].phase = "published"
          /\ commands'[k].modification = commands[k].modification
          /\ commands'[k].announced = commands[k].announced
        BY <1>5, PublishesPhase
    <2>2. Named(k)'
        BY <1>1, <2>1, NamedKept DEF Done
    <2> QED BY <1>1, <2>1, <2>2, OthersNamed
<1>6. CASE CommandEnds(k)
    <2>1. /\ DOMAIN commands' = DOMAIN commands
          /\ \A j \in DOMAIN commands \ {k} : commands'[j] = commands[j]
          /\ commands'[k].phase = "ended"
          /\ commands'[k].modification = commands[k].modification
          /\ commands'[k].announced = commands[k].announced
        BY <1>6, EndsPhase
    <2>2. Named(k)'
        BY <1>1, <2>1, NamedKept DEF Done
    <2> QED BY <1>1, <2>1, <2>2, OthersNamed
<1> QED BY <1>2, <1>3, <1>4, <1>5, <1>6 DEF HostNext, CommandNext

LEMMA NextNaming ==
    Typed /\ OutcomesRan /\ Answering /\ Numbering /\ Naming /\ [Next]_vars => Naming'
<1> SUFFICES ASSUME Typed, OutcomesRan, Answering, Numbering, Naming, [Next]_vars PROVE Naming'
    OBVIOUS
<1>1. saved' \in Nat /\ saved <= saved'
    BY SavedGrows
<1>2. ASSUME UNCHANGED commands, Extends PROVE Naming'
    <2>1. ASSUME NEW k \in DOMAIN commands PROVE Named(k)'
        BY <1>1, <1>2, NamedKept DEF Naming, Named
    <2> QED BY <1>2, <2>1 DEF Naming
<1>3. CASE UNCHANGED vars \/ ApplicationNext \/ ShutDown \/ Close
    <2>1. Extends
        BY <1>3, OthersApart DEF Apart
    <2>2. UNCHANGED commands
        BY <1>3, ApplicationKeeps DEF vars, server, ShutDown, Close
    <2> QED BY <1>2, <2>1, <2>2
<1>4. ASSUME NEW o \in Origins, StartCommand(o) PROVE Naming'
    <2>1. PICK n : n = Len(commands) + 1
        OBVIOUS
    <2>2. /\ DOMAIN commands' = DOMAIN commands \cup {n}
          /\ \A j \in DOMAIN commands : commands'[j] = commands[j]
        <3>1. /\ DOMAIN commands = 1..Len(commands) /\ DOMAIN commands' = 1..n
              /\ Len(commands) \in Nat
              /\ \A j \in DOMAIN commands : commands'[j] = commands[j]
            BY <1>4, <2>1, StartCommandOK
        <3> QED BY <2>1, <3>1
    <2>3. /\ commands'[n].announced = {} /\ commands'[n].modification = 0
          /\ commands'[n].replied = FALSE
        <3>1. commands'[n] = Started(o)
            BY <1>4, <2>1, StartCommandOK
        <3> QED BY <3>1 DEF Started
    <2>4. Named(n)'
        BY <2>3 DEF Named, AnnouncedFirst
    <2>5. Extends
        BY <1>4, StartProgress
    <2>6. ASSUME NEW k \in DOMAIN commands PROVE Named(k)'
        BY <1>1, <2>2, <2>5, NamedKept DEF Naming, Named
    <2> QED BY <2>2, <2>4, <2>6 DEF Naming
<1>5. ASSUME NEW c \in Connections, ConnectionNext(c) PROVE Naming'
    <2>1. SameCommands /\ Extends
        BY <1>5, ConnectionProgress
    <2>2. ASSUME NEW k \in DOMAIN commands PROVE Named(k)'
        <3>1. /\ commands'[k].phase = commands[k].phase
              /\ commands'[k].announced = commands[k].announced
              /\ commands'[k].modification = commands[k].modification
            BY <2>1 DEF SameCommands
        <3>2. commands'[k].replied => commands[k].phase \in Done
            BY <1>5, NewlyAnswered DEF Naming, Named
        <3> QED BY <1>1, <2>1, <3>1, <3>2, NamedKept DEF Naming
    <2> QED BY <2>1, <2>2 DEF Naming, SameCommands
<1> QED BY <1>1, <1>3, <1>4, <1>5, CommandNaming DEF Next

LEMMA NamingAlways == Spec => []Naming
<1>1. Init => Naming
    BY DEF Init, Naming
<1>2. Typed /\ (OutcomesRan /\ ClosingLast) /\ Answering /\ (Numbering /\ Seated) /\ Naming
      /\ [Next]_vars => Naming'
    BY NextNaming
<1> QED BY <1>1, <1>2, TypedAlways, OutcomesAlways, AnsweringAlways, NumberingAlways, PTL DEF Spec

(* The modifications command k announced or named in its result.           *)
Names(k) == commands[k].announced \cup ({commands[k].modification} \ {0})

Holding ==
    \A k \in DOMAIN commands : \A c \in Connections :
        commands[k].replied /\ commands[k].origin = c =>
            \A s \in DOMAIN subs[c] : Names(k) \subseteq Held(c, s)

LEMMA NamesSaved ==
    ASSUME Typed, Numbering, NEW k \in DOMAIN commands, Named(k)
    PROVE  Names(k) \subseteq 1..saved /\ 0 \notin Names(k)
<1>1. commands[k].announced \subseteq Modification
    BY CommandTyped
<1>2. ASSUME NEW n \in commands[k].announced PROVE n \in 1..saved
    <2>1. PICK i \in 1..Last : publications[i].modification = n
        BY DEF Named, AnnouncedFirst, Sends
    <2>2. n # 0
        BY <1>1, ZeroNoModification
    <2> QED BY <2>1, <2>2, PublishedSaved
<1>3. saved \in Nat
    BY SavedOK
<1> QED BY <1>1, <1>2, <1>3, ZeroNoModification DEF Named, Names

(* Who answers a command.                                                  *)
LEMMA AnsweredBy ==
    ASSUME Typed, OutcomesRan, Answering, [Next]_vars, NEW c \in Connections,
           NEW k \in DOMAIN commands', commands'[k].replied, commands'[k].origin = c
    PROVE  /\ k \in DOMAIN commands /\ commands[k].origin = c
           /\ commands[k].replied \/ ConnectionNext(c)
<1>1. CASE UNCHANGED commands
    BY <1>1
<1>2. ASSUME NEW o \in Origins, StartCommand(o)
      PROVE  k \in DOMAIN commands /\ commands'[k] = commands[k]
    <2>1. /\ DOMAIN commands = 1..Len(commands) /\ Len(commands) \in Nat
          /\ DOMAIN commands' = 1..Len(commands) + 1
          /\ commands'[Len(commands) + 1] = Started(o)
          /\ \A j \in DOMAIN commands : commands'[j] = commands[j]
        BY <1>2, StartCommandOK
    <2>2. k # Len(commands) + 1
        BY <2>1 DEF Started
    <2> QED BY <2>1, <2>2
<1>3. ASSUME NEW j \in DOMAIN commands, HostNext(j) \/ CommandNext(j)
      PROVE  k \in DOMAIN commands /\ commands[k].origin = c /\ commands[k].replied
    <2>1. /\ DOMAIN commands' = DOMAIN commands
          /\ \A i \in DOMAIN commands \ {j} : commands'[i] = commands[i]
          /\ commands'[j].origin = commands[j].origin
          /\ \/ commands'[j].replied = commands[j].replied
             \/ commands'[j].replied = (commands[j].origin = Application)
        <3>1. CASE HostNext(j)
            BY <3>1, HostPhase
        <3>2. CASE CommandReturns(j)
            BY <3>2, ReturnsPhase
        <3>3. CASE CommandPublishes(j)
            BY <3>3, PublishesPhase
        <3>4. CASE CommandEnds(j)
            BY <3>4, EndsPhase
        <3> QED BY <1>3, <3>1, <3>2, <3>3, <3>4 DEF CommandNext
    <2>2. CASE k # j
        BY <2>1, <2>2
    <2>3. CASE k = j
        <3>1. commands[j].origin = c /\ c # Application
            BY <2>1, <2>3, OriginAssumption
        <3> QED BY <2>1, <2>3, <3>1
    <2> QED BY <2>2, <2>3
<1>4. ASSUME NEW d \in Connections, ConnectionNext(d)
      PROVE  /\ k \in DOMAIN commands /\ commands[k].origin = c
             /\ commands[k].replied \/ d = c
    <2>1. k \in DOMAIN commands /\ commands[k].origin = c
        BY <1>4, ConnectionProgress DEF SameCommands
    <2>2. ~commands[k].replied => commands[k].origin = d
        BY <1>4, <2>1, NewlyAnswered
    <2> QED BY <2>1, <2>2
<1>5. CASE UNCHANGED vars \/ ApplicationNext \/ ShutDown \/ Close
    <2>1. UNCHANGED commands
        BY <1>5, ApplicationKeeps DEF vars, server, ShutDown, Close
    <2> QED BY <1>1, <2>1
<1> QED BY <1>2, <1>3, <1>4, <1>5 DEF Next

(* The caller that is answered holds what its command names.               *)
LEMMA AnsweredHolds ==
    ASSUME Typed, OutcomesRan, Answering, Numbering, Seated, Naming,
           NEW c \in Connections, ConnectionNext(c), TakenHeld(c),
           NEW k \in DOMAIN commands, commands'[k].replied, ~commands[k].replied,
           NEW s \in DOMAIN subs'[c]
    PROVE  Names(k) \subseteq Held(c, s)'
<1>1. PICK i \in 1..Last :
          /\ publications[i].kind = "ran" /\ publications[i].command = k
          /\ publications[i].modification = commands[k].modification
          /\ \/ TakeOwnCommand(c) /\ i = next[c]
             \/ LagAnswers(c) /\ i < next[c]
    BY NewlyAnswered
<1>2. Named(k) /\ 0 \notin Names(k) /\ next[c] \in Nat /\ Last \in Nat
    BY NamesSaved, PublicationsOK DEF Naming, Typed
<1>3. ASSUME NEW n \in commands[k].announced
      PROVE  \E j \in 1..Last : j < i /\ publications[j].modification = n
    BY <1>1, <1>2 DEF Named, AnnouncedFirst, Sends
<1>4. CASE TakeOwnCommand(c) /\ i = next[c]
    <2>1. Receives(c) /\ Deliver(c, Taken(c).modification)
        BY <1>4 DEF TakeOwnCommand
    <2>2. /\ Taken(c) = publications[next[c]] /\ Taken(c).modification \in Numbered
          /\ phase[c] = "select"
        BY <2>1, TakenOK DEF At
    <2>3. SentTo(c, s, commands[k].modification) /\ commands[k].modification \in Numbered
        BY <1>1, <1>4, <2>1, <2>2, DeliverSends
    <2>4. /\ Held(c, s) \subseteq Held(c, s)'
          /\ commands[k].modification \in {0} \cup Held(c, s)'
        BY <2>3, SentHolds
    <2>5. s \in DOMAIN subs[c] \ lag[c].todo
        BY <2>2, <2>3 DEF SentTo, Seated, SeatedAt
    <2>6. ASSUME NEW n \in commands[k].announced PROVE n \in {0} \cup Held(c, s)
        <3>1. PICK j \in 1..Last : j < i /\ publications[j].modification = n
            BY <1>3
        <3>2. j \in 1..next[c] - 1
            BY <1>2, <1>4, <3>1
        <3> QED BY <2>5, <3>1, <3>2 DEF TakenHeld
    <2> QED BY <1>2, <2>4, <2>6 DEF Names
<1>5. CASE LagAnswers(c) /\ i < next[c]
    <2>1. UNCHANGED subs /\ lag[c].todo = {}
        BY <1>5 DEF LagAnswers
    <2>2. s \in DOMAIN subs[c] \ lag[c].todo /\ Held(c, s)' = Held(c, s)
        BY <2>1 DEF Held
    <2>3. i \in 1..next[c] - 1
        BY <1>2, <1>5
    <2>4. commands[k].modification \in {0} \cup Held(c, s)
        BY <1>1, <2>2, <2>3 DEF TakenHeld
    <2>5. ASSUME NEW n \in commands[k].announced PROVE n \in {0} \cup Held(c, s)
        <3>1. PICK j \in 1..Last : j < i /\ publications[j].modification = n
            BY <1>3
        <3>2. j \in 1..next[c] - 1
            BY <1>2, <1>5, <3>1
        <3> QED BY <2>2, <3>1, <3>2 DEF TakenHeld
    <2> QED BY <1>2, <2>2, <2>4, <2>5 DEF Names
<1> QED BY <1>1, <1>4, <1>5

LEMMA NextHolding ==
    /\ "snapshot" \notin Faults
    /\ Typed /\ OutcomesRan /\ Answering /\ Numbering /\ Seated /\ Delivering /\ Naming /\ Holding
    /\ [Next]_vars
    => Holding'
<1> SUFFICES ASSUME "snapshot" \notin Faults, Typed, OutcomesRan, Answering, Numbering, Seated,
                    Delivering, Naming, Holding, [Next]_vars,
                    NEW k \in DOMAIN commands', NEW c \in Connections,
                    commands'[k].replied, commands'[k].origin = c,
                    NEW s \in DOMAIN subs'[c]
             PROVE  Names(k)' \subseteq Held(c, s)'
    BY DEF Holding
<1>1. /\ k \in DOMAIN commands /\ commands[k].origin = c
      /\ commands[k].replied \/ ConnectionNext(c)
    BY AnsweredBy
<1>2. CASE commands[k].replied
    <2>1. Named(k) /\ commands[k].phase \in Done
        BY <1>1, <1>2 DEF Naming, Named
    <2>2. Names(k)' = Names(k)
        <3>1. Progresses
            BY NextCases DEF Apart
        <3> QED BY <1>1, <2>1, <3>1 DEF Progresses, Names
    <2>3. Names(k) \subseteq 1..saved
        BY <1>1, <2>1, NamesSaved
    <2>4. s \in DOMAIN subs[c] => Names(k) \subseteq Held(c, s)
        BY <1>1, <1>2 DEF Holding
    <2>5. CASE Quiet(c)
        BY <2>2, <2>4, <2>5 DEF Quiet, Held
    <2>6. CASE ConnectionNext(c)
        <3>1. Treats(c, s)
            BY <2>6, TreatsOK
        <3>2. CASE Renewed(c, s)
            BY <2>2, <2>3, <3>2, RenewedHolds
        <3>3. CASE Kept(c, s)
            BY <2>2, <2>4, <3>3, KeptHolds DEF Kept
        <3>4. ASSUME NEW n \in Numbered, SentTo(c, s, n)
              PROVE  Names(k)' \subseteq Held(c, s)'
            BY <2>2, <2>4, <3>4, SentHolds DEF SentTo
        <3>5. Takes(c) => publications[next[c]].modification \in Numbered
            BY PublicationsOK DEF Takes, Publication
        <3>6. made[c] \in Numbered
            BY DEF Typed
        <3> QED BY <3>1, <3>2, <3>3, <3>4, <3>5, <3>6 DEF Treats
    <2> QED BY <2>5, <2>6, NextFor
<1>3. CASE ~commands[k].replied
    <2>1. ConnectionNext(c) /\ TakenHeld(c)
        BY <1>1, <1>3 DEF Delivering
    <2>2. Names(k)' = Names(k)
        <3>1. SameCommands
            BY <2>1, ConnectionProgress
        <3> QED BY <1>1, <3>1 DEF SameCommands, Names
    <2> QED BY <1>1, <1>3, <2>1, <2>2, AnsweredHolds
<1> QED BY <1>2, <1>3

-----------------------------------------------------------------------------
(* Where the answer to a command lies among what its connection sends.     *)

Ordered(c) ==
    \A i, j \in DOMAIN frames[c] : frames[c][i].command # 0 =>
        /\ j > i => frames[c][j].changes \cap commands[frames[c][i].command].announced = {}
        /\ j < i /\ frames[c][j].kind = "patch" =>
              commands[frames[c][i].command].modification \notin frames[c][j].changes
Ordering == \A c \in Connections : Ordered(c)

LEMMA OrderKept ==
    ASSUME Progresses, NEW c \in Connections, FramesAt(c), Ordered(c), frames'[c] = frames[c]
    PROVE  Ordered(c)'
<1>1. ASSUME NEW i \in DOMAIN frames[c], frames[c][i].command # 0
      PROVE  /\ commands'[frames[c][i].command].announced = commands[frames[c][i].command].announced
             /\ commands'[frames[c][i].command].modification
                   = commands[frames[c][i].command].modification
    BY <1>1 DEF FramesAt, Plain, AnswersOwn, Progresses
<1> QED BY <1>1 DEF Ordered

(* A command does not announce what its result names: each modification is *)
(* published once.                                                         *)
LEMMA ReturnedUnannounced ==
    ASSUME Typed, OutcomesRan, Numbering, Naming, NEW i \in 1..Last,
           publications[i].kind = "ran", publications[i].modification # 0
    PROVE  /\ publications[i].command \in DOMAIN commands
           /\ publications[i].modification \notin commands[publications[i].command].announced
<1>1. PICK k : k = publications[i].command
    OBVIOUS
<1>2. PICK n : n = publications[i].modification
    OBVIOUS
<1>3. k \in DOMAIN commands /\ Named(k)
    BY <1>1 DEF OutcomesRan, OutcomeOf, Naming
<1>4. ASSUME n \in commands[k].announced PROVE FALSE
    <2>1. PICK j \in Sends(n) : j < i
        BY <1>1, <1>3, <1>4 DEF Named, AnnouncedFirst
    <2>2. i \in Sends(n)
        BY <1>2 DEF Sends
    <2>3. n \in Modification
        <3>1. n \in Numbered
            BY <1>2, PublicationsOK DEF Publication
        <3> QED BY <1>2, <3>1, MaxAssumption DEF Numbered, Modification
    <2>4. Single(Sends(n))
        BY <2>3 DEF Numbering, OneSource
    <2>5. i = j
        BY <2>1, <2>2, <2>4 DEF Single
    <2>6. i \in Nat
        BY PublicationsOK
    <2> QED BY <2>1, <2>5, <2>6
<1> QED BY <1>1, <1>2, <1>3, <1>4

LEMMA OwnOrdered ==
    ASSUME Typed, OutcomesRan, Answering, Numbering, Naming, FramesSound,
           NEW c \in Connections, Ordered(c), ConnectionNext(c)
    PROVE  Ordered(c)'
<1>1. /\ Progresses /\ DOMAIN frames = Connections /\ FramesAt(c) /\ frames[c] \in Seq(AnyFrame)
      /\ FramesAt(c)' /\ Answerless(c) /\ SameCommands
    BY ConnectionProgress, OwnFrames DEF FramesSound, FramesAt
<1>2. CASE frames'[c] = frames[c]
    BY <1>1, <1>2, OrderKept
<1>3. CASE \A i \in DOMAIN frames'[c] : Plain(frames'[c][i])
    BY <1>3 DEF Ordered, Plain
<1>4. CASE TakeOwnCommand(c)
    <2>1. /\ next[c] \in 1..Last /\ Taken(c) = publications[next[c]] /\ frames[c] = <<>>
          /\ Taken(c).kind = "ran" /\ Taken(c).modification \in Numbered
        BY <1>4, TakenOK DEF TakeOwnCommand, Receives, Idle, At
    <2>2. PICK k : k = Taken(c).command
        OBVIOUS
    <2>3. PICK n \in Numbered : n = Taken(c).modification
        BY <2>1
    <2>4. k \in DOMAIN commands
        BY <2>1, <2>2 DEF OutcomesRan, OutcomeOf
    <2>5. n # 0 => n \notin commands'[k].announced
        BY <1>1, <2>1, <2>2, <2>3, <2>4, ReturnedUnannounced DEF SameCommands
    <2>6. Compose(c, <<AnswerTo(k)>> \o Patches(c, n))
        BY <1>4, <2>2, <2>3 DEF TakeOwnCommand
    <2>7. PICK patches \in Seq(AnyFrame) :
              /\ patches = Patches(c, n)
              /\ \A i \in DOMAIN patches : patches[i] = Patch(n) /\ n # 0
        BY PatchesOK
    <2>8. PICK head \in AnyFrame : head = AnswerTo(k) /\ head.command = k
        BY <2>4, FrameKinds, LenProperties DEF Typed
    <2>9. frames'[c] = <<head>> \o patches
        BY <1>1, <2>1, <2>6, <2>7, <2>8 DEF Compose
    <2>10. /\ Len(frames'[c]) = 1 + Len(patches) /\ frames'[c] \in Seq(AnyFrame)
           /\ \A i \in 1..1 + Len(patches) :
                 frames'[c][i] = IF i <= 1 THEN head ELSE patches[i - 1]
        BY <2>9, ConcatProperties
    <2>11. /\ DOMAIN frames'[c] = 1..1 + Len(patches)
           /\ Len(patches) \in Nat /\ DOMAIN patches = 1..Len(patches)
        BY <2>10, LenProperties
    <2>12. ASSUME NEW i \in DOMAIN frames'[c], i # 1
           PROVE  frames'[c][i] = Patch(n) /\ n # 0
        <3>1. i - 1 \in DOMAIN patches /\ frames'[c][i] = patches[i - 1]
            BY <2>10, <2>11, <2>12
        <3> QED BY <2>7, <3>1
    <2>13. frames'[c][1] = head
        BY <2>10, <2>11
    <2>14. ASSUME NEW i \in DOMAIN frames'[c], i # 1
           PROVE  frames'[c][i].command = 0 /\ frames'[c][i].changes \cap commands'[k].announced = {}
        BY <2>5, <2>12, <2>14 DEF Patch
    <2>15. ASSUME NEW i \in DOMAIN frames'[c], NEW j \in DOMAIN frames'[c],
                  frames'[c][i].command # 0
           PROVE  /\ i = 1 /\ frames'[c][i].command = k /\ ~(j < i)
                  /\ j > i => frames'[c][j].changes \cap commands'[k].announced = {}
        <3>1. i = 1
            BY <2>14, <2>15
        <3>2. ~(j < 1) /\ (j > 1 => j # 1)
            BY <2>11
        <3> QED BY <2>8, <2>13, <2>14, <3>1, <3>2
    <2> QED BY <2>15 DEF Ordered
<1>5. CASE LagAnswers(c)
    <2>1. phase[c] = "lagging" /\ Accounted(c)
        BY <1>5 DEF LagAnswers, At, Answering
    <2>2. PICK ks : ks = Skipped(c) \cap running[c]
        OBVIOUS
    <2>3. PICK sent \in AnswersTo(c, ks) : Compose(c, sent)
        BY <1>5, <2>2 DEF LagAnswers
    <2>4. ks \subseteq DOMAIN commands /\ ks \subseteq Nat
        BY <2>1, <2>2, LenProperties DEF Accounted, Typed
    <2>5. sent \in Seq(AnyFrame) /\ \A i \in DOMAIN sent : \E k \in ks : sent[i] = AnswerTo(k)
        BY <2>4, AnswersOK
    <2>6. \A i \in DOMAIN sent : sent[i].kind = "answer" /\ sent[i].changes = {}
        BY <2>5 DEF AnswerTo
    <2>7. Follows(c, sent)
        BY <1>1, <2>3, <2>5, Composed
    <2>8. ASSUME NEW i \in DOMAIN frames'[c]
          PROVE  \/ /\ i \in DOMAIN frames[c] /\ frames'[c][i].command = 0
                    /\ frames'[c][i].kind = "snapshot"
                 \/ /\ i \notin DOMAIN frames[c] /\ frames'[c][i].kind = "answer"
                    /\ frames'[c][i].changes = {}
        BY <1>1, <2>1, <2>6, <2>7 DEF Follows, FramesAt, Plain
    <2>9. /\ DOMAIN frames[c] = 1..Len(frames[c]) /\ Len(frames[c]) \in Nat
          /\ DOMAIN frames'[c] = 1..Len(frames'[c]) /\ Len(frames'[c]) \in Nat
        BY <1>1, <2>7, LenProperties DEF Follows
    <2>10. ASSUME NEW i \in DOMAIN frames'[c], NEW j \in DOMAIN frames'[c],
                  frames'[c][i].command # 0
           PROVE  /\ j > i => frames'[c][j].changes = {}
                  /\ frames'[c][j].kind # "patch"
        <3>1. i \notin DOMAIN frames[c]
            BY <2>8, <2>10
        <3>2. j > i => j \notin DOMAIN frames[c]
            BY <2>9, <3>1
        <3> QED BY <2>8, <3>2
    <2> QED BY <2>10 DEF Ordered
<1>6. CASE SendFrame(c)
    <2>1. frames[c] # <<>> /\ frames'[c] = Tail(frames[c]) /\ UNCHANGED commands
        BY <1>1, <1>6 DEF SendFrame, server
    <2>2. /\ Tail(frames[c]) \in Seq(AnyFrame) /\ Len(Tail(frames[c])) = Len(frames[c]) - 1
          /\ \A i \in 1..Len(Tail(frames[c])) : Tail(frames[c])[i] = frames[c][i + 1]
        BY <1>1, <2>1, HeadTailProperties
    <2>3. /\ DOMAIN frames[c] = 1..Len(frames[c]) /\ Len(frames[c]) \in Nat
          /\ DOMAIN frames'[c] = 1..Len(frames[c]) - 1
        BY <1>1, <2>1, <2>2, LenProperties
    <2>4. \A i \in DOMAIN frames'[c] :
              i + 1 \in DOMAIN frames[c] /\ frames'[c][i] = frames[c][i + 1]
        BY <2>1, <2>2, <2>3
    <2>5. ASSUME NEW i \in DOMAIN frames'[c], NEW j \in DOMAIN frames'[c],
                 frames'[c][i].command # 0
          PROVE  /\ j > i =>
                       frames'[c][j].changes \cap commands[frames'[c][i].command].announced = {}
                 /\ j < i /\ frames'[c][j].kind = "patch" =>
                       commands[frames'[c][i].command].modification \notin frames'[c][j].changes
        <3>1. PICK x \in DOMAIN frames[c] : x = i + 1 /\ frames'[c][i] = frames[c][x]
            BY <2>4
        <3>2. PICK y \in DOMAIN frames[c] : y = j + 1 /\ frames'[c][j] = frames[c][y]
            BY <2>4
        <3>3. (j > i => y > x) /\ (j < i => y < x)
            BY <2>3, <3>1, <3>2
        <3> QED BY <2>5, <3>1, <3>2, <3>3 DEF Ordered
    <2> QED BY <2>1, <2>5 DEF Ordered
<1> QED BY <1>1, <1>2, <1>3, <1>4, <1>5, <1>6 DEF Answerless

LEMMA NextOrdering ==
    Typed /\ OutcomesRan /\ Answering /\ Numbering /\ Naming /\ FramesSound /\ Ordering
    /\ [Next]_vars => Ordering'
<1> SUFFICES ASSUME Typed, OutcomesRan, Answering, Numbering, Naming, FramesSound, Ordering,
                    [Next]_vars
             PROVE  Ordering'
    OBVIOUS
<1>1. ASSUME Progresses, UNCHANGED frames PROVE Ordering'
    BY <1>1, OrderKept DEF Ordering, FramesSound
<1>2. CASE UNCHANGED vars \/ ApplicationNext \/ ShutDown \/ Close
    BY <1>1, <1>2, ApplicationKeeps, UnchangedProgress DEF vars, server, connection, ShutDown, Close
<1>3. ASSUME NEW o \in Origins, StartCommand(o) PROVE Ordering'
    BY <1>1, <1>3, StartProgress DEF StartCommand
<1>4. ASSUME NEW k \in DOMAIN commands, HostNext(k) \/ CommandNext(k) PROVE Ordering'
    <2>1. Progresses
        BY <1>4, CommandProgress
    <2>2. UNCHANGED frames
        BY <1>4 DEF HostNext, CommandNext, CommandSaves, CommandAnnounces, CommandReturns,
           CommandPublishes, CommandEnds, connection
    <2> QED BY <1>1, <2>1, <2>2
<1>5. ASSUME NEW c \in Connections, ConnectionNext(c) PROVE Ordering'
    <2>1. Progresses /\ \A d \in Connections \ {c} : frames'[d] = frames[d]
        BY <1>5, ConnectionProgress, OthersFrames DEF FramesSound
    <2>2. \A d \in Connections \ {c} : Ordered(d)'
        BY <2>1, OrderKept DEF Ordering, FramesSound
    <2>3. Ordered(c)'
        BY <1>5, OwnOrdered DEF Ordering
    <2> QED BY <2>2, <2>3 DEF Ordering
<1> QED BY <1>2, <1>3, <1>4, <1>5 DEF Next

(* When a caller reads the answer to its command it has read every change  *)
(* announced while the command ran, and the one the command made follows,  *)
(* unless a snapshot already brought it: though the answer may have been   *)
(* found among skipped publications, and though a patch hook may have      *)
(* panicked.  What the command announced was published before its outcome, *)
(* and a connection answers when its clients have been sent all up to that *)
(* (lib.rs, take and answer_skipped).  A snapshot that cannot be built     *)
(* leaves a subscription behind (server.rs, resync_all): that none fails   *)
(* is supposed.                                                            *)
THEOREM AnsweredCallersHold == ASSUME "snapshot" \notin Faults PROVE Spec => []CallersHold
<1>1. Init => Holding
    BY DEF Init, Holding
<1>2. Typed /\ (OutcomesRan /\ ClosingLast) /\ Answering /\ (Numbering /\ Seated) /\ Delivering
      /\ Naming /\ Holding /\ [Next]_vars => Holding'
    BY NextHolding
<1>3. Init => Ordering
    BY DEF Init, Ordering, Ordered
<1>4. Typed /\ (OutcomesRan /\ ClosingLast) /\ Answering /\ (Numbering /\ Seated) /\ Naming
      /\ FramesSound /\ Ordering /\ [Next]_vars => Ordering'
    BY NextOrdering
<1>5. Typed /\ Holding /\ Ordering => CallersHold
    <2> SUFFICES ASSUME Typed, Holding, Ordering, NEW k \in DOMAIN commands,
                        NEW c \in Connections, c = commands[k].origin, commands[k].replied
                 PROVE  /\ \A s \in DOMAIN subs[c] : Names(k) \subseteq Held(c, s)
                        /\ \A i, j \in DOMAIN frames[c] : frames[c][i].command = k =>
                              /\ j > i => frames[c][j].changes \cap commands[k].announced = {}
                              /\ j < i /\ frames[c][j].kind = "patch" =>
                                    commands[k].modification \notin frames[c][j].changes
        BY CommandTyped DEF CallersHold, Names, Origins
    <2>1. k # 0
        BY LenProperties DEF Typed
    <2>2. \A s \in DOMAIN subs[c] : Names(k) \subseteq Held(c, s)
        BY DEF Holding
    <2> QED BY <2>1, <2>2 DEF Ordering, Ordered
<1> QED BY <1>1, <1>2, <1>3, <1>4, <1>5, TypedAlways, FramesAlways, OutcomesAlways, AnsweringAlways, NumberingAlways,
           DeliveringAlways, NamingAlways, PTL DEF Spec

=============================================================================
