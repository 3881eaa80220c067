-------------------------- MODULE EditFenceProofs --------------------------
(***************************************************************************)
(* For every number of threads, requests, operations and changes: an edit  *)
(* fenced on an etag is in the stored document only as written against a   *)
(* part of what the etag names, and, until the document is removed,        *)
(* against the whole of it and once: though the service writes it as       *)
(* operations on a read of its own before the fence is judged, and other   *)
(* calls commit, migrate, remove and create the document in between.       *)
(***************************************************************************)
EXTENDS CollaborationStoreProofs

(* Operations a job names, and those of an edit that its call wrote: they  *)
(* are its own until they are swapped in.                                  *)
Named(j) ==
    IF j.phase # "idle" /\ j.call \in Requested THEN j.request.base \cup j.request.update
    ELSE j.history

OwnEdit(j) ==
    /\ j.phase \in {"judge", "commit"} /\ j.call = "edit"
    /\ \E n \in 1..Len(operations) :
          /\ j.request.update = {n}
          /\ operations[n].deps = j.request.base
          /\ operations[n].fence = j.request.fence

Loose(j) == IF OwnEdit(j) THEN j.request.base ELSE Named(j)

(* The operations that what is stored, sent or under way may bring into a  *)
(* document again.                                                         *)
Public ==
    (IF stored = None THEN {} ELSE stored.checkpoint)
        \cup UNION {r.base \cup r.update : r \in sent}
Circulating == Public \cup UNION {Loose(job[t]) : t \in Threads}

Fenced(n) == operations[n].fence # None
Etags == {changes[k].after : k \in DOMAIN changes} \ {None}

(* An operation follows only operations made before it.                    *)
Earlier == \A n \in 1..Len(operations) : operations[n].deps \subseteq 1..(n - 1)

(* No edit is written before a document is stored, and one that is not     *)
(* removed stays stored.                                                   *)
StoredFirst ==
    /\ ~Fenced(1)
    /\ changes = <<>> => \A n \in 1..Len(operations) : ~Fenced(n)
    /\ NeverRemoved /\ changes # <<>> => stored # None

(* A fence is the etag of a document that was stored.                      *)
Etagged ==
    /\ \A etag \in Etags : Known(etag)
    /\ stored # None => stored.checkpoint \in Etags
    /\ \A r \in sent : r.call = "edit" => r.fence \in Etags
    /\ \A t \in Threads :
          job[t].phase # "idle" /\ job[t].call = "edit" => job[t].request.fence \in Etags

(* Every history begins somewhere.                                         *)
Rooted ==
    /\ stored # None => Roots(stored.checkpoint) # {}
    /\ \A r \in sent : /\ r.call = "bootstrap" => Roots(r.update) # {}
                       /\ r.call = "import" => Roots(r.base) # {}
    /\ \A t \in Threads :
          /\ job[t].phase # "idle" /\ job[t].call = "bootstrap" => Roots(job[t].request.update) # {}
          /\ job[t].phase \in {"judge", "commit"} =>
                /\ job[t].call \in Giving => Roots(job[t].history) # {}
                /\ job[t].call = "edit" => Roots(job[t].request.base) # {}

(* A document that is not removed never comes back to an etag it had.      *)
Advancing ==
    NeverRemoved /\ stored # None =>
        \A etag \in Etags : etag = stored.checkpoint \/ ~ stored.checkpoint \subseteq etag

(* ... so that an edit is written on the document of its fence, or on one  *)
(* the fence does not hold.                                                *)
WrittenOn ==
    \A t \in Threads :
        job[t].phase \in {"judge", "commit"} /\ job[t].call = "edit" /\ NeverRemoved =>
            LET request == job[t].request
            IN request.base = request.fence \/ ~ request.base \subseteq request.fence

(* What was judged of an update besides holds of the envelope it replaces. *)
Founded ==
    \A t \in Threads :
        job[t].phase = "commit" /\ job[t].call \in Requested /\ job[t].read # None =>
            LET request == job[t].request
                checkpoint == job[t].read.checkpoint
            IN /\ Roots(request.update) \subseteq checkpoint
               /\ request.base \subseteq checkpoint
               /\ Dependencies(request.update) \subseteq request.base \cup request.update

(* A migration brings one operation that nothing else names.               *)
Elsewhere(t, n) ==
    /\ n \notin Public
    /\ \A etag \in Etags : n \notin etag
    /\ \A u \in Threads \ {t} : n \notin Named(job[u])
Migrating ==
    \A t \in Threads :
        job[t].phase \in {"judge", "commit"} /\ job[t].call = "migrate" =>
            \E n \in 1..Len(operations) :
                /\ n # 1 /\ ~Fenced(n)
                /\ job[t].history \in {{n}, job[t].of.checkpoint \cup {n}}
                /\ job[t].history # {n} => operations[n].deps # {}
                /\ Elsewhere(t, n)

(* An edit that circulates was accepted over the document of its fence,    *)
(* which held all it was written on.                                       *)
Accepting ==
    \A n \in Circulating : Fenced(n) =>
        /\ operations[n].fence \in Etags
        /\ operations[n].deps \subseteq operations[n].fence
        /\ NeverRemoved => operations[n].deps = operations[n].fence
        /\ \E r \in operations[n].deps : operations[r].deps = {}

(* It is in the stored document, or of a history the document left.        *)
LeftBehind ==
    NeverRemoved /\ stored # None =>
        \A n \in Circulating : Fenced(n) =>
            \/ n \in stored.checkpoint
            \/ \E r \in operations[n].deps : operations[r].deps = {} /\ r \notin stored.checkpoint

(* One etag is moved on from by one edit.                                  *)
OneEach ==
    NeverRemoved /\ stored # None =>
        \A n, m \in stored.checkpoint :
            Fenced(n) /\ operations[m].fence = operations[n].fence => m = n

IInv ==
    /\ Earlier /\ StoredFirst /\ Etagged /\ Rooted /\ Advancing /\ WrittenOn /\ Founded
    /\ Migrating /\ Accepting /\ LeftBehind /\ OneEach


-----------------------------------------------------------------------------
(* What a step other than a swap names: in a request that is sent, and in  *)
(* the job of a thread.                                                    *)

(* The operations a step makes, and those of them that are no edit's.      *)
Fresh == NewOperation..Len(operations')
Plain == {n \in Fresh : operations'[n].fence = None}

Sends(r) ==
    /\ r.base \cup r.update \subseteq Public \cup Plain
    /\ r.call = "import" => stored # None /\ r.base = stored.checkpoint
    /\ r.call = "edit" => stored # None /\ r.fence = stored.checkpoint
    /\ r.call = "bootstrap" =>
          \/ \E n \in Plain : r.update = {n} /\ operations'[n].deps = {}
          \/ \E q \in sent : q.call = "import" /\ r.update = q.base \cup q.update

Delivers(t) ==
    /\ job'[t].phase \in {"prepare", "judge"}
    /\ \E r \in sent :
          /\ job'[t].call = r.call
          /\ job'[t].phase = "judge" => r.call \notin {"edit", "edit_text"}
          /\ job'[t].request.base = r.base /\ job'[t].request.update = r.update
          /\ job'[t].request.fence = r.fence

WritesEdit(t) ==
    LET request == job'[t].request
    IN /\ job[t].phase = "prepare" /\ job[t].call = "edit"
       /\ job'[t].phase = "judge" /\ job'[t].call = "edit"
       /\ stored # None
       /\ request.base = stored.checkpoint
       /\ request.fence = job[t].request.fence
       /\ \/ request.update \subseteq stored.checkpoint
          \/ \E n \in Fresh : /\ request.update = {n}
                              /\ operations'[n].deps = request.base
                              /\ operations'[n].fence = request.fence

WritesText(t) ==
    /\ job[t].phase = "prepare" /\ job[t].call = "edit_text"
    /\ job'[t].phase = "judge" /\ job'[t].call = "edit_text"
    /\ job'[t].request.base = job[t].request.base
    /\ job'[t].request.update \subseteq Public \cup Plain

Starts(t) ==
    /\ job'[t].phase = "judge" /\ job'[t].call \in Operated
    /\ job'[t].call = "seed" =>
          \E n \in Plain : job'[t].history = {n} /\ operations'[n].deps = {}
    /\ job'[t].call = "restore" => job'[t].history = {1}
    /\ job'[t].call = "migrate" =>
          /\ stored # None /\ job'[t].of = stored
          /\ UNCHANGED sent /\ \A u \in Threads \ {t} : job'[u] = job[u]
          /\ \E n \in Plain :
                \/ job'[t].history = {n} /\ operations'[n].deps = {}
                \/ /\ job'[t].history = stored.checkpoint \cup {n}
                   /\ operations'[n].deps = stored.checkpoint
    /\ job'[t].call \notin Giving => job'[t].history = {}

Goes(t) ==
    /\ job[t].phase \in {"judge", "commit"} /\ job'[t].phase \in {"judge", "commit"}
    /\ job'[t].call = job[t].call /\ job'[t].request = job[t].request
    /\ job'[t].history = job[t].history /\ job'[t].of = job[t].of
    /\ job'[t].phase = "commit" => Passes(t)

JobNames(t) ==
    \/ job'[t] = job[t] \/ job'[t] = Idle
    \/ Delivers(t) \/ WritesEdit(t) \/ WritesText(t) \/ Starts(t) \/ Goes(t)

Naming ==
    /\ UNCHANGED <<stored, changes>>
    /\ Extends
    /\ \A n \in Fresh : /\ operations'[n].deps \subseteq 1..Len(operations)
                        /\ operations'[n].fence # None => stored # None
    /\ \A r \in sent' \ sent : Sends(r)
    /\ \A t \in Threads : JobNames(t)

(* What is made is the one operation that is fresh.                        *)
LEMMA MakesFresh ==
    ASSUME TypeInv, NEW peer, NEW field, NEW deps, NEW fence,
           Make(Made(peer, field, deps, fence))
    PROVE  /\ NewOperation \in Fresh /\ Fresh = {NewOperation}
           /\ operations'[NewOperation].deps = deps
           /\ operations'[NewOperation].fence = fence
           /\ Extends
<1> DEFINE operation == Made(peer, field, deps, fence)
<1>1. Len(operations) \in Nat
    BY LenProperties DEF TypeInv, TypeOK
<1>2. operations \in Seq(Operations \cup {operation})
    BY SeqMonotonic DEF TypeInv, TypeOK
<1>3. operation.deps = deps /\ operation.fence = fence
    BY DEF Made
<1>4. operations' = Append(operations, operation)
    BY DEF Make
<1> HIDE DEF operation
<1>5. Len(operations') = Len(operations) + 1 /\ operations'[Len(operations) + 1] = operation
    BY <1>2, <1>4
<1>6. Extends
    BY OperationsExtend DEF TypeInv
<1> QED BY <1>1, <1>3, <1>5, <1>6 DEF NewOperation, Fresh

LEMMA MakesNone ==
    ASSUME TypeInv, UNCHANGED operations
    PROVE  Fresh = {} /\ Extends
<1>1. Len(operations) \in Nat
    BY LenProperties DEF TypeInv, TypeOK
<1> QED BY <1>1, OperationsExtend DEF TypeInv, NewOperation, Fresh

(* One thread's step names what its own job does.                          *)
LEMMA OneNames ==
    ASSUME TypeOK, NEW t \in Threads, NEW j, Set(t, j), job'[t] = j => JobNames(t)
    PROVE  \A u \in Threads : JobNames(u)
BY DEF Set, TypeOK, JobNames

(* A step that makes and sends nothing.                                    *)
LEMMA NothingNamed ==
    ASSUME TypeInv, NEW t \in Threads, NEW j, Set(t, j), job'[t] = j => JobNames(t),
           UNCHANGED <<stored, changes, operations, sent>>
    PROVE  Naming
<1>1. \A u \in Threads : JobNames(u)
    BY OneNames DEF TypeInv
<1> QED BY <1>1, MakesNone DEF Naming

LEMMA ReturnNames ==
    ASSUME TypeInv, NEW t \in Threads, Return(t),
           UNCHANGED <<stored, changes, operations, sent>>
    PROVE  Naming
BY NothingNamed DEF Return, JobNames


(* What is stored or sent is public.                                       *)
LEMMA PublicHolds ==
    /\ stored # None => stored.checkpoint \subseteq Public
    /\ \A r \in sent : r.base \cup r.update \subseteq Public
BY DEF Public

LEMMA RequestIs ==
    ASSUME NEW call, NEW id, NEW actor, NEW base, NEW update, NEW fence
    PROVE  LET r == Request(call, id, actor, base, update, fence)
           IN r.call = call /\ r.base = base /\ r.update = update /\ r.fence = fence
BY DEF Request

(* What clients submit.                                                    *)
LEMMA ClientNames ==
    ASSUME TypeInv, ClientNext
    PROVE  Naming
<1>1. PICK actor \in Principals, id \in Ids :
          \/ SubmitImport(actor, id) \/ SubmitRebased(actor, id)
          \/ SubmitBootstrap(actor, id)
          \/ SubmitEdit(actor, id) \/ SubmitText(actor, id)
    BY DEF ClientNext
<1>2. UNCHANGED <<stored, changes, job>>
    BY <1>1 DEF SubmitImport, SubmitRebased, SubmitBootstrap, SubmitEdit, SubmitText, Submit
<1>3. \A t \in Threads : JobNames(t)
    BY <1>2 DEF JobNames
<1>4. ASSUME NEW call, NEW base, NEW update, NEW fence,
             Submit(Request(call, id, actor, base, update, fence)),
             Sends(Request(call, id, actor, base, update, fence)),
             Extends,
             \A n \in Fresh : /\ operations'[n].deps \subseteq 1..Len(operations)
                              /\ operations'[n].fence = None
      PROVE  Naming
    BY <1>2, <1>3, <1>4 DEF Submit, Naming
<1>5. stored # None => Known(stored.checkpoint)
    BY DEF TypeInv, StoredOK
<1>6. CASE SubmitImport(actor, id)
    <2> DEFINE base == stored.checkpoint
    <2>1. PICK drafts \in {{}, Drafts(actor)}, field \in Fields :
              /\ Make(Made(SessionPeer(actor), field, base \cup drafts, None))
              /\ \E with \in {{}, drafts} :
                    Submit(Request("import", id, actor, base, {NewOperation} \cup with, None))
        BY <1>6 DEF SubmitImport
    <2>2. PICK with \in {{}, drafts} :
              Submit(Request("import", id, actor, base, {NewOperation} \cup with, None))
        BY <2>1
    <2>3. stored # None
        BY <1>6 DEF SubmitImport
    <2>4. Drafts(actor) \subseteq Public /\ Known(Drafts(actor))
        BY DEF Drafts, Public, TypeInv, SentOK, Known
    <2>5. /\ NewOperation \in Plain /\ Fresh = {NewOperation} /\ Extends
          /\ operations'[NewOperation].deps = base \cup drafts
          /\ operations'[NewOperation].fence = None
        BY <2>1, MakesFresh DEF Plain
    <2>6. base \cup drafts \subseteq 1..Len(operations)
        BY <1>5, <2>3, <2>4 DEF Known
    <2>7. base \cup {NewOperation} \cup with \subseteq Public \cup Plain
        BY <2>3, <2>4, <2>5, PublicHolds
    <2>8. Sends(Request("import", id, actor, base, {NewOperation} \cup with, None))
        BY <2>3, <2>7, RequestIs DEF Sends
    <2> QED BY <1>4, <2>2, <2>5, <2>6, <2>8
<1>7. CASE SubmitRebased(actor, id)
    <2>1. PICK r \in sent :
              Submit(Request("import", id, actor, stored.checkpoint, r.update, None))
        BY <1>7 DEF SubmitRebased
    <2>2. stored # None /\ UNCHANGED operations
        BY <1>7 DEF SubmitRebased
    <2>3. Sends(Request("import", id, actor, stored.checkpoint, r.update, None))
        BY <2>2, PublicHolds, RequestIs DEF Sends
    <2> QED BY <1>4, <2>1, <2>2, <2>3, MakesNone
<1>8. CASE SubmitBootstrap(actor, id)
    <2>1. CASE /\ Make(Made(SessionPeer(actor), "merge", {}, None))
               /\ Submit(Request("bootstrap", id, actor, {}, {NewOperation}, None))
        <3>1. /\ NewOperation \in Plain /\ Fresh = {NewOperation} /\ Extends
              /\ operations'[NewOperation].deps = {}
              /\ operations'[NewOperation].fence = None
            BY <2>1, MakesFresh DEF Plain
        <3>2. Sends(Request("bootstrap", id, actor, {}, {NewOperation}, None))
            BY <3>1, RequestIs DEF Sends
        <3> QED BY <1>4, <2>1, <3>1, <3>2
    <2>2. CASE /\ \E r \in sent :
                     /\ r.call = "import" /\ r.actor = actor
                     /\ Submit(Request("bootstrap", id, actor, {}, r.base \cup r.update, None))
               /\ UNCHANGED operations
        <3>1. PICK r \in sent :
                     /\ r.call = "import" /\ r.actor = actor
                     /\ Submit(Request("bootstrap", id, actor, {}, r.base \cup r.update, None))
            BY <2>2
        <3>2. Sends(Request("bootstrap", id, actor, {}, r.base \cup r.update, None))
            BY <3>1, PublicHolds, RequestIs DEF Sends
        <3> QED BY <1>4, <2>2, <3>1, <3>2, MakesNone
    <2> QED BY <1>8, <2>1, <2>2 DEF SubmitBootstrap
<1>9. CASE SubmitEdit(actor, id)
    <2>1. Sends(Request("edit", id, actor, {}, {}, stored.checkpoint))
        BY <1>9, RequestIs DEF Sends, SubmitEdit
    <2> QED BY <1>4, <1>9, <2>1, MakesNone DEF SubmitEdit
<1>10. CASE SubmitText(actor, id)
    <2>1. Sends(Request("edit_text", id, actor, stored.checkpoint, {}, None))
        BY <1>10, PublicHolds, RequestIs DEF Sends, SubmitText
    <2> QED BY <1>4, <1>10, <2>1, MakesNone DEF SubmitText
<1> QED BY <1>1, <1>6, <1>7, <1>8, <1>9, <1>10


(* What is retained under an operation id is in the stored document.       *)
LEMMA RetainedIsStored ==
    ASSUME TypeInv, RetainedOnce, stored # None, NEW id, NEW o \in RetainedAs(stored, id)
    PROVE  o.update \subseteq stored.checkpoint
BY DEF RetainedAs, Retained, RetainedOnce

(* A call that is judged goes on, or is taken back to be judged again.     *)
LEMMA GoesOn ==
    ASSUME TypeInv, NEW t \in Threads, job[t].phase \in {"judge", "commit"},
           NEW read, NEW attempt,
           Set(t, [job[t] EXCEPT !.phase = "judge", !.read = read, !.attempt = attempt]),
           UNCHANGED <<stored, changes, operations, sent>>
    PROVE  Naming
<1> DEFINE j == [job[t] EXCEPT !.phase = "judge", !.read = read, !.attempt = attempt]
<1>1. job[t] \in Jobs(Peer)
    BY DEF TypeInv, TypeOK
<1>2. /\ j.phase = "judge" /\ j.call = job[t].call /\ j.request = job[t].request
      /\ j.history = job[t].history /\ j.of = job[t].of
    BY <1>1 DEF Jobs
<1>3. Set(t, j)
    OBVIOUS
<1> HIDE DEF j
<1>4. job'[t] = j => JobNames(t)
    BY <1>2 DEF JobNames, Goes
<1> QED BY <1>3, <1>4, NothingNamed

(* ... or passes.                                                          *)
LEMMA PassesNames ==
    ASSUME TypeInv, NEW t \in Threads, job[t].phase = "judge",
           Set(t, [job[t] EXCEPT !.phase = "commit", !.read = stored]),
           job[t].call \in Requested => /\ Judged(job[t].request, stored) = "valid"
                                        /\ Committable(job[t].request, stored) = "commit",
           job[t].call \in Operated => ~NothingToDo(t),
           UNCHANGED <<stored, changes, operations, sent>>
    PROVE  Naming
<1> DEFINE j == [job[t] EXCEPT !.phase = "commit", !.read = stored]
<1>1. job[t] \in Jobs(Peer)
    BY DEF TypeInv, TypeOK
<1>2. /\ j.phase = "commit" /\ j.call = job[t].call /\ j.request = job[t].request
      /\ j.history = job[t].history /\ j.of = job[t].of
    BY <1>1 DEF Jobs
<1>3. Set(t, j)
    OBVIOUS
<1>4. job'[t] = j => Passes(t)
    BY DEF Passes
<1> HIDE DEF j
<1>5. job'[t] = j => JobNames(t)
    BY <1>2, <1>4 DEF JobNames, Goes
<1> QED BY <1>3, <1>5, NothingNamed

(* import, edit and edit_text.                                             *)
LEMMA ImportNames ==
    ASSUME TypeInv, RetainedOnce, NEW t \in Threads, ImportNext(t)
    PROVE  Naming
<1>1. job[t] \in Jobs(Peer) /\ JobOK(job[t])
    BY DEF TypeInv, TypeOK
<1>2. ASSUME NEW request \in sent, Deliver(t, request) PROVE Naming
    <2> DEFINE edits == request.call \in {"edit", "edit_text"}
               received == [request EXCEPT !.schema = IF edits THEN plan ELSE @]
               phase == IF edits THEN "prepare" ELSE "judge"
               j == [Idle EXCEPT !.phase = phase, !.call = request.call,
                                 !.request = received, !.since = Len(changes)]
    <2>1. request \in Requests
        BY DEF TypeInv, TypeOK
    <2>2. /\ received.base = request.base /\ received.update = request.update
          /\ received.fence = request.fence
        BY <2>1 DEF Requests
    <2>3. Set(t, j) /\ UNCHANGED <<stored, changes, operations, sent>>
        BY <1>2 DEF Deliver
    <2> HIDE DEF received
    <2>4. j.phase = phase /\ j.call = request.call /\ j.request = received
        BY DEF Idle
    <2> HIDE DEF j
    <2>5. job'[t] = j => JobNames(t)
        BY <2>2, <2>4 DEF JobNames, Delivers
    <2> QED BY <2>3, <2>5, NothingNamed
<1>3. ASSUME job[t].phase = "prepare", NEW base, NEW update, Prepared(t, base, update)
      PROVE  /\ Set(t, job'[t]) /\ job'[t].phase = "judge" /\ job'[t].call = job[t].call
             /\ job'[t].request.base = base /\ job'[t].request.update = update
             /\ job'[t].request.fence = job[t].request.fence
    <2> DEFINE j == [job[t] EXCEPT !.phase = "judge", !.request.base = base,
                                   !.request.update = update]
    <2>1. Set(t, j) /\ job'[t] = j
        BY <1>3 DEF Prepared, Set, TypeInv, TypeOK
    <2>2. job[t].request \in Requests
        BY <1>1, <1>3 DEF JobOK, JobPlaced, Requested
    <2>3. /\ j.phase = "judge" /\ j.call = job[t].call
          /\ j.request = [job[t].request EXCEPT !.base = base, !.update = update]
        BY <1>1 DEF Jobs
    <2>4. /\ j.request.base = base /\ j.request.update = update
          /\ j.request.fence = job[t].request.fence
        BY <2>2, <2>3 DEF Requests
    <2> HIDE DEF j
    <2> QED BY <2>1, <2>3, <2>4
<1>4. CASE PrepareEdit(t)
    <2> DEFINE retained == RetainedAs(stored, job[t].request.id)
    <2>1. /\ job[t].phase = "prepare" /\ job[t].call = "edit"
          /\ UNCHANGED <<stored, changes, sent>>
        BY <1>4 DEF PrepareEdit
    <2>2. CASE Refuse(t) /\ UNCHANGED operations
        BY <2>1, <2>2, ReturnNames DEF Refuse
    <2>3. ASSUME stored # None, NEW o \in retained, Prepared(t, stored.checkpoint, o.update),
                 UNCHANGED operations
          PROVE  Naming
        <3>1. o.update \subseteq stored.checkpoint
            BY <2>3, RetainedIsStored
        <3>2. JobNames(t)
            BY <1>3, <2>1, <2>3, <3>1 DEF JobNames, WritesEdit
        <3> QED BY <1>3, <2>1, <2>3, <3>2, NothingNamed
    <2>4. ASSUME stored # None, Prepared(t, stored.checkpoint, {NewOperation}),
                 Make(Made(NewPeer(job[t].request.actor), "explicit", stored.checkpoint,
                           job[t].request.fence))
          PROVE  Naming
        <3>1. /\ NewOperation \in Fresh /\ Fresh = {NewOperation} /\ Extends
              /\ operations'[NewOperation].deps = stored.checkpoint
              /\ operations'[NewOperation].fence = job[t].request.fence
            BY <2>4, MakesFresh
        <3>2. JobNames(t)
            BY <1>3, <2>1, <2>4, <3>1 DEF JobNames, WritesEdit
        <3>3. \A u \in Threads : JobNames(u)
            BY <1>3, <2>1, <2>4, <3>2, OneNames DEF TypeInv
        <3>4. stored.checkpoint \subseteq 1..Len(operations)
            BY <2>4 DEF TypeInv, StoredOK, Known
        <3> QED BY <2>1, <2>4, <3>1, <3>3, <3>4 DEF Naming
    <2> QED BY <1>4, <2>2, <2>3, <2>4 DEF PrepareEdit
<1>5. CASE PrepareText(t)
    <2> DEFINE retained == RetainedAs(stored, job[t].request.id)
               base == job[t].request.base
    <2>1. /\ job[t].phase = "prepare" /\ job[t].call = "edit_text"
          /\ UNCHANGED <<stored, changes, sent>>
        BY <1>5 DEF PrepareText
    <2>2. CASE Refuse(t) /\ UNCHANGED operations
        BY <2>1, <2>2, ReturnNames DEF Refuse
    <2>3. ASSUME stored # None, NEW o \in retained, Prepared(t, base, o.update),
                 UNCHANGED operations
          PROVE  Naming
        <3>1. o.update \subseteq Public
            BY <2>3, RetainedIsStored, PublicHolds
        <3>2. JobNames(t)
            BY <1>3, <2>1, <2>3, <3>1 DEF JobNames, WritesText
        <3> QED BY <1>3, <2>1, <2>3, <3>2, NothingNamed
    <2>4. ASSUME Prepared(t, base, {NewOperation}),
                 Make(Made(NewPeer(job[t].request.actor), "merge", base, None))
          PROVE  Naming
        <3>1. /\ NewOperation \in Plain /\ Fresh = {NewOperation} /\ Extends
              /\ operations'[NewOperation].deps = base
              /\ operations'[NewOperation].fence = None
            BY <2>4, MakesFresh DEF Plain
        <3>2. JobNames(t)
            BY <1>3, <2>1, <2>4, <3>1 DEF JobNames, WritesText
        <3>3. \A u \in Threads : JobNames(u)
            BY <1>3, <2>1, <2>4, <3>2, OneNames DEF TypeInv
        <3>4. base \subseteq 1..Len(operations)
            BY <1>1, <2>1 DEF JobOK, JobKnown, Known, Requested
        <3> QED BY <2>1, <3>1, <3>3, <3>4 DEF Naming
    <2> QED BY <1>5, <2>2, <2>3, <2>4 DEF PrepareText
<1>6. CASE JudgeImport(t)
    <2>1. /\ job[t].phase = "judge" /\ job[t].call \in Requested
          /\ UNCHANGED <<stored, plan, operations, minted, sent, changes, feed>>
        BY <1>6 DEF JudgeImport
    <2>2. CASE Refuse(t) \/ Duplicate(t)
        BY <2>1, <2>2, ReturnNames DEF Refuse, Duplicate
    <2>3. CASE /\ Proceed(t) /\ Judged(job[t].request, stored) = "valid"
               /\ Committable(job[t].request, stored) = "commit"
        BY <2>1, <2>3, PassesNames DEF Proceed, Requested, Operated, Giving
    <2> QED BY <1>6, <2>2, <2>3, JudgeImportEnds
<1> QED BY <1>2, <1>4, <1>5, <1>6 DEF ImportNext

(* What the service gives the document.                                    *)
LEMMA OperatorNames ==
    ASSUME TypeInv, NEW t \in Threads, OperatorNext(t)
    PROVE  Naming
<1>1. ASSUME NEW call \in Operated, NEW history, NEW of, Start(t, call, history, of)
      PROVE  /\ Set(t, job'[t]) /\ job'[t].phase = "judge" /\ job'[t].call = call
             /\ job'[t].history = history /\ job'[t].of = of
             /\ UNCHANGED <<stored, changes, sent>>
    <2> DEFINE j == [Idle EXCEPT !.phase = "judge", !.call = call, !.history = history,
                                 !.of = of]
    <2>1. /\ Set(t, j) /\ job'[t] = j /\ UNCHANGED <<stored, changes, sent>>
        BY <1>1 DEF Start, Set, TypeInv, TypeOK
    <2>2. /\ j.phase = "judge" /\ j.call = call /\ j.history = history /\ j.of = of
        BY DEF Idle
    <2> HIDE DEF j
    <2> QED BY <2>1, <2>2
<1>2. CASE StartSeed(t)
    <2>1. /\ Make(Made(NewPeer(System), "merge", {}, None))
          /\ Start(t, "seed", {NewOperation}, None)
        BY <1>2 DEF StartSeed
    <2>2. /\ NewOperation \in Plain /\ Fresh = {NewOperation} /\ Extends
          /\ operations'[NewOperation].deps = {}
          /\ operations'[NewOperation].fence = None
        BY <2>1, MakesFresh DEF Plain
    <2>3. /\ Set(t, job'[t]) /\ job'[t].phase = "judge" /\ job'[t].call = "seed"
          /\ job'[t].history = {NewOperation} /\ UNCHANGED <<stored, changes, sent>>
        BY <1>1, <2>1 DEF Operated, Giving
    <2>4. Starts(t)
        BY <2>2, <2>3 DEF Starts, Operated, Giving
    <2>5. \A u \in Threads : JobNames(u)
        BY <2>3, <2>4, OneNames DEF TypeInv, JobNames
    <2> QED BY <2>2, <2>3, <2>5 DEF Naming
<1>3. CASE StartMigrate(t)
    <2>1. PICK carried \in {{}, stored.checkpoint} :
              /\ Make(Made(NewPeer(System), "merge", carried, None))
              /\ Start(t, "migrate", carried \cup {NewOperation}, stored)
        BY <1>3 DEF StartMigrate
    <2>2. /\ NewOperation \in Plain /\ Fresh = {NewOperation} /\ Extends
          /\ operations'[NewOperation].deps = carried
          /\ operations'[NewOperation].fence = None
        BY <2>1, MakesFresh DEF Plain
    <2>3. /\ Set(t, job'[t]) /\ job'[t].phase = "judge" /\ job'[t].call = "migrate"
          /\ job'[t].history = carried \cup {NewOperation} /\ job'[t].of = stored
          /\ UNCHANGED <<stored, changes, sent>>
        BY <1>1, <2>1 DEF Operated, Giving
    <2>4. stored # None /\ \A u \in Threads \ {t} : job'[u] = job[u]
        BY <1>3, <2>3 DEF StartMigrate, Set, TypeInv, TypeOK
    <2>5. Starts(t)
        BY <2>1, <2>2, <2>3, <2>4 DEF Starts, Operated, Giving
    <2>6. \A u \in Threads : JobNames(u)
        BY <2>3, <2>5, OneNames DEF TypeInv, JobNames
    <2>7. carried \subseteq 1..Len(operations)
        BY <2>4 DEF TypeInv, StoredOK, Known
    <2> QED BY <2>2, <2>3, <2>6, <2>7 DEF Naming
<1>4. ASSUME NEW call \in Operated \ {"seed", "migrate"}, NEW history,
             Start(t, call, history, None), UNCHANGED operations,
             history = IF call = "restore" THEN {1} ELSE {}
      PROVE  Naming
    <2>1. /\ Set(t, job'[t]) /\ job'[t].phase = "judge" /\ job'[t].call = call
          /\ job'[t].history = history /\ UNCHANGED <<stored, changes, sent>>
        BY <1>1, <1>4
    <2>2. Starts(t)
        BY <1>4, <2>1 DEF Starts, Giving
    <2> QED BY <1>4, <2>1, <2>2, NothingNamed DEF JobNames
<1>5. CASE StartRestore(t) \/ StartDelete(t)
    BY <1>4, <1>5 DEF StartRestore, StartDelete, Operated, Giving
<1>6. CASE \E call \in {"repair", "reset"} : StartRecovery(t, call)
    BY <1>4, <1>6 DEF StartRecovery, Operated, Giving
<1>7. CASE JudgeOperated(t)
    <2>1. /\ job[t].phase = "judge" /\ job[t].call \in Operated
          /\ job[t].call \notin Requested
          /\ UNCHANGED <<stored, changes, operations, sent>>
        BY <1>7 DEF JudgeOperated, Operated, Requested, Giving
    <2>2. CASE NothingToDo(t)
        BY <1>7, <2>1, <2>2, ReturnNames DEF JudgeOperated
    <2>3. CASE ~NothingToDo(t)
        BY <1>7, <2>1, <2>3, PassesNames DEF JudgeOperated
    <2> QED BY <2>2, <2>3
<1> QED BY <1>2, <1>3, <1>5, <1>6, <1>7 DEF OperatorNext

(* Every step is a swap, or names no more than that.                       *)
LEMMA StepNames ==
    ASSUME TypeInv, RetainedOnce, [Next]_vars
    PROVE  Naming \/ \E t \in Threads : Swap(t)
<1>1. CASE UNCHANGED vars
    BY <1>1, MakesNone DEF vars, Naming, JobNames
<1>2. ASSUME NEW t \in Threads, Stale(t) PROVE Naming
    <2>1. /\ job[t].phase = "commit" /\ job[t] \in Jobs(Peer)
          /\ UNCHANGED <<stored, changes, operations, sent>>
        BY <1>2 DEF Stale, TypeInv, TypeOK
    <2>2. CASE Refuse(t) \/ Return(t)
        BY <2>1, <2>2, ReturnNames DEF Refuse
    <2>3. [job[t] EXCEPT !.phase = "judge", !.read = None] =
              [job[t] EXCEPT !.phase = "judge", !.read = None, !.attempt = job[t].attempt]
        BY <2>1 DEF Jobs
    <2>4. CASE \E attempt :
                  Set(t, [job[t] EXCEPT !.phase = "judge", !.read = None, !.attempt = attempt])
        BY <2>1, <2>4, GoesOn
    <2> QED BY <1>2, <2>2, <2>3, <2>4 DEF Stale
<1>3. ASSUME NEW t \in Threads, Announce(t) \/ Abandon(t) PROVE Naming
    BY <1>3, ReturnNames DEF Announce, Abandon
<1>4. CASE Upgrade
    BY <1>4, MakesNone DEF Upgrade, Naming, JobNames
<1> QED BY <1>1, <1>2, <1>3, <1>4, ClientNames, ImportNames, OperatorNames DEF Next, CommitNext


-----------------------------------------------------------------------------
(* The roots and dependencies of a history, by the operations they are     *)
(* read from: those of what is known stay what they are.                   *)
RootsIn(made, history) == {n \in history : made[n].deps = {}}
DependenciesIn(made, history) == UNION {made[n].deps : n \in history}

LEMMA ReadIn ==
    \A history : /\ Roots(history) = RootsIn(operations, history)
                 /\ Dependencies(history) = DependenciesIn(operations, history)
BY DEF Roots, RootsIn, Dependencies, DependenciesIn

LEMMA RootsKept ==
    ASSUME NEW made, NEW made2, NEW history, \A n \in history : made2[n] = made[n]
    PROVE  /\ RootsIn(made2, history) = RootsIn(made, history)
           /\ DependenciesIn(made2, history) = DependenciesIn(made, history)
BY DEF RootsIn, DependenciesIn

(* Every operation named anywhere was made.                                *)
LEMMA NamedIsKnown ==
    ASSUME TypeInv
    PROVE  /\ stored # None => Known(stored.checkpoint)
           /\ \A r \in sent : Known(r.base) /\ Known(r.update)
           /\ Known(Public)
           /\ \A t \in Threads : Known(Named(job[t])) /\ Known(Loose(job[t]))
           /\ Known(Circulating)
<1>1. stored # None => Known(stored.checkpoint)
    BY DEF TypeInv, StoredOK
<1>2. \A r \in sent : Known(r.base) /\ Known(r.update)
    BY DEF TypeInv, SentOK
<1>3. Known(Public)
    BY <1>1, <1>2 DEF Public, Known
<1>4. ASSUME NEW t \in Threads PROVE Known(Named(job[t])) /\ Known(Loose(job[t]))
    <2>1. JobKnown(job[t])
        BY DEF TypeInv, JobOK
    <2>2. Known(Named(job[t]))
        BY <2>1 DEF Named, JobKnown, Known
    <2>3. OwnEdit(job[t]) => Known(job[t].request.base)
        BY <2>1 DEF OwnEdit, JobKnown, Requested
    <2> QED BY <2>2, <2>3 DEF Loose
<1>5. Known(Circulating)
    BY <1>3, <1>4 DEF Circulating, Known
<1> QED BY <1>1, <1>2, <1>3, <1>4, <1>5

(* A job names its request's operations, or its history.                   *)
LEMMA NamedIs ==
    ASSUME TypeInv, NEW t \in Threads
    PROVE  /\ job[t].phase # "idle" /\ job[t].call \in Requested =>
                 Named(job[t]) = job[t].request.base \cup job[t].request.update
           /\ job[t].call \notin Requested => Named(job[t]) = job[t].history
           /\ job[t] = Idle => Named(job[t]) = {}
           /\ Loose(job[t]) \subseteq Named(job[t])
           /\ OwnEdit(job[t]) => Loose(job[t]) = job[t].request.base
           /\ job[t].phase \notin {"judge", "commit"} \/ job[t].call # "edit" =>
                 Loose(job[t]) = Named(job[t])
<1>1. OwnEdit(job[t]) => job[t].phase # "idle" /\ job[t].call \in Requested
    BY DEF OwnEdit, Requested
<1>2. job[t] = Idle => Named(job[t]) = {}
    BY DEF Idle, Named
<1>3. job[t].phase \notin {"judge", "commit"} \/ job[t].call # "edit" => ~OwnEdit(job[t])
    BY DEF OwnEdit
<1> QED BY <1>1, <1>2, <1>3 DEF Named, Loose

(* What a step other than a swap brings into circulation is no edit.       *)
LEMMA NamingKnown ==
    ASSUME TypeInv, Naming
    PROVE  /\ Len(operations) \in Nat /\ Len(operations) > 0
           /\ \A n \in Fresh : n \in Nat /\ n \notin 1..Len(operations) /\ n # 1
                                /\ n \in 1..Len(operations')
           /\ \A n \in 1..Len(operations') : n \in 1..Len(operations) \/ n \in Fresh
           /\ \A n \in 1..Len(operations) : operations'[n] = operations[n]
<1>1. Len(operations) \in Nat /\ Len(operations) > 0
    BY LenProperties DEF TypeInv, TypeOK, StoredOK
<1> QED BY <1>1 DEF Fresh, NewOperation, Naming, Extends

LEMMA PublicAfter ==
    ASSUME TypeInv, Naming
    PROVE  Public' \subseteq Public \cup Plain
<1>1. UNCHANGED stored
    BY DEF Naming
<1>2. \A r \in sent' : r.base \cup r.update \subseteq Public \cup Plain
    BY PublicHolds DEF Naming, Sends
<1> QED BY <1>1, <1>2, PublicHolds DEF Public

(* An edit stays its call's own while the call is judged.                  *)
LEMMA OwnStays ==
    ASSUME TypeInv, Naming, NEW t \in Threads, job'[t] = job[t] \/ Goes(t)
    PROVE  OwnEdit(job[t]) => OwnEdit(job[t])'
<1> SUFFICES ASSUME OwnEdit(job[t]) PROVE OwnEdit(job[t])'
    OBVIOUS
<1>1. PICK n \in 1..Len(operations) :
          /\ job[t].request.update = {n}
          /\ operations[n].deps = job[t].request.base
          /\ operations[n].fence = job[t].request.fence
    BY DEF OwnEdit
<1>2. n \in 1..Len(operations') /\ operations'[n] = operations[n]
    BY <1>1, NamingKnown DEF Naming, Extends
<1>3. /\ job'[t].phase \in {"judge", "commit"} /\ job'[t].call = "edit"
      /\ job'[t].request = job[t].request
    BY DEF OwnEdit, Goes
<1> QED BY <1>1, <1>2, <1>3 DEF OwnEdit

LEMMA NamedAfter ==
    ASSUME TypeInv, TypeInv', Naming, NEW t \in Threads
    PROVE  /\ Named(job[t])' \subseteq Named(job[t]) \cup Public \cup Fresh \cup {1}
           /\ Loose(job[t])' \subseteq Loose(job[t]) \cup Public \cup Plain \cup {1}
<1>1. Plain \subseteq Fresh
    BY DEF Plain
<1>2. JobOK(job[t]) /\ job[t] \in Jobs(Peer) /\ JobOK(job[t])' /\ job'[t] \in Jobs(Peer)
    BY DEF TypeInv, TypeOK
<1>3. JobNames(t)
    BY DEF Naming
<1>4. /\ job'[t].phase # "idle" /\ job'[t].call \in Requested =>
            Named(job[t])' = job'[t].request.base \cup job'[t].request.update
      /\ job'[t].call \notin Requested => Named(job[t])' = job'[t].history
      /\ job'[t] = Idle => Named(job[t])' = {}
      /\ Loose(job[t])' \subseteq Named(job[t])'
      /\ OwnEdit(job[t])' => Loose(job[t])' = job'[t].request.base
    <2>1. OwnEdit(job[t])' => job'[t].phase # "idle" /\ job'[t].call \in Requested
        BY DEF OwnEdit, Requested
    <2>2. job'[t] = Idle => Named(job[t])' = {}
        BY DEF Idle, Named
    <2> QED BY <2>1, <2>2 DEF Named, Loose
<1>5. CASE job'[t] = job[t] \/ Goes(t)
    <2>1. Named(job[t])' = Named(job[t])
        BY <1>5 DEF Named, Goes
    <2>2. CASE OwnEdit(job[t])
        <3>1. OwnEdit(job[t])'
            BY <1>5, <2>2, OwnStays
        <3>2. job'[t].request = job[t].request
            BY <1>5 DEF Goes
        <3> QED BY <1>4, <2>1, <2>2, <3>1, <3>2, NamedIs
    <2>3. CASE ~OwnEdit(job[t])
        BY <1>4, <2>1, <2>3 DEF Loose
    <2> QED BY <2>1, <2>2, <2>3
<1>6. CASE job'[t] = Idle
    BY <1>4, <1>6
<1>7. CASE Delivers(t)
    <2>1. PICK r \in sent : /\ job'[t].call = r.call
                            /\ job'[t].request.base = r.base /\ job'[t].request.update = r.update
        BY <1>7 DEF Delivers
    <2>2. r.call \in Requested /\ job'[t].phase # "idle"
        BY <1>7, <2>1 DEF Delivers, TypeInv, TypeOK, Requests
    <2> QED BY <1>4, <2>1, <2>2, PublicHolds
<1>8. CASE WritesEdit(t)
    <2>1. job'[t].phase # "idle" /\ job'[t].call \in Requested /\ job'[t].request.base \subseteq Public
        BY <1>8, PublicHolds DEF WritesEdit, Requested
    <2>2. CASE job'[t].request.update \subseteq stored.checkpoint
        BY <1>4, <1>8, <2>1, <2>2, PublicHolds DEF WritesEdit
    <2>3. CASE \E n \in Fresh : /\ job'[t].request.update = {n}
                                /\ operations'[n].deps = job'[t].request.base
                                /\ operations'[n].fence = job'[t].request.fence
        <3>1. \A n \in Fresh : n \in 1..Len(operations')
            BY NamingKnown
        <3>2. OwnEdit(job[t])'
            BY <1>8, <2>3, <3>1 DEF OwnEdit, WritesEdit
        <3> QED BY <1>4, <2>1, <2>3, <3>2
    <2> QED BY <1>8, <2>2, <2>3 DEF WritesEdit
<1>9. CASE WritesText(t)
    <2>1. /\ job[t].phase # "idle" /\ job[t].call \in Requested /\ job[t].call # "edit"
          /\ job'[t].phase # "idle" /\ job'[t].call \in Requested
        BY <1>9 DEF WritesText, Requested
    <2>2. job'[t].request.base \subseteq Loose(job[t])
        BY <1>9, <2>1, NamedIs DEF WritesText
    <2> QED BY <1>1, <1>4, <1>9, <2>1, <2>2, NamedIs DEF WritesText
<1>10. CASE Starts(t)
    <2>1. job'[t].call \notin Requested
        BY <1>10 DEF Starts, Operated, Giving, Requested
    <2>2. job'[t].history \subseteq Public \cup Plain \cup {1}
        BY <1>10, PublicHolds DEF Starts, Giving
    <2> QED BY <1>1, <1>4, <2>1, <2>2
<1> QED BY <1>3, <1>5, <1>6, <1>7, <1>8, <1>9, <1>10 DEF JobNames


LEMMA CirculatingAfter ==
    ASSUME TypeInv, TypeInv', StoredFirst, Naming, NEW n \in Circulating', Fenced(n)'
    PROVE  /\ n \in Circulating /\ n \in 1..Len(operations) /\ Fenced(n)
           /\ operations'[n] = operations[n]
<1>1. n \in Circulating \cup Plain \cup {1}
    <2>1. CASE n \in Public'
        BY <2>1, PublicAfter DEF Circulating
    <2>2. ASSUME NEW t \in Threads, n \in Loose(job[t])' PROVE n \in Circulating \cup Plain \cup {1}
        <3>1. Loose(job[t]) \subseteq Circulating /\ Public \subseteq Circulating
            BY DEF Circulating
        <3> QED BY <2>2, <3>1, NamedAfter
    <2> QED BY <2>1, <2>2 DEF Circulating
<1>2. n \notin Plain
    BY DEF Plain, Fenced
<1>3. 1 \in 1..Len(operations) /\ operations'[1] = operations[1]
    BY NamingKnown
<1>4. n # 1
    BY <1>3 DEF StoredFirst, Fenced
<1>5. n \in 1..Len(operations)
    BY <1>1, <1>2, <1>4, NamedIsKnown DEF Known
<1> QED BY <1>1, <1>2, <1>4, <1>5, NamingKnown DEF Fenced

-----------------------------------------------------------------------------
(* A step other than a swap keeps each part of the invariant.              *)
LEMMA EarlierKept ==
    ASSUME TypeInv, Earlier, Naming
    PROVE  Earlier'
<1> SUFFICES ASSUME NEW n \in 1..Len(operations') PROVE operations'[n].deps \subseteq 1..(n - 1)
    BY DEF Earlier
<1>1. CASE n \in 1..Len(operations)
    BY <1>1, NamingKnown DEF Earlier
<1>2. CASE n \in Fresh
    <2>1. Len(operations) \in Nat /\ n \in Nat /\ Len(operations) <= n - 1
        BY <1>2, NamingKnown DEF Fresh, NewOperation
    <2> QED BY <1>2, <2>1 DEF Naming
<1> QED BY <1>1, <1>2, NamingKnown

LEMMA StoredFirstKept ==
    ASSUME TypeInv, StoredFirst, Naming
    PROVE  StoredFirst'
<1>1. ~Fenced(1)'
    BY NamingKnown DEF StoredFirst, Fenced
<1>2. ASSUME changes' = <<>>, NEW n \in 1..Len(operations') PROVE ~Fenced(n)'
    <2>1. CASE n \in 1..Len(operations)
        BY <1>2, <2>1, NamingKnown DEF StoredFirst, Fenced, Naming
    <2>2. CASE n \in Fresh
        <3>1. stored = None
            BY <1>2, EmptySeq DEF Naming, TypeInv, StoredOK
        <3> QED BY <2>2, <3>1 DEF Naming, Fenced
    <2> QED BY <2>1, <2>2, NamingKnown
<1>3. NeverRemoved' /\ changes' # <<>> => stored' # None
    BY DEF StoredFirst, Naming, NeverRemoved
<1> QED BY <1>1, <1>2, <1>3 DEF StoredFirst

LEMMA EtaggedKept ==
    ASSUME TypeInv, Etagged, Naming
    PROVE  Etagged'
<1>1. Etags' = Etags /\ UNCHANGED stored
    BY DEF Naming, Etags
<1>4. \A etag \in Etags : Known(etag)'
    BY NamingKnown DEF Etagged, Known, Naming, Extends
<1>2. ASSUME NEW r \in sent', r.call = "edit" PROVE r.fence \in Etags
    BY <1>2 DEF Etagged, Naming, Sends
<1>3. ASSUME NEW t \in Threads, job'[t].phase # "idle", job'[t].call = "edit"
      PROVE  job'[t].request.fence \in Etags
    BY <1>3 DEF Naming, JobNames, Delivers, WritesEdit, WritesText, Starts, Goes, Etagged, Idle,
                Operated, Giving
<1> QED BY <1>1, <1>2, <1>3, <1>4 DEF Etagged

LEMMA RootedKept ==
    ASSUME TypeInv, TypeInv', Earlier, Rooted, Naming
    PROVE  Rooted'
<1>1. ASSUME NEW history, Known(history), Roots(history) # {}
      PROVE  RootsIn(operations', history) # {}
    <2>1. \A n \in history : operations'[n] = operations[n]
        BY <1>1, NamingKnown DEF Known
    <2>2. RootsIn(operations, history) # {}
        BY <1>1, ReadIn
    <2> QED BY <2>1, <2>2, RootsKept
<1>2. UNCHANGED stored /\ stored # None => RootsIn(operations', stored.checkpoint) # {}
    BY <1>1, NamedIsKnown DEF Rooted, Naming
<1>3. ASSUME NEW r \in sent'
      PROVE  /\ r.call = "bootstrap" => RootsIn(operations', r.update) # {}
             /\ r.call = "import" => RootsIn(operations', r.base) # {}
    <2>1. CASE r \in sent
        BY <1>1, <2>1, NamedIsKnown DEF Rooted
    <2>2. CASE r \in sent' \ sent
        <3>1. Sends(r)
            BY <2>2 DEF Naming
        <3>2. r.call = "import" => RootsIn(operations', r.base) # {}
            BY <1>2, <3>1 DEF Sends, Naming
        <3>3. ASSUME NEW n \in Plain, r.update = {n}, operations'[n].deps = {}
              PROVE  RootsIn(operations', r.update) # {}
            BY <3>3 DEF RootsIn
        <3>4. ASSUME NEW q \in sent, q.call = "import", r.update = q.base \cup q.update
              PROVE  RootsIn(operations', r.update) # {}
            <4>1. RootsIn(operations', q.base) # {}
                BY <1>1, <3>4, NamedIsKnown DEF Rooted
            <4> QED BY <3>4, <4>1 DEF RootsIn
        <3> QED BY <3>1, <3>2, <3>3, <3>4 DEF Sends
    <2> QED BY <2>1, <2>2
<1>4. ASSUME NEW t \in Threads
      PROVE  /\ job'[t].phase # "idle" /\ job'[t].call = "bootstrap"
                    => RootsIn(operations', job'[t].request.update) # {}
             /\ job'[t].phase \in {"judge", "commit"} =>
                   /\ job'[t].call \in Giving => RootsIn(operations', job'[t].history) # {}
                   /\ job'[t].call = "edit" => RootsIn(operations', job'[t].request.base) # {}
    <2>1. JobNames(t) /\ JobKnown(job[t])
        BY DEF Naming, TypeInv, JobOK
    <2>2. /\ job[t].phase # "idle" /\ job[t].call = "bootstrap"
                => RootsIn(operations', job[t].request.update) # {}
          /\ job[t].phase \in {"judge", "commit"} =>
                /\ job[t].call \in Giving => RootsIn(operations', job[t].history) # {}
                /\ job[t].call = "edit" => RootsIn(operations', job[t].request.base) # {}
        BY <1>1, <2>1 DEF Rooted, JobKnown, Requested
    <2>3. CASE job'[t] = job[t] \/ Goes(t)
        BY <2>2, <2>3 DEF Goes
    <2>4. CASE job'[t] = Idle
        BY <2>4 DEF Idle
    <2>5. CASE Delivers(t)
        <3>1. PICK r \in sent : /\ job'[t].call = r.call
                                /\ job'[t].phase = "judge" => r.call \notin {"edit", "edit_text"}
                                /\ job'[t].request.update = r.update
            BY <2>5 DEF Delivers
        <3>2. r.call = "bootstrap" => RootsIn(operations', r.update) # {}
            BY <1>1, NamedIsKnown DEF Rooted
        <3>3. r.call \notin Giving /\ job'[t].phase \in {"prepare", "judge"}
            BY <2>5 DEF Delivers, TypeInv, TypeOK, Requests, Requested, Giving
        <3> QED BY <3>1, <3>2, <3>3
    <2>6. CASE WritesEdit(t)
        BY <1>2, <2>6 DEF WritesEdit, Giving, Naming
    <2>7. CASE WritesText(t)
        BY <2>7 DEF WritesText, Giving
    <2>8. CASE Starts(t)
        <3>1. operations'[1].deps = {}
            <4>1. 1 \in 1..Len(operations) /\ 1..(1 - 1) = {}
                BY NamingKnown
            <4> QED BY <4>1, NamingKnown DEF Earlier
        <3>2. job'[t].call = "seed" => RootsIn(operations', job'[t].history) # {}
            BY <2>8 DEF Starts, RootsIn
        <3>3. job'[t].call = "restore" => RootsIn(operations', job'[t].history) # {}
            BY <2>8, <3>1 DEF Starts, RootsIn
        <3>4. job'[t].call = "migrate" => RootsIn(operations', job'[t].history) # {}
            BY <1>2, <2>8 DEF Starts, RootsIn, Naming
        <3> QED BY <2>8, <3>2, <3>3, <3>4 DEF Starts, Giving, Operated
    <2> QED BY <2>1, <2>3, <2>4, <2>5, <2>6, <2>7, <2>8 DEF JobNames
<1>5. \A history : Roots(history)' = RootsIn(operations', history)
    BY DEF Roots, RootsIn
<1> QED BY <1>2, <1>3, <1>4 DEF Rooted, Roots, RootsIn, Naming

LEMMA AdvancingKept ==
    ASSUME Advancing, Naming
    PROVE  Advancing'
BY DEF Advancing, Naming, NeverRemoved, Etags

LEMMA WrittenOnKept ==
    ASSUME TypeInv, Etagged, Advancing, WrittenOn, Naming
    PROVE  WrittenOn'
<1> SUFFICES ASSUME NEW t \in Threads, job'[t].phase \in {"judge", "commit"},
                    job'[t].call = "edit", NeverRemoved
             PROVE  \/ job'[t].request.base = job'[t].request.fence
                    \/ ~ job'[t].request.base \subseteq job'[t].request.fence
    BY DEF WrittenOn, Naming, NeverRemoved
<1>1. JobNames(t)
    BY DEF Naming
<1>2. CASE job'[t] = job[t] \/ Goes(t)
    BY <1>2 DEF WrittenOn, Goes
<1>3. CASE WritesEdit(t)
    <2>1. job[t].request.fence \in Etags
        BY <1>3 DEF WritesEdit, Etagged
    <2> QED BY <1>3, <2>1 DEF WritesEdit, Advancing
<1> QED BY <1>1, <1>2, <1>3
        DEF JobNames, Delivers, WritesText, Starts, Idle, Operated, Giving

LEMMA FoundedKept ==
    ASSUME TypeInv, TypeInv', Founded, Naming
    PROVE  Founded'
<1> SUFFICES ASSUME NEW t \in Threads, job'[t].phase = "commit", job'[t].call \in Requested,
                    job'[t].read # None
             PROVE  LET request == job'[t].request
                        checkpoint == job'[t].read.checkpoint
                    IN /\ RootsIn(operations', request.update) \subseteq checkpoint
                       /\ request.base \subseteq checkpoint
                       /\ DependenciesIn(operations', request.update)
                              \subseteq request.base \cup request.update
    BY DEF Founded, Roots, RootsIn, Dependencies, DependenciesIn
<1>1. JobNames(t) /\ JobKnown(job[t]) /\ job[t] \in Jobs(Peer)
    BY DEF Naming, TypeInv, TypeOK, JobOK
<1>2. ASSUME job[t].phase # "idle", job[t].call \in Requested
      PROVE  /\ RootsIn(operations', job[t].request.update) = Roots(job[t].request.update)
             /\ DependenciesIn(operations', job[t].request.update)
                    = Dependencies(job[t].request.update)
    <2>1. \A n \in job[t].request.update : operations'[n] = operations[n]
        BY <1>1, <1>2, NamingKnown DEF JobKnown, Known
    <2> QED BY <2>1, ReadIn, RootsKept
<1>3. CASE job'[t] = job[t]
    BY <1>2, <1>3 DEF Founded
<1>4. CASE Passes(t)
    <2>1. /\ job'[t].read = stored /\ job'[t].request = job[t].request
          /\ job'[t].call = job[t].call
        BY <1>1, <1>4 DEF Passes, Jobs
    <2>2. Judged(job[t].request, stored) = "valid" /\ stored # None
        BY <1>4, <2>1 DEF Passes
    <2>3. job[t].request.call # "bootstrap"
        BY <2>2, JudgedValid
    <2>4. /\ job[t].request.base \subseteq stored.checkpoint
          /\ Dependencies(job[t].request.update)
                \subseteq job[t].request.base \cup job[t].request.update
        BY <2>2, <2>3, JudgedValid
    <2>5. Roots(job[t].request.update) \subseteq stored.checkpoint
        BY <2>2, <2>3, JudgedValid DEF Judged, JudgedIncremental
    <2> QED BY <1>2, <1>4, <2>1, <2>4, <2>5 DEF Passes
<1>5. CASE Goes(t)
    BY <1>4, <1>5 DEF Goes
<1> QED BY <1>1, <1>3, <1>5
        DEF JobNames, Delivers, WritesEdit, WritesText, Starts, Idle


LEMMA MigratingKept ==
    ASSUME TypeInv, TypeInv', Etagged, Migrating, Naming
    PROVE  Migrating'
<1> SUFFICES ASSUME NEW t \in Threads, job'[t].phase \in {"judge", "commit"},
                    job'[t].call = "migrate"
             PROVE  \E n \in 1..Len(operations') :
                        /\ n # 1 /\ operations'[n].fence = None
                        /\ job'[t].history \in {{n}, job'[t].of.checkpoint \cup {n}}
                        /\ job'[t].history # {n} => operations'[n].deps # {}
                        /\ Elsewhere(t, n)'
    BY DEF Migrating, Fenced
<1>1. JobNames(t) /\ Etags' = Etags
    BY DEF Naming, Etags
<1>2. ASSUME NEW n \in 1..Len(operations), n # 1, Elsewhere(t, n) PROVE Elsewhere(t, n)'
    <2>1. n \notin Public'
        BY <1>2, PublicAfter, NamingKnown DEF Elsewhere, Plain
    <2>2. ASSUME NEW u \in Threads \ {t} PROVE n \notin Named(job[u])'
        BY <1>2, NamedAfter, NamingKnown DEF Elsewhere
    <2> QED BY <1>1, <1>2, <2>1, <2>2 DEF Elsewhere
<1>3. CASE job'[t] = job[t] \/ Goes(t)
    <2>1. /\ job[t].phase \in {"judge", "commit"} /\ job[t].call = "migrate"
          /\ job'[t].history = job[t].history /\ job'[t].of = job[t].of
        BY <1>3 DEF Goes
    <2>2. PICK n \in 1..Len(operations) :
              /\ n # 1 /\ ~Fenced(n)
              /\ job[t].history \in {{n}, job[t].of.checkpoint \cup {n}}
              /\ job[t].history # {n} => operations[n].deps # {}
              /\ Elsewhere(t, n)
        BY <2>1 DEF Migrating
    <2>3. n \in 1..Len(operations') /\ operations'[n] = operations[n]
        BY <2>2, NamingKnown DEF Naming, Extends
    <2> QED BY <1>2, <2>1, <2>2, <2>3 DEF Fenced
<1>4. CASE Starts(t)
    <2>1. /\ stored # None /\ job'[t].of = stored /\ stored.checkpoint # {}
          /\ UNCHANGED <<stored, sent>> /\ \A u \in Threads \ {t} : job'[u] = job[u]
        BY <1>4 DEF Starts, TypeInv, TypeOK, Envelopes, Naming
    <2>2. PICK n \in Plain :
              \/ job'[t].history = {n} /\ operations'[n].deps = {}
              \/ /\ job'[t].history = stored.checkpoint \cup {n}
                 /\ operations'[n].deps = stored.checkpoint
        BY <1>4 DEF Starts
    <2>3. /\ operations'[n].fence = None /\ n \notin 1..Len(operations) /\ n # 1
          /\ n \in 1..Len(operations')
        BY NamingKnown DEF Plain
    <2>4. n \notin Public'
        <3>1. Public' = Public
            BY <2>1 DEF Public
        <3> QED BY <2>3, <3>1, NamedIsKnown DEF Known
    <2>5. \A etag \in Etags : n \notin etag
        BY <2>3 DEF Etagged, Known
    <2>6. ASSUME NEW u \in Threads \ {t} PROVE n \notin Named(job[u])'
        <3>1. Named(job[u])' = Named(job[u])
            BY <2>1 DEF Named
        <3> QED BY <2>3, <3>1, NamedIsKnown DEF Known
    <2>7. Elsewhere(t, n)'
        BY <1>1, <2>4, <2>5, <2>6 DEF Elsewhere
    <2>8. /\ job'[t].history \in {{n}, job'[t].of.checkpoint \cup {n}}
          /\ job'[t].history # {n} => operations'[n].deps # {}
        BY <2>1, <2>2
    <2> QED BY <2>3, <2>7, <2>8
<1>5. ~Delivers(t)
    BY DEF Delivers, TypeInv, TypeOK, Requests, Requested
<1>6. job'[t] # Idle /\ ~WritesEdit(t) /\ ~WritesText(t)
    BY DEF Idle, WritesEdit, WritesText
<1> QED BY <1>1, <1>3, <1>4, <1>5, <1>6 DEF JobNames

LEMMA AcceptingKept ==
    ASSUME TypeInv, TypeInv', StoredFirst, Earlier, Accepting, Naming
    PROVE  Accepting'
<1> SUFFICES ASSUME NEW n \in Circulating', Fenced(n)'
             PROVE  /\ operations'[n].fence \in Etags'
                    /\ operations'[n].deps \subseteq operations'[n].fence
                    /\ NeverRemoved' => operations'[n].deps = operations'[n].fence
                    /\ \E r \in operations'[n].deps : operations'[r].deps = {}
    BY DEF Accepting
<1>1. /\ n \in Circulating /\ n \in 1..Len(operations) /\ Fenced(n)
      /\ operations'[n] = operations[n]
    BY CirculatingAfter
<1>2. Etags' = Etags /\ NeverRemoved' = NeverRemoved
    BY DEF Naming, Etags, NeverRemoved
<1>3. \A r \in operations[n].deps : operations'[r] = operations[r]
    BY <1>1, NamingKnown DEF Earlier
<1> QED BY <1>1, <1>2, <1>3 DEF Accepting

LEMMA LeftBehindKept ==
    ASSUME TypeInv, TypeInv', StoredFirst, Earlier, LeftBehind, Naming
    PROVE  LeftBehind'
<1> SUFFICES ASSUME NeverRemoved', stored' # None, NEW n \in Circulating', Fenced(n)'
             PROVE  \/ n \in stored'.checkpoint
                    \/ \E r \in operations'[n].deps :
                          operations'[r].deps = {} /\ r \notin stored'.checkpoint
    BY DEF LeftBehind
<1>1. /\ n \in Circulating /\ n \in 1..Len(operations) /\ Fenced(n)
      /\ operations'[n] = operations[n]
    BY CirculatingAfter
<1>2. UNCHANGED stored /\ NeverRemoved' = NeverRemoved
    BY DEF Naming, NeverRemoved
<1>3. \A r \in operations[n].deps : operations'[r] = operations[r]
    BY <1>1, NamingKnown DEF Earlier
<1> QED BY <1>1, <1>2, <1>3 DEF LeftBehind

LEMMA OneEachKept ==
    ASSUME TypeInv, OneEach, Naming
    PROVE  OneEach'
<1>1. UNCHANGED stored /\ NeverRemoved' = NeverRemoved
    BY DEF Naming, NeverRemoved
<1>2. stored # None => \A n \in stored.checkpoint : operations'[n] = operations[n]
    BY NamedIsKnown, NamingKnown DEF Known
<1> QED BY <1>1, <1>2 DEF OneEach, Fenced

LEMMA NamingKept ==
    ASSUME TypeInv, TypeInv', IInv, Naming
    PROVE  IInv'
BY EarlierKept, StoredFirstKept, EtaggedKept, RootedKept, AdvancingKept, WrittenOnKept,
   FoundedKept, MigratingKept, AcceptingKept, LeftBehindKept, OneEachKept DEF IInv


-----------------------------------------------------------------------------
(* A swap: what it replaces, records and leaves in circulation.            *)
LEMMA SwapTo ==
    ASSUME TypeInv, NEW t \in Threads, Swap(t)
    PROVE  /\ UNCHANGED <<operations, sent>>
           /\ job[t].phase = "commit" /\ job[t].read = stored
           /\ job'[t].phase = "announce" /\ job'[t].call = job[t].call
           /\ job'[t].request = job[t].request /\ job'[t].history = {}
           /\ \A u \in Threads \ {t} : job'[u] = job[u]
           /\ Etags' = Etags \cup (IF stored' = None THEN {} ELSE {stored'.checkpoint})
           /\ NeverRemoved' => NeverRemoved /\ job[t].call \notin {"delete", "reset"}
           /\ changes' # <<>>
           /\ changes = <<>> => Etags = {}
<1>1. /\ job[t].phase = "commit" /\ job[t].read = stored /\ stored' = Candidate(t)
      /\ UNCHANGED <<operations, sent>>
      /\ job'[t].phase = "announce" /\ job'[t].call = job[t].call
      /\ job'[t].request = job[t].request
      /\ \A u \in Threads \ {t} : job'[u] = job[u]
    BY SwapMoves
<1>2. job'[t].history = {}
    <2> DEFINE j == [Idle EXCEPT !.phase = "announce", !.call = job[t].call,
                                 !.request = job[t].request, !.change = Len(changes) + 1]
    <2>1. job'[t] = j
        BY DEF Swap, Set, TypeInv, TypeOK
    <2>2. j.history = {}
        BY DEF Idle
    <2> QED BY <2>1, <2>2
<1>3. /\ changes' \in Seq(Changes) /\ Len(changes) \in Nat
      /\ Len(changes') = Len(changes) + 1
      /\ changes'[Len(changes) + 1] = Change(t)
      /\ \A k \in 1..Len(changes) : changes'[k] = changes[k]
      /\ DOMAIN changes = 1..Len(changes) /\ DOMAIN changes' = 1..Len(changes) + 1
    BY SwapRecords, LenProperties DEF TypeInv, TypeOK
<1>4. Change(t).call = job[t].call /\ Change(t).after = Etag(stored')
    BY <1>1, ChangeOK DEF Swap
<1>5. stored' \in Envelopes(Peer) \cup {None}
    BY <1>1, CandidateOK DEF Swap
<1>6. stored' # None => stored'.checkpoint # None
    BY <1>5, NoneAssumption DEF Envelopes
<1>7. Etags' = Etags \cup (IF stored' = None THEN {} ELSE {stored'.checkpoint})
    <2>1. {changes'[k].after : k \in DOMAIN changes'} =
              {changes[k].after : k \in DOMAIN changes} \cup {Etag(stored')}
        BY <1>3, <1>4
    <2> QED BY <1>6, <2>1 DEF Etags, Etag
<1>8. NeverRemoved' => NeverRemoved /\ job[t].call \notin {"delete", "reset"}
    BY <1>3, <1>4 DEF NeverRemoved
<1>9. changes' # <<>>
    BY <1>3, EmptySeq
<1>10. changes = <<>> => Etags = {}
    BY DEF Etags
<1> QED BY <1>1, <1>2, <1>3, <1>7, <1>8, <1>9, <1>10

(* The edit of a call is fenced on the document it replaces, and holds     *)
(* what it was written on.                                                 *)
LEMMA SwapOwn ==
    ASSUME TypeInv, Judgements, Etagged, Rooted, WrittenOn, Founded,
           NEW t \in Threads, Swap(t), OwnEdit(job[t])
    PROVE  /\ stored # None /\ job[t].call = "edit"
           /\ \E n \in 1..Len(operations) :
                 /\ job[t].request.update = {n}
                 /\ Fenced(n) /\ operations[n].fence = stored.checkpoint
                 /\ operations[n].fence \in Etags
                 /\ operations[n].deps \subseteq stored.checkpoint
                 /\ NeverRemoved => operations[n].deps = stored.checkpoint
                 /\ \E r \in operations[n].deps : operations[r].deps = {}
           /\ job[t].request.base \subseteq stored.checkpoint
<1> DEFINE request == job[t].request
<1>1. /\ job[t].phase = "commit" /\ job[t].call = "edit" /\ job[t].read = stored
      /\ job[t].call \in Requested
    BY SwapTo DEF OwnEdit, Requested
<1>2. stored # None
    BY <1>1, SwapStores DEF Creating
<1>3. PICK n \in 1..Len(operations) : /\ request.update = {n}
                                      /\ operations[n].deps = request.base
                                      /\ operations[n].fence = request.fence
    BY DEF OwnEdit
<1>4. request.fence \in Etags /\ request.fence # None
    BY <1>1 DEF Etagged, Etags
<1>5. request.fence = stored.checkpoint
    BY <1>1, <1>2, <1>4 DEF Judgements, JudgedOver
<1>6. request.base \subseteq stored.checkpoint
    BY <1>1, <1>2 DEF Founded
<1>7. NeverRemoved => request.base = request.fence
    BY <1>1, <1>5, <1>6 DEF WrittenOn
<1>8. Roots(request.base) # {}
    BY <1>1 DEF Rooted
<1> QED BY <1>1, <1>2, <1>3, <1>4, <1>5, <1>6, <1>7, <1>8 DEF Fenced, Roots

(* A migration brings one operation of its own, over the document that is  *)
(* replaced.                                                               *)
LEMMA SwapMigrates ==
    ASSUME TypeInv, MigratesWhole, Migrating, NEW t \in Threads, Swap(t),
           job[t].call = "migrate"
    PROVE  /\ stored # None
           /\ \E n \in 1..Len(operations) :
                 /\ ~Fenced(n) /\ Elsewhere(t, n)
                 /\ stored'.checkpoint \in {{n}, stored.checkpoint \cup {n}}
<1>1. /\ job[t].phase = "commit" /\ job[t].read = stored /\ stored # None
      /\ stored'.checkpoint = job[t].history
    BY SwapTo, SwapStores DEF Creating, Giving
<1>2. stored.checkpoint = job[t].of.checkpoint
    BY <1>1 DEF MigratesWhole
<1> QED BY <1>1, <1>2 DEF Migrating

(* What is stored after a swap was, or comes of the call.                  *)
LEMMA SwapKinds ==
    ASSUME TypeInv, NEW t \in Threads, Swap(t)
    PROVE  /\ stored' # None =>
                \/ /\ job[t].call \in Requested /\ stored # None
                   /\ stored'.checkpoint = job[t].request.update \cup stored.checkpoint
                \/ /\ job[t].call = "bootstrap" /\ stored = None
                   /\ stored'.checkpoint = job[t].request.update
                \/ /\ job[t].call \in {"seed", "restore"} /\ stored = None
                   /\ stored'.checkpoint = job[t].history
                \/ /\ job[t].call = "migrate" /\ stored # None
                   /\ stored'.checkpoint = job[t].history
                \/ /\ job[t].call = "repair" /\ stored # None
                   /\ stored'.checkpoint = stored.checkpoint
           /\ stored' = None => job[t].call \in {"delete", "reset"}
BY SwapStores DEF AllCalls, Operated, Requested, Giving, Creating

(* What circulates after a swap did before, and the edit it stores.        *)
LEMMA SwapCirculates ==
    ASSUME TypeInv, NEW t \in Threads, Swap(t), NEW n \in Circulating'
    PROVE  \/ n \in Circulating
           \/ OwnEdit(job[t]) /\ n \in job[t].request.update
<1>1. /\ UNCHANGED <<operations, sent>> /\ job[t].phase = "commit"
      /\ job'[t].phase = "announce" /\ job'[t].call = job[t].call
      /\ job'[t].request = job[t].request /\ job'[t].history = {}
      /\ \A u \in Threads \ {t} : job'[u] = job[u]
    BY SwapTo
<1>2. Loose(job[t]) \subseteq Circulating /\ Public \subseteq Circulating
    BY DEF Circulating
<1>3. ASSUME NEW m \in Named(job[t])
      PROVE  m \in Circulating \/ (OwnEdit(job[t]) /\ m \in job[t].request.update)
    <2>1. CASE OwnEdit(job[t])
        <3>1. Named(job[t]) = job[t].request.base \cup job[t].request.update
            BY <2>1, NamedIs DEF OwnEdit, Requested
        <3> QED BY <1>2, <1>3, <2>1, <3>1 DEF Loose
    <2>2. CASE ~OwnEdit(job[t])
        BY <1>2, <1>3, <2>2 DEF Loose
    <2> QED BY <2>1, <2>2
<1>4. CASE stored' # None /\ n \in stored'.checkpoint
    <2>1. stored'.checkpoint \subseteq Public \cup Named(job[t])
        BY <1>1, <1>4, SwapKinds, NamedIs, PublicHolds DEF Requested
    <2> QED BY <1>2, <1>3, <1>4, <2>1
<1>5. ASSUME NEW r \in sent, n \in r.base \cup r.update PROVE n \in Circulating
    BY <1>2, <1>5, PublicHolds
<1>6. ASSUME NEW u \in Threads, n \in Loose(job[u])'
      PROVE  n \in Circulating \/ (OwnEdit(job[t]) /\ n \in job[t].request.update)
    <2>1. CASE u = t
        <3>1. Loose(job[t])' \subseteq Named(job[t])
            BY <1>1 DEF Loose, OwnEdit, Named
        <3> QED BY <1>3, <1>6, <2>1, <3>1
    <2>2. CASE u # t
        <3>1. Loose(job[u])' = Loose(job[u])
            BY <1>1, <2>2 DEF Loose, OwnEdit, Named
        <3> QED BY <1>6, <3>1 DEF Circulating
    <2> QED BY <2>1, <2>2
<1>7. \/ stored' # None /\ n \in stored'.checkpoint
      \/ \E r \in sent : n \in r.base \cup r.update
      \/ \E u \in Threads : n \in Loose(job[u])'
    BY <1>1 DEF Circulating, Public
<1> QED BY <1>4, <1>5, <1>6, <1>7


-----------------------------------------------------------------------------
(* A swap keeps each part of the invariant.                                *)
LEMMA SwapKeepsStoredFirst ==
    ASSUME TypeInv, StoredFirst, NEW t \in Threads, Swap(t)
    PROVE  StoredFirst'
<1>1. /\ UNCHANGED operations /\ changes' # <<>>
      /\ NeverRemoved' => job[t].call \notin {"delete", "reset"}
    BY SwapTo
<1>2. ~Fenced(1)'
    BY <1>1 DEF StoredFirst, Fenced
<1>3. NeverRemoved' => stored' # None
    BY <1>1, SwapKinds
<1> QED BY <1>1, <1>2, <1>3 DEF StoredFirst

LEMMA SwapKeepsEtagged ==
    ASSUME TypeInv, TypeInv', Etagged, NEW t \in Threads, Swap(t)
    PROVE  Etagged'
<1>1. /\ UNCHANGED <<operations, sent>>
      /\ job[t].phase = "commit" /\ job'[t].call = job[t].call
      /\ job'[t].request = job[t].request
      /\ \A u \in Threads \ {t} : job'[u] = job[u]
      /\ Etags' = Etags \cup (IF stored' = None THEN {} ELSE {stored'.checkpoint})
    BY SwapTo
<1>2. stored' # None => stored'.checkpoint \subseteq 1..Len(operations')
    BY DEF TypeInv, StoredOK, Known
<1>3. \A etag \in Etags' : etag \subseteq 1..Len(operations')
    BY <1>1, <1>2 DEF Etagged, Known
<1>4. ASSUME NEW u \in Threads, job'[u].phase # "idle", job'[u].call = "edit"
      PROVE  job'[u].request.fence \in Etags'
    BY <1>1, <1>4 DEF Etagged
<1>5. \A r \in sent' : r.call = "edit" => r.fence \in Etags'
    BY <1>1 DEF Etagged
<1> QED BY <1>1, <1>3, <1>4, <1>5 DEF Etagged, Known

LEMMA SwapKeepsRooted ==
    ASSUME TypeInv, Rooted, NEW t \in Threads, Swap(t)
    PROVE  Rooted'
<1>1. /\ UNCHANGED <<operations, sent>>
      /\ job[t].phase = "commit" /\ job'[t].call = job[t].call /\ job'[t].phase = "announce"
      /\ job'[t].request = job[t].request
      /\ \A u \in Threads \ {t} : job'[u] = job[u]
    BY SwapTo
<1>2. \A history : Roots(history)' = RootsIn(operations, history')
    BY <1>1 DEF Roots, RootsIn
<1>3. stored' # None => RootsIn(operations, stored'.checkpoint) # {}
    <2>1. /\ stored # None => RootsIn(operations, stored.checkpoint) # {}
          /\ job[t].call = "bootstrap" => RootsIn(operations, job[t].request.update) # {}
          /\ job[t].call \in Giving => RootsIn(operations, job[t].history) # {}
        BY <1>1, ReadIn DEF Rooted
    <2> QED BY <2>1, SwapKinds DEF RootsIn, Giving
<1>4. \A r \in sent' : /\ r.call = "bootstrap" => RootsIn(operations, r.update) # {}
                       /\ r.call = "import" => RootsIn(operations, r.base) # {}
    BY <1>1, ReadIn DEF Rooted
<1>5. ASSUME NEW u \in Threads
      PROVE  /\ job'[u].phase # "idle" /\ job'[u].call = "bootstrap"
                    => RootsIn(operations, job'[u].request.update) # {}
             /\ job'[u].phase \in {"judge", "commit"} =>
                   /\ job'[u].call \in Giving => RootsIn(operations, job'[u].history) # {}
                   /\ job'[u].call = "edit" => RootsIn(operations, job'[u].request.base) # {}
    BY <1>1, ReadIn DEF Rooted
<1> QED BY <1>1, <1>3, <1>4, <1>5 DEF Rooted, Roots, RootsIn

LEMMA SwapKeepsAdvancing ==
    ASSUME TypeInv, Judgements, MigratesWhole, StoredFirst, Advancing, Migrating,
           NEW t \in Threads, Swap(t)
    PROVE  Advancing'
<1> SUFFICES ASSUME NeverRemoved', stored' # None, NEW etag \in Etags',
                    etag # stored'.checkpoint, stored'.checkpoint \subseteq etag
             PROVE  FALSE
    BY DEF Advancing
<1>1. /\ etag \in Etags /\ NeverRemoved
      /\ job[t].phase = "commit" /\ job[t].read = stored
      /\ changes = <<>> => Etags = {}
    BY SwapTo
<1>2. stored # None
    BY <1>1 DEF StoredFirst
<1>3. etag = stored.checkpoint \/ ~ stored.checkpoint \subseteq etag
    BY <1>1, <1>2 DEF Advancing
<1>4. CASE job[t].call \in Requested
    <2>1. stored'.checkpoint = job[t].request.update \cup stored.checkpoint
        BY <1>2, <1>4, SwapKinds DEF Requested
    <2>2. ~ job[t].request.update \subseteq stored.checkpoint
        BY <1>1, <1>2, <1>4 DEF Judgements, JudgedOver
    <2> QED BY <1>3, <2>1, <2>2
<1>5. CASE job[t].call = "migrate"
    <2>1. PICK n : Elsewhere(t, n) /\ n \in stored'.checkpoint
        BY <1>5, SwapMigrates
    <2> QED BY <1>1, <2>1 DEF Elsewhere
<1>6. CASE job[t].call = "repair"
    BY <1>3, <1>6, SwapKinds DEF Requested
<1> QED BY <1>2, <1>4, <1>5, <1>6, SwapKinds

LEMMA SwapKeepsJobs ==
    ASSUME TypeInv, Earlier, WrittenOn, Founded, NEW t \in Threads, Swap(t)
    PROVE  Earlier' /\ WrittenOn' /\ Founded'
<1>1. /\ UNCHANGED <<operations, sent>>
      /\ job'[t].phase = "announce"
      /\ \A u \in Threads \ {t} : job'[u] = job[u]
      /\ NeverRemoved' => NeverRemoved
    BY SwapTo
<1>2. Earlier'
    BY <1>1 DEF Earlier
<1>3. WrittenOn'
    BY <1>1 DEF WrittenOn
<1>4. Founded'
    BY <1>1 DEF Founded, Roots, Dependencies
<1> QED BY <1>2, <1>3, <1>4

LEMMA SwapKeepsMigrating ==
    ASSUME TypeInv, Migrating, NEW t \in Threads, Swap(t)
    PROVE  Migrating'
<1> SUFFICES ASSUME NEW u \in Threads, job'[u].phase \in {"judge", "commit"},
                    job'[u].call = "migrate"
             PROVE  \E n \in 1..Len(operations') :
                        /\ n # 1 /\ ~Fenced(n)'
                        /\ job'[u].history \in {{n}, job'[u].of.checkpoint \cup {n}}
                        /\ job'[u].history # {n} => operations'[n].deps # {}
                        /\ Elsewhere(u, n)'
    BY DEF Migrating
<1>1. /\ UNCHANGED <<operations, sent>> /\ job[t].phase = "commit"
      /\ job'[t].phase = "announce" /\ job'[t].call = job[t].call
      /\ job'[t].request = job[t].request /\ job'[t].history = {}
      /\ \A v \in Threads \ {t} : job'[v] = job[v]
      /\ Etags' = Etags \cup (IF stored' = None THEN {} ELSE {stored'.checkpoint})
    BY SwapTo
<1>2. u # t /\ job'[u] = job[u]
    BY <1>1
<1>3. PICK n \in 1..Len(operations) :
          /\ n # 1 /\ ~Fenced(n)
          /\ job[u].history \in {{n}, job[u].of.checkpoint \cup {n}}
          /\ job[u].history # {n} => operations[n].deps # {}
          /\ Elsewhere(u, n)
    BY <1>2 DEF Migrating
<1>4. stored' # None => n \notin stored'.checkpoint
    <2>1. n \notin Public /\ n \notin Named(job[t])
        BY <1>2, <1>3 DEF Elsewhere
    <2>2. stored' # None => stored'.checkpoint \subseteq Public \cup Named(job[t])
        BY <1>1, SwapKinds, NamedIs, PublicHolds DEF Requested
    <2> QED BY <2>1, <2>2
<1>5. n \notin Public'
    BY <1>1, <1>3, <1>4 DEF Public, Elsewhere
<1>6. ASSUME NEW v \in Threads \ {u} PROVE n \notin Named(job[v])'
    <2>1. Named(job[v])' \subseteq Named(job[v])
        BY <1>1 DEF Named
    <2> QED BY <1>3, <2>1 DEF Elsewhere
<1>7. \A etag \in Etags' : n \notin etag
    BY <1>1, <1>3, <1>4 DEF Elsewhere
<1>8. Elsewhere(u, n)'
    BY <1>5, <1>6, <1>7 DEF Elsewhere
<1> QED BY <1>1, <1>2, <1>3, <1>8 DEF Fenced

LEMMA SwapKeepsAccepting ==
    ASSUME TypeInv, Judgements, Etagged, Rooted, WrittenOn, Founded, Accepting,
           NEW t \in Threads, Swap(t)
    PROVE  Accepting'
<1> SUFFICES ASSUME NEW n \in Circulating', Fenced(n)'
             PROVE  /\ operations'[n].fence \in Etags'
                    /\ operations'[n].deps \subseteq operations'[n].fence
                    /\ NeverRemoved' => operations'[n].deps = operations'[n].fence
                    /\ \E r \in operations'[n].deps : operations'[r].deps = {}
    BY DEF Accepting
<1>1. UNCHANGED operations /\ Etags \subseteq Etags' /\ (NeverRemoved' => NeverRemoved)
    BY SwapTo
<1>2. Fenced(n)
    BY <1>1 DEF Fenced
<1>3. CASE n \in Circulating
    BY <1>1, <1>2, <1>3 DEF Accepting
<1>4. CASE OwnEdit(job[t]) /\ n \in job[t].request.update
    BY <1>1, <1>4, SwapOwn
<1> QED BY <1>3, <1>4, SwapCirculates

(* A document that is swapped in does not bring back what was left behind. *)
LEMMA SwapLeaves ==
    ASSUME TypeInv, MigratesWhole, StoredFirst, Founded, Migrating, Accepting, LeftBehind,
           NEW t \in Threads, Swap(t), NeverRemoved', stored' # None,
           NEW n \in Circulating, Fenced(n)
    PROVE  /\ stored # None
           /\ \/ n \in stored'.checkpoint /\ n \in stored.checkpoint
              \/ \E r \in operations[n].deps :
                    operations[r].deps = {} /\ r \notin stored'.checkpoint
<1>1. /\ NeverRemoved /\ job[t].phase = "commit" /\ job[t].read = stored
    BY SwapTo
<1>2. n \in 1..Len(operations)
    BY NamedIsKnown DEF Known
<1>3. stored # None
    BY <1>1, <1>2 DEF StoredFirst
<1>4. \/ n \in stored.checkpoint
      \/ \E r \in operations[n].deps : operations[r].deps = {} /\ r \notin stored.checkpoint
    BY <1>1, <1>3 DEF LeftBehind
<1>5. CASE job[t].call \in Requested
    <2>1. stored'.checkpoint = job[t].request.update \cup stored.checkpoint
        BY <1>3, <1>5, SwapKinds DEF Requested
    <2>2. Roots(job[t].request.update) \subseteq stored.checkpoint
        BY <1>1, <1>3, <1>5 DEF Founded
    <2>3. \A r : operations[r].deps = {} /\ r \notin stored.checkpoint
              => r \notin stored'.checkpoint
        BY <2>1, <2>2 DEF Roots
    <2> QED BY <1>3, <1>4, <2>1, <2>3
<1>6. CASE job[t].call = "migrate"
    <2>1. PICK m : /\ Elsewhere(t, m)
                   /\ stored'.checkpoint \in {{m}, stored.checkpoint \cup {m}}
        BY <1>6, SwapMigrates
    <2>2. m \notin operations[n].deps
        BY <2>1 DEF Accepting, Elsewhere
    <2>3. CASE n \in stored.checkpoint
        <3>1. \E r \in operations[n].deps : operations[r].deps = {} /\ r # m
            BY <2>2 DEF Accepting
        <3> QED BY <1>3, <2>1, <2>3, <3>1
    <2>4. CASE \E r \in operations[n].deps : operations[r].deps = {} /\ r \notin stored.checkpoint
        BY <1>3, <2>1, <2>2, <2>4
    <2> QED BY <1>4, <2>3, <2>4
<1>7. CASE job[t].call = "repair"
    BY <1>3, <1>4, <1>7, SwapKinds DEF Requested
<1> QED BY <1>3, <1>5, <1>6, <1>7, SwapKinds

LEMMA SwapKeepsLeftBehind ==
    ASSUME TypeInv, Judgements, MigratesWhole, StoredFirst, Founded, Migrating, Accepting,
           LeftBehind, NEW t \in Threads, Swap(t)
    PROVE  LeftBehind'
<1> SUFFICES ASSUME NeverRemoved', stored' # None, NEW n \in Circulating', Fenced(n)'
             PROVE  \/ n \in stored'.checkpoint
                    \/ \E r \in operations'[n].deps :
                          operations'[r].deps = {} /\ r \notin stored'.checkpoint
    BY DEF LeftBehind
<1>1. UNCHANGED operations
    BY SwapTo
<1>2. Fenced(n)
    BY <1>1 DEF Fenced
<1>3. CASE n \in Circulating
    BY <1>1, <1>2, <1>3, SwapLeaves
<1>4. CASE OwnEdit(job[t]) /\ n \in job[t].request.update
    <2>1. job[t].call = "edit"
        BY <1>4 DEF OwnEdit
    <2>2. job[t].request.update \subseteq stored'.checkpoint
        BY <2>1, SwapKinds
    <2> QED BY <1>4, <2>2
<1> QED BY <1>3, <1>4, SwapCirculates

LEMMA SwapKeepsOneEach ==
    ASSUME TypeInv, Judgements, MigratesWhole, Earlier, StoredFirst, Etagged, Rooted, WrittenOn,
           Founded, Migrating, Accepting, LeftBehind, OneEach, NEW t \in Threads, Swap(t)
    PROVE  OneEach'
<1> SUFFICES ASSUME NeverRemoved', stored' # None,
                    NEW n \in stored'.checkpoint, NEW m \in stored'.checkpoint,
                    Fenced(n), operations[m].fence = operations[n].fence
             PROVE  m = n
    <2>1. UNCHANGED operations
        BY SwapTo
    <2> QED BY <2>1 DEF OneEach, Fenced
<1>1. NeverRemoved /\ job[t].phase = "commit" /\ job[t].read = stored /\ UNCHANGED operations
    BY SwapTo
<1>2. Fenced(m)
    BY DEF Fenced
(* An edit that comes in is the call's own: another would bring a root.    *)
<1>3. ASSUME NEW o \in stored'.checkpoint, Fenced(o), stored = None \/ o \notin stored.checkpoint
      PROVE  /\ stored # None /\ OwnEdit(job[t]) /\ job[t].request.update = {o}
             /\ operations[o].fence = stored.checkpoint
    <2>1. CASE o \in Circulating
        <3>1. /\ stored # None
              /\ \E r \in operations[o].deps :
                    operations[r].deps = {} /\ r \notin stored'.checkpoint
            BY <1>3, <2>1, SwapLeaves
        <3>2. CASE job[t].call \in Requested
            <4>1. stored'.checkpoint = job[t].request.update \cup stored.checkpoint
                BY <3>1, <3>2, SwapKinds DEF Requested
            <4>2. /\ Dependencies(job[t].request.update)
                        \subseteq job[t].request.base \cup job[t].request.update
                  /\ job[t].request.base \subseteq stored.checkpoint
                BY <1>1, <3>1, <3>2 DEF Founded
            <4>3. operations[o].deps \subseteq Dependencies(job[t].request.update)
                BY <1>3, <3>1, <4>1 DEF Dependencies
            <4> QED BY <3>1, <4>1, <4>2, <4>3
        <3>3. CASE job[t].call = "migrate"
            <4>1. PICK k : /\ ~Fenced(k)
                           /\ stored'.checkpoint \in {{k}, stored.checkpoint \cup {k}}
                BY <3>3, SwapMigrates
            <4> QED BY <1>3, <3>1, <4>1
        <3>4. CASE job[t].call = "repair"
            BY <1>3, <3>1, <3>4, SwapKinds DEF Requested
        <3> QED BY <3>1, <3>2, <3>3, <3>4, SwapKinds
    <2>2. CASE OwnEdit(job[t]) /\ o \in job[t].request.update
        BY <2>2, SwapOwn
    <2>3. o \in Circulating'
        BY DEF Circulating, Public
    <2> QED BY <2>1, <2>2, <2>3, SwapCirculates
<1>4. CASE stored = None \/ (n \notin stored.checkpoint /\ m \notin stored.checkpoint)
    BY <1>2, <1>3, <1>4
<1>5. CASE stored # None /\ n \in stored.checkpoint /\ m \in stored.checkpoint
    BY <1>1, <1>5 DEF OneEach
(* One stored before was written on the document before it was in it.      *)
<1>6. ASSUME stored # None, NEW o \in stored.checkpoint, Fenced(o),
             operations[o].fence = stored.checkpoint
      PROVE  FALSE
    <2>1. o \in Circulating /\ o \in 1..Len(operations)
        BY <1>6, PublicHolds, NamedIsKnown DEF Circulating, Known
    <2>2. o \in operations[o].deps
        BY <1>1, <1>6, <2>1 DEF Accepting
    <2>3. o \in 1..(o - 1)
        BY <2>1, <2>2 DEF Earlier
    <2> QED BY <2>1, <2>3
<1>7. CASE stored # None /\ n \in stored.checkpoint /\ m \notin stored.checkpoint
    BY <1>2, <1>3, <1>6, <1>7
<1>8. CASE stored # None /\ n \notin stored.checkpoint /\ m \in stored.checkpoint
    BY <1>2, <1>3, <1>6, <1>8
<1> QED BY <1>4, <1>5, <1>7, <1>8

LEMMA SwapKept ==
    ASSUME TypeInv, TypeInv', Judgements, MigratesWhole, IInv, NEW t \in Threads, Swap(t)
    PROVE  IInv'
BY SwapKeepsStoredFirst, SwapKeepsEtagged, SwapKeepsRooted, SwapKeepsAdvancing, SwapKeepsJobs,
   SwapKeepsMigrating, SwapKeepsAccepting, SwapKeepsLeftBehind, SwapKeepsOneEach DEF IInv

-----------------------------------------------------------------------------
(* A store begins with nothing, or with the history of another store.      *)
LEMMA IInvBegins == Init => IInv
<1> SUFFICES ASSUME Init PROVE IInv
    OBVIOUS
<1>1. PICK author \in Principals \cup {System} :
          operations = <<Made(SessionPeer(author), "merge", {}, None)>>
    BY DEF Init
<1>2. /\ Len(operations) = 1 /\ operations[1] = Made(SessionPeer(author), "merge", {}, None)
      /\ Restored \in Envelopes(Peer) /\ Restored.checkpoint = {1}
    BY <1>1, RestoredOK DEF Init
<1>3. operations[1].deps = {} /\ operations[1].fence = None
    BY <1>2 DEF Made
<1>4. \A n \in 1..Len(operations) : n = 1
    BY <1>2
<1>5. /\ sent = {} /\ \A t \in Threads : job[t] = Idle
    BY DEF Init
<1>6. \/ stored = None /\ changes = <<>>
      \/ /\ stored # None /\ stored.checkpoint = {1}
         /\ changes # <<>> /\ Etags = {{1}}
    <2>1. CASE stored = Restored
        <3>1. changes = <<[call |-> "restore", generation |-> 1, incarnation |-> Given,
                           before |-> None, after |-> {1}]>>
            BY <2>1, <1>2, NoneAssumption DEF Init
        <3>2. DOMAIN changes = {1} /\ changes[1].after = {1} /\ changes # <<>>
            BY <3>1
        <3>3. {1} # None
            BY <1>2, NoneAssumption DEF Envelopes
        <3> QED BY <1>2, <2>1, <3>2, <3>3, NoneAssumption DEF Etags
    <2> QED BY <2>1 DEF Init
<1>7. stored = None => Etags = {}
    BY <1>6 DEF Etags
<1>8. Circulating \subseteq {1}
    BY <1>5, <1>6 DEF Circulating, Public, Loose, Named, Idle, OwnEdit
<1>9. Earlier /\ StoredFirst
    BY <1>3, <1>4, <1>6 DEF Earlier, StoredFirst, Fenced
<1>10. Etagged
    BY <1>2, <1>5, <1>6, <1>7 DEF Etagged, Known, Idle
<1>11. Rooted
    BY <1>3, <1>5, <1>6 DEF Rooted, Roots, Idle
<1>12. Advancing /\ OneEach
    BY <1>3, <1>6 DEF Advancing, OneEach, Fenced
<1>13. WrittenOn /\ Founded /\ Migrating
    BY <1>5 DEF WrittenOn, Founded, Migrating, Idle
<1>14. Accepting /\ LeftBehind
    BY <1>3, <1>8 DEF Accepting, LeftBehind, Fenced
<1> QED BY <1>9, <1>10, <1>11, <1>12, <1>13, <1>14 DEF IInv

(* An edit fenced on an etag was written against nothing but what the etag *)
(* names, though the service's own read, the judgement of the fence and the *)
(* swap fall between the commits, migrations, removals and retries of other *)
(* calls.  Only until the document is first removed: it was written against *)
(* the whole of it, and one etag is moved on from by one edit.             *)
THEOREM EditsFromFence == Spec => []EditFromFence
<1>1. TypeInv /\ IInv => EditFromFence
    <2> SUFFICES ASSUME TypeInv, IInv, stored # None,
                        NEW n \in stored.checkpoint, operations[n].fence # None
                 PROVE  /\ operations[n].deps \subseteq operations[n].fence
                        /\ NeverRemoved =>
                              /\ operations[n].deps = operations[n].fence
                              /\ \A m \in stored.checkpoint :
                                    operations[m].fence = operations[n].fence => m = n
        BY DEF EditFromFence
    <2>1. n \in Circulating /\ Fenced(n)
        BY PublicHolds DEF Circulating, Fenced
    <2> QED BY <2>1 DEF IInv, Accepting, OneEach
<1>2. TypeInv /\ TypeInv' /\ RetainedOnce /\ Judgements /\ MigratesWhole /\ IInv /\ [Next]_vars
          => IInv'
    BY StepNames, NamingKept, SwapKept
<1> QED BY <1>1, <1>2, IInvBegins, Typed, OnceAlways, JudgementsAlways, MigratesWholeAlways,
        PTL DEF Spec

=============================================================================
