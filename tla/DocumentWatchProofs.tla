------------------------ MODULE DocumentWatchProofs ------------------------
(***************************************************************************)
(* For every number of changes, threads, connections, resynchronisations   *)
(* and updates that cannot be read, built or encoded: what a watch gives   *)
(* its application is whole, is the stored state in the end unless the     *)
(* last update was one of those, and leaves nothing behind.                *)
(***************************************************************************)
EXTENDS DocumentWatch, FiniteSetTheorems, SequenceTheorems, TLAPS

AnyToken == [born: Nat, last: Nat]
State == [at: AnyToken, from: Nat, replaces: BOOLEAN]
Event ==
    [kind: {"snapshot", "patch"}, id: {1}, from: Nat, revision: Nat \ {0}, state: State]
Operation == {"subscribe", "resync", "heal", "unsubscribe"}
ResponseFrame ==
    [kind: {"response"}, op: Operation, id: {0, 1}, revision: Nat, ok: BOOLEAN,
     upToDate: BOOLEAN]
Frame == Event \cup ResponseFrame
Request == [op: Operation, id: {0, 1}, held: AnyToken]
Acceptance == [id: {0, 1}, revision: Nat, upToDate: BOOLEAN]
Subscription == [revision: Nat \ {0}, delivered: AnyToken]
WatchRecord ==
    [up: BOOLEAN, disposed: BOOLEAN, settled: BOOLEAN, id: {0, 1}, connecting: BOOLEAN,
     accepted: Acceptance, resumeFrom: AnyToken, resyncing: BOOLEAN, revision: Nat,
     held: AnyToken, early: Seq(Event), asking: Nat]

(* Every variable holds what its declaration says.  A connection has one   *)
(* subscription at most.                                                   *)
Typed ==
    /\ stored \in AnyToken
    /\ changes \in Seq([kind: {"created", "committed", "deleted"}, after: Token])
    /\ Len(changes) <= MaxChanges
    /\ racing \subseteq DOMAIN changes
    /\ publications \in Seq(DOMAIN changes)
    /\ next \in 1..Len(publications) + 1
    /\ DOMAIN subs \subseteq {1} /\ subs \in [DOMAIN subs -> Subscription]
    /\ nextId \in {1, 2}
    /\ inbox \in Seq(Request) /\ outbox \in Seq(Frame)
    /\ made \in 0..MaxConnections /\ asked \in 0..MaxResyncs
    /\ watch \in WatchRecord
    /\ unsent \in [count: 0..MaxUnsent, last: BOOLEAN]

-----------------------------------------------------------------------------
(* Histories and states of them.                                           *)

AtMost(a, b) == a.born < b.born \/ (a.born = b.born /\ a.last <= b.last)

(* The document was at the token, or at none: a token of a history that    *)
(* ended is before every token of the next.                                *)
Past(token) ==
    /\ token.born <= Births /\ token.last <= Len(changes)
    /\ token.born = 0 => token.last = 0
    /\ stored # None => AtMost(token, stored)

Chained ==
    /\ Births \in 0..Len(changes)
    /\ stored # None => stored.born = Births /\ stored.born > 0 /\ stored.last \in 1..Len(changes)

(* A replica of operations `have` that takes the state then has the state  *)
(* it names, and nothing else.                                             *)
Fits(have, state) ==
    Operations(state.at) =
        IF \/ state.at = None \/ state.replaces
           \/ \E operation \in have : operation.born # state.at.born
        THEN Lacking(state) ELSE have \cup Lacking(state)

LEMMA FitsImported == \A state : Fits(replica, state) <=> Imported(state) = Operations(state.at)
BY DEF Fits, Imported, Unrelated

LEMMA NoneToken == None \in AnyToken /\ Operations(None) = {}
BY DEF None, AnyToken, Operations

LEMMA OperationsOf ==
    \A token \in AnyToken : \A operation :
        operation \in Operations(token) <=>
            /\ operation \in [born: {token.born}, number: 1..token.last]
BY DEF Operations, AnyToken

(* The whole state fits a replica of any state before it.                  *)
LEMMA WholeFits ==
    ASSUME NEW token \in AnyToken, NEW at \in AnyToken, AtMost(token, at)
    PROVE  Fits(Operations(token), [at |-> at, from |-> 0, replaces |-> FALSE])
<1> DEFINE state == [at |-> at, from |-> 0, replaces |-> FALSE]
<1>1. Lacking(state) = Operations(at)
    BY DEF Lacking, Operations, AnyToken
<1>2. CASE token.born = at.born
    <2>1. Operations(token) \subseteq Operations(at)
        BY <1>2, OperationsOf DEF AtMost, AnyToken
    <2> QED BY <1>1, <2>1 DEF Fits
<1>3. CASE token.born # at.born
    <2>1. \A operation \in Operations(token) : operation.born # at.born
        BY <1>3, OperationsOf
    <2> QED BY <1>1, <2>1 DEF Fits
<1> QED BY <1>2, <1>3

(* The state a subscription that was delivered an earlier one is sent      *)
(* next, or a client that holds one, fits a replica of it.                 *)
LEMMA NextFits ==
    ASSUME NEW token \in AnyToken, stored \in AnyToken, stored # None, AtMost(token, stored)
    PROVE  Fits(Operations(token), AuthoringState(token))
<1>1. CASE token = None
    BY <1>1, WholeFits, NoneToken DEF AuthoringState, None
<1>2. CASE token # None /\ token.born = stored.born
    <2> DEFINE state == [at |-> stored, from |-> token.last, replaces |-> FALSE]
    <2>1. Lacking(state) = {operation \in Operations(stored) : operation.number > token.last}
        BY DEF Lacking
    <2>2. Operations(token) \cup Lacking(state) = Operations(stored)
        <3>1. token.last <= stored.last /\ token.last \in Nat /\ stored.last \in Nat
            BY <1>2 DEF AtMost, AnyToken
        <3>2. Operations(token) \subseteq Operations(stored)
            BY <1>2, <3>1, OperationsOf
        <3>3. \A operation \in Operations(stored) :
                  operation.number <= token.last => operation \in Operations(token)
            BY <1>2, <3>1, OperationsOf
        <3>4. \A operation \in Operations(stored) : operation.number \in Nat
            BY OperationsOf
        <3>5. \A operation \in Operations(stored) :
                  operation \in Operations(token) \/ operation \in Lacking(state)
            <4> SUFFICES ASSUME NEW operation \in Operations(stored),
                                ~(operation.number <= token.last)
                         PROVE  operation \in Lacking(state)
                BY <3>3
            <4>1. operation.number > token.last
                BY <3>1, <3>4
            <4> QED BY <2>1, <4>1
        <3>6. Lacking(state) \subseteq Operations(stored)
            BY <2>1
        <3> HIDE DEF state
        <3> QED BY <3>2, <3>5, <3>6
    <2>3. \A operation \in Operations(token) : operation.born = stored.born
        BY <1>2, OperationsOf
    <2> QED BY <1>2, <2>2, <2>3 DEF Fits, AuthoringState
<1>3. CASE token # None /\ token.born # stored.born
    <2> DEFINE state == [at |-> stored, from |-> 0, replaces |-> TRUE]
    <2>1. Lacking(state) = Operations(stored)
        BY DEF Lacking, Operations, AnyToken
    <2> QED BY <1>3, <2>1 DEF Fits, AuthoringState
<1> QED BY <1>1, <1>2, <1>3

LEMMA RemovedFits == \A have : Fits(have, Removed)
BY NoneToken DEF Fits, Removed, Lacking

LEMMA StateOK ==
    ASSUME stored \in AnyToken, NEW held \in AnyToken
    PROVE  AuthoringState(held) \in State /\ AuthoringState(held).at = stored
BY DEF AuthoringState, State, AnyToken

LEMMA RemovedOK == Removed \in State /\ Removed.at = None
BY NoneToken DEF Removed, State

-----------------------------------------------------------------------------
(* What is on its way.                                                     *)

IsEvent(frame) == frame.kind # "response"
IsReply(frame) == frame.kind = "response" /\ frame.op = "subscribe"

(* The updates the client has not taken, the requests to subscribe the     *)
(* server has not, and their responses.                                    *)
Coming ==
    {watch.early[i] : i \in DOMAIN watch.early}
        \cup {outbox[i] : i \in {j \in DOMAIN outbox : IsEvent(outbox[j])}}
Asked == {i \in DOMAIN inbox : inbox[i].op = "subscribe"}
Replies == {i \in DOMAIN outbox : IsReply(outbox[i])}
Single(S) == \A x, y \in S : x = y

LEMMA Grown ==
    ASSUME NEW S, NEW s \in Seq(S), NEW x
    PROVE  /\ Append(s, x) # <<>>
           /\ Len(Append(s, x)) = Len(s) + 1
           /\ DOMAIN s = 1..Len(s) /\ DOMAIN Append(s, x) = 1..Len(s) + 1
           /\ \A i \in 1..Len(s) : Append(s, x)[i] = s[i]
           /\ Append(s, x)[Len(s) + 1] = x
           /\ x \in S => Append(s, x) \in Seq(S)
BY AppendProperties

LEMMA Shrunk ==
    ASSUME NEW S, NEW s \in Seq(S), s # <<>>
    PROVE  /\ Tail(s) \in Seq(S) /\ Head(s) = s[1] /\ s[1] \in S
           /\ Len(s) \in Nat \ {0} /\ Len(Tail(s)) = Len(s) - 1
           /\ DOMAIN s = 1..Len(s) /\ DOMAIN Tail(s) = 1..Len(s) - 1
           /\ \A i \in 1..Len(s) - 1 : Tail(s)[i] = s[i + 1]
BY HeadTailProperties

LEMMA InboxTaken ==
    ASSUME inbox \in Seq(Request), inbox # <<>>, inbox' = Tail(inbox)
    PROVE  /\ \A i \in DOMAIN inbox' : i + 1 \in DOMAIN inbox /\ inbox'[i] = inbox[i + 1]
           /\ \A i \in DOMAIN inbox \ {1} : i - 1 \in DOMAIN inbox' /\ inbox'[i - 1] = inbox[i]
           /\ Head(inbox) = inbox[1] /\ 1 \in DOMAIN inbox /\ Head(inbox) \in Request
           /\ Asked = {} => Asked' = {}
           /\ Single(Asked) => Single(Asked')
           /\ Single(Asked) /\ Head(inbox).op = "subscribe" => Asked' = {}
<1>1. /\ Len(inbox) \in Nat \ {0} /\ DOMAIN inbox = 1..Len(inbox)
      /\ DOMAIN inbox' = 1..Len(inbox) - 1
      /\ \A i \in DOMAIN inbox' : inbox'[i] = inbox[i + 1]
      /\ Head(inbox) = inbox[1] /\ Head(inbox) \in Request
    BY Shrunk
<1>2. \A i \in DOMAIN inbox' : i \in Nat /\ i + 1 \in DOMAIN inbox /\ inbox'[i] = inbox[i + 1]
    BY <1>1
<1>3. \A i \in DOMAIN inbox \ {1} : i - 1 \in DOMAIN inbox' /\ inbox'[i - 1] = inbox[i]
    BY <1>1
<1>4. \A i \in Asked' : i \in Nat /\ i + 1 \in Asked
    BY <1>2 DEF Asked
<1>5. Single(Asked) => Single(Asked')
    BY <1>4 DEF Single
<1>6. Single(Asked) /\ Head(inbox).op = "subscribe" => Asked' = {}
    <2>1. Head(inbox).op = "subscribe" => 1 \in Asked
        BY <1>1 DEF Asked
    <2>2. \A i \in Asked' : i \in Nat \ {0}
        BY <1>1 DEF Asked
    <2> QED BY <1>4, <2>1, <2>2 DEF Single
<1> QED BY <1>1, <1>2, <1>3, <1>4, <1>5, <1>6

LEMMA InboxGrows ==
    ASSUME inbox \in Seq(Request), NEW request \in Request, Send(request)
    PROVE  /\ inbox' \in Seq(Request)
           /\ DOMAIN inbox \subseteq DOMAIN inbox'
           /\ \A i \in DOMAIN inbox : inbox'[i] = inbox[i]
           /\ \A i \in DOMAIN inbox' :
                 inbox'[i] = request \/ (i \in DOMAIN inbox /\ inbox'[i] = inbox[i])
           /\ \E i \in DOMAIN inbox' : inbox'[i] = request
           /\ request.op # "subscribe" => Asked' = Asked
           /\ Asked = {} => Single(Asked')
<1>1. /\ inbox' \in Seq(Request) /\ DOMAIN inbox = 1..Len(inbox)
      /\ Len(inbox) \in Nat /\ DOMAIN inbox' = 1..Len(inbox) + 1
      /\ \A i \in 1..Len(inbox) : inbox'[i] = inbox[i]
      /\ inbox'[Len(inbox) + 1] = request
    BY Grown, LenProperties DEF Send
<1>2. \A i \in DOMAIN inbox' : i = Len(inbox) + 1 \/ i \in DOMAIN inbox
    BY <1>1
<1>3. request.op # "subscribe" => Asked' = Asked
    BY <1>1, <1>2 DEF Asked
<1>4. Asked = {} => \A i \in Asked' : i = Len(inbox) + 1
    BY <1>1, <1>2 DEF Asked
<1>5. \A i \in DOMAIN inbox : i \in DOMAIN inbox'
    BY <1>1
<1>6. Len(inbox) + 1 \in DOMAIN inbox'
    BY <1>1
<1> QED BY <1>1, <1>2, <1>3, <1>4, <1>5, <1>6 DEF Single

(* A frame more on its way to the client, or one less.                     *)
LEMMA OutboxGrows ==
    ASSUME outbox \in Seq(Frame), NEW frame \in Frame, outbox' = Append(outbox, frame)
    PROVE  /\ outbox' \in Seq(Frame)
           /\ DOMAIN outbox = 1..Len(outbox) /\ DOMAIN outbox' = 1..Len(outbox) + 1
           /\ Len(outbox) \in Nat
           /\ \A i \in 1..Len(outbox) : outbox'[i] = outbox[i]
           /\ outbox'[Len(outbox) + 1] = frame
           /\ IsReply(frame) => Replies' = Replies \cup {Len(outbox) + 1}
           /\ ~IsReply(frame) => Replies' = Replies
           /\ watch'.early = watch.early =>
                 Coming' = Coming \cup (IF IsEvent(frame) THEN {frame} ELSE {})
<1>1. /\ outbox' \in Seq(Frame) /\ DOMAIN outbox = 1..Len(outbox)
      /\ Len(outbox) \in Nat /\ DOMAIN outbox' = 1..Len(outbox) + 1
      /\ \A i \in 1..Len(outbox) : outbox'[i] = outbox[i]
      /\ outbox'[Len(outbox) + 1] = frame
    BY Grown, LenProperties
<1>2. \A i : i \in DOMAIN outbox' <=> i = Len(outbox) + 1 \/ i \in DOMAIN outbox
    BY <1>1
<1>3. \A i \in DOMAIN outbox : outbox'[i] = outbox[i]
    BY <1>1
<1>4. IsReply(frame) => Replies' = Replies \cup {Len(outbox) + 1}
    BY <1>1, <1>2, <1>3 DEF Replies
<1>5. ~IsReply(frame) => Replies' = Replies
    BY <1>1, <1>2, <1>3 DEF Replies
<1>6. {outbox'[i] : i \in {j \in DOMAIN outbox' : IsEvent(outbox'[j])}} =
          {outbox[i] : i \in {j \in DOMAIN outbox : IsEvent(outbox[j])}}
              \cup (IF IsEvent(frame) THEN {frame} ELSE {})
    BY <1>1, <1>2, <1>3
<1> QED BY <1>1, <1>4, <1>5, <1>6 DEF Coming

LEMMA OutboxTaken ==
    ASSUME outbox \in Seq(Frame), Take
    PROVE  /\ outbox' \in Seq(Frame)
           /\ 1 \in DOMAIN outbox /\ Head(outbox) = outbox[1] /\ Head(outbox) \in Frame
           /\ \A i \in DOMAIN outbox' : i \in Nat \ {0} /\ i + 1 \in DOMAIN outbox
                                        /\ outbox'[i] = outbox[i + 1]
           /\ \A i \in DOMAIN outbox \ {1} : i - 1 \in DOMAIN outbox' /\ outbox'[i - 1] = outbox[i]
           /\ \A i \in Replies' : i \in Nat \ {0} /\ i + 1 \in Replies
           /\ \A i \in Replies : i \in Nat \ {0} /\ (i # 1 => i - 1 \in Replies')
           /\ IsReply(Head(outbox)) => 1 \in Replies
           /\ \A f \in {outbox[i] : i \in {j \in DOMAIN outbox : IsEvent(outbox[j])}} :
                 f = Head(outbox) \/ f \in {outbox'[i] : i \in {j \in DOMAIN outbox' : IsEvent(outbox'[j])}}
           /\ \A f \in {outbox'[i] : i \in {j \in DOMAIN outbox' : IsEvent(outbox'[j])}} :
                 f \in {outbox[i] : i \in {j \in DOMAIN outbox : IsEvent(outbox[j])}}
<1>1. /\ Len(outbox) \in Nat \ {0} /\ DOMAIN outbox = 1..Len(outbox)
      /\ outbox' \in Seq(Frame) /\ DOMAIN outbox' = 1..Len(outbox) - 1
      /\ \A i \in DOMAIN outbox' : outbox'[i] = outbox[i + 1]
      /\ Head(outbox) = outbox[1] /\ Head(outbox) \in Frame
    BY Shrunk DEF Take
<1>2. \A i \in DOMAIN outbox' : i \in Nat \ {0} /\ i + 1 \in DOMAIN outbox
                                /\ outbox'[i] = outbox[i + 1]
    BY <1>1
<1>3. \A i \in DOMAIN outbox \ {1} : i - 1 \in DOMAIN outbox' /\ outbox'[i - 1] = outbox[i]
    BY <1>1
<1>4. 1 \in DOMAIN outbox /\ \A i \in DOMAIN outbox : i \in Nat \ {0}
    BY <1>1
<1>5. \A i \in Replies' : i \in Nat \ {0} /\ i + 1 \in Replies
    BY <1>2 DEF Replies
<1>6. \A i \in Replies : i \in Nat \ {0} /\ (i # 1 => i - 1 \in Replies')
    BY <1>3, <1>4 DEF Replies
<1>7. \A i \in DOMAIN outbox : IsEvent(outbox[i]) =>
          outbox[i] = Head(outbox)
              \/ outbox[i] \in {outbox'[k] : k \in {j \in DOMAIN outbox' : IsEvent(outbox'[j])}}
    BY <1>1, <1>3
<1>8. \A i \in DOMAIN outbox' : IsEvent(outbox'[i]) =>
          outbox'[i] \in {outbox[k] : k \in {j \in DOMAIN outbox : IsEvent(outbox[j])}}
    BY <1>2
<1> QED BY <1>1, <1>2, <1>3, <1>4, <1>5, <1>6, <1>7, <1>8 DEF Replies

LEMMA OutboxGrowsTwice ==
    ASSUME outbox \in Seq(Frame), NEW response \in ResponseFrame, NEW event \in Event,
           outbox' = Append(Append(outbox, response), event)
    PROVE  /\ outbox' \in Seq(Frame)
           /\ DOMAIN outbox = 1..Len(outbox) /\ DOMAIN outbox' = 1..Len(outbox) + 2
           /\ Len(outbox) \in Nat
           /\ \A i \in 1..Len(outbox) : outbox'[i] = outbox[i]
           /\ outbox'[Len(outbox) + 1] = response /\ outbox'[Len(outbox) + 2] = event
           /\ IsReply(response) => Replies' = Replies \cup {Len(outbox) + 1}
           /\ ~IsReply(response) => Replies' = Replies
           /\ watch'.early = watch.early => Coming' = Coming \cup {event}
<1> DEFINE middle == Append(outbox, response)
<1>1. /\ DOMAIN outbox = 1..Len(outbox) /\ Len(outbox) \in Nat
      /\ middle \in Seq(Frame) /\ Len(middle) = Len(outbox) + 1
      /\ \A i \in 1..Len(outbox) : middle[i] = outbox[i]
      /\ middle[Len(outbox) + 1] = response
    BY Grown, LenProperties DEF Frame
<1>2. /\ outbox' \in Seq(Frame) /\ DOMAIN outbox' = 1..Len(middle) + 1
      /\ \A i \in 1..Len(middle) : outbox'[i] = middle[i]
      /\ outbox'[Len(middle) + 1] = event
    <2> HIDE DEF middle
    <2>1. outbox' = Append(middle, event)
        BY DEF middle
    <2> QED BY <1>1, <2>1, Grown DEF Frame
<1> HIDE DEF middle
<1>3. /\ DOMAIN outbox' = 1..Len(outbox) + 2
      /\ \A i \in 1..Len(outbox) : outbox'[i] = outbox[i]
      /\ outbox'[Len(outbox) + 1] = response /\ outbox'[Len(outbox) + 2] = event
    BY <1>1, <1>2
<1>4. \A i : i \in DOMAIN outbox' <=>
          i = Len(outbox) + 1 \/ i = Len(outbox) + 2 \/ i \in DOMAIN outbox
    BY <1>1, <1>3
<1>5. ~IsReply(event) /\ IsEvent(event) /\ ~IsEvent(response)
    BY DEF IsReply, IsEvent, Event, ResponseFrame
<1>6. \A i \in DOMAIN outbox : outbox'[i] = outbox[i]
    BY <1>1, <1>3
<1>7. IsReply(response) => Replies' = Replies \cup {Len(outbox) + 1}
    BY <1>3, <1>4, <1>5, <1>6 DEF Replies
<1>8. ~IsReply(response) => Replies' = Replies
    BY <1>3, <1>4, <1>5, <1>6 DEF Replies
<1>9. {outbox'[i] : i \in {j \in DOMAIN outbox' : IsEvent(outbox'[j])}} =
          {outbox[i] : i \in {j \in DOMAIN outbox : IsEvent(outbox[j])}} \cup {event}
    BY <1>3, <1>4, <1>5, <1>6
<1>10. watch'.early = watch.early => Coming' = Coming \cup {event}
    BY <1>9 DEF Coming
<1> QED BY <1>1, <1>2, <1>3, <1>7, <1>8, <1>10

(* What the frames of a response, of an update, and of both are.           *)
LEMMA Appended ==
    ASSUME NEW S, NEW s \in Seq(S), NEW x \in S
    PROVE  s \o <<x>> = Append(s, x) /\ s \o <<>> = s
BY AppendIsConcat, ConcatEmptySeq

LEMMA UnsentOK ==
    ASSUME Typed
    PROVE  /\ [unsent EXCEPT !.last = @ /\ TRUE] = unsent
           /\ [unsent EXCEPT !.last = @ /\ FALSE] \in [count: 0..MaxUnsent, last: BOOLEAN]
           /\ [unsent EXCEPT !.last = @ /\ FALSE].last = FALSE
BY DEF Typed

LEMMA AnswerOK ==
    ASSUME Typed, NEW response \in ResponseFrame, Answer(response)
    PROVE  outbox' = Append(outbox, response) /\ unsent' = unsent
<1>1. outbox \in Seq(Frame) /\ response \in Frame
    BY DEF Typed, Frame
<1>2. <<response>> \in Seq(Frame) /\ (outbox \o <<response>>) \in Seq(Frame)
    BY <1>1, ConcatProperties
<1>3. outbox' = (outbox \o <<response>>) \o <<>>
    BY DEF Answer, Frames
<1>4. unsent' = [unsent EXCEPT !.last = @ /\ TRUE]
    BY DEF Answer, Frames
<1> QED BY <1>1, <1>2, <1>3, <1>4, Appended, ConcatEmptySeq, UnsentOK

LEMMA UpdateOK ==
    ASSUME Typed, NEW event \in Event, Update(event)
    PROVE  /\ \/ outbox' = Append(outbox, event) /\ ~unsent'.last
              \/ outbox' = outbox /\ unsent'.last
           /\ unsent' \in [count: 0..MaxUnsent, last: BOOLEAN]
<1>1. outbox \in Seq(Frame) /\ event \in Frame
    BY DEF Typed, Frame
<1>2. outbox \o <<>> = outbox /\ outbox \o <<event>> = Append(outbox, event)
    BY <1>1, Appended
<1>3. <<event>> # <<>>
    OBVIOUS
<1>4. CASE /\ outbox' = (outbox \o <<>>) \o <<event>>
           /\ unsent' = [unsent EXCEPT !.last = @ /\ <<event>> = <<>>]
    BY <1>2, <1>3, <1>4, UnsentOK
<1>5. CASE /\ unsent.count < MaxUnsent
           /\ outbox' = outbox \o <<>>
           /\ unsent' = [count |-> unsent.count + 1, last |-> TRUE]
    BY <1>2, <1>5, BoundsAssumption DEF Typed
<1> QED BY <1>4, <1>5 DEF Update, Frames

LEMMA BothOK ==
    ASSUME Typed, NEW response \in ResponseFrame, NEW event \in Event,
           Frames(<<response>>, <<event>>)
    PROVE  /\ \/ outbox' = Append(Append(outbox, response), event) /\ ~unsent'.last
              \/ outbox' = Append(outbox, response) /\ unsent'.last
           /\ unsent' \in [count: 0..MaxUnsent, last: BOOLEAN]
<1>1. outbox \in Seq(Frame) /\ response \in Frame /\ event \in Frame
    BY DEF Typed, Frame
<1>2. outbox \o <<response>> = Append(outbox, response) /\ Append(outbox, response) \in Seq(Frame)
    BY <1>1, Appended, Grown
<1>3. Append(outbox, response) \o <<event>> = Append(Append(outbox, response), event)
    BY <1>1, <1>2, Appended
<1>4. <<event>> # <<>>
    OBVIOUS
<1>5. CASE /\ outbox' = (outbox \o <<response>>) \o <<event>>
           /\ unsent' = [unsent EXCEPT !.last = @ /\ <<event>> = <<>>]
    BY <1>2, <1>3, <1>4, <1>5, UnsentOK
<1>6. CASE /\ unsent.count < MaxUnsent
           /\ outbox' = outbox \o <<response>>
           /\ unsent' = [count |-> unsent.count + 1, last |-> TRUE]
    BY <1>2, <1>6, BoundsAssumption DEF Typed
<1> QED BY <1>5, <1>6 DEF Frames

(* What a failure leaves.                                                  *)
LEMMA FailsOK ==
    ASSUME Typed, NEW due \in BOOLEAN, Fails(due)
    PROVE  /\ unsent' \in [count: 0..MaxUnsent, last: BOOLEAN]
           /\ unsent'.last = (unsent.last \/ due)
<1>1. /\ unsent \in [count: 0..MaxUnsent, last: BOOLEAN] /\ MaxUnsent \in Nat
      /\ unsent.count < MaxUnsent
      /\ unsent' = [count |-> unsent.count + 1, last |-> unsent.last \/ due]
    BY BoundsAssumption DEF Typed, Fails
<1>2. unsent.count + 1 \in 0..MaxUnsent /\ (unsent.last \/ due) \in BOOLEAN
    BY <1>1
<1> QED BY <1>1, <1>2

-----------------------------------------------------------------------------
(* The store.                                                              *)

Kinds == {"created", "committed", "deleted"}

LEMMA BirthsOK ==
    ASSUME Typed
    PROVE  IsFiniteSet({i \in DOMAIN changes : changes[i].kind = "created"})
           /\ Births \in 0..Len(changes)
<1> DEFINE Created == {i \in DOMAIN changes : changes[i].kind = "created"}
<1>1. Len(changes) \in Nat /\ DOMAIN changes = 1..Len(changes)
    BY LenProperties DEF Typed
<1>2. IsFiniteSet(1..Len(changes)) /\ Cardinality(1..Len(changes)) = Len(changes)
    <2>1. 1 \in Int /\ Len(changes) \in Int
        BY <1>1
    <2>2. Cardinality(1..Len(changes)) = IF 1 > Len(changes) THEN 0 ELSE Len(changes) - 1 + 1
        BY <2>1, FS_Interval
    <2> QED BY <1>1, <2>1, <2>2, FS_Interval
<1>3. Created \subseteq 1..Len(changes)
    BY <1>1
<1>4. /\ IsFiniteSet(Created) /\ Cardinality(Created) <= Len(changes)
      /\ Cardinality(Created) \in Nat
    BY <1>2, <1>3, FS_Subset, FS_CardinalityType
<1> QED BY <1>1, <1>4 DEF Births

LEMMA ChangeOK ==
    ASSUME Typed, NEW kind \in Kinds, NEW state \in Token, Change(kind, state)
    PROVE  /\ Typed'
           /\ Len(changes) \in Nat /\ Len(changes') = Len(changes) + 1
           /\ DOMAIN changes' = DOMAIN changes \cup {Len(changes) + 1}
           /\ \A i \in DOMAIN changes : changes'[i] = changes[i]
           /\ changes'[Len(changes) + 1].kind = kind
           /\ Births' = (IF kind = "created" THEN Births + 1 ELSE Births)
<1> DEFINE n == Len(changes) + 1
<1> DEFINE Created == {i \in DOMAIN changes : changes[i].kind = "created"}
<1>1. /\ n \in Nat /\ DOMAIN changes = 1..Len(changes) /\ Len(changes) \in Nat
      /\ Len(changes') = n /\ DOMAIN changes' = 1..n
      /\ \A i \in DOMAIN changes : changes'[i] = changes[i]
      /\ changes'[n] = [kind |-> kind, after |-> state]
      /\ changes' \in Seq([kind: Kinds, after: Token])
    BY Grown, LenProperties DEF Typed, Change, Kinds
<1>2. DOMAIN changes' = DOMAIN changes \cup {n} /\ n \notin DOMAIN changes
    BY <1>1
<1>3. /\ Len(changes') <= MaxChanges /\ stored' \in AnyToken
    BY <1>1, BoundsAssumption DEF Change, Typed, Token, AnyToken
<1>4. racing' \subseteq DOMAIN changes' /\ publications' \in Seq(DOMAIN changes')
    BY <1>2, SeqMonotonic DEF Change, Typed
<1>5. Typed'
    BY <1>1, <1>3, <1>4 DEF Typed, Change, Kinds, connection, client
<1>6. Births' = (IF kind = "created" THEN Births + 1 ELSE Births)
    <2>1. {i \in DOMAIN changes' : changes'[i].kind = "created"}
              = (IF kind = "created" THEN Created \cup {n} ELSE Created)
        BY <1>1, <1>2
    <2>2. n \notin Created /\ IsFiniteSet(Created)
        BY <1>2, BirthsOK
    <2>3. Cardinality(Created \cup {n}) = Cardinality(Created) + 1
        BY <2>2, FS_AddElement
    <2> QED BY <2>1, <2>3 DEF Births
<1> QED BY <1>1, <1>2, <1>5, <1>6

(* A change of the document is one past every token seen, or takes it away. *)
LEMMA StoreSteps ==
    ASSUME Typed, Chained, StoreNext
    PROVE  /\ Typed' /\ Chained'
           /\ UNCHANGED <<publications, connection, made, asked, client>>
           /\ Len(changes) \in Nat /\ racing' = racing \cup {Len(changes) + 1}
           /\ DOMAIN changes' = DOMAIN changes \cup {Len(changes) + 1}
           /\ \A i \in DOMAIN changes : changes'[i] = changes[i]
           /\ stored' = None <=> changes'[Len(changes) + 1].kind = "deleted"
           /\ \A token \in AnyToken : Past(token) =>
                 Past(token)' /\ (stored' = None \/ token # stored')
<1>1. /\ Births \in 0..Len(changes) /\ Len(changes) \in Nat /\ Len(changes) < MaxChanges
      /\ MaxChanges \in Nat
    BY BirthsOK, LenProperties, BoundsAssumption
       DEF Typed, StoreNext, Create, Commit, Delete, Change
<1>2. CASE Create
    <2> DEFINE state == [born |-> Births + 1, last |-> 1]
    <2>1. state \in Token /\ state # None /\ Change("created", state)
        BY <1>1, <1>2 DEF Create, Token, None
    <2>2. /\ Typed' /\ Len(changes') = Len(changes) + 1
          /\ DOMAIN changes' = DOMAIN changes \cup {Len(changes) + 1}
          /\ \A i \in DOMAIN changes : changes'[i] = changes[i]
          /\ changes'[Len(changes) + 1].kind = "created" /\ Births' = Births + 1
        BY <2>1, ChangeOK DEF Kinds
    <2>3. stored' = state
        BY <2>1 DEF Change
    <2>4. Chained'
        BY <1>1, <2>2, <2>3 DEF Chained
    <2>5. \A token \in AnyToken : Past(token) => Past(token)' /\ token # stored'
        BY <1>1, <2>2, <2>3 DEF Past, AtMost, AnyToken
    <2> QED BY <1>1, <2>1, <2>2, <2>3, <2>4, <2>5 DEF Change
<1>3. CASE Commit
    <2> DEFINE state == [stored EXCEPT !.last = @ + 1]
    <2>1. /\ state.born = stored.born /\ state.last = stored.last + 1
          /\ state = [born |-> stored.born, last |-> stored.last + 1]
        <3>1. stored \in AnyToken
            BY DEF Typed
        <3> QED BY <3>1 DEF AnyToken
    <2>2. state \in Token /\ state # None /\ Change("committed", state)
        BY <1>1, <1>3, <2>1 DEF Commit, Token, None, Chained
    <2>3. /\ Typed' /\ Len(changes') = Len(changes) + 1
          /\ DOMAIN changes' = DOMAIN changes \cup {Len(changes) + 1}
          /\ \A i \in DOMAIN changes : changes'[i] = changes[i]
          /\ changes'[Len(changes) + 1].kind = "committed" /\ Births' = Births
        BY <2>2, ChangeOK DEF Kinds
    <2>4. stored' = state
        BY <2>2 DEF Change
    <2>5. Chained'
        BY <1>1, <1>3, <2>1, <2>3, <2>4 DEF Chained, Commit
    <2>6. /\ stored \in AnyToken /\ stored # None
          /\ stored'.born = stored.born /\ stored'.last = stored.last + 1
        BY <1>3, <2>1, <2>4 DEF Typed, Commit
    <2>7. \A token \in AnyToken : Past(token) => Past(token)' /\ token # stored'
        <3> HIDE DEF state
        <3> QED BY <1>1, <2>3, <2>6 DEF Past, AtMost, AnyToken
    <2> QED BY <1>1, <2>2, <2>3, <2>4, <2>5, <2>7 DEF Change
<1>4. CASE Delete
    <2>1. None \in Token /\ Change("deleted", None)
        BY <1>1, <1>4 DEF Delete, Token, None
    <2>2. /\ Typed' /\ Len(changes') = Len(changes) + 1
          /\ DOMAIN changes' = DOMAIN changes \cup {Len(changes) + 1}
          /\ \A i \in DOMAIN changes : changes'[i] = changes[i]
          /\ changes'[Len(changes) + 1].kind = "deleted" /\ Births' = Births
        BY <2>1, ChangeOK DEF Kinds
    <2>3. stored' = None
        BY <2>1 DEF Change
    <2>4. Chained'
        BY <1>1, <2>2, <2>3 DEF Chained
    <2>5. \A token \in AnyToken : Past(token) => Past(token)'
        BY <1>1, <2>2, <2>3 DEF Past, AnyToken
    <2> QED BY <1>1, <2>1, <2>2, <2>3, <2>4, <2>5 DEF Change
<1> QED BY <1>2, <1>3, <1>4 DEF StoreNext

LEMMA AnnounceSteps ==
    ASSUME Typed, Chained, NEW n \in racing, Announce(n)
    PROVE  /\ Typed' /\ Chained'
           /\ UNCHANGED <<stored, changes, connection, made, asked, client>>
           /\ Len(publications) \in Nat /\ Len(publications') = Len(publications) + 1
           /\ \A i \in 1..Len(publications) : publications'[i] = publications[i]
           /\ publications'[Len(publications) + 1] = n /\ racing' = racing \ {n}
<1>1. /\ publications' \in Seq(DOMAIN changes) /\ Len(publications) \in Nat
      /\ Len(publications') = Len(publications) + 1
      /\ \A i \in 1..Len(publications) : publications'[i] = publications[i]
      /\ publications'[Len(publications) + 1] = n
    BY Grown, LenProperties DEF Typed, Announce
<1>2. next' \in 1..Len(publications') + 1
    BY <1>1 DEF Typed, Announce, connection
<1>3. Typed'
    BY <1>1, <1>2 DEF Typed, Announce, connection, client
<1>4. Chained'
    BY DEF Announce, Chained, Births
<1> QED BY <1>1, <1>3, <1>4 DEF Announce

-----------------------------------------------------------------------------
(* The connect call is at one place: asked for, answered, accepted, or     *)
(* done; a connection that gave no subscription has nothing to send, and   *)
(* one whose watch goes on has the one it was given.                       *)
Handshake ==
    /\ ~watch.up => /\ watch.id = 0 /\ ~watch.connecting /\ watch.early = <<>>
                    /\ inbox = <<>> /\ outbox = <<>> /\ DOMAIN subs = {}
    /\ Single(Asked) /\ Single(Replies)
    /\ Asked # {} => Replies = {} /\ watch.accepted = NotAccepted /\ nextId = 1
    /\ Replies # {} => watch.accepted = NotAccepted
    /\ \A i \in Replies : IF outbox[i].ok
                          THEN nextId = 2 /\ outbox[i].id = 1 /\ outbox[i].revision > 0
                          ELSE nextId = 1
    /\ watch.accepted # NotAccepted =>
          nextId = 2 /\ watch.accepted.id = 1 /\ watch.accepted.revision > 0
    /\ ~watch.connecting => Asked = {} /\ Replies = {} /\ watch.accepted = NotAccepted
    /\ watch.connecting => watch.id = 0 /\ watch.resumeFrom = watch.held
    /\ watch.disposed => watch.id = 0
    /\ watch.up /\ ~watch.disposed /\ ~watch.connecting /\ watch.id = 0 => nextId = 1
    /\ watch.up /\ nextId = 1 => DOMAIN subs = {} /\ Coming = {} /\ watch.id = 0
    /\ watch.up /\ nextId = 2 /\ ~watch.disposed => DOMAIN subs = {1}
    /\ ~watch.disposed /\ watch.id = 0 => watch.revision = 0 /\ ~watch.resyncing
    /\ \A i \in Asked : inbox[i].held = watch.held
    /\ ~watch.disposed => \A i \in DOMAIN inbox : inbox[i].op # "unsubscribe"
    /\ \A i \in DOMAIN inbox : inbox[i].op # "subscribe" => inbox[i].id = 1

(* The subscription was granted, and its watch goes on.                    *)
Live == watch.up /\ ~watch.disposed /\ nextId = 2

(* A step of the server that grants no subscription.                       *)
LEMMA HandshakeServed ==
    ASSUME Typed, Handshake, watch.up, watch' = watch, nextId' = nextId,
           inbox' = inbox \/ (inbox # <<>> /\ inbox' = Tail(inbox)),
           Replies' = Replies, \A i \in Replies : outbox'[i] = outbox[i],
           Coming' = Coming \/ DOMAIN subs # {},
           DOMAIN subs' = DOMAIN subs \/ (watch.disposed /\ DOMAIN subs' \subseteq DOMAIN subs)
    PROVE  Handshake' /\ inbox' \in Seq(Request)
<1>1. /\ inbox' \in Seq(Request)
      /\ Single(Asked') /\ (Asked = {} => Asked' = {})
      /\ \A i \in Asked' : inbox'[i].held = watch.held
      /\ \A i \in DOMAIN inbox' : \E j \in DOMAIN inbox : inbox'[i] = inbox[j]
    <2>1. CASE inbox' = inbox
        BY <2>1 DEF Asked, Handshake, Typed
    <2>2. CASE inbox # <<>> /\ inbox' = Tail(inbox)
        <3>1. inbox \in Seq(Request) /\ Single(Asked) /\ \A i \in Asked : inbox[i].held = watch.held
            BY DEF Handshake, Typed
        <3>2. /\ inbox' \in Seq(Request)
              /\ Single(Asked') /\ (Asked = {} => Asked' = {})
              /\ \A i \in DOMAIN inbox' : i + 1 \in DOMAIN inbox /\ inbox'[i] = inbox[i + 1]
            BY <2>2, <3>1, InboxTaken, Shrunk
        <3>3. \A i \in Asked' : i + 1 \in Asked /\ inbox'[i] = inbox[i + 1]
            BY <3>2 DEF Asked
        <3> QED BY <3>1, <3>2, <3>3
    <2> QED BY <2>1, <2>2
<1>2. /\ ~watch.disposed => \A i \in DOMAIN inbox' : inbox'[i].op # "unsubscribe"
      /\ \A i \in DOMAIN inbox' : inbox'[i].op # "subscribe" => inbox'[i].id = 1
    <2>1. /\ ~watch.disposed => \A i \in DOMAIN inbox : inbox[i].op # "unsubscribe"
          /\ \A i \in DOMAIN inbox : inbox[i].op # "subscribe" => inbox[i].id = 1
        BY DEF Handshake
    <2>2. \A i \in DOMAIN inbox' : \E j \in DOMAIN inbox : inbox'[i] = inbox[j]
        BY <1>1
    <2> QED BY <2>1, <2>2
<1>3. /\ Asked' # {} => Replies' = {} /\ watch.accepted = NotAccepted /\ nextId = 1
      /\ Replies' # {} => watch.accepted = NotAccepted
      /\ ~watch.connecting => Asked' = {} /\ Replies' = {} /\ watch.accepted = NotAccepted
      /\ \A i \in Replies' : IF outbox'[i].ok
                             THEN nextId = 2 /\ outbox'[i].id = 1 /\ outbox'[i].revision > 0
                             ELSE nextId = 1
    BY <1>1 DEF Handshake
<1>4. /\ watch.up /\ nextId = 1 => DOMAIN subs' = {} /\ Coming' = {} /\ watch.id = 0
      /\ watch.up /\ nextId = 2 /\ ~watch.disposed => DOMAIN subs' = {1}
    BY DEF Handshake
<1> QED BY <1>1, <1>2, <1>3, <1>4 DEF Handshake

-----------------------------------------------------------------------------
(* Updates sent.                                                           *)

(* A resynchronisation the watch made was answered, and the update that    *)
(* goes with it comes, unless it was not sent.                             *)
HealReplies ==
    {i \in DOMAIN outbox : outbox[i].kind = "response" /\ outbox[i].op = "heal"}
HealedAt(revision) ==
    \E i \in HealReplies :
        \/ unsent.last
        \/ \E j \in DOMAIN outbox :
              j > i /\ IsEvent(outbox[j]) /\ outbox[j].revision = revision

(* The update of the subscription's revision is the last on its way.       *)
NewestLast ==
    Live =>
        /\ \A i, j \in DOMAIN watch.early :
              watch.early[i].revision = subs[1].revision => j <= i
        /\ \A i \in DOMAIN watch.early, j \in DOMAIN outbox :
              watch.early[i].revision = subs[1].revision => ~IsEvent(outbox[j])
        /\ \A i, j \in DOMAIN outbox :
              /\ IsEvent(outbox[i]) /\ IsEvent(outbox[j])
              /\ outbox[i].revision = subs[1].revision
              => j <= i

(* The update is on its way, or was not sent.                              *)
Leaves(event) ==
    /\ outbox' \in Seq(Frame) /\ unsent' \in [count: 0..MaxUnsent, last: BOOLEAN]
    /\ Replies' = Replies /\ \A i \in Replies : outbox'[i] = outbox[i]
    /\ watch' = watch =>
          \/ Coming' = Coming \cup {event}
          \/ Coming' = Coming /\ unsent'.last
    /\ \E k \in Nat : \A i \in DOMAIN outbox' :
          IsEvent(outbox'[i]) =>
              \/ i = k /\ outbox'[i] = event
              \/ i < k /\ i \in DOMAIN outbox /\ outbox'[i] = outbox[i]

LEMMA UpdateLeaves ==
    ASSUME Typed, NEW event \in Event, Update(event)
    PROVE  Leaves(event) /\ (HealReplies # {} => HealedAt(event.revision)')
<1>1. /\ outbox \in Seq(Frame) /\ event \in Frame /\ IsEvent(event) /\ ~IsReply(event)
      /\ unsent' \in [count: 0..MaxUnsent, last: BOOLEAN]
    BY UpdateOK DEF Typed, Frame, Event, IsEvent, IsReply
<1>2. CASE outbox' = Append(outbox, event)
    <2>1. /\ outbox' \in Seq(Frame)
          /\ DOMAIN outbox = 1..Len(outbox) /\ DOMAIN outbox' = 1..Len(outbox) + 1
          /\ Len(outbox) \in Nat
          /\ \A i \in 1..Len(outbox) : outbox'[i] = outbox[i]
          /\ outbox'[Len(outbox) + 1] = event
          /\ Replies' = Replies
          /\ watch'.early = watch.early => Coming' = Coming \cup {event}
        BY <1>1, <1>2, OutboxGrows
    <2>2. \A i \in DOMAIN outbox : i \in DOMAIN outbox' /\ Len(outbox) + 1 > i
        BY <2>1
    <2>3. Len(outbox) + 1 \in DOMAIN outbox'
        BY <2>1
    <2>4. HealReplies # {} => HealedAt(event.revision)'
        BY <1>1, <2>1, <2>2, <2>3 DEF HealReplies, HealedAt
    <2>5. \A i \in Replies : outbox'[i] = outbox[i]
        BY <2>1 DEF Replies
    <2>6. \A i \in DOMAIN outbox' :
              \/ i = Len(outbox) + 1 /\ outbox'[i] = event
              \/ i < Len(outbox) + 1 /\ i \in DOMAIN outbox /\ outbox'[i] = outbox[i]
        BY <2>1
    <2>7. Len(outbox) + 1 \in Nat
        BY <2>1
    <2> QED BY <1>1, <2>1, <2>4, <2>5, <2>6, <2>7 DEF Leaves
<1>3. CASE outbox' = outbox /\ unsent'.last
    <2>1. Replies' = Replies /\ HealReplies' = HealReplies
        BY <1>3 DEF Replies, HealReplies
    <2>2. watch' = watch => Coming' = Coming
        BY <1>3 DEF Coming
    <2>3. /\ Len(outbox) + 1 \in Nat
          /\ \A i \in DOMAIN outbox' :
                i < Len(outbox) + 1 /\ i \in DOMAIN outbox /\ outbox'[i] = outbox[i]
        BY <1>1, <1>3, LenProperties
    <2> QED BY <1>1, <1>3, <2>1, <2>2, <2>3 DEF Leaves, HealedAt
<1> QED BY <1>2, <1>3, UpdateOK

LEMMA BothLeave ==
    ASSUME Typed, NEW response \in ResponseFrame, NEW event \in Event,
           Frames(<<response>>, <<event>>), ~IsReply(response)
    PROVE  /\ Leaves(event)
           /\ HealReplies # {} \/ response.op = "heal" => HealedAt(event.revision)'
<1>1. /\ outbox \in Seq(Frame) /\ response \in Frame /\ IsEvent(event) /\ ~IsEvent(response)
      /\ response.kind = "response"
      /\ unsent' \in [count: 0..MaxUnsent, last: BOOLEAN]
    BY BothOK DEF Typed, Frame, Event, IsEvent, ResponseFrame
<1>2. CASE outbox' = Append(Append(outbox, response), event)
    <2>1. /\ outbox' \in Seq(Frame)
          /\ DOMAIN outbox = 1..Len(outbox) /\ DOMAIN outbox' = 1..Len(outbox) + 2
          /\ Len(outbox) \in Nat
          /\ \A i \in 1..Len(outbox) : outbox'[i] = outbox[i]
          /\ outbox'[Len(outbox) + 1] = response /\ outbox'[Len(outbox) + 2] = event
          /\ Replies' = Replies
          /\ watch'.early = watch.early => Coming' = Coming \cup {event}
        BY <1>2, OutboxGrowsTwice DEF Typed
    <2>2. \A i \in DOMAIN outbox : i \in DOMAIN outbox' /\ Len(outbox) + 2 > i
        BY <2>1
    <2>3. /\ Len(outbox) + 2 \in DOMAIN outbox' /\ Len(outbox) + 1 \in DOMAIN outbox'
          /\ Len(outbox) + 2 > Len(outbox) + 1
        BY <2>1
    <2>4. HealReplies # {} => HealedAt(event.revision)'
        <3> SUFFICES ASSUME NEW i \in HealReplies
                     PROVE  HealedAt(event.revision)'
            OBVIOUS
        <3>1. i \in HealReplies' /\ Len(outbox) + 2 > i
            BY <2>1, <2>2 DEF HealReplies
        <3> QED BY <1>1, <2>1, <2>3, <3>1 DEF HealedAt
    <2>5. response.op = "heal" => HealedAt(event.revision)'
        BY <1>1, <2>1, <2>3 DEF HealReplies, HealedAt
    <2>6. \A i \in Replies : outbox'[i] = outbox[i]
        BY <2>1 DEF Replies
    <2>7. /\ Len(outbox) + 2 \in Nat
          /\ \A i \in DOMAIN outbox' :
                IsEvent(outbox'[i]) =>
                    \/ i = Len(outbox) + 2 /\ outbox'[i] = event
                    \/ i < Len(outbox) + 2 /\ i \in DOMAIN outbox /\ outbox'[i] = outbox[i]
        <3>1. \A i \in DOMAIN outbox' :
                  i = Len(outbox) + 1 \/ i = Len(outbox) + 2 \/ i \in DOMAIN outbox
            BY <2>1
        <3>2. \A i \in DOMAIN outbox : i < Len(outbox) + 2 /\ outbox'[i] = outbox[i]
            BY <2>1
        <3>3. Len(outbox) + 2 \in Nat
            BY <2>1
        <3> QED BY <1>1, <2>1, <3>1, <3>2, <3>3
    <2> QED BY <1>1, <2>1, <2>4, <2>5, <2>6, <2>7 DEF Leaves
<1>3. CASE outbox' = Append(outbox, response) /\ unsent'.last
    <2>1. /\ outbox' \in Seq(Frame)
          /\ DOMAIN outbox = 1..Len(outbox) /\ DOMAIN outbox' = 1..Len(outbox) + 1
          /\ Len(outbox) \in Nat
          /\ \A i \in 1..Len(outbox) : outbox'[i] = outbox[i]
          /\ outbox'[Len(outbox) + 1] = response
          /\ Replies' = Replies
          /\ watch'.early = watch.early => Coming' = Coming
        BY <1>1, <1>3, OutboxGrows
    <2>2. \A i \in DOMAIN outbox : i \in DOMAIN outbox'
        BY <2>1
    <2>3. Len(outbox) + 1 \in DOMAIN outbox'
        BY <2>1
    <2>4. HealReplies # {} \/ response.op = "heal" => HealReplies' # {}
        BY <1>1, <2>1, <2>2, <2>3 DEF HealReplies
    <2>5. \A i \in Replies : outbox'[i] = outbox[i]
        BY <2>1 DEF Replies
    <2>6. /\ Len(outbox) + 2 \in Nat
          /\ \A i \in DOMAIN outbox' :
                IsEvent(outbox'[i]) =>
                    i < Len(outbox) + 2 /\ i \in DOMAIN outbox /\ outbox'[i] = outbox[i]
        <3>1. \A i \in DOMAIN outbox' : i = Len(outbox) + 1 \/ i \in DOMAIN outbox
            BY <2>1
        <3>2. \A i \in DOMAIN outbox : i < Len(outbox) + 2 /\ outbox'[i] = outbox[i]
            BY <2>1
        <3>3. Len(outbox) + 2 \in Nat
            BY <2>1
        <3> QED BY <1>1, <2>1, <3>1, <3>2, <3>3
    <2> QED BY <1>1, <1>3, <2>1, <2>4, <2>5, <2>6 DEF Leaves, HealedAt
<1> QED BY <1>2, <1>3, BothOK

(* The client is told that what it holds is the subscription's revision.   *)
Welcomed(revision) ==
    \/ /\ watch.accepted # NotAccepted /\ watch.accepted.upToDate
       /\ watch.accepted.revision = revision
    \/ \E i \in Replies :
          outbox[i].ok /\ outbox[i].upToDate /\ outbox[i].revision = revision

Healing == \E i \in DOMAIN inbox : inbox[i].op = "heal"
Behind(delivered) == stored = None \/ delivered # stored

(* A watch that waits for a resynchronisation is answered, and an update   *)
(* comes after the answer, unless none was sent or one has to come.        *)
Healed ==
    Live /\ watch.resyncing /\ ~Healing =>
        /\ HealReplies # {}
        /\ HealedAt(subs[1].revision) \/ Behind(subs[1].delivered)

(* The update the subscription is sent: what follows the state it was      *)
(* delivered last, or the whole of what is stored.                         *)
Continues(event) ==
    /\ event.revision = subs[1].revision + 1
    /\ \/ /\ event.kind = "patch" /\ event.from = subs[1].revision
          /\ \/ event.state = Removed
             \/ stored # None /\ event.state = AuthoringState(subs[1].delivered)
       \/ event.kind = "snapshot" /\ stored # None /\ event.state = AuthoringState(None)

Sent(event) ==
    /\ Live /\ Live' /\ Continues(event) /\ Leaves(event)
    /\ subs' = [subs EXCEPT ![1] = [revision |-> event.revision, delivered |-> event.state.at]]
    /\ UNCHANGED <<store, nextId, watch, replica>>
    /\ \A revision : Welcomed(revision)' <=> Welcomed(revision)
    /\ HealReplies # {} \/ (Healing /\ ~Healing') => HealedAt(event.revision)'

(* A step that changes nothing of what the client was sent or took.        *)
Aside ==
    /\ Live /\ Live'
    /\ UNCHANGED <<store, subs, replica, watch.held, watch.revision>>
    /\ Coming' = Coming
    /\ \A revision : Welcomed(revision)' <=> Welcomed(revision)
    /\ unsent.last => unsent'.last
    /\ Healing => Healing' \/ stored = None \/ unsent'.last
    /\ Healed => Healed'
    /\ NewestLast => NewestLast'

(* A step that leaves the replies and the subscriptions there are.         *)
Spares ==
    /\ Replies' = Replies /\ \A i \in Replies : outbox'[i] = outbox[i]
    /\ DOMAIN subs' = DOMAIN subs

LEMMA ServedQuietly ==
    ASSUME Typed, Handshake, watch.up, next' \in 1..Len(publications) + 1,
           UNCHANGED <<store, subs, nextId, inbox, outbox, made, asked, client>>,
           unsent' \in [count: 0..MaxUnsent, last: BOOLEAN], unsent.last => unsent'.last
    PROVE  Typed' /\ Handshake' /\ Spares /\ (Live => Aside)
<1>0. UNCHANGED <<stored, changes, racing, publications, watch, replica>>
    BY DEF store, client
<1>1. Typed'
    BY <1>0 DEF Typed
<1>2. /\ Coming' = Coming /\ Replies' = Replies /\ Asked' = Asked /\ Healing' = Healing
      /\ HealReplies' = HealReplies
    BY <1>0 DEF Coming, Replies, Asked, Healing, HealReplies
<1>3. Handshake'
    BY <1>0, <1>2 DEF Handshake
<1>4. ASSUME Live PROVE Aside
    <2>1. \A revision : Welcomed(revision)' <=> Welcomed(revision)
        BY <1>0, <1>2 DEF Welcomed
    <2>2. HealedAt(subs[1].revision) => HealedAt(subs[1].revision)'
        BY <1>2 DEF HealedAt
    <2>3. Behind(subs[1].delivered)' <=> Behind(subs[1].delivered)
        BY <1>0 DEF Behind
    <2>4. Healed => Healed'
        BY <1>0, <1>2, <2>2, <2>3 DEF Healed, Live
    <2>5. NewestLast => NewestLast'
        BY <1>0 DEF NewestLast, Live
    <2> QED BY <1>0, <1>2, <1>4, <2>1, <2>4, <2>5 DEF Aside, Live
<1>5. Spares
    BY <1>2 DEF Spares
<1> QED BY <1>1, <1>3, <1>4, <1>5

LEMMA Served ==
    ASSUME Typed, Handshake, watch.up, next' \in 1..Len(publications) + 1,
           NEW s \in DOMAIN subs, NEW event \in Event, Continues(event), Leaves(event),
           Deliver(s, subs[s].revision + 1, event.state.at),
           UNCHANGED <<store, nextId, made, asked, client>>,
           inbox' = inbox \/ (inbox # <<>> /\ inbox' = Tail(inbox)),
           HealReplies # {} \/ (Healing /\ ~Healing') => HealedAt(event.revision)'
    PROVE  Typed' /\ Handshake' /\ Spares /\ (Live => Sent(event))
<1>0. UNCHANGED <<stored, changes, racing, publications, watch, replica>>
    BY DEF store, client
<1>1. s = 1
    BY DEF Typed
<1>2. /\ subs' = [subs EXCEPT ![1] = [revision |-> event.revision,
                                       delivered |-> event.state.at]]
      /\ DOMAIN subs' = DOMAIN subs
    BY <1>1 DEF Deliver, Continues
<1>3. [revision |-> event.revision, delivered |-> event.state.at] \in Subscription
    BY DEF Event, State, Subscription
<1>4. subs' \in [DOMAIN subs' -> Subscription]
    BY <1>2, <1>3 DEF Typed
<1>5. Handshake' /\ inbox' \in Seq(Request)
    BY <1>0, <1>2, HandshakeServed DEF Leaves
<1>6. Typed'
    BY <1>0, <1>2, <1>4, <1>5 DEF Typed, Leaves
<1>7. \A revision : Welcomed(revision)' <=> Welcomed(revision)
    BY <1>0 DEF Welcomed, Leaves
<1>8. Spares
    BY <1>2 DEF Spares, Leaves
<1> QED BY <1>0, <1>2, <1>5, <1>6, <1>7, <1>8 DEF Sent, Live, store

LEMMA SnapshotOK ==
    ASSUME Typed, stored # None, 1 \in DOMAIN subs, NEW event, event = Resynced(1)
    PROVE  /\ event \in Event /\ Continues(event) /\ event.state.at = stored
           /\ event.revision = subs[1].revision + 1
<1>1. stored \in AnyToken /\ subs[1] \in Subscription
    BY DEF Typed
<1>2. AuthoringState(None) \in State /\ AuthoringState(None).at = stored
    BY <1>1, NoneToken, StateOK
<1> QED BY <1>1, <1>2 DEF Resynced, SnapshotEvent, Event, Continues, Subscription

LEMMA PatchOK ==
    ASSUME Typed, 1 \in DOMAIN subs, NEW event, NEW state,
           event = PatchEvent(1, subs[1].revision, state),
           state = Removed \/ (stored # None /\ state = AuthoringState(subs[1].delivered))
    PROVE  /\ event \in Event /\ Continues(event)
           /\ event.state.at = (IF state = Removed THEN None ELSE stored)
<1>1. stored \in AnyToken /\ subs[1] \in Subscription
    BY DEF Typed
<1>2. /\ AuthoringState(subs[1].delivered) \in State
      /\ AuthoringState(subs[1].delivered).at = stored
    BY <1>1, StateOK DEF Subscription
<1>3. Removed \in State /\ Removed.at = None
    BY RemovedOK
<1> QED BY <1>1, <1>2, <1>3 DEF PatchEvent, Event, Continues, Subscription

(* The connection takes a publication: of a deletion the subscription is   *)
(* told that the document is gone, of a commit the state it has by now,    *)
(* unless that fails.                                                      *)
LEMMA TakeChangeSteps ==
    ASSUME Typed, Handshake, TakeChange
    PROVE  /\ Typed' /\ Handshake' /\ Spares
           /\ Live => Aside \/ \E event \in Event : Sent(event)
           /\ next <= Len(publications) /\ next' = next + 1 /\ UNCHANGED store
           /\ Live => IF changes[publications[next]].kind = "deleted"
                      THEN subs'[1].delivered = None \/ unsent'.last
                      ELSE IF stored # None THEN subs'[1].delivered = stored \/ unsent'.last
                      ELSE UNCHANGED <<subs, unsent>>
<1> DEFINE deleted == changes[publications[next]].kind = "deleted"
<1>0. /\ watch.up /\ next <= Len(publications) /\ next' = next + 1
      /\ UNCHANGED <<store, nextId, inbox, made, asked, client>>
      /\ \/ DOMAIN subs = {} /\ UNCHANGED subs /\ NoFrames
         \/ \E s \in DOMAIN subs :
               IF deleted
               THEN IF subs[s].delivered = None THEN UNCHANGED subs /\ NoFrames ELSE Remove(s)
               ELSE IF IsStored THEN Follow(s) ELSE UNCHANGED subs /\ NoFrames
    BY DEF TakeChange
<1>1. next' \in 1..Len(publications) + 1
    <2>1. next \in 1..Len(publications) + 1 /\ Len(publications) \in Nat
        BY LenProperties DEF Typed
    <2> QED BY <1>0, <2>1
<1>2. Live => DOMAIN subs = {1}
    BY DEF Live, Handshake
<1>3. ASSUME UNCHANGED subs, NoFrames
      PROVE  Typed' /\ Handshake' /\ Spares /\ (Live => Aside)
    BY <1>0, <1>1, <1>3, ServedQuietly DEF NoFrames, Typed
<1>4. ASSUME NEW s \in DOMAIN subs, NEW state,
             \/ deleted /\ state = Removed /\ Deliver(s, subs[s].revision + 1, None)
                /\ Update(PatchEvent(s, subs[s].revision, state))
             \/ ~deleted /\ stored # None /\ state = AuthoringState(subs[s].delivered)
                /\ Deliver(s, subs[s].revision + 1, stored)
                /\ Update(PatchEvent(s, subs[s].revision, state))
      PROVE  /\ Typed' /\ Handshake' /\ Spares
             /\ Live => \E event \in Event : Sent(event)
             /\ subs'[1].delivered = (IF deleted THEN None ELSE stored)
    <2>1. s = 1
        BY DEF Typed
    <2>2. PICK event : event = PatchEvent(1, subs[1].revision, state)
        OBVIOUS
    <2>3. /\ event \in Event /\ Continues(event)
          /\ event.state.at = (IF state = Removed THEN None ELSE stored)
        BY <1>4, <2>1, <2>2, PatchOK
    <2>4. event.state.at = (IF deleted THEN None ELSE stored)
        <3>1. CASE deleted
            BY <1>4, <2>3, <3>1
        <3>2. CASE ~deleted
            <4>1. state # Removed
                <5>1. stored \in AnyToken /\ subs[1].delivered \in AnyToken
                    BY <2>1 DEF Typed, Subscription
                <5>2. state.at = stored /\ stored # None
                    BY <1>4, <2>1, <3>2, <5>1, StateOK
                <5> QED BY <5>2, RemovedOK
            <4> QED BY <2>3, <3>2, <4>1
        <3> QED BY <3>1, <3>2
    <2>5. Deliver(s, subs[s].revision + 1, event.state.at) /\ Update(event)
        BY <1>4, <2>1, <2>2, <2>4
    <2>6. Leaves(event) /\ (HealReplies # {} => HealedAt(event.revision)')
        BY <2>3, <2>5, UpdateLeaves
    <2>7. Healing' = Healing
        BY <1>0 DEF Healing
    <2>8. Typed' /\ Handshake' /\ Spares /\ (Live => Sent(event))
        BY <1>0, <1>1, <2>3, <2>5, <2>6, <2>7, Served
    <2>9. subs'[1].delivered = event.state.at
        BY <2>1, <2>5 DEF Deliver
    <2> QED BY <2>3, <2>4, <2>8, <2>9
<1>5. ASSUME Skipped
      PROVE  Typed' /\ Handshake' /\ Spares /\ (Live => Aside) /\ unsent'.last
    <2>1. Fails(TRUE) /\ UNCHANGED <<subs, outbox>>
        BY <1>5 DEF Skipped
    <2>2. unsent' \in [count: 0..MaxUnsent, last: BOOLEAN] /\ unsent'.last
        BY <2>1, FailsOK
    <2> QED BY <1>0, <1>1, <2>1, <2>2, ServedQuietly
<1>6. ASSUME NEW s \in DOMAIN subs,
             IF deleted
             THEN IF subs[s].delivered = None THEN UNCHANGED subs /\ NoFrames ELSE Remove(s)
             ELSE IF IsStored THEN Follow(s) ELSE UNCHANGED subs /\ NoFrames
      PROVE  /\ Typed' /\ Handshake' /\ Spares
             /\ Live => Aside \/ \E event \in Event : Sent(event)
             /\ Live => IF deleted THEN subs'[1].delivered = None \/ unsent'.last
                        ELSE IF stored # None THEN subs'[1].delivered = stored \/ unsent'.last
                        ELSE UNCHANGED <<subs, unsent>>
    <2>1. s = 1
        BY DEF Typed
    <2>2. CASE deleted /\ subs[1].delivered = None
        BY <1>3, <1>6, <2>1, <2>2
    <2>3. CASE deleted /\ subs[1].delivered # None
        <3>1. Remove(1)
            BY <1>6, <2>1, <2>3
        <3>2. CASE Skipped
            BY <1>5, <2>3, <3>2
        <3>3. CASE ~Skipped
            <4>1. /\ 1 \in DOMAIN subs /\ Deliver(1, subs[1].revision + 1, None)
                  /\ Update(PatchEvent(1, subs[1].revision, Removed))
                BY <2>1, <3>1, <3>3 DEF Remove
            <4> QED BY <1>4, <2>3, <4>1
        <3> QED BY <3>2, <3>3
    <2>4. CASE ~deleted /\ stored = None
        <3>1. UNCHANGED subs /\ NoFrames
            BY <1>6, <2>4 DEF IsStored
        <3> QED BY <1>3, <2>4, <3>1 DEF NoFrames
    <2>5. CASE ~deleted /\ stored # None
        <3>1. Follow(1)
            BY <1>6, <2>1, <2>5 DEF IsStored
        <3>2. CASE subs[1].delivered = stored
            <4>1. UNCHANGED subs /\ NoFrames
                BY <3>1, <3>2 DEF Follow
            <4> QED BY <1>3, <2>5, <3>2, <4>1
        <3>3. CASE Skipped
            BY <1>5, <2>5, <3>3
        <3>4. CASE subs[1].delivered # stored /\ ~Skipped
            <4>1. /\ 1 \in DOMAIN subs /\ Deliver(1, subs[1].revision + 1, stored)
                  /\ Update(PatchEvent(1, subs[1].revision, AuthoringState(subs[1].delivered)))
                BY <2>1, <3>1, <3>4 DEF Follow
            <4> QED BY <1>4, <2>5, <4>1
        <3> QED BY <3>2, <3>3, <3>4
    <2> QED BY <2>2, <2>3, <2>4, <2>5
<1>7. ASSUME \E s \in DOMAIN subs :
                IF deleted
                THEN IF subs[s].delivered = None THEN UNCHANGED subs /\ NoFrames ELSE Remove(s)
                ELSE IF IsStored THEN Follow(s) ELSE UNCHANGED subs /\ NoFrames
      PROVE  /\ Typed' /\ Handshake' /\ Spares
             /\ Live => Aside \/ \E event \in Event : Sent(event)
             /\ Live => IF deleted THEN subs'[1].delivered = None \/ unsent'.last
                        ELSE IF stored # None THEN subs'[1].delivered = stored \/ unsent'.last
                        ELSE UNCHANGED <<subs, unsent>>
    <2>1. PICK s \in DOMAIN subs :
              IF deleted
              THEN IF subs[s].delivered = None THEN UNCHANGED subs /\ NoFrames ELSE Remove(s)
              ELSE IF IsStored THEN Follow(s) ELSE UNCHANGED subs /\ NoFrames
        BY <1>7
    <2> HIDE DEF deleted
    <2> QED BY <1>6, <2>1
<1>8. ASSUME DOMAIN subs = {}, UNCHANGED subs, NoFrames
      PROVE  /\ Typed' /\ Handshake' /\ Spares
             /\ Live => Aside \/ \E event \in Event : Sent(event)
             /\ Live => IF deleted THEN subs'[1].delivered = None \/ unsent'.last
                        ELSE IF stored # None THEN subs'[1].delivered = stored \/ unsent'.last
                        ELSE UNCHANGED <<subs, unsent>>
    BY <1>2, <1>3, <1>8
<1> HIDE DEF deleted
<1>9. /\ Typed' /\ Handshake' /\ Spares
      /\ Live => Aside \/ \E event \in Event : Sent(event)
      /\ Live => IF deleted THEN subs'[1].delivered = None \/ unsent'.last
                 ELSE IF stored # None THEN subs'[1].delivered = stored \/ unsent'.last
                 ELSE UNCHANGED <<subs, unsent>>
    BY <1>0, <1>7, <1>8
<1> QED BY <1>0, <1>9 DEF deleted

LEMMA LagSteps ==
    ASSUME Typed, Handshake, Lag
    PROVE  /\ Typed' /\ Handshake' /\ Spares
           /\ Live => Aside \/ \E event \in Event : Sent(event)
           /\ next' = Len(publications) + 1 /\ UNCHANGED store
           /\ Live => unsent'.last \/ (stored # None /\ subs'[1].delivered = stored)
<1>0. /\ watch.up /\ next' = Len(publications) + 1
      /\ UNCHANGED <<store, nextId, inbox, made, asked, client>>
    BY DEF Lag
<1>1. next' \in 1..Len(publications) + 1
    <2>1. Len(publications) \in Nat
        BY LenProperties DEF Typed
    <2> QED BY <1>0, <2>1
<1>2. Live => DOMAIN subs = {1}
    BY DEF Live, Handshake
<1>3. CASE stored = None
    <2>1. /\ unsent' = [unsent EXCEPT !.last = @ \/ DOMAIN subs # {}]
          /\ UNCHANGED <<subs, outbox>>
        BY <1>3 DEF Lag, IsStored
    <2>2. /\ unsent' \in [count: 0..MaxUnsent, last: BOOLEAN]
          /\ unsent'.last = (unsent.last \/ DOMAIN subs # {})
        BY <2>1 DEF Typed
    <2>3. Typed' /\ Handshake' /\ Spares /\ (Live => Aside)
        BY <1>0, <1>1, <2>1, <2>2, ServedQuietly
    <2> QED BY <1>0, <1>2, <1>3, <2>2, <2>3
<1>4. CASE stored # None /\ DOMAIN subs = {} /\ UNCHANGED subs /\ NoFrames
    <2>1. Typed' /\ Handshake' /\ Spares /\ (Live => Aside)
        BY <1>0, <1>1, <1>4, ServedQuietly DEF NoFrames, Typed
    <2> QED BY <1>0, <1>2, <1>4, <2>1
<1>5. CASE stored # None /\ Skipped
    <2>1. Fails(TRUE) /\ UNCHANGED <<subs, outbox>>
        BY <1>5 DEF Skipped
    <2>2. unsent' \in [count: 0..MaxUnsent, last: BOOLEAN] /\ unsent'.last
        BY <2>1, FailsOK
    <2>3. Typed' /\ Handshake' /\ Spares /\ (Live => Aside)
        BY <1>0, <1>1, <2>1, <2>2, ServedQuietly
    <2> QED BY <1>0, <2>2, <2>3
<1>6. CASE stored # None /\ ~Skipped /\ ~(DOMAIN subs = {} /\ UNCHANGED subs /\ NoFrames)
    <2>1. PICK s \in DOMAIN subs :
              Deliver(s, subs[s].revision + 1, stored) /\ Update(Resynced(s))
        BY <1>6 DEF Lag, IsStored
    <2>2. s = 1
        BY DEF Typed
    <2>3. PICK event : event = Resynced(1)
        OBVIOUS
    <2>4. event \in Event /\ Continues(event) /\ event.state.at = stored
        BY <1>6, <2>2, <2>3, SnapshotOK
    <2>5. Deliver(s, subs[s].revision + 1, event.state.at) /\ Update(event)
        BY <2>1, <2>2, <2>3, <2>4
    <2>6. Leaves(event) /\ (HealReplies # {} => HealedAt(event.revision)')
        BY <2>4, <2>5, UpdateLeaves
    <2>7. Healing' = Healing
        BY <1>0 DEF Healing
    <2>8. Typed' /\ Handshake' /\ Spares /\ (Live => Sent(event))
        BY <1>0, <1>1, <2>4, <2>5, <2>6, <2>7, Served
    <2>9. subs'[1].delivered = stored
        BY <2>2, <2>4, <2>5 DEF Deliver
    <2> QED BY <1>0, <1>6, <2>4, <2>8, <2>9
<1> QED BY <1>3, <1>4, <1>5, <1>6

(* The server takes a request.                                             *)
LEMMA AppendLeaves ==
    ASSUME Typed, NEW response \in ResponseFrame, ~IsReply(response),
           outbox' = Append(outbox, response)
    PROVE  /\ outbox' \in Seq(Frame)
           /\ Replies' = Replies /\ \A i \in Replies : outbox'[i] = outbox[i]
           /\ watch' = watch => Coming' = Coming
           /\ HealReplies \subseteq HealReplies'
           /\ response.op = "heal" => HealReplies' # {}
           /\ \A i \in DOMAIN outbox' :
                 IsEvent(outbox'[i]) => i \in DOMAIN outbox /\ outbox'[i] = outbox[i]
<1>1. /\ outbox \in Seq(Frame) /\ response \in Frame /\ ~IsEvent(response)
      /\ response.kind = "response"
      /\ outbox' = Append(outbox, response)
    BY DEF Typed, Frame, ResponseFrame, IsEvent
<1>2. /\ outbox' \in Seq(Frame)
      /\ DOMAIN outbox = 1..Len(outbox) /\ DOMAIN outbox' = 1..Len(outbox) + 1
      /\ Len(outbox) \in Nat
      /\ \A i \in 1..Len(outbox) : outbox'[i] = outbox[i]
      /\ outbox'[Len(outbox) + 1] = response
      /\ Replies' = Replies
      /\ watch'.early = watch.early => Coming' = Coming
    BY <1>1, OutboxGrows
<1>3. /\ \A i \in DOMAIN outbox : i \in DOMAIN outbox'
      /\ Len(outbox) + 1 \in DOMAIN outbox'
    BY <1>2
<1>4. HealReplies \subseteq HealReplies' /\ (response.op = "heal" => HealReplies' # {})
    BY <1>1, <1>2, <1>3 DEF HealReplies
<1>5. \A i \in DOMAIN outbox' :
          IsEvent(outbox'[i]) => i \in DOMAIN outbox /\ outbox'[i] = outbox[i]
    BY <1>1, <1>2
<1> QED BY <1>1, <1>2, <1>4, <1>5 DEF Replies

LEMMA AnswerLeaves ==
    ASSUME Typed, NEW response \in ResponseFrame, ~IsReply(response), Answer(response)
    PROVE  /\ outbox' \in Seq(Frame) /\ unsent' = unsent
           /\ Replies' = Replies /\ \A i \in Replies : outbox'[i] = outbox[i]
           /\ watch' = watch => Coming' = Coming
BY AnswerOK, AppendLeaves

LEMMA ServeResyncSteps ==
    ASSUME Typed, Handshake, ServeResync
    PROVE  /\ Typed' /\ Handshake' /\ Spares
           /\ Live => Aside \/ \E event \in Event : Sent(event)
           /\ UNCHANGED <<next, store>>
           /\ Live => \/ stored # None /\ subs'[1].delivered = stored
                      \/ unsent'.last
                      \/ UNCHANGED <<subs, unsent>>
<1> DEFINE op == Head(inbox).op
<1>0. /\ watch.up /\ inbox # <<>> /\ inbox' = Tail(inbox)
      /\ op \in {"resync", "heal"}
      /\ UNCHANGED <<store, next, nextId, made, asked, client>>
      /\ UNCHANGED <<stored, changes, racing, publications, watch, replica>>
    BY DEF ServeResync, Requested, store, client
<1>1. /\ \A i \in DOMAIN inbox \ {1} : i - 1 \in DOMAIN inbox' /\ inbox'[i - 1] = inbox[i]
      /\ Head(inbox) = inbox[1] /\ 1 \in DOMAIN inbox /\ Head(inbox) \in Request
    BY <1>0, InboxTaken DEF Typed
<1>2. Head(inbox).id = 1
    BY <1>0, <1>1 DEF Handshake
<1>3. Healing /\ ~Healing' => op = "heal"
    BY <1>1 DEF Healing
<1>4. next' \in 1..Len(publications) + 1
    BY <1>0 DEF Typed
<1>5. CASE /\ 1 \in DOMAIN subs /\ stored # None
           /\ Deliver(1, subs[1].revision + 1, stored)
           /\ Frames(<<Response(op, 1, subs[1].revision + 1, TRUE, FALSE)>>, <<Resynced(1)>>)
    <2> DEFINE response == Response(op, 1, subs[1].revision + 1, TRUE, FALSE)
    <2>1. PICK event : event = Resynced(1)
        OBVIOUS
    <2>2. event \in Event /\ Continues(event) /\ event.state.at = stored
        BY <1>5, <2>1, SnapshotOK
    <2>3. response \in ResponseFrame /\ ~IsReply(response) /\ response.op = op
        <3>1. subs[1].revision + 1 \in Nat
            BY <1>5 DEF Typed, Subscription
        <3> QED BY <1>0, <3>1 DEF Response, ResponseFrame, IsReply, Operation
    <2>4. Deliver(1, subs[1].revision + 1, stored) /\ Frames(<<response>>, <<event>>)
        BY <1>5, <2>1
    <2> HIDE DEF response
    <2>5. /\ Leaves(event)
          /\ HealReplies # {} \/ response.op = "heal" => HealedAt(event.revision)'
        BY <2>2, <2>3, <2>4, BothLeave
    <2>6. HealReplies # {} \/ (Healing /\ ~Healing') => HealedAt(event.revision)'
        BY <1>3, <2>3, <2>5
    <2>7. Typed' /\ Handshake' /\ Spares /\ (Live => Sent(event))
        BY <1>0, <1>4, <1>5, <2>2, <2>4, <2>5, <2>6, Served
    <2>8. subs'[1].delivered = stored
        BY <1>5, <2>4 DEF Deliver
    <2> QED BY <1>0, <1>5, <2>2, <2>7, <2>8
<1>6. ASSUME UNCHANGED subs, outbox' = Append(outbox, Refused(op)),
             unsent' \in [count: 0..MaxUnsent, last: BOOLEAN], unsent.last => unsent'.last,
             Live => stored = None \/ unsent'.last
      PROVE  Typed' /\ Handshake' /\ Spares /\ (Live => Aside)
    <2>1. PICK response : response = Refused(op)
        OBVIOUS
    <2>2. response \in ResponseFrame /\ ~IsReply(response) /\ response.op = op
        BY <1>0, <2>1 DEF Refused, Response, ResponseFrame, IsReply, Operation
    <2>3. UNCHANGED subs /\ outbox' = Append(outbox, response)
        BY <1>6, <2>1
    <2>4. /\ outbox' \in Seq(Frame)
          /\ Replies' = Replies /\ \A i \in Replies : outbox'[i] = outbox[i]
          /\ Coming' = Coming
          /\ HealReplies \subseteq HealReplies'
          /\ op = "heal" => HealReplies' # {}
          /\ \A i \in DOMAIN outbox' :
                IsEvent(outbox'[i]) => i \in DOMAIN outbox /\ outbox'[i] = outbox[i]
        BY <1>0, <2>2, <2>3, AppendLeaves
    <2>5. Handshake' /\ inbox' \in Seq(Request)
        BY <1>0, <2>3, <2>4, HandshakeServed
    <2>6. Typed'
        BY <1>0, <1>4, <1>6, <2>3, <2>4, <2>5 DEF Typed
    <2>7. ASSUME Live PROVE Aside
        <3>1. Live'
            BY <1>0, <2>7 DEF Live
        <3>2. \A revision : Welcomed(revision)' <=> Welcomed(revision)
            BY <1>0, <2>4 DEF Welcomed
        <3>3. HealReplies' # {} => HealedAt(subs[1].revision)' \/ Behind(subs[1].delivered)'
            <4>1. CASE stored = None
                BY <1>0, <4>1 DEF Behind
            <4>2. CASE unsent'.last
                BY <4>2 DEF HealedAt
            <4> QED BY <1>6, <2>7, <4>1, <4>2
        <3>4. Healed => Healed'
            BY <1>0, <1>3, <2>4, <2>7, <3>3 DEF Healed, Live
        <3>5. NewestLast => NewestLast'
            BY <1>0, <2>3, <2>4 DEF NewestLast, Live
        <3> QED BY <1>0, <1>6, <2>3, <2>4, <2>7, <3>1, <3>2, <3>4, <3>5 DEF Aside
    <2>8. Spares
        BY <2>3, <2>4 DEF Spares
    <2> QED BY <2>5, <2>6, <2>7, <2>8
<1>7. CASE Refuses(op, TRUE) /\ UNCHANGED subs
    <2>1. /\ outbox' = Append(outbox, Refused(op))
          /\ unsent' \in [count: 0..MaxUnsent, last: BOOLEAN] /\ unsent'.last
        BY <1>7, FailsOK DEF Refuses
    <2> QED BY <1>0, <1>6, <1>7, <2>1
<1>8. CASE ~(1 \in DOMAIN subs /\ stored # None) /\ Answer(Refused(op)) /\ UNCHANGED subs
    <2>1. Refused(op) \in ResponseFrame
        BY <1>0 DEF Refused, Response, ResponseFrame, Operation
    <2>2. outbox' = Append(outbox, Refused(op)) /\ unsent' = unsent
        BY <1>8, <2>1, AnswerOK
    <2>3. Live => stored = None
        BY <1>8 DEF Live, Handshake
    <2>4. Typed' /\ Handshake' /\ Spares /\ (Live => Aside)
        BY <1>6, <1>8, <2>2, <2>3 DEF Typed
    <2> QED BY <1>0, <1>8, <2>2, <2>4
<1>9. \/ /\ 1 \in DOMAIN subs /\ stored # None
         /\ Deliver(1, subs[1].revision + 1, stored)
         /\ Frames(<<Response(op, 1, subs[1].revision + 1, TRUE, FALSE)>>, <<Resynced(1)>>)
      \/ Refuses(op, TRUE) /\ UNCHANGED subs
      \/ ~(1 \in DOMAIN subs /\ stored # None) /\ Answer(Refused(op)) /\ UNCHANGED subs
    BY <1>2 DEF ServeResync, IsStored
<1> QED BY <1>5, <1>7, <1>8, <1>9

LEMMA ServeUnsubscribeSteps ==
    ASSUME Typed, Handshake, ServeUnsubscribe
    PROVE  Typed' /\ Handshake' /\ ~Live' /\ watch' = watch /\ UNCHANGED <<store, replica>>
           /\ DOMAIN subs' = {}
<1>0. /\ watch.up /\ inbox # <<>> /\ inbox' = Tail(inbox)
      /\ Head(inbox).op = "unsubscribe"
      /\ UNCHANGED <<store, next, nextId, made, asked, client>>
      /\ UNCHANGED <<stored, changes, racing, publications, watch, replica>>
    BY DEF ServeUnsubscribe, Requested, store, client
<1>1. /\ Head(inbox) = inbox[1] /\ 1 \in DOMAIN inbox
    BY <1>0, InboxTaken DEF Typed
<1>2. Head(inbox).id = 1 /\ watch.disposed
    BY <1>0, <1>1 DEF Handshake
<1>3. PICK response : response = Response("unsubscribe", 1, 0, TRUE, FALSE)
    OBVIOUS
<1>4. response \in ResponseFrame /\ ~IsReply(response)
    BY <1>3 DEF Response, ResponseFrame, IsReply, Operation
<1>5. subs' = Drop(subs, 1) /\ Answer(response)
    BY <1>2, <1>3 DEF ServeUnsubscribe
<1>6. /\ outbox' \in Seq(Frame) /\ unsent' = unsent
      /\ Replies' = Replies /\ \A i \in Replies : outbox'[i] = outbox[i]
      /\ Coming' = Coming
    BY <1>0, <1>4, <1>5, AnswerLeaves
<1>7. DOMAIN subs' = {} /\ subs' \in [DOMAIN subs' -> Subscription]
    BY <1>5 DEF Drop, Typed
<1>8. Handshake' /\ inbox' \in Seq(Request)
    BY <1>0, <1>2, <1>6, <1>7, HandshakeServed
<1>9. Typed'
    BY <1>0, <1>6, <1>7, <1>8 DEF Typed
<1> QED BY <1>0, <1>2, <1>7, <1>8, <1>9 DEF Live

(* The subscription is granted: the client holds what is stored, or is     *)
(* sent what it lacks.                                                     *)
Granted ==
    /\ Live' /\ stored # None /\ DOMAIN subs' = {1}
    /\ subs'[1] = [revision |-> 1, delivered |-> stored]
    /\ watch.revision = 0 /\ ~watch.resyncing
    /\ UNCHANGED <<store, watch, replica>>
    /\ \/ /\ Coming' = {} /\ watch.held = stored
          /\ \A revision : Welcomed(revision)' <=> revision = 1
       \/ \E event \in Event :
             /\ event.kind = "snapshot" /\ event.revision = 1
             /\ event.state = AuthoringState(watch.held)
             /\ Coming' = {event} \/ (Coming' = {} /\ unsent'.last)
             /\ \A revision : ~Welcomed(revision)'
    /\ NewestLast'

LEMMA ServeSubscribeSteps ==
    ASSUME Typed, Handshake, ServeSubscribe
    PROVE  /\ Typed' /\ Handshake'
           /\ Live' => Granted
           /\ UNCHANGED <<store, watch, replica>> /\ next' = next
           /\ 1 \in DOMAIN subs' => \E i \in Replies' : outbox'[i].ok
<1> DEFINE held == Head(inbox).held
<1> DEFINE last == Len(outbox) + 1
<1>0. /\ watch.up /\ inbox # <<>> /\ inbox' = Tail(inbox)
      /\ Head(inbox).op = "subscribe"
      /\ UNCHANGED <<store, next, made, asked, client>>
      /\ UNCHANGED <<stored, changes, racing, publications, watch, replica>>
    BY DEF ServeSubscribe, Requested, store, client
<1>1. /\ Head(inbox) = inbox[1] /\ 1 \in DOMAIN inbox
      /\ Asked' = {} /\ inbox' \in Seq(Request)
      /\ \A i \in DOMAIN inbox' : i + 1 \in DOMAIN inbox /\ inbox'[i] = inbox[i + 1]
    BY <1>0, InboxTaken, Shrunk DEF Typed, Handshake
<1>2. 1 \in Asked
    BY <1>0, <1>1 DEF Asked
<1>3. /\ Replies = {} /\ watch.accepted = NotAccepted /\ nextId = 1
      /\ DOMAIN subs = {} /\ Coming = {} /\ watch.id = 0 /\ watch.connecting
      /\ held = watch.held
    BY <1>0, <1>1, <1>2 DEF Handshake
<1>4. /\ ~watch.disposed => \A i \in DOMAIN inbox' : inbox'[i].op # "unsubscribe"
      /\ \A i \in DOMAIN inbox' : inbox'[i].op # "subscribe" => inbox'[i].id = 1
    BY <1>1 DEF Handshake
<1>5. outbox \in Seq(Frame)
    BY DEF Typed
<1>6. ASSUME UNCHANGED <<subs, nextId>>, outbox' = Append(outbox, Refused("subscribe")),
             unsent' \in [count: 0..MaxUnsent, last: BOOLEAN]
      PROVE  /\ Typed' /\ Handshake' /\ ~Live' /\ DOMAIN subs' = {}
    <2>1. PICK response : response = Refused("subscribe")
        OBVIOUS
    <2>2. response \in ResponseFrame /\ IsReply(response) /\ ~response.ok /\ ~IsEvent(response)
        BY <2>1 DEF Refused, Response, ResponseFrame, IsReply, Operation, IsEvent
    <2>3. outbox' = Append(outbox, response) /\ UNCHANGED <<subs, nextId>>
        BY <1>6, <2>1
    <2>4. /\ outbox' \in Seq(Frame) /\ outbox'[last] = response
          /\ Replies' = {last} /\ Coming' = {}
        BY <1>0, <1>3, <1>5, <2>2, <2>3, OutboxGrows DEF Frame
    <2>5. Handshake'
        BY <1>0, <1>1, <1>3, <1>4, <2>2, <2>3, <2>4 DEF Handshake, Single
    <2>6. Typed'
        BY <1>0, <1>1, <1>6, <2>3, <2>4 DEF Typed
    <2> QED BY <1>3, <2>3, <2>5, <2>6 DEF Live
<1>7. ASSUME Accept(held)
      PROVE  /\ Typed' /\ Handshake' /\ (Live' => Granted)
             /\ \E i \in Replies' : outbox'[i].ok
    <2> DEFINE upToDate == UpToDate(held, stored)
    <2>1. CurrentRevision = 1
        BY <1>3 DEF CurrentRevision
    <2>2. PICK response : response = Response("subscribe", 1, 1, TRUE, upToDate)
        OBVIOUS
    <2>3. /\ response \in ResponseFrame /\ IsReply(response) /\ response.ok /\ response.id = 1
          /\ response.revision = 1 /\ response.upToDate = upToDate /\ ~IsEvent(response)
        BY <2>2 DEF Response, ResponseFrame, IsReply, Operation, UpToDate, IsEvent
    <2>4. /\ nextId' = 2 /\ DOMAIN subs' = {1}
          /\ subs'[1] = [revision |-> 1, delivered |-> stored]
          /\ subs' \in [DOMAIN subs' -> Subscription]
        <3>1. /\ nextId' = 2
              /\ subs' = [s \in {1} |-> [revision |-> 1, delivered |-> stored]]
            BY <1>3, <1>7, <2>1 DEF Accept, TakeId
        <3>2. [revision |-> 1, delivered |-> stored] \in Subscription
            BY DEF Typed, Subscription
        <3> QED BY <3>1, <3>2
    <2>5. PICK event : event = SnapshotEvent(1, 1, AuthoringState(watch.held))
        OBVIOUS
    <2>6. event \in Event /\ event.kind = "snapshot" /\ event.revision = 1
          /\ event.state = AuthoringState(watch.held)
        <3>1. AuthoringState(watch.held) \in State
            BY StateOK DEF Typed, WatchRecord
        <3> QED BY <2>5, <3>1 DEF SnapshotEvent, Event
    <2>7. Frames(<<response>>, IF upToDate THEN <<>> ELSE <<event>>)
        BY <1>3, <1>7, <2>1, <2>2, <2>5 DEF Accept
    <2>8. /\ outbox' \in Seq(Frame) /\ outbox'[last] = response /\ Replies' = {last}
          /\ unsent' \in [count: 0..MaxUnsent, last: BOOLEAN]
          /\ IF upToDate THEN Coming' = {}
             ELSE Coming' = {event} \/ (Coming' = {} /\ unsent'.last)
          /\ \A i, j \in DOMAIN outbox' :
                IsEvent(outbox'[i]) /\ IsEvent(outbox'[j]) => j <= i
        <3>0. \A i \in DOMAIN outbox : ~IsEvent(outbox[i])
            BY <1>3 DEF Coming
        <3>1. CASE upToDate
            <4>1. outbox' = Append(outbox, response) /\ unsent' = unsent
                BY <2>3, <2>7, <3>1, AnswerOK DEF Answer
            <4>2. /\ Len(outbox) \in Nat /\ DOMAIN outbox = 1..Len(outbox)
                  /\ DOMAIN outbox' = 1..Len(outbox) + 1
                  /\ \A i \in 1..Len(outbox) : outbox'[i] = outbox[i]
                  /\ outbox'[Len(outbox) + 1] = response
                BY <1>5, <2>3, <4>1, OutboxGrows DEF Frame
            <4>3. \A i \in DOMAIN outbox' : ~IsEvent(outbox'[i])
                BY <2>3, <3>0, <4>2
            <4> QED BY <1>0, <1>3, <1>5, <2>3, <3>1, <4>1, <4>3, OutboxGrows DEF Frame, Typed
        <3>2. CASE ~upToDate
            <4>1. /\ \/ outbox' = Append(Append(outbox, response), event)
                     \/ outbox' = Append(outbox, response) /\ unsent'.last
                  /\ unsent' \in [count: 0..MaxUnsent, last: BOOLEAN]
                BY <2>3, <2>6, <2>7, <3>2, BothOK
            <4>2. CASE outbox' = Append(Append(outbox, response), event)
                <5>1. /\ Len(outbox) \in Nat /\ DOMAIN outbox = 1..Len(outbox)
                      /\ DOMAIN outbox' = 1..Len(outbox) + 2
                      /\ \A i \in 1..Len(outbox) : outbox'[i] = outbox[i]
                      /\ outbox'[Len(outbox) + 1] = response
                    BY <1>5, <2>3, <2>6, <4>2, OutboxGrowsTwice
                <5>2. \A i \in DOMAIN outbox' : IsEvent(outbox'[i]) => i = Len(outbox) + 2
                    BY <2>3, <3>0, <5>1
                <5>3. \A i, j \in DOMAIN outbox' :
                          IsEvent(outbox'[i]) /\ IsEvent(outbox'[j]) => j <= i
                    BY <5>1, <5>2
                <5> QED BY <1>0, <1>3, <1>5, <2>3, <2>6, <3>2, <4>1, <4>2, <5>3,
                           OutboxGrowsTwice
            <4>3. CASE outbox' = Append(outbox, response) /\ unsent'.last
                <5>1. /\ Len(outbox) \in Nat /\ DOMAIN outbox = 1..Len(outbox)
                      /\ DOMAIN outbox' = 1..Len(outbox) + 1
                      /\ \A i \in 1..Len(outbox) : outbox'[i] = outbox[i]
                      /\ outbox'[Len(outbox) + 1] = response
                    BY <1>5, <2>3, <4>3, OutboxGrows DEF Frame
                <5>2. \A i \in DOMAIN outbox' : ~IsEvent(outbox'[i])
                    BY <2>3, <3>0, <5>1
                <5> QED BY <1>0, <1>3, <1>5, <2>3, <3>2, <4>1, <4>3, <5>2, OutboxGrows
                        DEF Frame
            <4> QED BY <4>1, <4>2, <4>3
        <3> QED BY <3>1, <3>2
    <2>9. Handshake'
        BY <1>0, <1>1, <1>3, <1>4, <2>3, <2>4, <2>8 DEF Handshake, Single
    <2>10. Typed'
        BY <1>0, <1>1, <2>4, <2>8 DEF Typed
    <2>11. ASSUME Live' PROVE Granted
        <3>1. /\ watch.revision = 0 /\ ~watch.resyncing /\ stored # None
              /\ UNCHANGED <<store, watch, replica>>
            BY <1>0, <1>3, <1>7, <2>11 DEF Handshake, Live, Accept, IsStored
        <3>2. \A revision : Welcomed(revision)' <=> upToDate /\ revision = 1
            BY <1>0, <1>3, <2>3, <2>8 DEF Welcomed
        <3>3. upToDate => watch.held = stored
            BY <1>3 DEF UpToDate
        <3>4. NewestLast'
            <4>1. DOMAIN watch.early = {}
                BY <1>3 DEF Coming
            <4> QED BY <1>0, <2>8, <4>1 DEF NewestLast
        <3> HIDE DEF upToDate
        <3> QED BY <2>4, <2>6, <2>8, <2>11, <3>1, <3>2, <3>3, <3>4 DEF Granted
    <2> QED BY <2>3, <2>8, <2>9, <2>10, <2>11
<1>8. Refused("subscribe") \in ResponseFrame
    BY DEF Refused, Response, ResponseFrame, Operation
<1>9. CASE Answer(Refused("subscribe")) /\ UNCHANGED <<subs, nextId>>
    <2>1. outbox' = Append(outbox, Refused("subscribe")) /\ unsent' = unsent
        BY <1>8, <1>9, AnswerOK
    <2>2. unsent' \in [count: 0..MaxUnsent, last: BOOLEAN]
        BY <2>1 DEF Typed
    <2> QED BY <1>0, <1>6, <1>9, <2>1, <2>2
<1>10. CASE Refuses("subscribe", FALSE) /\ UNCHANGED <<subs, nextId>>
    <2>1. outbox' = Append(outbox, Refused("subscribe")) /\ Fails(FALSE)
        BY <1>10 DEF Refuses
    <2>2. unsent' \in [count: 0..MaxUnsent, last: BOOLEAN]
        BY <2>1, FailsOK
    <2> QED BY <1>0, <1>6, <1>10, <2>1, <2>2
<1>11. CASE Accept(held)
    BY <1>0, <1>7, <1>11
<1> QED BY <1>9, <1>10, <1>11 DEF ServeSubscribe

-----------------------------------------------------------------------------
(* The client takes what reached it.                                       *)

(* The watch that receives an event holds it already, takes it, or finds   *)
(* that it does not follow and asks for the whole state.                   *)
Outcome(w, event) ==
    \/ Stale(w, event) /\ watch' = w /\ UNCHANGED <<inbox, replica>>
    \/ /\ ~Stale(w, event) /\ Follows(w, event)
       /\ watch'.revision = event.revision /\ watch'.held = event.state.at
       /\ watch'.resyncing = w.resyncing /\ replica' = Imported(event.state)
       /\ UNCHANGED inbox
    \/ /\ ~Stale(w, event) /\ ~Follows(w, event)
       /\ watch'.revision = w.revision /\ watch'.held = None /\ watch'.resyncing
       /\ UNCHANGED replica
       /\ IF w.resyncing THEN UNCHANGED inbox
          ELSE Send([op |-> "heal", id |-> w.id, held |-> None])

LEMMA ReceiveWatch ==
    ASSUME NEW w \in WatchRecord, NEW event \in Event, Receive(w, event)
    PROVE  /\ Outcome(w, event) /\ watch' \in WatchRecord
           /\ watch'.up = w.up /\ watch'.disposed = w.disposed /\ watch'.id = w.id
           /\ watch'.connecting = w.connecting /\ watch'.accepted = w.accepted
           /\ watch'.resumeFrom = w.resumeFrom /\ watch'.early = w.early
<1>1. CASE Stale(w, event)
    BY <1>1 DEF Receive, Outcome
<1>2. CASE ~Stale(w, event) /\ Follows(w, event)
    <2>1. watch' = Received(w, event) /\ Apply(event.state) /\ UNCHANGED inbox
        BY <1>2 DEF Receive
    <2>2. event.revision \in Nat /\ event.state.at \in AnyToken
        BY DEF Event, State
    <2> QED BY <1>2, <2>1, <2>2 DEF Received, Apply, Outcome, WatchRecord
<1>3. CASE ~Stale(w, event) /\ ~Follows(w, event)
    <2>1. /\ watch' = [w EXCEPT !.held = None, !.resyncing = TRUE] /\ UNCHANGED replica
          /\ IF w.resyncing THEN UNCHANGED inbox
             ELSE Send([op |-> "heal", id |-> w.id, held |-> None])
        BY <1>3 DEF Receive
    <2> QED BY <1>3, <2>1, NoneToken DEF Outcome, WatchRecord
<1> QED BY <1>1, <1>2, <1>3

(* A frame taken that is no answer to a resynchronisation.                 *)
LEMMA HealKept ==
    ASSUME outbox \in Seq(Frame), Take, UNCHANGED unsent,
           ~(Head(outbox).kind = "response" /\ Head(outbox).op = "heal")
    PROVE  /\ HealReplies # {} => HealReplies' # {}
           /\ \A revision : HealedAt(revision) =>
                 /\ HealedAt(revision)'
                 /\ \/ unsent.last
                    \/ \E j \in DOMAIN outbox' :
                          IsEvent(outbox'[j]) /\ outbox'[j].revision = revision
<1>1. /\ 1 \in DOMAIN outbox /\ Head(outbox) = outbox[1]
      /\ \A i \in DOMAIN outbox' : i \in Nat \ {0} /\ i + 1 \in DOMAIN outbox
      /\ \A i \in DOMAIN outbox \ {1} : i - 1 \in DOMAIN outbox' /\ outbox'[i - 1] = outbox[i]
    BY OutboxTaken
<1>2. \A i \in DOMAIN outbox : i \in Nat \ {0}
    BY LenProperties
<1>3. \A i \in HealReplies : i # 1 /\ i - 1 \in HealReplies'
    BY <1>1 DEF HealReplies
<1>4. ASSUME NEW revision, HealedAt(revision)
      PROVE  /\ HealedAt(revision)'
             /\ \/ unsent.last
                \/ \E j \in DOMAIN outbox' :
                      IsEvent(outbox'[j]) /\ outbox'[j].revision = revision
    <2>1. PICK i \in HealReplies :
              \/ unsent.last
              \/ \E j \in DOMAIN outbox :
                    j > i /\ IsEvent(outbox[j]) /\ outbox[j].revision = revision
        BY <1>4 DEF HealedAt
    <2>2. i \in Nat \ {0} /\ i - 1 \in HealReplies'
        BY <1>2, <1>3 DEF HealReplies
    <2>3. CASE unsent.last
        BY <2>2, <2>3 DEF HealedAt
    <2>4. CASE ~unsent.last
        <3>1. PICK j \in DOMAIN outbox :
                  j > i /\ IsEvent(outbox[j]) /\ outbox[j].revision = revision
            BY <2>1, <2>4
        <3>2. j \in Nat /\ j # 1 /\ j - 1 > i - 1
            BY <1>2, <2>2, <3>1
        <3>3. /\ j - 1 \in DOMAIN outbox' /\ IsEvent(outbox'[j - 1])
              /\ outbox'[j - 1].revision = revision
            BY <1>1, <3>1, <3>2
        <3> QED BY <2>2, <3>2, <3>3 DEF HealedAt
    <2> QED BY <2>3, <2>4
<1> QED BY <1>3, <1>4

(* A frame taken leaves fewer updates and answers.                         *)
LEMMA RepliesTaken ==
    ASSUME Typed, Handshake, Take, watch.up
    PROVE  /\ outbox' \in Seq(Frame) /\ Head(outbox) \in Frame
           /\ Single(Replies') /\ (Replies = {} => Replies' = {})
           /\ IsReply(Head(outbox)) => Replies' = {} /\ 1 \in Replies /\ Head(outbox) = outbox[1]
           /\ \A i \in Replies' : \E j \in Replies : outbox'[i] = outbox[j]
           /\ ~IsReply(Head(outbox)) =>
                 \A i \in Replies : \E j \in Replies' : outbox'[j] = outbox[i]
<1>1. /\ outbox' \in Seq(Frame) /\ Head(outbox) \in Frame
      /\ 1 \in DOMAIN outbox /\ Head(outbox) = outbox[1]
      /\ \A i \in DOMAIN outbox' : i + 1 \in DOMAIN outbox /\ outbox'[i] = outbox[i + 1]
      /\ \A i \in DOMAIN outbox \ {1} : i - 1 \in DOMAIN outbox' /\ outbox'[i - 1] = outbox[i]
      /\ \A i \in Replies' : i \in Nat \ {0} /\ i + 1 \in Replies
      /\ \A i \in Replies : i \in Nat \ {0} /\ (i # 1 => i - 1 \in Replies')
      /\ IsReply(Head(outbox)) => 1 \in Replies
    BY OutboxTaken DEF Typed
<1>2. Single(Replies)
    BY DEF Handshake
<1>3. \A i \in Replies' : i + 1 \in Replies /\ outbox'[i] = outbox[i + 1]
    BY <1>1 DEF Replies
<1>4. Single(Replies')
    BY <1>1, <1>2 DEF Single
<1>5. IsReply(Head(outbox)) => Replies' = {}
    BY <1>1, <1>2 DEF Single
<1>6. ~IsReply(Head(outbox)) => \A i \in Replies : i # 1 /\ outbox'[i - 1] = outbox[i]
    BY <1>1 DEF Replies
<1> QED BY <1>1, <1>3, <1>4, <1>5, <1>6

(* The watch that has the subscription takes an update.                    *)
Taken(event) ==
    /\ Live /\ Live' /\ event \in Coming
    /\ Coming' \subseteq Coming /\ Coming \subseteq Coming' \cup {event}
    /\ UNCHANGED <<store, subs, unsent>>
    /\ \A revision : ~Welcomed(revision) /\ ~Welcomed(revision)'
    /\ Healed => Healed'
    /\ NewestLast => NewestLast' /\ (event.revision = subs[1].revision => Coming' = {})
    /\ \/ /\ watch.revision # 0 /\ event.revision <= watch.revision
          /\ UNCHANGED <<watch.held, watch.revision, replica, inbox>>
       \/ /\ watch.revision = 0 \/ event.revision > watch.revision
          /\ event.kind = "snapshot" \/ watch.revision = event.from
          /\ watch'.revision = event.revision /\ watch'.held = event.state.at
          /\ replica' = Imported(event.state)
       \/ /\ watch.revision = 0 \/ event.revision > watch.revision
          /\ event.kind = "patch" /\ watch.revision # event.from
          /\ watch'.revision = watch.revision /\ watch'.held = None /\ UNCHANGED replica
          /\ Healed => \/ Healing' \/ unsent.last \/ Behind(subs[1].delivered)
                       \/ \E other \in Coming' : other.revision = subs[1].revision

LEMMA ReceiveSteps ==
    ASSUME Typed, Handshake, watch.id # 0, NEW w \in WatchRecord, NEW event \in Event,
           Receive(w, event), event \in Coming,
           w.up = watch.up, w.disposed = watch.disposed, w.id = watch.id,
           w.connecting = watch.connecting, w.accepted = watch.accepted,
           w.resumeFrom = watch.resumeFrom, w.revision = watch.revision,
           w.held = watch.held, w.resyncing = watch.resyncing,
           Coming' \subseteq Coming, Coming \subseteq Coming' \cup {event},
           \A i \in DOMAIN outbox' : IsEvent(outbox'[i]) => outbox'[i] \in Coming',
           UNCHANGED outbox \/ (Take /\ Head(outbox).kind # "response"),
           NewestLast => NewestLast' /\ (event.revision = subs[1].revision => Coming' = {}),
           UNCHANGED <<store, next, subs, nextId, unsent, made, asked>>
    PROVE  Typed' /\ Handshake' /\ Taken(event)
<1>1. /\ Outcome(w, event) /\ watch' \in WatchRecord
      /\ watch'.up = watch.up /\ watch'.disposed = watch.disposed /\ watch'.id = watch.id
      /\ watch'.connecting = watch.connecting /\ watch'.accepted = watch.accepted
      /\ watch'.resumeFrom = watch.resumeFrom
    BY ReceiveWatch
<1>2. /\ watch.id = 1 /\ watch.up /\ ~watch.disposed /\ ~watch.connecting
      /\ nextId = 2 /\ DOMAIN subs = {1}
      /\ Asked = {} /\ Replies = {} /\ watch.accepted = NotAccepted
    BY DEF Handshake, Typed, WatchRecord, Acceptance
<1>3. UNCHANGED <<stored, changes, racing, publications>>
    BY DEF store
<1>4. outbox' \in Seq(Frame) /\ Replies' = {}
    <2>1. CASE UNCHANGED outbox
        BY <1>2, <2>1 DEF Typed, Replies
    <2>2. CASE Take
        BY <1>2, <2>2, RepliesTaken
    <2> QED BY <2>1, <2>2
<1> DEFINE request == [op |-> "heal", id |-> 1, held |-> None]
<1>6. /\ inbox' \in Seq(Request) /\ Asked' = {}
      /\ \A i \in DOMAIN inbox' : inbox'[i].op # "unsubscribe"
      /\ \A i \in DOMAIN inbox' : inbox'[i].op # "subscribe" => inbox'[i].id = 1
      /\ UNCHANGED inbox \/ Healing'
      /\ Send(request) => Healing'
    <2>0. Send(request) => Healing'
        <3>1. request \in Request /\ inbox \in Seq(Request)
            BY NoneToken DEF Request, Operation, Typed
        <3> QED BY <3>1, InboxGrows DEF Healing
    <2>1. CASE UNCHANGED inbox
        BY <1>2, <2>0, <2>1 DEF Typed, Handshake, Asked
    <2>2. CASE Send(request)
        <3>1. request \in Request /\ inbox \in Seq(Request)
            BY NoneToken DEF Request, Operation, Typed
        <3>2. /\ inbox' \in Seq(Request)
              /\ \A i \in DOMAIN inbox' :
                    inbox'[i] = request \/ (i \in DOMAIN inbox /\ inbox'[i] = inbox[i])
              /\ \E i \in DOMAIN inbox' : inbox'[i] = request
              /\ Asked' = Asked
            BY <2>2, <3>1, InboxGrows
        <3> QED BY <1>2, <2>0, <2>2, <3>2 DEF Handshake
    <2> QED BY <1>1, <1>2, <2>1, <2>2 DEF Outcome
<1>7. Typed'
    BY <1>1, <1>3, <1>4, <1>6 DEF Typed
<1>8. Handshake'
    BY <1>1, <1>2, <1>4, <1>6 DEF Handshake, Single
<1>9. \A revision : ~Welcomed(revision) /\ ~Welcomed(revision)'
    BY <1>1, <1>2, <1>4 DEF Welcomed
<1>10. /\ HealReplies # {} => HealReplies' # {}
       /\ \A revision : HealedAt(revision) => HealedAt(revision)'
    <2>1. CASE UNCHANGED outbox
        BY <2>1 DEF HealReplies, HealedAt
    <2>2. CASE Take /\ Head(outbox).kind # "response"
        BY <2>2, HealKept DEF Typed
    <2> QED BY <2>1, <2>2
<1>11. Behind(subs[1].delivered)' <=> Behind(subs[1].delivered)
    BY <1>3 DEF Behind
<1>12. Live /\ Live'
    BY <1>1, <1>2 DEF Live
<1>13. subs[1].revision' = subs[1].revision
    OBVIOUS
<1>14. UNCHANGED inbox => Healing' = Healing
    BY DEF Healing
<1>15. Healed => Healed'
    <2>1. CASE watch'.resyncing = watch.resyncing /\ UNCHANGED inbox
        BY <1>10, <1>11, <1>12, <1>14, <2>1 DEF Healed
    <2>2. CASE Healing'
        BY <2>2 DEF Healed
    <2>3. \/ watch'.resyncing = watch.resyncing /\ UNCHANGED inbox
          \/ Healing'
        <3>1. w.id = 1 /\ w.resyncing = watch.resyncing
            BY <1>2
        <3>2. CASE UNCHANGED inbox /\ watch'.resyncing = w.resyncing
            BY <3>1, <3>2
        <3>3. CASE watch'.resyncing /\ w.resyncing /\ UNCHANGED inbox
            <4>1. watch'.resyncing = TRUE /\ w.resyncing = TRUE
                BY <1>1, <3>3 DEF WatchRecord
            <4> QED BY <3>1, <3>3, <4>1
        <3>4. CASE Send(request)
            BY <1>6, <3>4
        <3> QED BY <1>1, <3>1, <3>2, <3>3, <3>4 DEF Outcome
    <2> QED BY <2>1, <2>2, <2>3
<1>16. event.id = 1 /\ event.revision \in Nat /\ watch.revision \in Nat
       /\ event.kind \in {"snapshot", "patch"}
    BY DEF Event, Typed, WatchRecord
<1>17. ASSUME ~Stale(w, event), ~Follows(w, event), Healed
       PROVE  \/ Healing' \/ unsent.last \/ Behind(subs[1].delivered)
              \/ \E other \in Coming' : other.revision = subs[1].revision
    <2>1. CASE ~watch.resyncing
        <3>1. Send(request)
            BY <1>1, <1>2, <1>17, <2>1 DEF Outcome
        <3> QED BY <1>6, <3>1
    <2>2. CASE Healing'
        BY <2>2
    <2>3. CASE watch.resyncing /\ ~Healing'
        <3>1. HealedAt(subs[1].revision) \/ Behind(subs[1].delivered)
            BY <1>6, <1>12, <1>14, <1>17, <2>3 DEF Healed
        <3>2. CASE HealedAt(subs[1].revision)
            <4>1. \/ unsent.last
                  \/ \E j \in DOMAIN outbox' :
                        IsEvent(outbox'[j]) /\ outbox'[j].revision = subs[1].revision
                <5>1. CASE UNCHANGED outbox
                    BY <3>2, <5>1 DEF HealedAt
                <5>2. CASE Take /\ Head(outbox).kind # "response"
                    BY <3>2, <5>2, HealKept DEF Typed
                <5> QED BY <5>1, <5>2
            <4> QED BY <4>1
        <3> QED BY <3>1, <3>2
    <2> QED BY <2>1, <2>2, <2>3
<1>18. /\ Stale(w, event) => watch.revision # 0 /\ event.revision <= watch.revision
       /\ ~Stale(w, event) => watch.revision = 0 \/ event.revision > watch.revision
       /\ Follows(w, event) => event.kind = "snapshot" \/ watch.revision = event.from
       /\ ~Follows(w, event) => event.kind = "patch" /\ watch.revision # event.from
    BY <1>2, <1>16 DEF Stale, Follows
<1>19. \/ /\ watch.revision # 0 /\ event.revision <= watch.revision
          /\ UNCHANGED <<watch.held, watch.revision, replica, inbox>>
       \/ /\ watch.revision = 0 \/ event.revision > watch.revision
          /\ event.kind = "snapshot" \/ watch.revision = event.from
          /\ watch'.revision = event.revision /\ watch'.held = event.state.at
          /\ replica' = Imported(event.state)
       \/ /\ watch.revision = 0 \/ event.revision > watch.revision
          /\ event.kind = "patch" /\ watch.revision # event.from
          /\ watch'.revision = watch.revision /\ watch'.held = None /\ UNCHANGED replica
          /\ Healed => \/ Healing' \/ unsent.last \/ Behind(subs[1].delivered)
                       \/ \E other \in Coming' : other.revision = subs[1].revision
    BY <1>1, <1>17, <1>18 DEF Outcome
<1> QED BY <1>7, <1>8, <1>9, <1>12, <1>15, <1>19 DEF Taken

(* The watch has no subscription any more, or not yet.                     *)
Away == ~Live' /\ UNCHANGED <<store, replica, watch.held>>

(* What the frames under way are of, once the first is taken.              *)
LEMMA ComingTaken ==
    ASSUME Typed, Take
    PROVE  /\ IsEvent(Head(outbox)) => Head(outbox) \in Coming /\ Head(outbox) \in Event
           /\ watch'.early = watch.early =>
                 /\ Coming' \subseteq Coming /\ Coming \subseteq Coming' \cup {Head(outbox)}
                 /\ ~IsEvent(Head(outbox)) => Coming' = Coming
           /\ /\ watch.early \in Seq(Event) /\ IsEvent(Head(outbox))
              /\ watch'.early = Append(watch.early, Head(outbox))
              => Coming' = Coming
<1> DEFINE Sending == {outbox[i] : i \in {j \in DOMAIN outbox : IsEvent(outbox[j])}}
<1> DEFINE SendingNext == {outbox'[i] : i \in {j \in DOMAIN outbox' : IsEvent(outbox'[j])}}
<1>1. /\ 1 \in DOMAIN outbox /\ Head(outbox) = outbox[1] /\ Head(outbox) \in Frame
      /\ \A f \in Sending : f = Head(outbox) \/ f \in SendingNext
      /\ \A f \in SendingNext : f \in Sending
    BY OutboxTaken DEF Typed
<1>2. IsEvent(Head(outbox)) => Head(outbox) \in Sending /\ Head(outbox) \in Event
    BY <1>1 DEF Frame, IsEvent, ResponseFrame
<1>3. \A f \in Sending : IsEvent(f)
    OBVIOUS
<1>4. ~IsEvent(Head(outbox)) => SendingNext = Sending
    BY <1>1, <1>3
<1>5. Coming = {watch.early[i] : i \in DOMAIN watch.early} \cup Sending
    BY DEF Coming
<1>6. Coming' = {watch'.early[i] : i \in DOMAIN watch'.early} \cup SendingNext
    BY DEF Coming
<1> HIDE DEF Sending, SendingNext
<1>7. watch'.early = watch.early =>
          /\ Coming' \subseteq Coming /\ Coming \subseteq Coming' \cup {Head(outbox)}
          /\ ~IsEvent(Head(outbox)) => Coming' = Coming
    BY <1>1, <1>4, <1>5, <1>6
<1>8. ASSUME watch.early \in Seq(Event), watch'.early = Append(watch.early, Head(outbox)),
             IsEvent(Head(outbox))
      PROVE  Coming' = Coming
    <2>1. /\ DOMAIN watch.early = 1..Len(watch.early) /\ Len(watch.early) \in Nat
          /\ DOMAIN watch'.early = 1..Len(watch.early) + 1
          /\ \A i \in 1..Len(watch.early) : watch'.early[i] = watch.early[i]
          /\ watch'.early[Len(watch.early) + 1] = Head(outbox)
        BY <1>8, Grown, LenProperties
    <2>2. \A i : i \in DOMAIN watch'.early <=>
                    i = Len(watch.early) + 1 \/ i \in DOMAIN watch.early
        BY <2>1
    <2>3. {watch'.early[i] : i \in DOMAIN watch'.early}
              = {watch.early[i] : i \in DOMAIN watch.early} \cup {Head(outbox)}
        BY <2>1, <2>2
    <2> QED BY <1>1, <1>2, <1>5, <1>6, <1>8, <2>3
<1> QED BY <1>2, <1>5, <1>7, <1>8

(* The last update on its way stays the last when the first frame is taken, *)
(* by a watch that keeps it or is done with it.                            *)
LEMMA NewestTaken ==
    ASSUME Typed, Take, UNCHANGED subs, Live' => Live, NewestLast,
           \/ watch'.early = watch.early
           \/ IsEvent(Head(outbox)) /\ watch'.early = Append(watch.early, Head(outbox))
    PROVE  NewestLast'
<1> SUFFICES ASSUME Live, Live' PROVE NewestLast'
    BY DEF NewestLast
<1> DEFINE newest == subs[1].revision
<1>1. /\ 1 \in DOMAIN outbox /\ Head(outbox) = outbox[1]
      /\ \A i \in DOMAIN outbox' : /\ i \in Nat \ {0} /\ i + 1 \in DOMAIN outbox
                                    /\ outbox'[i] = outbox[i + 1]
    BY OutboxTaken DEF Typed
<1>2. /\ \A i, j \in DOMAIN watch.early : watch.early[i].revision = newest => j <= i
      /\ \A i \in DOMAIN watch.early, j \in DOMAIN outbox :
            watch.early[i].revision = newest => ~IsEvent(outbox[j])
      /\ \A i, j \in DOMAIN outbox :
            /\ IsEvent(outbox[i]) /\ IsEvent(outbox[j]) /\ outbox[i].revision = newest
            => j <= i
    BY DEF NewestLast
<1> HIDE DEF newest
<1>3. \A i, j \in DOMAIN outbox' :
          /\ IsEvent(outbox'[i]) /\ IsEvent(outbox'[j]) /\ outbox'[i].revision = newest
          => j <= i
    <2> SUFFICES ASSUME NEW i \in DOMAIN outbox', NEW j \in DOMAIN outbox',
                        IsEvent(outbox'[i]), IsEvent(outbox'[j]), outbox'[i].revision = newest
                 PROVE  j <= i
        OBVIOUS
    <2>1. j + 1 <= i + 1 /\ i \in Nat /\ j \in Nat
        BY <1>1, <1>2
    <2> QED BY <2>1
<1>4. CASE watch'.early = watch.early
    <2>1. \A i \in DOMAIN watch.early, j \in DOMAIN outbox' :
              watch.early[i].revision = newest => ~IsEvent(outbox'[j])
        BY <1>1, <1>2
    <2> QED BY <1>2, <1>3, <1>4, <2>1 DEF NewestLast, newest
<1>5. CASE IsEvent(Head(outbox)) /\ watch'.early = Append(watch.early, Head(outbox))
    <2> DEFINE length == Len(watch.early)
    <2>1. /\ DOMAIN watch.early = 1..length /\ length \in Nat
          /\ DOMAIN watch'.early = 1..length + 1
          /\ \A i \in 1..length : watch'.early[i] = watch.early[i]
          /\ watch'.early[length + 1] = Head(outbox)
        <3>1. watch.early \in Seq(Event) /\ watch.early \in Seq(Frame)
            BY SeqMonotonic DEF Typed, WatchRecord, Frame
        <3>2. Len(watch.early) \in Nat
            BY <3>1, LenProperties
        <3> QED BY <1>5, <3>1, <3>2, Grown
    <2> HIDE DEF length
    <2>2. \A i \in DOMAIN watch.early : watch.early[i].revision # newest
        BY <1>1, <1>2, <1>5
    <2>3. \A i \in DOMAIN watch'.early : watch'.early[i].revision = newest =>
              i = length + 1 /\ Head(outbox).revision = newest
        <3>1. \A i \in DOMAIN watch'.early : i = length + 1 \/ i \in DOMAIN watch.early
            BY <2>1
        <3> QED BY <2>1, <2>2, <3>1
    <2>4. \A i, j \in DOMAIN watch'.early : watch'.early[i].revision = newest => j <= i
        BY <2>1, <2>3
    <2>5. ASSUME Head(outbox).revision = newest, NEW j \in DOMAIN outbox', IsEvent(outbox'[j])
          PROVE  FALSE
        <3>1. j \in Nat \ {0} /\ j + 1 \in DOMAIN outbox /\ IsEvent(outbox[j + 1])
            BY <1>1, <2>5
        <3>2. j + 1 <= 1
            BY <1>1, <1>2, <1>5, <2>5, <3>1
        <3> QED BY <3>1, <3>2
    <2> QED BY <1>3, <2>3, <2>4, <2>5 DEF NewestLast, newest
<1> QED BY <1>4, <1>5

(* What is left of the handshake when a frame is taken that is no answer   *)
(* to it, by a watch that keeps its place.                                 *)
LEMMA HandshakeTaken ==
    ASSUME Typed, Handshake, watch.up, Take, ~IsReply(Head(outbox)),
           UNCHANGED <<inbox, nextId, subs>>, watch' \in WatchRecord,
           UNCHANGED <<watch.up, watch.disposed, watch.id, watch.connecting, watch.accepted,
                       watch.resumeFrom, watch.held, watch.revision>>,
           watch'.resyncing => watch.resyncing, Coming' \subseteq Coming
    PROVE  Handshake'
<1>1. /\ Single(Replies') /\ (Replies = {} => Replies' = {})
      /\ \A i \in Replies' : \E j \in Replies : outbox'[i] = outbox[j]
    BY RepliesTaken
<1>2. Asked' = Asked
    BY DEF Asked
<1>3. /\ Single(Asked')
      /\ Asked' # {} => Replies' = {} /\ watch'.accepted = NotAccepted /\ nextId' = 1
      /\ Replies' # {} => watch'.accepted = NotAccepted
      /\ \A i \in Replies' : IF outbox'[i].ok
                             THEN nextId' = 2 /\ outbox'[i].id = 1 /\ outbox'[i].revision > 0
                             ELSE nextId' = 1
      /\ ~watch'.connecting => Asked' = {} /\ Replies' = {} /\ watch'.accepted = NotAccepted
      /\ \A i \in Asked' : inbox'[i].held = watch'.held
    BY <1>1, <1>2 DEF Handshake
<1>4. watch'.up /\ nextId' = 1 => DOMAIN subs' = {} /\ Coming' = {} /\ watch'.id = 0
    BY DEF Handshake
<1> QED BY <1>1, <1>3, <1>4 DEF Handshake

LEMMA TakeEventSteps ==
    ASSUME Typed, Handshake, TakeEvent
    PROVE  /\ Typed' /\ Handshake'
           /\ Away \/ Aside \/ \E event \in Event : Taken(event)
           /\ UNCHANGED <<store, next, subs, unsent>>
<1>0. /\ Take /\ IsEvent(Head(outbox)) /\ ~Draining /\ ~IsReply(Head(outbox))
      /\ UNCHANGED <<store, next, subs, nextId, unsent, made, asked>>
      /\ UNCHANGED <<stored, changes, racing, publications>>
    BY DEF TakeEvent, IsEvent, IsReply, store
<1>1. PICK event : event = Head(outbox)
    OBVIOUS
<1>2. event \in Coming /\ event \in Event
    BY <1>0, <1>1, ComingTaken
<1>3. watch.up /\ nextId = 2
    <2>1. watch.up
        BY <1>0 DEF Handshake, Take
    <2> QED BY <1>2, <2>1 DEF Handshake, Typed
<1>4. watch \in WatchRecord /\ outbox \in Seq(Frame) /\ outbox' \in Seq(Frame)
    BY <1>0, OutboxTaken DEF Typed
<1>5. CASE watch.disposed
    <2>1. UNCHANGED <<watch, inbox, replica>>
        BY <1>5 DEF TakeEvent
    <2>2. Handshake'
        BY <1>0, <1>3, <1>4, <2>1, HandshakeTaken, ComingTaken
    <2>3. Typed'
        BY <1>0, <1>4, <2>1 DEF Typed
    <2> QED BY <1>0, <1>5, <2>1, <2>2, <2>3 DEF Away, Live
<1>6. CASE ~watch.disposed /\ watch.id = 0
    <2>1. /\ watch' = [watch EXCEPT !.early = Append(@, event)]
          /\ UNCHANGED <<inbox, replica>>
        BY <1>1, <1>6 DEF TakeEvent
    <2>2. watch.early \in Seq(Event) /\ Append(watch.early, event) \in Seq(Event)
        BY <1>2, <1>4, Grown DEF WatchRecord
    <2>3. /\ watch' \in WatchRecord /\ watch'.early = Append(watch.early, event)
          /\ UNCHANGED <<watch.up, watch.disposed, watch.id, watch.connecting,
                         watch.accepted, watch.resumeFrom, watch.held, watch.revision,
                         watch.resyncing>>
        BY <1>4, <2>1, <2>2 DEF WatchRecord
    <2>4. Coming' = Coming
        BY <1>0, <1>1, <2>2, <2>3, ComingTaken
    <2>5. Handshake'
        BY <1>0, <1>3, <2>1, <2>3, <2>4, HandshakeTaken
    <2>6. Typed'
        BY <1>0, <1>4, <2>1, <2>3 DEF Typed
    <2>7. \A revision : Welcomed(revision)' <=> Welcomed(revision)
        <3>1. /\ \A i \in Replies' : \E j \in Replies : outbox'[i] = outbox[j]
              /\ \A i \in Replies : \E j \in Replies' : outbox'[j] = outbox[i]
            BY <1>0, <1>3, RepliesTaken
        <3> QED BY <2>3, <3>1 DEF Welcomed
    <2>8. Healed'
        BY <1>6, <2>3 DEF Healed, Handshake
    <2>9. Healing' = Healing
        BY <2>1 DEF Healing
    <2>10. NewestLast => NewestLast'
        BY <1>0, <1>1, <2>3, NewestTaken DEF Live
    <2> QED BY <1>0, <1>3, <1>6, <2>1, <2>3, <2>4, <2>5, <2>6, <2>7, <2>8, <2>9, <2>10
            DEF Aside, Live
<1>7. CASE ~watch.disposed /\ watch.id # 0
    <2>1. Receive(watch, event)
        BY <1>1, <1>7 DEF TakeEvent
    <2>2. watch'.early = watch.early
        BY <1>2, <1>4, <2>1, ReceiveWatch
    <2>3. Coming' \subseteq Coming /\ Coming \subseteq Coming' \cup {event}
        BY <1>0, <1>1, <2>2, ComingTaken
    <2>4. \A i \in DOMAIN outbox' : IsEvent(outbox'[i]) => outbox'[i] \in Coming'
        BY DEF Coming
    <2>5. Head(outbox).kind # "response"
        BY <1>0 DEF IsEvent
    <2>6. Live
        BY <1>3, <1>7 DEF Live
    <2>7. ASSUME NewestLast, event.revision = subs[1].revision PROVE Coming' = {}
        <3>1. DOMAIN watch'.early = {}
            BY <1>0, <1>7, <2>2 DEF Draining
        <3>2. ASSUME NEW i \in DOMAIN outbox', IsEvent(outbox'[i]) PROVE FALSE
            <4>1. /\ 1 \in DOMAIN outbox /\ outbox[1] = event
                  /\ i \in Nat \ {0} /\ i + 1 \in DOMAIN outbox /\ outbox'[i] = outbox[i + 1]
                BY <1>0, <1>1, <1>4, OutboxTaken
            <4>2. i + 1 <= 1
                BY <1>0, <1>1, <2>6, <2>7, <3>2, <4>1 DEF NewestLast
            <4> QED BY <4>1, <4>2
        <3> QED BY <3>1, <3>2 DEF Coming
    <2>8. NewestLast => NewestLast' /\ (event.revision = subs[1].revision => Coming' = {})
        BY <1>0, <2>2, <2>6, <2>7, NewestTaken
    <2>9. Typed' /\ Handshake' /\ Taken(event)
        BY <1>0, <1>2, <1>4, <1>7, <2>1, <2>3, <2>4, <2>5, <2>8, ReceiveSteps
    <2> QED BY <1>0, <1>2, <2>9
<1> QED BY <1>5, <1>6, <1>7

LEMMA TakeEarlySteps ==
    ASSUME Typed, Handshake, TakeEarly
    PROVE  /\ Typed' /\ Handshake' /\ \E event \in Event : Taken(event)
           /\ UNCHANGED <<store, next, subs, unsent>>
<1>0. /\ watch.id # 0 /\ watch.early # <<>> /\ watch \in WatchRecord
      /\ watch.early \in Seq(Event)
      /\ UNCHANGED <<store, next, subs, nextId, outbox, unsent, made, asked>>
    BY DEF TakeEarly, Draining, Typed, WatchRecord
<1>1. PICK w : w = [watch EXCEPT !.early = Tail(@)]
    OBVIOUS
<1>2. PICK event : event = Head(watch.early)
    OBVIOUS
<1>3. /\ Tail(watch.early) \in Seq(Event) /\ event = watch.early[1] /\ event \in Event
      /\ 1 \in DOMAIN watch.early /\ Len(watch.early) \in Nat \ {0}
      /\ DOMAIN watch.early = 1..Len(watch.early)
      /\ DOMAIN Tail(watch.early) = 1..Len(watch.early) - 1
      /\ \A i \in 1..Len(watch.early) - 1 : Tail(watch.early)[i] = watch.early[i + 1]
    BY <1>0, <1>2, Shrunk
<1>4. /\ w \in WatchRecord /\ w.early = Tail(watch.early)
      /\ w.up = watch.up /\ w.disposed = watch.disposed /\ w.id = watch.id
      /\ w.connecting = watch.connecting /\ w.accepted = watch.accepted
      /\ w.resumeFrom = watch.resumeFrom /\ w.revision = watch.revision
      /\ w.held = watch.held /\ w.resyncing = watch.resyncing
    BY <1>0, <1>1, <1>3 DEF WatchRecord
<1>5. Receive(w, event)
    BY <1>1, <1>2 DEF TakeEarly
<1>6. watch'.early = Tail(watch.early)
    BY <1>3, <1>4, <1>5, ReceiveWatch
<1>7. event \in Coming /\ Coming' \subseteq Coming /\ Coming \subseteq Coming' \cup {event}
    <2>1. \A i \in DOMAIN watch'.early :
              i + 1 \in DOMAIN watch.early /\ watch'.early[i] = watch.early[i + 1]
        BY <1>3, <1>6
    <2>2. \A i \in DOMAIN watch.early \ {1} :
              i - 1 \in DOMAIN watch'.early /\ watch'.early[i - 1] = watch.early[i]
        BY <1>3, <1>6
    <2> DEFINE Early == {watch.early[i] : i \in DOMAIN watch.early}
    <2> DEFINE EarlyNext == {watch'.early[i] : i \in DOMAIN watch'.early}
    <2>3. event \in Early
        BY <1>3
    <2>4. EarlyNext \subseteq Early
        BY <2>1
    <2>5. \A i \in DOMAIN watch.early : watch.early[i] = event \/ watch.early[i] \in EarlyNext
        BY <1>3, <2>2
    <2>6. Early \subseteq EarlyNext \cup {event}
        BY <2>5
    <2>7. /\ Coming = Early \cup {outbox[i] : i \in {j \in DOMAIN outbox : IsEvent(outbox[j])}}
          /\ Coming' = EarlyNext
                         \cup {outbox[i] : i \in {j \in DOMAIN outbox : IsEvent(outbox[j])}}
        BY <1>0 DEF Coming
    <2> HIDE DEF Early, EarlyNext
    <2> QED BY <2>3, <2>4, <2>6, <2>7
<1>8. \A i \in DOMAIN outbox' : IsEvent(outbox'[i]) => outbox'[i] \in Coming'
    BY DEF Coming
<1>9. ASSUME NewestLast
      PROVE  NewestLast' /\ (event.revision = subs[1].revision => Coming' = {})
    <2>1. Live
        BY <1>0 DEF Handshake, Live, Typed
    <2> DEFINE newest == subs[1].revision
    <2>2. /\ \A i, j \in DOMAIN watch.early : watch.early[i].revision = newest => j <= i
          /\ \A i \in DOMAIN watch.early, j \in DOMAIN outbox :
                watch.early[i].revision = newest => ~IsEvent(outbox[j])
          /\ \A i, j \in DOMAIN outbox :
                /\ IsEvent(outbox[i]) /\ IsEvent(outbox[j]) /\ outbox[i].revision = newest
                => j <= i
        BY <1>9, <2>1 DEF NewestLast
    <2>3. newest' = newest
        BY <1>0
    <2>4. \A i \in DOMAIN watch'.early :
              /\ i \in Nat \ {0} /\ i + 1 \in DOMAIN watch.early
              /\ watch'.early[i] = watch.early[i + 1]
        BY <1>3, <1>6
    <2> HIDE DEF newest
    <2>5. \A i, j \in DOMAIN watch'.early : watch'.early[i].revision = newest => j <= i
        <3> SUFFICES ASSUME NEW i \in DOMAIN watch'.early, NEW j \in DOMAIN watch'.early,
                            watch'.early[i].revision = newest
                     PROVE  j <= i
            OBVIOUS
        <3>1. j + 1 <= i + 1 /\ i \in Nat /\ j \in Nat
            BY <2>2, <2>4
        <3> QED BY <3>1
    <2>6. \A i \in DOMAIN watch'.early, j \in DOMAIN outbox :
              watch'.early[i].revision = newest => ~IsEvent(outbox[j])
        BY <2>2, <2>4
    <2>7. NewestLast'
        BY <1>0, <2>2, <2>3, <2>5, <2>6 DEF NewestLast, newest
    <2>8. ASSUME event.revision = newest PROVE Coming' = {}
        <3>1. ASSUME NEW i \in DOMAIN watch'.early PROVE FALSE
            <4>1. i + 1 <= 1 /\ i \in Nat \ {0}
                BY <1>3, <2>2, <2>4, <2>8
            <4> QED BY <4>1
        <3>2. \A j \in DOMAIN outbox' : ~IsEvent(outbox'[j])
            BY <1>0, <1>3, <2>2, <2>8
        <3> QED BY <3>1, <3>2 DEF Coming
    <2> QED BY <2>7, <2>8 DEF newest
<1>10. Typed' /\ Handshake' /\ Taken(event)
    BY <1>0, <1>3, <1>4, <1>5, <1>7, <1>8, <1>9, ReceiveSteps
<1> QED BY <1>0, <1>3, <1>10

LEMMA TakeResponseSteps ==
    ASSUME Typed, Handshake, TakeResponse
    PROVE  /\ Typed' /\ Handshake' /\ (Away \/ Aside)
           /\ UNCHANGED <<store, next, subs, unsent, inbox>>
           /\ ~IsReply(Head(outbox)) => UNCHANGED <<watch.accepted, watch.id>>
           /\ IsReply(Head(outbox)) /\ Head(outbox).ok => watch'.accepted # NotAccepted
           /\ watch'.up = watch.up
<1> DEFINE response == Head(outbox)
<1>0. /\ Take /\ response.kind = "response" /\ ~IsEvent(response)
      /\ UNCHANGED <<store, next, subs, nextId, inbox, unsent, made, asked, replica>>
      /\ UNCHANGED <<stored, changes, racing, publications>>
      /\ watch' = CASE response.op = "subscribe" /\ response.ok ->
                       [watch EXCEPT !.accepted = [id |-> response.id,
                                                   revision |-> response.revision,
                                                   upToDate |-> response.upToDate]]
                    [] response.op = "subscribe" /\ ~response.ok ->
                       [watch EXCEPT !.connecting = FALSE, !.disposed = @ \/ ~watch.settled]
                    [] response.op = "heal" -> [watch EXCEPT !.resyncing = FALSE]
                    [] OTHER -> watch
    BY DEF TakeResponse, IsEvent, store
<1>1. /\ watch \in WatchRecord /\ outbox \in Seq(Frame) /\ outbox' \in Seq(Frame)
      /\ response \in ResponseFrame
    BY <1>0, OutboxTaken DEF Typed, Frame, Event
<1>2. watch.up
    BY <1>0 DEF Handshake, Take
<1>3. watch'.early = watch.early => Coming' = Coming
    BY <1>0, ComingTaken
<1>4. Healing' = Healing
    BY <1>0 DEF Healing
<1>5. Asked' = Asked
    BY <1>0 DEF Asked
<1>6. CASE IsReply(response)
    <2>1. /\ Replies' = {} /\ 1 \in Replies /\ response = outbox[1]
        BY <1>0, <1>2, <1>6, RepliesTaken
    <2>2. /\ Asked = {} /\ watch.accepted = NotAccepted /\ watch.connecting /\ watch.id = 0
          /\ watch.resumeFrom = watch.held
          /\ IF response.ok THEN nextId = 2 /\ response.id = 1 /\ response.revision > 0
             ELSE nextId = 1
        BY <2>1 DEF Handshake
    <2>3. CASE response.ok
        <3>1. PICK accepted : accepted = [id |-> response.id, revision |-> response.revision,
                                           upToDate |-> response.upToDate]
            OBVIOUS
        <3>2. watch' = [watch EXCEPT !.accepted = accepted]
            BY <1>0, <1>6, <2>3, <3>1 DEF IsReply
        <3>3. /\ accepted \in Acceptance /\ accepted.id = 1 /\ accepted.revision > 0
              /\ accepted.revision = response.revision
              /\ accepted.upToDate = response.upToDate
              /\ accepted # NotAccepted
            BY <1>1, <2>2, <2>3, <3>1 DEF Acceptance, ResponseFrame, NotAccepted
        <3>4. /\ watch' \in WatchRecord /\ watch'.accepted = accepted
              /\ UNCHANGED <<watch.up, watch.disposed, watch.id, watch.connecting,
                             watch.resumeFrom, watch.held, watch.revision, watch.resyncing,
                             watch.early>>
            BY <1>1, <3>2, <3>3 DEF WatchRecord
        <3>5. Coming' = Coming
            BY <1>3, <3>4
        <3>6. Handshake'
            BY <1>0, <1>5, <2>1, <2>2, <2>3, <3>3, <3>4, <3>5 DEF Handshake, Single
        <3>7. Typed'
            BY <1>0, <1>1, <3>4 DEF Typed
        <3>8. \A revision : Welcomed(revision)' <=> Welcomed(revision)
            <4>1. \A i \in Replies : i = 1
                BY <2>1 DEF Handshake, Single
            <4> QED BY <2>1, <2>2, <2>3, <3>3, <3>4, <4>1 DEF Welcomed
        <3>9. ASSUME ~watch.disposed PROVE Aside
            <4>1. Healed'
                BY <2>2, <3>4, <3>9 DEF Healed, Handshake
            <4>2. NewestLast => NewestLast'
                BY <1>0, <3>4, NewestTaken DEF Live
            <4> QED BY <1>0, <1>2, <1>4, <2>2, <2>3, <3>4, <3>5, <3>8, <3>9, <4>1, <4>2
                    DEF Aside, Live
        <3>10. watch.disposed => Away
            BY <1>0, <3>4 DEF Away, Live
        <3> QED BY <1>0, <1>6, <3>3, <3>4, <3>6, <3>7, <3>9, <3>10
    <2>4. CASE ~response.ok
        <3>1. watch' = [watch EXCEPT !.connecting = FALSE, !.disposed = @ \/ ~watch.settled]
            BY <1>0, <1>6, <2>4 DEF IsReply
        <3>2. /\ watch' \in WatchRecord /\ ~watch'.connecting
              /\ ~watch'.disposed => ~watch.disposed
              /\ UNCHANGED <<watch.up, watch.id, watch.accepted, watch.resumeFrom,
                             watch.held, watch.revision, watch.resyncing, watch.early>>
            BY <1>1, <3>1 DEF WatchRecord
        <3>3. Coming' = Coming
            BY <1>3, <3>2
        <3>4. Handshake'
            BY <1>0, <1>5, <2>1, <2>2, <2>4, <3>2, <3>3 DEF Handshake, Single
        <3>5. Typed'
            BY <1>0, <1>1, <3>2 DEF Typed
        <3> QED BY <1>0, <1>6, <2>2, <2>4, <3>2, <3>4, <3>5 DEF Away, Live
    <2> QED BY <2>3, <2>4
<1>7. CASE ~IsReply(response)
    <2>1. watch' = IF response.op = "heal" THEN [watch EXCEPT !.resyncing = FALSE] ELSE watch
        BY <1>0, <1>7 DEF IsReply
    <2>2. /\ watch' \in WatchRecord
          /\ UNCHANGED <<watch.up, watch.disposed, watch.id, watch.connecting, watch.accepted,
                         watch.resumeFrom, watch.held, watch.revision, watch.early>>
          /\ watch'.resyncing = (watch.resyncing /\ response.op # "heal")
        BY <1>1, <2>1 DEF WatchRecord
    <2>3. Coming' = Coming
        BY <1>3, <2>2
    <2>4. Handshake'
        BY <1>0, <1>2, <1>7, <2>2, <2>3, HandshakeTaken
    <2>5. Typed'
        BY <1>0, <1>1, <2>2 DEF Typed
    <2>6. \A revision : Welcomed(revision)' <=> Welcomed(revision)
        <3>1. /\ \A i \in Replies' : \E j \in Replies : outbox'[i] = outbox[j]
              /\ \A i \in Replies : \E j \in Replies' : outbox'[j] = outbox[i]
            BY <1>0, <1>2, <1>7, RepliesTaken
        <3> QED BY <2>2, <3>1 DEF Welcomed
    <2>7. Healed => Healed'
        <3>1. CASE response.op = "heal"
            BY <2>2, <3>1 DEF Healed
        <3>2. CASE response.op # "heal"
            <4>1. /\ HealReplies # {} => HealReplies' # {}
                  /\ \A revision : HealedAt(revision) => HealedAt(revision)'
                BY <1>0, <1>1, <3>2, HealKept
            <4>2. Behind(subs[1].delivered)' <=> Behind(subs[1].delivered)
                BY <1>0 DEF Behind
            <4>3. subs[1].revision' = subs[1].revision
                BY <1>0
            <4>4. Live' = Live
                BY <1>0, <2>2 DEF Live
            <4>5. HealedAt(subs[1].revision) => HealedAt(subs[1].revision)'
                BY <4>1, <4>3
            <4> QED BY <1>4, <2>2, <4>1, <4>2, <4>4, <4>5 DEF Healed
        <3> QED BY <3>1, <3>2
    <2>8. CASE Live
        <3>1. NewestLast => NewestLast'
            BY <1>0, <2>2, <2>8, NewestTaken
        <3> QED BY <1>0, <1>4, <2>2, <2>3, <2>4, <2>5, <2>6, <2>7, <2>8, <3>1, <1>7
                DEF Aside, Live
    <2>9. CASE ~Live
        BY <1>0, <2>2, <2>4, <2>5, <2>9, <1>7 DEF Away, Live
    <2> QED BY <2>8, <2>9
<1> QED BY <1>6, <1>7

(* The promise of the subscription resumes a watch that goes on.           *)
Joined ==
    /\ Live /\ Live' /\ UNCHANGED <<store, subs, unsent, replica, watch.held>>
    /\ Coming' = Coming /\ ~watch'.resyncing /\ watch.revision = 0
    /\ \A revision : ~Welcomed(revision)'
    /\ Healing => Healing'
    /\ NewestLast => NewestLast'
    /\ \/ /\ watch'.revision = 0
          /\ watch.held = None \/ \A revision : ~Welcomed(revision)
       \/ /\ watch.held # None /\ watch'.revision > 0
          /\ \A revision : Welcomed(revision) <=> revision = watch'.revision

LEMMA ResumeSteps ==
    ASSUME Typed, Handshake, Resume
    PROVE  /\ Typed' /\ Handshake' /\ Joined /\ UNCHANGED <<store, connection>>
           /\ watch'.id = 1 /\ watch'.up = watch.up
<1>0. /\ watch.accepted # NotAccepted /\ ~watch.disposed /\ watch' = Resumed(watch)
      /\ UNCHANGED <<store, connection, made, asked, replica>>
      /\ UNCHANGED <<next, subs, nextId, inbox, outbox, unsent>>
      /\ UNCHANGED <<stored, changes, racing, publications>>
      /\ watch \in WatchRecord /\ watch.accepted \in Acceptance
    BY DEF Resume, store, connection, Typed, WatchRecord
<1>1. /\ Asked = {} /\ Replies = {} /\ watch.connecting /\ watch.resumeFrom = watch.held
      /\ nextId = 2 /\ watch.accepted.id = 1 /\ watch.accepted.revision > 0
      /\ watch.id = 0 /\ watch.revision = 0 /\ ~watch.resyncing
    BY <1>0 DEF Handshake
<1>2. watch.up
    BY <1>1 DEF Handshake
<1>3. /\ watch' \in WatchRecord /\ watch'.id = 1 /\ ~watch'.connecting
      /\ watch'.accepted = NotAccepted
      /\ watch'.revision = (IF watch.accepted.upToDate /\ watch.held # None
                            THEN watch.accepted.revision ELSE 0)
      /\ UNCHANGED <<watch.up, watch.disposed, watch.held, watch.resyncing, watch.early>>
    <2>1. NotAccepted \in Acceptance
        BY DEF NotAccepted, Acceptance
    <2> QED BY <1>0, <1>1, <2>1 DEF Resumed, WatchRecord, Acceptance
<1>4. Coming' = Coming /\ Asked' = {} /\ Replies' = {}
    BY <1>0, <1>1, <1>3 DEF Coming, Asked, Replies
<1>5. Handshake'
    BY <1>0, <1>1, <1>2, <1>3, <1>4 DEF Handshake, Single
<1>6. Typed'
    BY <1>0, <1>3 DEF Typed
<1>7. \A revision : ~Welcomed(revision)'
    BY <1>3, <1>4 DEF Welcomed
<1>8. \A revision : Welcomed(revision) <=>
          watch.accepted.upToDate /\ watch.accepted.revision = revision
    BY <1>0, <1>1 DEF Welcomed
<1>9. Healing => Healing'
    BY <1>0 DEF Healing
<1>10. NewestLast => NewestLast'
    BY <1>0, <1>3 DEF NewestLast, Live
<1> QED BY <1>0, <1>1, <1>2, <1>3, <1>4, <1>5, <1>6, <1>7, <1>8, <1>9, <1>10 DEF Joined, Live

LEMMA ResumeDisposedSteps ==
    ASSUME Typed, Handshake, ResumeDisposed
    PROVE  /\ Typed' /\ Handshake' /\ Away /\ UNCHANGED <<store, next, subs, outbox, unsent>>
           /\ \E i \in DOMAIN inbox' : inbox'[i].op = "unsubscribe"
<1>0. /\ watch.accepted # NotAccepted /\ watch.disposed
      /\ watch' = [watch EXCEPT !.accepted = NotAccepted, !.connecting = FALSE]
      /\ UNCHANGED <<store, next, subs, nextId, outbox, unsent, made, asked, replica>>
      /\ UNCHANGED <<stored, changes, racing, publications>>
      /\ watch \in WatchRecord
    BY DEF ResumeDisposed, store, Typed
<1>1. /\ Asked = {} /\ Replies = {} /\ watch.accepted.id = 1 /\ watch.id = 0 /\ watch.up
    BY <1>0 DEF Handshake
<1>2. PICK request : request = [op |-> "unsubscribe", id |-> 1, held |-> None]
    OBVIOUS
<1>3. request \in Request /\ request.op = "unsubscribe" /\ request.id = 1 /\ Send(request)
    BY <1>1, <1>2, NoneToken DEF Request, Operation, ResumeDisposed
<1>4. /\ inbox' \in Seq(Request) /\ Asked' = Asked
      /\ \A i \in DOMAIN inbox' :
            inbox'[i] = request \/ (i \in DOMAIN inbox /\ inbox'[i] = inbox[i])
      /\ \E i \in DOMAIN inbox' : inbox'[i] = request
    BY <1>3, InboxGrows DEF Typed
<1>5. /\ watch' \in WatchRecord /\ ~watch'.connecting /\ watch'.accepted = NotAccepted
      /\ UNCHANGED <<watch.up, watch.disposed, watch.id, watch.held, watch.early>>
    <2>1. NotAccepted \in Acceptance
        BY DEF NotAccepted, Acceptance
    <2> QED BY <1>0, <2>1 DEF WatchRecord
<1>6. Coming' = Coming /\ Replies' = Replies
    BY <1>0, <1>5 DEF Coming, Replies
<1>7. Handshake'
    BY <1>0, <1>1, <1>3, <1>4, <1>5, <1>6 DEF Handshake, Single
<1>8. Typed'
    BY <1>0, <1>4, <1>5 DEF Typed
<1> QED BY <1>0, <1>3, <1>4, <1>5, <1>7, <1>8 DEF Away, Live

LEMMA AskResyncSteps ==
    ASSUME Typed, Handshake, AskResync
    PROVE  /\ Typed' /\ Handshake' /\ (Away \/ Aside)
           /\ UNCHANGED <<store, next, subs, outbox, unsent, watch.id, watch.up, watch.accepted>>
           /\ \A i \in DOMAIN inbox : i \in DOMAIN inbox' /\ inbox'[i] = inbox[i]
<1>0. /\ watch.up /\ ~watch.disposed
      /\ asked' = asked + 1 /\ asked < MaxResyncs
      /\ UNCHANGED <<store, next, subs, nextId, outbox, unsent, made, replica>>
      /\ UNCHANGED <<stored, changes, racing, publications>>
      /\ watch \in WatchRecord /\ inbox \in Seq(Request) /\ watch.held \in AnyToken
      /\ watch.asking + 1 \in Nat
    BY DEF AskResync, store, Typed, WatchRecord
<1>1. asked' \in 0..MaxResyncs
    BY <1>0, BoundsAssumption DEF Typed
<1>2. CASE Subscribing
    <2>1. UNCHANGED inbox /\ watch' = [watch EXCEPT !.asking = watch.asking + 1]
        BY <1>2 DEF AskResync
    <2>2. /\ watch' \in WatchRecord
          /\ UNCHANGED <<watch.up, watch.disposed, watch.id, watch.connecting, watch.accepted,
                         watch.resumeFrom, watch.held, watch.revision, watch.resyncing,
                         watch.early>>
        BY <1>0, <2>1 DEF WatchRecord
    <2>3. /\ Coming' = Coming /\ Replies' = Replies /\ Asked' = Asked
          /\ HealReplies' = HealReplies /\ Healing' = Healing
        BY <1>0, <2>1, <2>2 DEF Coming, Replies, Asked, HealReplies, Healing
    <2>4. Handshake'
        BY <1>0, <2>1, <2>2, <2>3 DEF Handshake
    <2>5. Typed'
        BY <1>0, <1>1, <2>1, <2>2 DEF Typed
    <2>6. CASE ~Live
        BY <1>0, <2>1, <2>2, <2>4, <2>5, <2>6 DEF Away, Live
    <2>7. CASE Live
        <3>1. \A revision : Welcomed(revision)' <=> Welcomed(revision)
            BY <1>0, <2>2, <2>3 DEF Welcomed
        <3>2. HealedAt(subs[1].revision) => HealedAt(subs[1].revision)'
            BY <1>0, <2>3 DEF HealedAt
        <3>3. Behind(subs[1].delivered)' <=> Behind(subs[1].delivered)
            BY <1>0 DEF Behind
        <3>4. Live'
            BY <1>0, <2>2, <2>7 DEF Live
        <3>5. Healed => Healed'
            BY <1>0, <2>2, <2>3, <2>7, <3>2, <3>3 DEF Healed
        <3>6. NewestLast => NewestLast'
            BY <1>0, <2>2, <2>7 DEF NewestLast
        <3>7. Aside
            BY <1>0, <2>2, <2>3, <2>7, <3>1, <3>4, <3>5, <3>6 DEF Aside
        <3> QED BY <1>0, <2>1, <2>2, <2>4, <2>5, <3>7
    <2> QED BY <2>6, <2>7
<1>3. CASE ~Subscribing
    <2>0. /\ ~watch.connecting /\ watch.id = 0
          /\ Asked = {} /\ Replies = {} /\ watch.accepted = NotAccepted
          /\ \A i \in DOMAIN inbox : inbox[i].op # "unsubscribe"
        BY <1>0, <1>3 DEF Handshake, Subscribing
    <2>1. PICK request : request = [op |-> "subscribe", id |-> 0, held |-> watch.held]
        OBVIOUS
    <2>2. /\ request \in Request /\ request.op = "subscribe" /\ request.held = watch.held
          /\ Send(request)
        BY <1>0, <1>3, <2>1 DEF Request, Operation, AskResync
    <2>3. /\ inbox' \in Seq(Request) /\ Single(Asked')
          /\ DOMAIN inbox \subseteq DOMAIN inbox'
          /\ \A i \in DOMAIN inbox : inbox'[i] = inbox[i]
          /\ \A i \in DOMAIN inbox' :
                inbox'[i] = request \/ (i \in DOMAIN inbox /\ inbox'[i] = inbox[i])
        BY <1>0, <2>0, <2>2, InboxGrows
    <2>4. watch' = [watch EXCEPT !.asking = watch.asking + 1, !.connecting = TRUE,
                                 !.resumeFrom = watch.held]
        BY <1>3 DEF AskResync
    <2>5. /\ watch' \in WatchRecord /\ watch'.connecting /\ watch'.resumeFrom = watch.held
          /\ UNCHANGED <<watch.up, watch.disposed, watch.id, watch.accepted, watch.held,
                         watch.revision, watch.resyncing, watch.early>>
        BY <1>0, <2>4 DEF WatchRecord
    <2>6. Coming' = Coming /\ Replies' = Replies
        BY <1>0, <2>5 DEF Coming, Replies
    <2>7. nextId = 1
        BY <1>0, <2>0 DEF Handshake
    <2>8. \A i \in Asked' : inbox'[i] = request
        BY <2>0, <2>3 DEF Asked
    <2>9. /\ \A i \in DOMAIN inbox' : inbox'[i].op # "unsubscribe"
          /\ \A i \in DOMAIN inbox' : inbox'[i].op # "subscribe" => inbox'[i].id = 1
        BY <2>0, <2>2, <2>3 DEF Handshake
    <2>10. Handshake'
        BY <1>0, <2>0, <1>3, <2>2, <2>3, <2>5, <2>6, <2>7, <2>8, <2>9 DEF Handshake
    <2>11. Typed'
        BY <1>0, <1>1, <2>3, <2>5 DEF Typed
    <2> QED BY <1>0, <2>3, <2>5, <2>7, <2>10, <2>11 DEF Away, Live
<1> QED BY <1>2, <1>3

LEMMA RequestResyncSteps ==
    ASSUME Typed, Handshake, RequestResync
    PROVE  /\ Typed' /\ Handshake' /\ Aside
           /\ UNCHANGED <<store, next, subs, outbox, unsent, watch.id, watch.up, watch.accepted>>
           /\ \A i \in DOMAIN inbox : i \in DOMAIN inbox' /\ inbox'[i] = inbox[i]
<1>0. /\ watch.asking > 0 /\ watch.id # 0
      /\ watch' = [watch EXCEPT !.asking = watch.asking - 1]
      /\ Send([op |-> "resync", id |-> watch.id, held |-> None])
      /\ UNCHANGED <<store, next, subs, nextId, outbox, unsent, made, asked, replica>>
      /\ UNCHANGED <<stored, changes, racing, publications>>
      /\ watch \in WatchRecord /\ inbox \in Seq(Request)
    BY DEF RequestResync, store, Typed
<1>1. /\ watch' \in WatchRecord
      /\ UNCHANGED <<watch.up, watch.disposed, watch.id, watch.connecting, watch.accepted,
                     watch.resumeFrom, watch.held, watch.revision, watch.resyncing,
                     watch.early>>
    <2>1. watch.asking - 1 \in Nat
        BY <1>0 DEF WatchRecord
    <2> QED BY <1>0, <2>1 DEF WatchRecord
<1>2. /\ watch.id = 1 /\ watch.up /\ ~watch.disposed /\ ~watch.connecting /\ nextId = 2
      /\ Asked = {} /\ \A i \in DOMAIN inbox : inbox[i].op # "unsubscribe"
    BY <1>0 DEF Handshake, Typed, WatchRecord
<1>3. PICK request : request = [op |-> "resync", id |-> 1, held |-> None]
    OBVIOUS
<1>4. /\ request \in Request /\ request.op = "resync" /\ request.id = 1 /\ Send(request)
    BY <1>0, <1>2, <1>3, NoneToken DEF Request, Operation
<1>5. /\ inbox' \in Seq(Request) /\ Asked' = Asked
      /\ DOMAIN inbox \subseteq DOMAIN inbox'
      /\ \A i \in DOMAIN inbox : inbox'[i] = inbox[i]
      /\ \A i \in DOMAIN inbox' :
            inbox'[i] = request \/ (i \in DOMAIN inbox /\ inbox'[i] = inbox[i])
    BY <1>0, <1>4, InboxGrows
<1>6. /\ Coming' = Coming /\ Replies' = Replies
      /\ HealReplies' = HealReplies
    BY <1>0, <1>1 DEF Coming, Replies, HealReplies
<1>7. Healing' = Healing
    BY <1>4, <1>5 DEF Healing
<1>8. Handshake'
    BY <1>0, <1>1, <1>2, <1>4, <1>5, <1>6 DEF Handshake
<1>9. Typed'
    BY <1>0, <1>1, <1>5 DEF Typed
<1>10. \A revision : Welcomed(revision)' <=> Welcomed(revision)
    BY <1>0, <1>1, <1>6 DEF Welcomed
<1>11. HealedAt(subs[1].revision) => HealedAt(subs[1].revision)'
    BY <1>0, <1>6 DEF HealedAt
<1>12. Behind(subs[1].delivered)' <=> Behind(subs[1].delivered)
    BY <1>0 DEF Behind
<1>13. Healed => Healed'
    BY <1>0, <1>1, <1>6, <1>7, <1>11, <1>12 DEF Healed, Live
<1>14. NewestLast => NewestLast'
    BY <1>0, <1>1 DEF NewestLast, Live
<1> QED BY <1>0, <1>1, <1>2, <1>5, <1>6, <1>7, <1>8, <1>9, <1>10, <1>13, <1>14
        DEF Aside, Live

LEMMA DisposeSteps ==
    ASSUME Typed, Handshake, Dispose
    PROVE  /\ Typed' /\ Handshake' /\ Away
           /\ UNCHANGED <<store, next, subs, outbox, unsent, watch.up, watch.accepted>>
           /\ \A i \in DOMAIN inbox : i \in DOMAIN inbox' /\ inbox'[i] = inbox[i]
           /\ watch.id # 0 => \E i \in DOMAIN inbox' : inbox'[i].op = "unsubscribe"
<1>0. /\ ~watch.disposed /\ watch' = [watch EXCEPT !.disposed = TRUE, !.id = 0, !.asking = 0]
      /\ UNCHANGED <<store, next, subs, nextId, outbox, unsent, made, asked, replica>>
      /\ UNCHANGED <<stored, changes, racing, publications>>
      /\ watch \in WatchRecord /\ inbox \in Seq(Request)
    BY DEF Dispose, store, Typed
<1>1. /\ watch' \in WatchRecord /\ watch'.disposed /\ watch'.id = 0
      /\ UNCHANGED <<watch.up, watch.connecting, watch.accepted, watch.resumeFrom,
                     watch.held, watch.revision, watch.resyncing, watch.early>>
    BY <1>0 DEF WatchRecord
<1>2. Coming' = Coming /\ Replies' = Replies
    BY <1>0, <1>1 DEF Coming, Replies
<1>3. CASE watch.id = 0
    <2>1. UNCHANGED inbox /\ Asked' = Asked
        BY <1>3 DEF Dispose, Asked
    <2>2. Handshake'
        BY <1>0, <1>1, <1>2, <1>3, <2>1 DEF Handshake
    <2>3. Typed'
        BY <1>0, <1>1, <2>1 DEF Typed
    <2> QED BY <1>0, <1>1, <1>3, <2>1, <2>2, <2>3 DEF Away, Live
<1>4. CASE watch.id # 0
    <2>0. watch.id = 1 /\ watch.up
        BY <1>4 DEF Handshake, Typed, WatchRecord
    <2>1. PICK request : request = [op |-> "unsubscribe", id |-> 1, held |-> None]
        OBVIOUS
    <2>2. request \in Request /\ request.op = "unsubscribe" /\ request.id = 1 /\ Send(request)
        BY <2>0, <2>1, NoneToken DEF Request, Operation, Dispose
    <2>3. /\ inbox' \in Seq(Request) /\ Asked' = Asked
          /\ DOMAIN inbox \subseteq DOMAIN inbox'
          /\ \A i \in DOMAIN inbox : inbox'[i] = inbox[i]
          /\ \A i \in DOMAIN inbox' :
                inbox'[i] = request \/ (i \in DOMAIN inbox /\ inbox'[i] = inbox[i])
          /\ \E i \in DOMAIN inbox' : inbox'[i] = request
        BY <1>0, <2>2, InboxGrows
    <2>4. \A i \in Asked : inbox'[i] = inbox[i]
        BY <2>3 DEF Asked
    <2>5. Handshake'
        BY <1>0, <1>1, <1>2, <2>0, <2>2, <2>3, <2>4 DEF Handshake
    <2>6. Typed'
        BY <1>0, <1>1, <2>3 DEF Typed
    <2> QED BY <1>0, <1>1, <2>2, <2>3, <2>5, <2>6 DEF Away, Live
<1> QED BY <1>3, <1>4

LEMMA ConnectSteps ==
    ASSUME Typed, Handshake, Connect
    PROVE  Typed' /\ Handshake' /\ Away /\ UNCHANGED <<store>> /\ DOMAIN subs' = {}
<1>0. /\ ~watch.up /\ made < MaxConnections /\ made' = made + 1
      /\ next' = Len(publications) + 1
      /\ subs' = <<>> /\ nextId' = 1 /\ outbox' = <<>>
      /\ unsent' = [unsent EXCEPT !.last = FALSE]
      /\ UNCHANGED <<store, asked, replica>>
      /\ UNCHANGED <<stored, changes, racing, publications>>
      /\ watch \in WatchRecord /\ watch.held \in AnyToken
    BY DEF Connect, store, Typed, WatchRecord
<1>1. /\ watch.id = 0 /\ ~watch.connecting /\ watch.early = <<>> /\ watch.accepted = NotAccepted
      /\ ~watch.disposed => watch.revision = 0 /\ ~watch.resyncing
    BY <1>0 DEF Handshake
<1>2. /\ made' \in 0..MaxConnections /\ next' \in 1..Len(publications) + 1
      /\ unsent' \in [count: 0..MaxUnsent, last: BOOLEAN]
      /\ DOMAIN subs' = {} /\ subs' \in [DOMAIN subs' -> Subscription]
      /\ outbox' \in Seq(Frame)
    <2>1. Len(publications) \in Nat
        BY LenProperties DEF Typed
    <2>2. made' \in 0..MaxConnections
        BY <1>0, BoundsAssumption DEF Typed
    <2>3. unsent' \in [count: 0..MaxUnsent, last: BOOLEAN]
        BY <1>0 DEF Typed
    <2> QED BY <1>0, <2>1, <2>2, <2>3
<1> DEFINE request == [op |-> "subscribe", id |-> 0, held |-> watch.held]
<1>4. /\ watch' \in WatchRecord /\ watch'.up /\ watch'.connecting = ~watch.disposed
      /\ ~watch.disposed => watch'.resumeFrom = watch.held
      /\ UNCHANGED <<watch.disposed, watch.id, watch.accepted, watch.held, watch.revision,
                     watch.resyncing, watch.early>>
    <2>1. CASE watch.disposed
        BY <1>0, <1>1, <2>1 DEF Connect, WatchRecord
    <2>2. CASE ~watch.disposed
        BY <1>0, <1>1, <2>2 DEF Connect, WatchRecord
    <2> QED BY <2>1, <2>2
<1>5. Coming' = {} /\ Replies' = {}
    BY <1>0, <1>1, <1>4 DEF Coming, Replies
<1>6. /\ inbox' \in Seq(Request)
      /\ watch.disposed => inbox' = <<>> /\ Asked' = {}
      /\ ~watch.disposed => inbox' = <<request>> /\ Asked' = {1}
    <2>1. request \in Request
        BY <1>0 DEF Request, Operation
    <2>2. CASE watch.disposed
        BY <2>2 DEF Connect, Asked
    <2>3. CASE ~watch.disposed
        <3>1. inbox' = <<request>>
            BY <2>3 DEF Connect
        <3> QED BY <2>1, <2>3, <3>1 DEF Asked
    <2> QED BY <2>2, <2>3
<1>7. Handshake'
    <2>1. CASE watch.disposed
        BY <1>0, <1>1, <1>2, <1>4, <1>5, <1>6, <2>1 DEF Handshake, Single
    <2>2. CASE ~watch.disposed
        <3>1. \A i \in DOMAIN inbox' :
                  inbox'[i].op = "subscribe" /\ inbox'[i].held = watch.held
            BY <1>6, <2>2
        <3>2. Asked' = {1} /\ \A i \in Asked' : inbox'[i].held = watch'.held
            BY <1>4, <1>6, <2>2
        <3>3. Single(Asked') /\ Single(Replies')
            BY <1>5, <3>2 DEF Single
        <3>4. /\ watch'.up /\ watch'.connecting /\ ~watch'.disposed /\ watch'.id = 0
              /\ watch'.accepted = NotAccepted /\ watch'.resumeFrom = watch'.held
              /\ watch'.revision = 0 /\ ~watch'.resyncing /\ nextId' = 1
              /\ \A i \in DOMAIN inbox' : inbox'[i].op # "unsubscribe"
            BY <1>0, <1>1, <1>4, <2>2, <3>1
        <3> QED BY <1>2, <1>5, <3>1, <3>2, <3>3, <3>4 DEF Handshake
    <2> QED BY <2>1, <2>2
<1>8. Typed'
    BY <1>0, <1>2, <1>4, <1>6 DEF Typed
<1> QED BY <1>0, <1>2, <1>4, <1>7, <1>8 DEF Away, Live

LEMMA DisconnectSteps ==
    ASSUME Typed, Handshake, Disconnect
    PROVE  Typed' /\ Handshake' /\ Away /\ UNCHANGED <<store>> /\ DOMAIN subs' = {}
<1>0. /\ watch' = Disconnected
      /\ subs' = <<>> /\ inbox' = <<>> /\ outbox' = <<>>
      /\ UNCHANGED <<store, next, nextId, unsent, made, asked, replica>>
      /\ UNCHANGED <<stored, changes, racing, publications>>
      /\ watch \in WatchRecord
    BY DEF Disconnect, store, Typed
<1>1. /\ watch' \in WatchRecord /\ ~watch'.up /\ watch'.id = 0 /\ ~watch'.connecting
      /\ ~watch'.resyncing /\ watch'.revision = 0 /\ watch'.early = <<>>
      /\ watch'.accepted = NotAccepted
      /\ UNCHANGED <<watch.held, watch.disposed>>
    <2>1. NotAccepted \in Acceptance
        BY DEF NotAccepted, Acceptance
    <2>2. <<>> \in Seq(Event)
        OBVIOUS
    <2>3. /\ watch'.up = FALSE /\ watch'.id = 0 /\ watch'.connecting = FALSE
          /\ watch'.resyncing = FALSE /\ watch'.revision = 0 /\ watch'.early = <<>>
          /\ watch'.accepted = NotAccepted
          /\ UNCHANGED <<watch.held, watch.disposed>>
        BY <1>0 DEF Disconnected, WatchRecord
    <2>4. watch' \in WatchRecord
        BY <1>0, <2>1, <2>2 DEF Disconnected, WatchRecord
    <2> QED BY <2>3, <2>4
<1>2. /\ DOMAIN subs' = {} /\ subs' \in [DOMAIN subs' -> Subscription]
      /\ inbox' \in Seq(Request) /\ outbox' \in Seq(Frame)
      /\ Asked' = {} /\ Replies' = {}
    BY <1>0 DEF Asked, Replies
<1>3. Handshake'
    BY <1>0, <1>1, <1>2 DEF Handshake, Single
<1>4. Typed'
    BY <1>0, <1>1, <1>2 DEF Typed
<1> QED BY <1>0, <1>1, <1>2, <1>3, <1>4 DEF Away, Live

-----------------------------------------------------------------------------
(* What a step is to the client, in one of few ways.                       *)
Told(event) == Sent(event) \/ Taken(event)

LEMMA Steps ==
    ASSUME Typed, Handshake, Chained, Next
    PROVE  /\ Typed' /\ Handshake' /\ Chained'
           /\ \/ StoreNext
              \/ AnnounceNext
              \/ /\ UNCHANGED store
                 /\ Away \/ Aside \/ Granted \/ Joined \/ \E event \in Event : Told(event)
<1>1. UNCHANGED store => Chained'
    BY DEF store, Chained, Births
<1>0. ASSUME UNCHANGED <<connection, client>> PROVE Handshake'
    <2>1. UNCHANGED <<subs, nextId, inbox, outbox, watch>>
        BY <1>0 DEF connection, client
    <2>2. Coming' = Coming /\ Replies' = Replies /\ Asked' = Asked
        BY <2>1 DEF Coming, Replies, Asked
    <2> QED BY <2>1, <2>2 DEF Handshake
<1>2. CASE StoreNext
    BY <1>0, <1>2, StoreSteps
<1>3. CASE AnnounceNext
    <2>1. PICK n \in racing : Announce(n)
        BY <1>3 DEF AnnounceNext
    <2>2. Typed' /\ Chained' /\ UNCHANGED <<connection, client>>
        BY <2>1, AnnounceSteps DEF Announce
    <2> QED BY <1>0, <1>3, <2>2
<1>4. CASE ServeSubscribe
    <2>1. Live' \/ ~Live'
        OBVIOUS
    <2> QED BY <1>1, <1>4, <2>1, ServeSubscribeSteps DEF Away
<1>5. CASE ServeResync
    <2>1. Live \/ ~Live
        OBVIOUS
    <2>2. UNCHANGED <<store, replica, watch>> /\ Typed' /\ Handshake' /\ nextId' = nextId
          /\ (Live => Aside \/ \E event \in Event : Sent(event))
        BY <1>5, ServeResyncSteps DEF ServeResync, client
    <2> QED BY <1>1, <2>1, <2>2 DEF Away, Told, Live
<1>6. CASE ServeUnsubscribe
    BY <1>1, <1>6, ServeUnsubscribeSteps DEF Away
<1>7. CASE TakeChange
    <2>1. UNCHANGED <<store, replica, watch>> /\ Typed' /\ Handshake' /\ nextId' = nextId
          /\ (Live => Aside \/ \E event \in Event : Sent(event))
        BY <1>7, TakeChangeSteps DEF TakeChange, client
    <2> QED BY <1>1, <2>1 DEF Away, Told, Live
<1>8. CASE Lag
    <2>1. UNCHANGED <<store, replica, watch>> /\ Typed' /\ Handshake' /\ nextId' = nextId
          /\ (Live => Aside \/ \E event \in Event : Sent(event))
        BY <1>8, LagSteps DEF Lag, client
    <2> QED BY <1>1, <2>1 DEF Away, Told, Live
<1>9. CASE TakeEvent
    BY <1>1, <1>9, TakeEventSteps DEF Told
<1>10. CASE TakeResponse
    BY <1>1, <1>10, TakeResponseSteps
<1>11. CASE Resume
    BY <1>1, <1>11, ResumeSteps
<1>12. CASE ResumeDisposed
    BY <1>1, <1>12, ResumeDisposedSteps
<1>13. CASE TakeEarly
    BY <1>1, <1>13, TakeEarlySteps DEF Told
<1>14. CASE Connect
    BY <1>1, <1>14, ConnectSteps
<1>15. CASE Disconnect
    BY <1>1, <1>15, DisconnectSteps
<1>16. CASE AskResync
    BY <1>1, <1>16, AskResyncSteps
<1>17. CASE Dispose
    BY <1>1, <1>17, DisposeSteps
<1>18. CASE RequestResync
    BY <1>1, <1>18, RequestResyncSteps
<1> QED BY <1>2, <1>3, <1>4, <1>5, <1>6, <1>7, <1>8, <1>9, <1>10, <1>11, <1>12, <1>13,
           <1>14, <1>15, <1>16, <1>17, <1>18
        DEF Next, ServerNext, WatchNext, ClientNext

(* A subscription is delivered what is stored, or that nothing is.         *)
LEMMA DeliveredSteps ==
    ASSUME Typed, Next
    PROVE  \A s \in DOMAIN subs' :
              \/ subs'[s].delivered \in {stored, None}
              \/ s \in DOMAIN subs /\ subs'[s].delivered = subs[s].delivered
<1>1. ASSUME NEW s \in DOMAIN subs, NEW revision, NEW delivered \in {stored, None},
             Deliver(s, revision, delivered)
      PROVE  \A t \in DOMAIN subs' :
                \/ subs'[t].delivered \in {stored, None}
                \/ t \in DOMAIN subs /\ subs'[t].delivered = subs[t].delivered
    BY <1>1 DEF Deliver
<1>2. CASE UNCHANGED subs
    BY <1>2
<1>3. CASE ServeSubscribe
    <2>1. Accept(Head(inbox).held) \/ UNCHANGED subs
        BY <1>3 DEF ServeSubscribe
    <2>2. CASE Accept(Head(inbox).held)
        <3>1. subs' = [s \in DOMAIN subs \cup {nextId} |->
                          IF s = nextId THEN [revision |-> CurrentRevision, delivered |-> stored]
                          ELSE subs[s]]
            BY <2>2 DEF Accept
        <3> QED BY <3>1
    <2> QED BY <1>2, <2>1, <2>2
<1>4. CASE ServeResync
    BY <1>1, <1>2, <1>4 DEF ServeResync
<1>5. CASE ServeUnsubscribe
    BY <1>5 DEF ServeUnsubscribe, Drop
<1>6. CASE TakeChange
    BY <1>1, <1>2, <1>6 DEF TakeChange, Follow, Remove, Skipped
<1>7. CASE Lag
    BY <1>1, <1>2, <1>7 DEF Lag, Skipped
<1>8. CASE Connect \/ Disconnect
    BY <1>8 DEF Connect, Disconnect
<1>9. CASE StoreNext \/ AnnounceNext
    BY <1>2, <1>9 DEF StoreNext, AnnounceNext, Create, Commit, Delete, Change, Announce, connection
<1>10. CASE WatchNext \/ AskResync \/ Dispose
    BY <1>2, <1>10 DEF WatchNext, TakeEvent, TakeResponse, Resume, ResumeDisposed, TakeEarly,
                       RequestResync, AskResync, Dispose, connection
<1> QED BY <1>3, <1>4, <1>5, <1>6, <1>7, <1>8, <1>9, <1>10 DEF Next, ServerNext, ClientNext

-----------------------------------------------------------------------------
(* Whole states.                                                           *)

DeliveredPast == \A s \in DOMAIN subs : Past(subs[s].delivered)

(* Every state named anywhere was the document's, and what the application *)
(* has are the operations of one of them.                                  *)
Known ==
    /\ Past(watch.held)
    /\ DeliveredPast
    /\ \E token \in AnyToken : Past(token) /\ replica = Operations(token)

(* Updates are numbered as the subscription is: the one of its revision    *)
(* names the state it was delivered, and a watch at its revision holds it. *)
Numbers ==
    Live =>
        /\ \A event \in Coming :
              /\ event.kind = "patch" => event.from > 0 /\ event.revision = event.from + 1
              /\ event.revision <= subs[1].revision
              /\ event.revision = subs[1].revision => event.state.at = subs[1].delivered
              /\ Past(event.state.at)
        /\ watch.revision <= subs[1].revision
        /\ watch.revision = subs[1].revision =>
              watch.held = subs[1].delivered /\ replica = Operations(subs[1].delivered)

(* What a client at a revision would take is for a replica of what it has. *)
Suits(event, revision, have) ==
    \/ event.kind = "snapshot" /\ event.revision > revision
    \/ event.kind = "patch" /\ event.from = revision
    => Fits(have, event.state)

Fit ==
    Live =>
        \A event \in Coming :
            /\ Suits(event, watch.revision, replica)
            /\ \A earlier \in Coming :
                  Suits(event, earlier.revision, Operations(earlier.state.at))

(* A client that is told it is up to date holds something, which is what   *)
(* the subscription was delivered at that revision.                        *)
Welcome ==
    Live =>
        \A revision : Welcomed(revision) =>
            /\ watch.held # None /\ revision <= subs[1].revision
            /\ revision = subs[1].revision => subs[1].delivered = watch.held
            /\ \A event \in Coming :
                  event.kind = "patch" /\ event.from = revision => Fits(replica, event.state)

Following == Known /\ HeldIsWhole /\ Numbers /\ Fit /\ Welcome

LEMMA PastTokens ==
    ASSUME Typed, Chained
    PROVE  Past(None) /\ Past(stored)
<1>1. Births \in Nat /\ Len(changes) \in Nat /\ Births <= Len(changes) /\ stored \in AnyToken
    BY LenProperties DEF Typed, Chained
<1> QED BY <1>1 DEF Past, None, AtMost, Chained, AnyToken

LEMMA PastKept ==
    ASSUME UNCHANGED store
    PROVE  \A token : Past(token) => Past(token)'
BY DEF store, Past, Births

LEMMA ComingTyped ==
    ASSUME Typed
    PROVE  \A event \in Coming : event \in Event /\ event.state.at \in AnyToken
                                 /\ event.revision \in Nat \ {0} /\ event.from \in Nat
<1>1. watch.early \in Seq(Event) /\ outbox \in Seq(Frame)
    BY DEF Typed, WatchRecord
<1>2. \A i \in DOMAIN watch.early : watch.early[i] \in Event
    BY <1>1, LenProperties, ElementOfSeq
<1>3. \A i \in DOMAIN outbox : outbox[i] \in Frame
    BY <1>1, LenProperties, ElementOfSeq
<1>4. \A event \in Coming : event \in Event
    BY <1>2, <1>3 DEF Coming, Frame, IsEvent, ResponseFrame
<1> QED BY <1>4 DEF Event, State

(* A step that leaves the client and the connection as they are.           *)
LEMMA FollowingStays ==
    ASSUME Typed, Following, Typed',
           \A token \in AnyToken : Past(token) => Past(token)',
           Live' => Live /\ UNCHANGED subs /\ Coming' \subseteq Coming,
           Live' => \A revision : Welcomed(revision)' => Welcomed(revision),
           Live' => UNCHANGED watch.revision,
           UNCHANGED <<replica, watch.held>>,
           DeliveredPast'
    PROVE  Following'
<1>1. watch.held \in AnyToken
    BY DEF Typed, WatchRecord
<1>2. Known'
    BY <1>1 DEF Following, Known, Past
<1>3. Numbers'
    BY ComingTyped DEF Following, Numbers
<1>4. Fit'
    BY DEF Following, Fit
<1>5. Welcome'
    BY DEF Following, Welcome
<1> QED BY <1>2, <1>3, <1>4, <1>5 DEF Following, HeldIsWhole

LEMMA FollowingSent ==
    ASSUME Typed, Handshake, Chained, Following, Typed', Chained',
           NEW event \in Event, Sent(event),
           DeliveredPast'
    PROVE  Following'
<1>0. /\ Live /\ Continues(event) /\ DOMAIN subs = {1}
      /\ subs' = [subs EXCEPT ![1] = [revision |-> event.revision,
                                       delivered |-> event.state.at]]
      /\ UNCHANGED <<store, nextId, watch, replica>> /\ UNCHANGED stored
      /\ Coming' \subseteq Coming \cup {event}
      /\ \A revision : Welcomed(revision)' <=> Welcomed(revision)
    BY DEF Sent, Leaves, Handshake, Live, store
<1>1. /\ subs'[1].revision = event.revision /\ subs'[1].delivered = event.state.at
      /\ event.revision = subs[1].revision + 1 /\ subs[1].revision \in Nat \ {0}
      /\ subs[1].delivered \in AnyToken /\ stored \in AnyToken /\ watch.held \in AnyToken
      /\ event.state.at \in AnyToken /\ watch.revision \in Nat
      /\ event.kind = "patch" => event.from = subs[1].revision
    BY <1>0 DEF Continues, Typed, Subscription, WatchRecord, Event, State
<1>2. \A token : Past(token) => Past(token)'
    BY <1>0, PastKept
<1>3. Past(event.state.at)
    <2>1. event.state.at \in {None, stored}
        BY <1>0, <1>1, NoneToken, StateOK, RemovedOK DEF Continues
    <2> QED BY <2>1, PastTokens
<1>4. PICK token \in AnyToken : Past(token) /\ replica = Operations(token)
    BY DEF Following, Known
<1>5. ASSUME NEW earlier \in AnyToken, Past(earlier), event.kind = "snapshot"
      PROVE  Fits(Operations(earlier), event.state)
    <2>1. stored # None /\ event.state = [at |-> stored, from |-> 0, replaces |-> FALSE]
        BY <1>0, <1>5 DEF Continues, AuthoringState, None
    <2> QED BY <1>1, <1>5, <2>1, WholeFits DEF Past
<1>6. ASSUME event.kind = "patch"
      PROVE  Fits(Operations(subs[1].delivered), event.state)
    <2>1. Past(subs[1].delivered)
        BY <1>0 DEF Following, Known, DeliveredPast
    <2>2. \/ event.state = Removed
          \/ stored # None /\ event.state = AuthoringState(subs[1].delivered)
        BY <1>0, <1>6 DEF Continues
    <2> QED BY <1>1, <2>1, <2>2, RemovedFits, NextFits DEF Past
<1>7. Known'
    <2>1. Past(watch.held)' /\ Past(token)'
        BY <1>0, <1>2, <1>4 DEF Following, Known, Past
    <2> QED BY <1>0, <1>4, <2>1 DEF Following, Known
<1>8. Numbers'
    <2>1. \A other \in Coming' :
              /\ other.kind = "patch" => other.from > 0 /\ other.revision = other.from + 1
              /\ other.revision <= subs'[1].revision
              /\ other.revision = subs'[1].revision => other.state.at = subs'[1].delivered
              /\ Past(other.state.at)'
        <3>1. \A other \in Coming :
                  /\ other.kind = "patch" => other.from > 0 /\ other.revision = other.from + 1
                  /\ other.revision <= subs[1].revision /\ other.revision \in Nat
                  /\ Past(other.state.at)
            BY <1>0, ComingTyped DEF Following, Numbers
        <3>2. \A other \in Coming : other.revision < event.revision
            BY <1>1, <3>1
        <3> QED BY <1>0, <1>1, <1>2, <1>3, <3>1, <3>2
    <2>2. watch.revision < subs'[1].revision
        BY <1>0, <1>1 DEF Following, Numbers
    <2> QED BY <1>0, <1>1, <2>1, <2>2 DEF Numbers
<1>9. Fit'
    <2>1. \A other \in Coming : Suits(other, watch.revision, replica)
        BY <1>0 DEF Following, Fit
    <2>2. Suits(event, watch.revision, replica)
        <3>1. CASE event.kind = "snapshot"
            BY <1>4, <1>5, <3>1 DEF Suits
        <3>2. CASE event.kind = "patch" /\ event.from = watch.revision
            BY <1>0, <1>1, <1>6, <3>2 DEF Suits, Following, Numbers
        <3> QED BY <3>1, <3>2 DEF Suits
    <2>3. \A earlier \in Coming : Suits(event, earlier.revision, Operations(earlier.state.at))
        <3> SUFFICES ASSUME NEW earlier \in Coming
                     PROVE  Suits(event, earlier.revision, Operations(earlier.state.at))
            OBVIOUS
        <3>1. /\ Past(earlier.state.at) /\ earlier.state.at \in AnyToken
              /\ earlier.revision = subs[1].revision => earlier.state.at = subs[1].delivered
            BY <1>0, ComingTyped DEF Following, Numbers
        <3>2. CASE event.kind = "snapshot"
            BY <1>5, <3>1, <3>2 DEF Suits
        <3>3. CASE event.kind = "patch" /\ event.from = earlier.revision
            BY <1>1, <1>6, <3>1, <3>3 DEF Suits
        <3> QED BY <3>2, <3>3 DEF Suits
    <2>4. \A other \in Coming' : Suits(other, event.revision, Operations(event.state.at))
        <3> SUFFICES ASSUME NEW other \in Coming'
                     PROVE  /\ ~(other.kind = "snapshot" /\ other.revision > event.revision)
                            /\ ~(other.kind = "patch" /\ other.from = event.revision)
            BY DEF Suits
        <3>1. /\ other.kind = "patch" => other.revision = other.from + 1
              /\ other.revision <= subs'[1].revision
              /\ other.revision \in Nat /\ other.from \in Nat
            <4>1. other \in Coming \/ other = event
                BY <1>0
            <4>2. other.revision \in Nat /\ other.from \in Nat
                BY <4>1, ComingTyped DEF Event
            <4>3. Live'
                BY DEF Sent
            <4> QED BY <1>8, <4>2, <4>3 DEF Numbers
        <3> QED BY <1>1, <3>1
    <2>5. \A other \in Coming : \A earlier \in Coming :
              Suits(other, earlier.revision, Operations(earlier.state.at))
        BY <1>0 DEF Following, Fit
    <2> QED BY <1>0, <2>1, <2>2, <2>3, <2>4, <2>5 DEF Fit
<1>10. Welcome'
    <2> SUFFICES ASSUME NEW revision, Welcomed(revision)
                 PROVE  /\ watch.held # None /\ revision <= subs'[1].revision
                        /\ revision # subs'[1].revision
                        /\ \A other \in Coming' :
                              other.kind = "patch" /\ other.from = revision =>
                                  Fits(replica, other.state)
        BY <1>0 DEF Welcome
    <2>1. /\ watch.held # None /\ revision <= subs[1].revision
          /\ revision = subs[1].revision => subs[1].delivered = watch.held
          /\ \A other \in Coming :
                other.kind = "patch" /\ other.from = revision => Fits(replica, other.state)
        BY <1>0 DEF Following, Welcome
    <2>2. revision \in Nat
        <3>0. outbox \in Seq(Frame)
            BY DEF Typed
        <3>1. \A i \in DOMAIN outbox : outbox[i] \in Frame
            BY <3>0, LenProperties, ElementOfSeq
        <3> QED BY <3>1 DEF Welcomed, Typed, WatchRecord, Acceptance, Replies, IsReply, Frame,
                            Event, ResponseFrame
    <2>3. event.kind = "patch" /\ event.from = revision => Fits(replica, event.state)
        BY <1>1, <1>6, <2>1 DEF Following, HeldIsWhole
    <2> QED BY <1>0, <1>1, <2>1, <2>2, <2>3
<1> QED BY <1>0, <1>7, <1>8, <1>9, <1>10 DEF Following, HeldIsWhole

LEMMA FollowingTaken ==
    ASSUME Typed, Handshake, Chained, Following, Typed', Chained',
           NEW event \in Event, Taken(event), DeliveredPast'
    PROVE  Following'
<1>0. /\ Live /\ Live' /\ event \in Coming /\ Coming' \subseteq Coming
      /\ UNCHANGED <<store, subs>> /\ UNCHANGED stored
      /\ \A revision : ~Welcomed(revision)'
    BY DEF Taken, store
<1>1. /\ event.state.at \in AnyToken /\ event.revision \in Nat \ {0} /\ event.from \in Nat
      /\ event.kind \in {"snapshot", "patch"} /\ watch.revision \in Nat
      /\ subs[1].revision \in Nat \ {0} /\ watch.held \in AnyToken
    <2>1. DOMAIN subs = {1}
        BY <1>0 DEF Handshake, Live
    <2> QED BY <2>1 DEF Event, State, Typed, WatchRecord, Subscription
<1>2. \A token : Past(token) => Past(token)'
    BY <1>0, PastKept
<1>3. /\ event.kind = "patch" => event.from > 0 /\ event.revision = event.from + 1
      /\ event.revision <= subs[1].revision
      /\ event.revision = subs[1].revision => event.state.at = subs[1].delivered
      /\ Past(event.state.at)
      /\ Suits(event, watch.revision, replica)
    BY <1>0 DEF Following, Numbers, Fit
<1>4. PICK token \in AnyToken : Past(token) /\ replica = Operations(token)
    BY DEF Following, Known
<1>5. CASE /\ watch.revision # 0 /\ event.revision <= watch.revision
           /\ UNCHANGED <<watch.held, watch.revision, replica, inbox>>
    BY <1>0, <1>2, <1>5, FollowingStays
<1>6. CASE /\ watch.revision = 0 \/ event.revision > watch.revision
           /\ event.kind = "snapshot" \/ watch.revision = event.from
           /\ watch'.revision = event.revision /\ watch'.held = event.state.at
           /\ replica' = Imported(event.state)
    <2>1. event.revision > watch.revision
        BY <1>1, <1>6
    <2>2. replica' = Operations(event.state.at)
        BY <1>1, <1>3, <1>6, <2>1, FitsImported DEF Suits
    <2>3. PICK at \in AnyToken : at = event.state.at
        BY <1>1
    <2>4. Past(at)' /\ watch'.held = at /\ replica' = Operations(at)
        BY <1>2, <1>3, <1>6, <2>2, <2>3
    <2>5. Known'
        BY <2>4 DEF Known, Past
    <2>6. HeldIsWhole'
        BY <2>4 DEF HeldIsWhole, Operations
    <2>7. Numbers'
        <3>1. \A other \in Coming' :
                  /\ other.kind = "patch" => other.from > 0 /\ other.revision = other.from + 1
                  /\ other.revision <= subs[1].revision
                  /\ other.revision = subs[1].revision => other.state.at = subs[1].delivered
                  /\ Past(other.state.at)'
            <4>1. \A other \in Coming : Past(other.state.at)
                BY <1>0 DEF Following, Numbers
            <4>2. \A other \in Coming : Past(other.state.at)'
                BY <1>2, <4>1
            <4> QED BY <1>0, <4>2 DEF Following, Numbers
        <3> QED BY <1>0, <1>3, <1>6, <2>3, <2>4, <3>1 DEF Numbers, Operations
    <2>8. Fit'
        BY <1>0, <1>6, <2>2 DEF Following, Fit
    <2> QED BY <1>0, <2>5, <2>6, <2>7, <2>8 DEF Following, Welcome
<1>7. CASE /\ watch.revision = 0 \/ event.revision > watch.revision
           /\ event.kind = "patch" /\ watch.revision # event.from
           /\ watch'.revision = watch.revision /\ watch'.held = None /\ UNCHANGED replica
    <2>1. watch.revision # subs[1].revision
        BY <1>1, <1>3, <1>7
    <2>2. Past(None)' /\ Past(token)'
        BY <1>2, <1>4, PastTokens
    <2>3. Known'
        BY <1>4, <1>7, <2>2 DEF Known, Past, None
    <2>4. Numbers'
        <3>1. \A other \in Coming : Past(other.state.at)
            BY <1>0 DEF Following, Numbers
        <3>2. \A other \in Coming : Past(other.state.at)'
            BY <1>2, <3>1
        <3> QED BY <1>0, <1>7, <2>1, <3>2 DEF Following, Numbers
    <2>5. Fit'
        BY <1>0, <1>7 DEF Following, Fit
    <2> QED BY <1>0, <1>7, <2>3, <2>4, <2>5 DEF Following, Welcome, HeldIsWhole
<1> QED BY <1>5, <1>6, <1>7 DEF Taken

LEMMA FollowingGranted ==
    ASSUME Typed, Handshake, Chained, Following, Typed', Chained', Granted, DeliveredPast'
    PROVE  Following'
<1>0. /\ stored # None /\ subs'[1] = [revision |-> 1, delivered |-> stored]
      /\ watch.revision = 0 /\ UNCHANGED <<store, watch, replica>> /\ UNCHANGED stored
      /\ stored \in AnyToken /\ watch.held \in AnyToken
    BY DEF Granted, store, Typed, WatchRecord
<1>1. \A token : Past(token) => Past(token)'
    BY <1>0, PastKept
<1>2. PICK token \in AnyToken : Past(token) /\ replica = Operations(token)
    BY DEF Following, Known
<1>3. Known'
    <2>1. Past(watch.held)' /\ Past(token)'
        BY <1>0, <1>1, <1>2 DEF Following, Known, Past
    <2> QED BY <1>0, <1>2, <2>1 DEF Known
<1>4. CASE /\ Coming' = {} /\ watch.held = stored
           /\ \A revision : Welcomed(revision)' <=> revision = 1
    BY <1>0, <1>3, <1>4 DEF Following, HeldIsWhole, Numbers, Fit, Welcome
<1>5. ASSUME NEW event \in Event, event.kind = "snapshot", event.revision = 1,
             event.state = AuthoringState(watch.held), Coming' \subseteq {event},
             \A revision : ~Welcomed(revision)'
      PROVE  Following'
    <2>1. event.state.at = stored
        BY <1>0, <1>5, StateOK
    <2>2. Past(event.state.at)'
        <3>1. Past(stored)'
            BY <1>1, <1>0, PastTokens DEF Past
        <3> QED BY <1>0, <2>1, <3>1 DEF Past
    <2>3. Fits(replica, event.state)
        <3>1. CASE watch.held = None
            <4>1. event.state = [at |-> stored, from |-> 0, replaces |-> FALSE]
                BY <1>5, <3>1 DEF AuthoringState, None
            <4> QED BY <1>0, <1>2, <4>1, WholeFits DEF Past
        <3>2. CASE watch.held # None
            BY <1>0, <1>5, <3>2, NextFits DEF Following, Known, HeldIsWhole, Past
        <3> QED BY <3>1, <3>2
    <2>4. Numbers'
        BY <1>0, <1>5, <2>1, <2>2 DEF Numbers
    <2>5. Fit'
        BY <1>0, <1>5, <2>3 DEF Fit, Suits
    <2> QED BY <1>0, <1>3, <1>5, <2>4, <2>5 DEF Following, HeldIsWhole, Welcome
<1> QED BY <1>4, <1>5 DEF Granted

LEMMA FollowingJoined ==
    ASSUME Typed, Handshake, Chained, Following, Typed', Chained', Joined, DeliveredPast'
    PROVE  Following'
<1>0. /\ Live /\ Live' /\ UNCHANGED <<store, subs, replica, watch.held>>
      /\ Coming' = Coming /\ watch.revision = 0 /\ \A revision : ~Welcomed(revision)'
      /\ subs[1].revision \in Nat \ {0}
    <2>1. DOMAIN subs = {1}
        BY DEF Handshake, Live, Joined
    <2> QED BY <2>1 DEF Joined, Typed, Subscription
<1>1. \A token : Past(token) => Past(token)'
    BY <1>0, PastKept
<1>2. CASE watch'.revision = 0
    BY <1>0, <1>1, <1>2, FollowingStays
<1>3. CASE /\ watch.held # None /\ watch'.revision > 0
           /\ \A revision : Welcomed(revision) <=> revision = watch'.revision
    <2>1. PICK revision : revision = watch'.revision
        OBVIOUS
    <2>2. /\ Welcomed(revision) /\ revision <= subs[1].revision
          /\ revision = subs[1].revision => subs[1].delivered = watch.held
          /\ \A event \in Coming :
                event.kind = "patch" /\ event.from = revision => Fits(replica, event.state)
        BY <1>0, <1>3, <2>1 DEF Following, Welcome
    <2>3. replica = Operations(watch.held)
        BY <1>3 DEF Following, HeldIsWhole
    <2>4. Known'
        <3>1. Past(watch.held)'
            BY <1>0, <1>1 DEF Following, Known, Past
        <3>2. PICK token \in AnyToken : token = watch.held
            BY DEF Typed, WatchRecord
        <3>3. Past(token)' /\ replica' = Operations(token)
            BY <1>0, <2>3, <3>1, <3>2 DEF Past, Operations
        <3> QED BY <3>1, <3>3 DEF Known
    <2>5. Numbers'
        <3>1. \A event \in Coming : Past(event.state.at)
            BY <1>0 DEF Following, Numbers
        <3>2. \A event \in Coming : Past(event.state.at)'
            BY <1>1, <3>1
        <3> QED BY <1>0, <2>1, <2>2, <2>3, <3>2 DEF Following, Numbers, Operations
    <2>6. Fit'
        <3>1. \A event \in Coming : Suits(event, revision, replica)
            <4> SUFFICES ASSUME NEW event \in Coming, event.kind = "snapshot"
                         PROVE  Fits(replica, event.state)
                BY <2>2 DEF Suits
            <4>1. event.revision > watch.revision
                BY <1>0, ComingTyped
            <4> QED BY <1>0, <4>1 DEF Following, Fit, Suits
        <3> QED BY <1>0, <2>1, <3>1 DEF Following, Fit
    <2> QED BY <1>0, <2>4, <2>5, <2>6 DEF Following, HeldIsWhole, Welcome
<1> QED BY <1>2, <1>3 DEF Joined

LEMMA PastOnward ==
    ASSUME Typed, Handshake, Chained, Next
    PROVE  \A token \in AnyToken : Past(token) => Past(token)'
<1>1. CASE StoreNext
    BY <1>1, StoreSteps
<1>2. CASE AnnounceNext
    <2>1. UNCHANGED <<stored, changes>>
        BY <1>2, AnnounceSteps DEF AnnounceNext
    <2> QED BY <2>1 DEF Past, Births
<1>3. CASE UNCHANGED store
    BY <1>3, PastKept
<1> QED BY <1>1, <1>2, <1>3, Steps

LEMMA DeliveredOnward ==
    ASSUME Typed, Handshake, Chained, DeliveredPast, Next
    PROVE  DeliveredPast'
<1>1. \A token \in AnyToken : Past(token) => Past(token)'
    BY PastOnward
<1>3. CASE UNCHANGED store
    <2> SUFFICES ASSUME NEW s \in DOMAIN subs'
                 PROVE  Past(subs[s].delivered)'
        BY DEF DeliveredPast
    <2>1. PICK delivered : delivered = subs'[s].delivered
        OBVIOUS
    <2>2. Past(delivered)'
        <3>1. CASE delivered \in {stored, None}
            <4>1. Past(stored) /\ Past(None) /\ stored \in AnyToken
                BY PastTokens DEF Typed
            <4> QED BY <1>1, <3>1, <4>1, NoneToken
        <3>2. CASE s \in DOMAIN subs /\ delivered = subs[s].delivered
            <4>1. Past(delivered) /\ delivered \in AnyToken
                BY <3>2 DEF DeliveredPast, Typed, Subscription
            <4> QED BY <1>1, <4>1
        <3> QED BY <2>1, <3>1, <3>2, DeliveredSteps
    <2> QED BY <2>1, <2>2 DEF Past
<1>4. CASE StoreNext \/ AnnounceNext
    <2>1. UNCHANGED subs
        BY <1>4, StoreSteps
           DEF AnnounceNext, Announce, connection
    <2>2. \A s \in DOMAIN subs : Past(subs[s].delivered) /\ subs[s].delivered \in AnyToken
        BY DEF DeliveredPast, Typed, Subscription
    <2> QED BY <1>1, <2>1, <2>2 DEF DeliveredPast, Past
<1> QED BY <1>3, <1>4, Steps

LEMMA FollowingNext ==
    ASSUME Typed, Handshake, Chained, Following, Next
    PROVE  Following'
<1>1. Typed' /\ Handshake' /\ Chained'
    BY Steps
<1>2. DeliveredPast'
    BY DeliveredOnward DEF Following, Known
<1>3. \A token \in AnyToken : Past(token) => Past(token)'
    BY PastOnward
<1>4. CASE StoreNext \/ AnnounceNext
    <2>1. UNCHANGED <<connection, client>>
        BY <1>4, StoreSteps DEF AnnounceNext, Announce
    <2>2. UNCHANGED <<next, subs, nextId, inbox, outbox, unsent, watch, replica>>
        BY <2>1 DEF connection, client
    <2>3. Coming' = Coming /\ Replies' = Replies /\ Live' = Live
        BY <2>2 DEF Coming, Replies, Live
    <2>4. \A revision : Welcomed(revision)' => Welcomed(revision)
        BY <2>2, <2>3 DEF Welcomed
    <2> QED BY <1>1, <1>2, <1>3, <2>2, <2>3, <2>4, FollowingStays
<1>5. CASE Away
    BY <1>1, <1>2, <1>3, <1>5, FollowingStays DEF Away
<1>6. CASE Aside
    BY <1>1, <1>2, <1>3, <1>6, FollowingStays DEF Aside
<1>7. CASE Granted
    BY <1>1, <1>2, <1>7, FollowingGranted
<1>8. CASE Joined
    BY <1>1, <1>2, <1>8, FollowingJoined
<1>9. CASE \E event \in Event : Told(event)
    BY <1>1, <1>2, <1>9, FollowingSent, FollowingTaken DEF Told
<1> QED BY <1>4, <1>5, <1>6, <1>7, <1>8, <1>9, Steps

-----------------------------------------------------------------------------
(* What the client is told of the last state the subscription was          *)
(* delivered.                                                              *)

(* It has it, is about to be given it, was not sent it, or lost its place  *)
(* and is sent the whole state, now or at the next change.                 *)
Informed ==
    Live =>
        \/ \E event \in Coming : event.revision = subs[1].revision
        \/ watch.revision = subs[1].revision
        \/ Welcomed(subs[1].revision)
        \/ unsent.last
        \/ /\ watch.held = None /\ Coming = {}
           /\ Healing \/ Behind(subs[1].delivered)

(* The changes the connection has not taken, announced or not.             *)
Untaken == racing \cup {publications[i] : i \in next..Len(publications)}

(* A subscription that is behind the store has a change to take that will  *)
(* bring it there, but for a deletion announced after its re-creation or   *)
(* an update that was not sent.                                            *)
Due ==
    Live /\ ~unsent.last =>
        /\ stored # None /\ subs[1].delivered # stored =>
              \/ \E n \in Untaken : changes[n].kind # "deleted"
              \/ next > 1 /\ changes[publications[next - 1]].kind = "deleted"
        /\ stored = None =>
              \/ subs[1].delivered = None
              \/ \E n \in Untaken : changes[n].kind = "deleted"

Heard == NewestLast /\ Healed /\ Informed /\ Due

(* What the store and its threads do leaves the watch as it is.            *)
LEMMA Elsewhere ==
    ASSUME UNCHANGED <<connection, client>>
    PROVE  /\ UNCHANGED <<next, subs, nextId, inbox, outbox, unsent, watch, replica>>
           /\ Coming' = Coming /\ Replies' = Replies /\ Live' = Live /\ Healing' = Healing
           /\ HealReplies' = HealReplies
           /\ \A revision : Welcomed(revision)' <=> Welcomed(revision)
           /\ \A revision : HealedAt(revision)' <=> HealedAt(revision)
           /\ NewestLast' <=> NewestLast
<1>1. UNCHANGED <<next, subs, nextId, inbox, outbox, unsent, watch, replica>>
    BY DEF connection, client
<1>2. /\ Coming' = Coming /\ Replies' = Replies /\ Live' = Live /\ Healing' = Healing
      /\ HealReplies' = HealReplies
    BY <1>1 DEF Coming, Replies, Live, Healing, HealReplies
<1>3. \A revision : Welcomed(revision)' <=> Welcomed(revision)
    BY <1>1, <1>2 DEF Welcomed
<1>4. \A revision : HealedAt(revision)' <=> HealedAt(revision)
    BY <1>1, <1>2 DEF HealedAt
<1>5. NewestLast' <=> NewestLast
    BY <1>1, <1>2 DEF NewestLast
<1> QED BY <1>1, <1>2, <1>3, <1>4, <1>5

LEMMA NewestNext ==
    ASSUME Typed, Handshake, Chained, Following, NewestLast, Next
    PROVE  NewestLast'
<1>1. CASE StoreNext \/ AnnounceNext
    <2>1. UNCHANGED <<connection, client>>
        BY <1>1, StoreSteps DEF AnnounceNext, Announce
    <2> QED BY <2>1, Elsewhere
<1>2. CASE Away
    BY <1>2 DEF Away, NewestLast
<1>3. CASE Aside \/ Granted \/ Joined
    BY <1>3 DEF Aside, Granted, Joined
<1>4. ASSUME NEW event \in Event, Taken(event) PROVE NewestLast'
    BY <1>4 DEF Taken
<1>5. ASSUME NEW event \in Event, Sent(event) PROVE NewestLast'
    <2>1. /\ Live /\ Live' /\ UNCHANGED watch /\ outbox' \in Seq(Frame)
          /\ event.revision = subs[1].revision + 1
          /\ subs' = [subs EXCEPT ![1] = [revision |-> event.revision,
                                           delivered |-> event.state.at]]
        BY <1>5 DEF Sent, Continues, Leaves
    <2>2. 1 \in DOMAIN subs /\ subs[1].revision \in Nat
        BY <2>1 DEF Live, Handshake, Typed, Subscription
    <2>3. subs'[1].revision = event.revision
        BY <2>1, <2>2
    <2>4. \A other \in Coming : other.revision # event.revision
        <3>1. \A other \in Coming : other.revision \in Nat /\ other.revision <= subs[1].revision
            BY <2>1, ComingTyped DEF Following, Numbers
        <3> QED BY <2>1, <2>2, <3>1
    <2>5. PICK k \in Nat : \A i \in DOMAIN outbox' :
              IsEvent(outbox'[i]) =>
                  \/ i = k /\ outbox'[i] = event
                  \/ i < k /\ i \in DOMAIN outbox /\ outbox'[i] = outbox[i]
        BY <1>5 DEF Sent, Leaves
    <2>6. \A i \in DOMAIN outbox' :
              IsEvent(outbox'[i]) /\ outbox'[i].revision = event.revision => i = k
        BY <2>4, <2>5 DEF Coming
    <2>7. \A i, j \in DOMAIN outbox' :
              /\ IsEvent(outbox'[i]) /\ IsEvent(outbox'[j])
              /\ outbox'[i].revision = event.revision
              => j <= i
        <3>1. \A j \in DOMAIN outbox' : j \in Nat /\ (IsEvent(outbox'[j]) => j <= k)
            BY <2>1, <2>5, LenProperties
        <3> QED BY <2>6, <3>1
    <2>8. \A i \in DOMAIN watch.early : watch.early[i].revision # event.revision
        BY <2>4 DEF Coming
    <2> QED BY <2>1, <2>3, <2>7, <2>8 DEF NewestLast
<1> QED BY <1>1, <1>2, <1>3, <1>4, <1>5, Steps DEF Told

LEMMA HealedNext ==
    ASSUME Typed, Handshake, Chained, Following, Healed, Next
    PROVE  Healed'
<1>1. CASE StoreNext
    <2>1. UNCHANGED <<connection, client>>
        BY <1>1, StoreSteps
    <2>2. ASSUME Live PROVE Behind(subs[1].delivered)'
        <3>1. Past(subs[1].delivered) /\ subs[1].delivered \in AnyToken
            BY <2>2 DEF Live, Handshake, Following, Known, DeliveredPast, Typed, Subscription
        <3> QED BY <1>1, <2>1, <3>1, StoreSteps, Elsewhere DEF Behind
    <2> QED BY <2>1, <2>2, Elsewhere DEF Healed
<1>2. CASE AnnounceNext
    <2>1. UNCHANGED <<connection, client, stored>>
        BY <1>2 DEF AnnounceNext, Announce
    <2>2. UNCHANGED subs
        BY <2>1, Elsewhere
    <2>3. HealedAt(subs[1].revision)' <=> HealedAt(subs[1].revision)
        BY <2>1, <2>2, Elsewhere DEF HealedAt
    <2> QED BY <2>1, <2>2, <2>3, Elsewhere DEF Healed, Behind
<1>3. CASE Away
    BY <1>3 DEF Away, Healed
<1>4. CASE Aside
    BY <1>4 DEF Aside
<1>5. CASE Granted \/ Joined
    BY <1>5 DEF Granted, Joined, Healed
<1>6. ASSUME NEW event \in Event, Taken(event) PROVE Healed'
    BY <1>6 DEF Taken
<1>7. ASSUME NEW event \in Event, Sent(event) PROVE Healed'
    <2>1. /\ Live /\ UNCHANGED watch /\ subs'[1].revision = event.revision
          /\ HealReplies # {} \/ (Healing /\ ~Healing') => HealedAt(event.revision)'
        BY <1>7 DEF Sent, Live, Handshake
    <2>2. HealedAt(event.revision)' => HealReplies' # {} /\ HealedAt(subs[1].revision)'
        BY <2>1 DEF HealedAt
    <2> QED BY <2>1, <2>2 DEF Healed
<1> QED BY <1>1, <1>2, <1>3, <1>4, <1>5, <1>6, <1>7, Steps DEF Told

LEMMA InformedNext ==
    ASSUME Typed, Handshake, Chained, Following, Heard, Next
    PROVE  Informed'
<1>0. Informed /\ Healed /\ NewestLast
    BY DEF Heard
<1>1. CASE StoreNext
    <2>1. UNCHANGED <<connection, client>>
        BY <1>1, StoreSteps
    <2>2. UNCHANGED <<subs, watch, unsent>>
        BY <2>1, Elsewhere
    <2>3. ASSUME Live PROVE Behind(subs[1].delivered)'
        <3>1. Past(subs[1].delivered) /\ subs[1].delivered \in AnyToken
            BY <2>3 DEF Live, Handshake, Following, Known, DeliveredPast, Typed, Subscription
        <3> QED BY <1>1, <2>2, <3>1, StoreSteps DEF Behind
    <2>4. Welcomed(subs[1].revision) => Welcomed(subs[1].revision)'
        BY <2>1, <2>2, Elsewhere DEF Welcomed
    <2> QED BY <1>0, <2>1, <2>2, <2>3, <2>4, Elsewhere DEF Informed
<1>2. CASE AnnounceNext
    <2>1. UNCHANGED <<connection, client, stored>>
        BY <1>2 DEF AnnounceNext, Announce
    <2>2. UNCHANGED <<subs, watch, unsent>>
        BY <2>1, Elsewhere
    <2>3. Welcomed(subs[1].revision) => Welcomed(subs[1].revision)'
        BY <2>1, <2>2, Elsewhere DEF Welcomed
    <2> QED BY <1>0, <2>1, <2>2, <2>3, Elsewhere DEF Informed, Behind
<1>3. CASE Away
    BY <1>3 DEF Away, Informed
<1>4. CASE Aside
    <2>1. /\ Live /\ UNCHANGED <<subs, watch.held, watch.revision, stored>> /\ Coming' = Coming
          /\ unsent.last => unsent'.last
          /\ Healing => Healing' \/ stored = None \/ unsent'.last
          /\ \A revision : Welcomed(revision)' <=> Welcomed(revision)
        BY <1>4 DEF Aside, store
    <2>2. Welcomed(subs[1].revision) => Welcomed(subs[1].revision)'
        BY <2>1 DEF Welcomed
    <2> QED BY <1>0, <2>1, <2>2 DEF Informed, Behind
<1>5. CASE Granted
    <2>1. /\ subs'[1].revision = 1
          /\ \/ \A revision : Welcomed(revision)' <=> revision = 1
             \/ \E event \in Event : event.revision = 1 /\ Coming' = {event}
             \/ unsent'.last
        BY <1>5 DEF Granted
    <2>2. (\A revision : Welcomed(revision)' <=> revision = 1) => Welcomed(subs[1].revision)'
        BY <2>1 DEF Welcomed
    <2> QED BY <2>1, <2>2 DEF Informed
<1>6. CASE Joined
    <2>1. /\ Live /\ UNCHANGED <<stored, subs, unsent, watch.held>>
          /\ Coming' = Coming /\ watch.revision = 0 /\ (Healing => Healing')
          /\ \/ watch.held = None \/ \A revision : ~Welcomed(revision)
             \/ \A revision : Welcomed(revision) <=> revision = watch'.revision
        BY <1>6 DEF Joined, store
    <2>2. subs[1].revision # 0
        BY <2>1 DEF Live, Handshake, Typed, Subscription
    <2>3. Welcomed(subs[1].revision) => watch'.revision = subs[1].revision
        BY <2>1 DEF Following, Welcome
    <2> QED BY <1>0, <2>1, <2>2, <2>3 DEF Informed, Behind
<1>7. ASSUME NEW event \in Event, Sent(event) PROVE Informed'
    <2>1. /\ subs'[1].revision = event.revision
          /\ event \in Coming' \/ unsent'.last
        BY <1>7 DEF Sent, Leaves, Live, Handshake
    <2> QED BY <2>1 DEF Informed
<1>8. ASSUME NEW event \in Event, Taken(event) PROVE Informed'
    <2>1. /\ Live /\ event \in Coming /\ Coming \subseteq Coming' \cup {event}
          /\ UNCHANGED <<stored, subs, unsent>>
          /\ \A revision : ~Welcomed(revision)
          /\ event.revision = subs[1].revision => Coming' = {}
        BY <1>0, <1>8 DEF Taken, store
    <2>2. /\ event.revision \in Nat \ {0} /\ watch.revision \in Nat /\ subs[1].revision \in Nat
          /\ event.revision <= subs[1].revision /\ watch.revision <= subs[1].revision
        BY <2>1, ComingTyped
           DEF Following, Numbers, Live, Handshake, Typed, Subscription, WatchRecord
    <2>3. CASE /\ watch.revision # 0 /\ event.revision <= watch.revision
               /\ UNCHANGED <<watch.held, watch.revision, replica, inbox>>
        <3>1. event.revision = subs[1].revision => watch.revision = subs[1].revision
            BY <2>2, <2>3
        <3> QED BY <1>0, <2>1, <2>3, <3>1 DEF Informed
    <2>4. CASE /\ watch.revision = 0 \/ event.revision > watch.revision
               /\ watch'.revision = event.revision
        <3>1. watch.revision # subs[1].revision
            BY <2>2, <2>4
        <3> QED BY <1>0, <2>1, <2>4, <3>1 DEF Informed
    <2>5. CASE /\ watch.revision = 0 \/ event.revision > watch.revision
               /\ watch'.revision = watch.revision /\ watch'.held = None
               /\ \/ Healing' \/ unsent.last \/ Behind(subs[1].delivered)
                  \/ \E other \in Coming' : other.revision = subs[1].revision
        <3>1. watch.revision # subs[1].revision
            BY <2>2, <2>5
        <3>2. Behind(subs[1].delivered) => Behind(subs[1].delivered)'
            BY <2>1 DEF Behind
        <3> QED BY <1>0, <2>1, <2>5, <3>1, <3>2 DEF Informed
    <2> QED BY <1>0, <1>8, <2>3, <2>4, <2>5 DEF Taken
<1> QED BY <1>1, <1>2, <1>3, <1>4, <1>5, <1>6, <1>7, <1>8, Steps DEF Told

(* The step leaves the subscription what it was delivered, delivers it     *)
(* what is stored, or fails to.                                            *)
LEMMA DueStays ==
    ASSUME Due, Live' => Live, UNCHANGED <<store, next>>,
           Live' => \/ stored # None /\ subs'[1].delivered = stored
                    \/ unsent'.last
                    \/ UNCHANGED <<subs, unsent>>
    PROVE  Due'
<1>1. UNCHANGED <<stored, changes, racing, publications>> /\ Untaken' = Untaken
    BY DEF store, Untaken
<1> QED BY <1>1 DEF Due

LEMMA DueStore ==
    ASSUME Typed, Chained, Due, StoreNext
    PROVE  Due'
<1>1. /\ UNCHANGED <<publications, connection, client>>
      /\ Len(changes) \in Nat /\ racing' = racing \cup {Len(changes) + 1}
      /\ DOMAIN changes' = DOMAIN changes \cup {Len(changes) + 1}
      /\ stored' = None <=> changes'[Len(changes) + 1].kind = "deleted"
    BY StoreSteps
<1>2. Len(changes) + 1 \in Untaken'
    BY <1>1 DEF Untaken
<1>3. stored' # None => \E n \in Untaken' : changes'[n].kind # "deleted"
    BY <1>1, <1>2
<1>4. stored' = None => \E n \in Untaken' : changes'[n].kind = "deleted"
    BY <1>1, <1>2
<1> QED BY <1>3, <1>4 DEF Due

LEMMA DueAnnounced ==
    ASSUME Typed, Chained, Due, NEW n \in racing, Announce(n)
    PROVE  Due'
<1>1. /\ UNCHANGED <<stored, changes, connection, client>>
      /\ Len(publications) \in Nat /\ Len(publications') = Len(publications) + 1
      /\ \A i \in 1..Len(publications) : publications'[i] = publications[i]
      /\ publications'[Len(publications) + 1] = n /\ racing' = racing \ {n}
      /\ next \in 1..Len(publications) + 1
    BY AnnounceSteps DEF Typed
<1>2. UNCHANGED <<next, subs, unsent>> /\ Live' = Live
    BY <1>1, Elsewhere
<1>3. \A i \in next..Len(publications) :
          i \in next..Len(publications') /\ publications'[i] = publications[i]
    BY <1>1
<1>4. Len(publications) + 1 \in next..Len(publications')
    BY <1>1
<1>5. Untaken \subseteq Untaken'
    <2>1. \A m \in racing : m \in racing' \/ m = publications'[Len(publications) + 1]
        BY <1>1
    <2> QED BY <1>2, <1>3, <1>4, <2>1 DEF Untaken
<1>6. next > 1 => publications'[next - 1] = publications[next - 1]
    BY <1>1
<1> QED BY <1>1, <1>2, <1>5, <1>6 DEF Due

LEMMA DueTaken ==
    ASSUME Typed, Handshake, Due, TakeChange
    PROVE  Due'
<1>1. /\ next <= Len(publications) /\ next' = next + 1
      /\ UNCHANGED <<stored, changes, racing, publications, nextId, watch>>
    BY DEF TakeChange, store, client
<1>2. next \in Nat \ {0} /\ Len(publications) \in Nat
    BY LenProperties DEF Typed
<1>3. Live' = Live
    BY <1>1 DEF Live
<1>4. ASSUME Live
      PROVE  IF changes[publications[next]].kind = "deleted"
             THEN subs'[1].delivered = None \/ unsent'.last
             ELSE IF stored # None THEN subs'[1].delivered = stored \/ unsent'.last
             ELSE UNCHANGED <<subs, unsent>>
    BY <1>4, TakeChangeSteps
<1>5. Untaken \subseteq Untaken' \cup {publications[next]}
    <2>1. \A i \in next..Len(publications) : i = next \/ i \in next + 1..Len(publications)
        BY <1>2
    <2> QED BY <1>1, <2>1 DEF Untaken
<1>6. CASE changes[publications[next]].kind = "deleted"
    <2>1. next' > 1 /\ publications'[next' - 1] = publications[next]
        BY <1>1, <1>2
    <2> QED BY <1>1, <1>3, <1>4, <1>6, <2>1 DEF Due
<1>7. CASE changes[publications[next]].kind # "deleted"
    <2>1. CASE stored # None
        BY <1>1, <1>3, <1>4, <1>7, <2>1 DEF Due
    <2>2. CASE stored = None
        BY <1>1, <1>3, <1>4, <1>5, <1>7, <2>2 DEF Due
    <2> QED BY <2>1, <2>2
<1> QED BY <1>6, <1>7

LEMMA DueNext ==
    ASSUME Typed, Handshake, Chained, Due, Next
    PROVE  Due'
<1>1. CASE StoreNext
    BY <1>1, DueStore
<1>2. CASE AnnounceNext
    BY <1>2, DueAnnounced DEF AnnounceNext
<1>3. CASE ServeSubscribe
    <2>1. Live' => stored # None /\ subs'[1].delivered = stored /\ UNCHANGED store
        BY <1>3, ServeSubscribeSteps DEF Granted
    <2> QED BY <2>1 DEF Due, store
<1>4. CASE ServeResync
    <2>1. UNCHANGED <<next, store>> /\ Live' = Live
        BY <1>4 DEF ServeResync, Live, client
    <2> QED BY <1>4, <2>1, ServeResyncSteps, DueStays
<1>5. CASE ServeUnsubscribe
    BY <1>5, ServeUnsubscribeSteps DEF Due
<1>6. CASE TakeChange
    BY <1>6, DueTaken
<1>7. CASE Lag
    <2>1. UNCHANGED store /\ Live' = Live
        BY <1>7 DEF Lag, Live, client
    <2>2. Live => unsent'.last \/ (stored # None /\ subs'[1].delivered = stored)
        BY <1>7, LagSteps
    <2> QED BY <2>1, <2>2 DEF Due, store
<1>8. CASE TakeEvent \/ TakeEarly \/ TakeResponse \/ AskResync \/ RequestResync
    <2>1. UNCHANGED <<store, next, subs, unsent>>
        BY <1>8, TakeEventSteps, TakeEarlySteps, TakeResponseSteps, AskResyncSteps,
           RequestResyncSteps
    <2>2. Live' => Live
        BY <1>8, TakeEventSteps, TakeEarlySteps, TakeResponseSteps, AskResyncSteps,
           RequestResyncSteps
           DEF Away, Aside, Taken
    <2> QED BY <2>1, <2>2, DueStays
<1>9. CASE Resume
    <2>1. UNCHANGED <<store, connection>> /\ Live
        BY <1>9, ResumeSteps DEF Joined
    <2> QED BY <2>1, DueStays DEF connection
<1>10. CASE ResumeDisposed \/ Connect \/ Disconnect \/ Dispose
    <2>1. ~Live'
        BY <1>10, ResumeDisposedSteps, ConnectSteps, DisconnectSteps, DisposeSteps DEF Away
    <2> QED BY <2>1 DEF Due
<1> QED BY <1>1, <1>2, <1>3, <1>4, <1>5, <1>6, <1>7, <1>8, <1>9, <1>10
        DEF Next, ServerNext, WatchNext, ClientNext

LEMMA HeardNext ==
    ASSUME Typed, Handshake, Chained, Following, Heard, Next
    PROVE  Heard'
BY NewestNext, HealedNext, InformedNext, DueNext DEF Heard

(* A client that was told everything has what is stored.                   *)
LEMMA HeardAll ==
    ASSUME Typed, Handshake, Following, Heard
    PROVE  CaughtUp
<1> SUFFICES ASSUME Quiet, ~unsent.last, ~Overtaken
             PROVE  watch.held = stored
    BY DEF CaughtUp
<1> DEFINE delivered == subs[1].delivered
<1>1. /\ watch.up /\ watch.id # 0 /\ racing = {} /\ next > Len(publications)
      /\ inbox = <<>> /\ outbox = <<>> /\ watch.early = <<>> /\ watch.accepted = NotAccepted
    BY DEF Quiet
<1>2. Live
    <2>1. nextId = 2 /\ ~watch.disposed
        BY <1>1 DEF Handshake, Typed
    <2> QED BY <1>1, <2>1 DEF Live
<1>3. Coming = {} /\ Replies = {} /\ ~Healing
    BY <1>1 DEF Coming, Replies, Healing
<1>4. ~Welcomed(subs[1].revision)
    BY <1>1, <1>3 DEF Welcomed
<1>5. next = Len(publications) + 1 /\ Untaken = {}
    <2>1. next \in 1..Len(publications) + 1 /\ Len(publications) \in Nat
        BY LenProperties DEF Typed
    <2>2. next = Len(publications) + 1 /\ next..Len(publications) = {}
        BY <1>1, <2>1
    <2> QED BY <1>1, <2>2 DEF Untaken
<1>6. stored # None => delivered = stored
    <2> SUFFICES ASSUME stored # None, delivered # stored PROVE FALSE
        OBVIOUS
    <2>1. next > 1 /\ changes[publications[next - 1]].kind = "deleted"
        BY <1>2, <1>5 DEF Heard, Due
    <2>2. next - 1 = Len(publications) /\ publications # <<>>
        <3>1. Len(publications) \in Nat
            BY LenProperties DEF Typed
        <3> QED BY <1>5, <2>1, <3>1
    <2> QED BY <2>1, <2>2 DEF Overtaken
<1>7. stored = None => delivered = None
    BY <1>2, <1>5 DEF Heard, Due
<1>8. watch.held = delivered \/ (watch.held = None /\ Behind(delivered))
    BY <1>2, <1>3, <1>4 DEF Heard, Informed, Following, Numbers
<1> QED BY <1>6, <1>7, <1>8 DEF Behind

-----------------------------------------------------------------------------
(* Subscriptions given up.                                                 *)

(* A subscription has an owner, or one to be, or is being given up.        *)
Kept ==
    watch.up /\ 1 \in DOMAIN subs =>
        \/ watch.id = 1
        \/ \E i \in Replies : outbox[i].ok
        \/ watch.accepted # NotAccepted
        \/ \E i \in DOMAIN inbox : inbox[i].op = "unsubscribe"

(* The server's other steps: no reply goes, no subscription comes.         *)
LEMMA KeptServed ==
    ASSUME Typed, Kept, UNCHANGED watch, Spares,
           \/ UNCHANGED inbox
           \/ inbox # <<>> /\ Head(inbox).op # "unsubscribe" /\ inbox' = Tail(inbox)
    PROVE  Kept'
<1>1. /\ Replies' = Replies /\ \A i \in Replies : outbox'[i] = outbox[i]
      /\ DOMAIN subs' = DOMAIN subs
    BY DEF Spares
<1>2. (\E i \in DOMAIN inbox : inbox[i].op = "unsubscribe") =>
          \E i \in DOMAIN inbox' : inbox'[i].op = "unsubscribe"
    <2>1. CASE UNCHANGED inbox
        BY <2>1
    <2>2. CASE inbox # <<>> /\ Head(inbox).op # "unsubscribe" /\ inbox' = Tail(inbox)
        <3>1. /\ \A i \in DOMAIN inbox \ {1} : i - 1 \in DOMAIN inbox' /\ inbox'[i - 1] = inbox[i]
              /\ Head(inbox) = inbox[1]
            BY <2>2, InboxTaken DEF Typed
        <3> QED BY <2>2, <3>1
    <2> QED BY <2>1, <2>2
<1> QED BY <1>1, <1>2 DEF Kept

LEMMA KeptNext ==
    ASSUME Typed, Handshake, Chained, Kept, Next
    PROVE  Kept'
<1>1. CASE StoreNext \/ AnnounceNext
    <2>1. UNCHANGED <<connection, client>>
        BY <1>1, StoreSteps DEF AnnounceNext, Announce
    <2>2. UNCHANGED <<subs, inbox, outbox, watch>> /\ Replies' = Replies
        BY <2>1, Elsewhere
    <2> QED BY <2>2 DEF Kept
<1>2. CASE ServeSubscribe
    BY <1>2, ServeSubscribeSteps DEF Kept
<1>3. CASE ServeResync
    <2>1. /\ UNCHANGED watch /\ inbox # <<>> /\ Head(inbox).op # "unsubscribe"
          /\ inbox' = Tail(inbox)
        BY <1>3 DEF ServeResync, Requested, client
    <2> QED BY <1>3, <2>1, ServeResyncSteps, KeptServed
<1>4. CASE TakeChange \/ Lag
    <2>1. UNCHANGED <<watch, inbox>>
        BY <1>4 DEF TakeChange, Lag, client
    <2> QED BY <1>4, <2>1, TakeChangeSteps, LagSteps, KeptServed
<1>5. CASE ServeUnsubscribe \/ Connect \/ Disconnect
    <2>1. DOMAIN subs' = {}
        BY <1>5, ServeUnsubscribeSteps, ConnectSteps, DisconnectSteps
    <2> QED BY <2>1 DEF Kept
<1>6. CASE TakeEvent \/ TakeEarly
    <2>1. UNCHANGED subs
        BY <1>6, TakeEventSteps, TakeEarlySteps
    <2>2. CASE watch'.id = 1
        BY <2>2 DEF Kept
    <2>3. CASE watch'.id # 1
        <3>1. ASSUME watch.id # 0 PROVE watch'.id = 1
            <4>1. watch.id = 1 /\ watch \in WatchRecord /\ ~watch.disposed
                BY <3>1 DEF Typed, WatchRecord, Handshake
            <4>2. CASE TakeEvent
                <5>1. Receive(watch, Head(outbox)) /\ Head(outbox) \in Event
                    BY <4>1, <4>2, ComingTaken DEF TakeEvent, IsEvent
                <5> QED BY <4>1, <5>1, ReceiveWatch
            <4>3. CASE TakeEarly
                <5>1. /\ watch.early \in Seq(Event) /\ watch.early # <<>>
                      /\ Receive([watch EXCEPT !.early = Tail(@)], Head(watch.early))
                    BY <4>1, <4>3 DEF TakeEarly, Draining, WatchRecord
                <5>2. Tail(watch.early) \in Seq(Event) /\ Head(watch.early) \in Event
                    BY <5>1, Shrunk
                <5>3. PICK w : w = [watch EXCEPT !.early = Tail(@)]
                    OBVIOUS
                <5>4. w \in WatchRecord /\ w.id = 1
                    BY <4>1, <5>2, <5>3 DEF WatchRecord
                <5> QED BY <5>1, <5>2, <5>3, <5>4, ReceiveWatch
            <4> QED BY <1>6, <4>2, <4>3
        <3>2. watch.id = 0 /\ TakeEvent
            BY <1>6, <2>3, <3>1 DEF TakeEarly, Draining
        <3>3. /\ Take /\ ~IsReply(Head(outbox)) /\ UNCHANGED inbox /\ watch.up
              /\ UNCHANGED <<watch.up, watch.id, watch.accepted>>
            <4>1. CASE watch.disposed
                BY <3>2, <4>1 DEF TakeEvent, IsReply, Take, Handshake
            <4>2. CASE ~watch.disposed
                <5>1. watch' = [watch EXCEPT !.early = Append(@, Head(outbox))]
                    BY <3>2, <4>2 DEF TakeEvent
                <5>2. watch \in WatchRecord
                    BY DEF Typed
                <5> QED BY <3>2, <4>2, <5>1, <5>2
                        DEF TakeEvent, IsReply, Take, Handshake, WatchRecord
            <4> QED BY <4>1, <4>2
        <3>4. \A i \in Replies : \E j \in Replies' : outbox'[j] = outbox[i]
            BY <3>3, RepliesTaken
        <3> QED BY <2>1, <3>3, <3>4 DEF Kept
    <2> QED BY <2>2, <2>3
<1>7. CASE TakeResponse
    <2>1. /\ Take /\ UNCHANGED <<subs, inbox, watch.up>>
          /\ ~IsReply(Head(outbox)) => UNCHANGED <<watch.accepted, watch.id>>
          /\ IsReply(Head(outbox)) /\ Head(outbox).ok => watch'.accepted # NotAccepted
        BY <1>7, TakeResponseSteps DEF TakeResponse
    <2> SUFFICES ASSUME watch.up, 1 \in DOMAIN subs PROVE Kept'
        BY <2>1 DEF Kept
    <2>2. CASE IsReply(Head(outbox))
        <3>1. Head(outbox).ok
            <4>1. 1 \in Replies /\ Head(outbox) = outbox[1]
                BY <2>1, <2>2, RepliesTaken
            <4> QED BY <4>1 DEF Handshake
        <3> QED BY <2>1, <2>2, <3>1 DEF Kept
    <2>3. CASE ~IsReply(Head(outbox))
        <3>1. \A i \in Replies : \E j \in Replies' : outbox'[j] = outbox[i]
            BY <2>1, <2>3, RepliesTaken
        <3> QED BY <2>1, <2>3, <3>1 DEF Kept
    <2> QED BY <2>2, <2>3
<1>8. CASE Resume \/ ResumeDisposed
    BY <1>8, ResumeSteps, ResumeDisposedSteps DEF Kept
<1>9. CASE AskResync \/ RequestResync
    <2>1. /\ UNCHANGED <<subs, outbox, watch.id, watch.up, watch.accepted>>
          /\ \A i \in DOMAIN inbox : i \in DOMAIN inbox' /\ inbox'[i] = inbox[i]
        BY <1>9, AskResyncSteps, RequestResyncSteps
    <2>2. Replies' = Replies
        BY <2>1 DEF Replies
    <2> QED BY <2>1, <2>2 DEF Kept
<1>10. CASE Dispose
    <2>1. /\ UNCHANGED <<subs, outbox, watch.up, watch.accepted>>
          /\ \A i \in DOMAIN inbox : i \in DOMAIN inbox' /\ inbox'[i] = inbox[i]
          /\ watch.id # 0 => \E i \in DOMAIN inbox' : inbox'[i].op = "unsubscribe"
        BY <1>10, DisposeSteps
    <2>2. Replies' = Replies
        BY <2>1 DEF Replies
    <2> QED BY <2>1, <2>2 DEF Kept
<1> QED BY <1>1, <1>2, <1>3, <1>4, <1>5, <1>6, <1>7, <1>8, <1>9, <1>10
        DEF Next, ServerNext, WatchNext, ClientNext

LEMMA KeptEnds ==
    ASSUME Typed, Handshake, Kept
    PROVE  EndedLeavesNone
<1> SUFFICES ASSUME watch.disposed, watch.up, inbox = <<>>, outbox = <<>>,
                    watch.accepted = NotAccepted
             PROVE  subs = <<>>
    BY DEF EndedLeavesNone
<1>1. watch.id = 0 /\ Replies = {}
    BY DEF Handshake, Replies
<1>2. DOMAIN inbox = {}
    OBVIOUS
<1>3. 1 \notin DOMAIN subs
    BY <1>1, <1>2 DEF Kept
<1>4. DOMAIN subs = {} /\ subs \in [DOMAIN subs -> Subscription]
    BY <1>3 DEF Typed
<1> QED BY <1>4

-----------------------------------------------------------------------------
(* What holds of a watch, of its connection and of the document.           *)
Sound == Typed /\ Handshake /\ Chained /\ Following /\ Heard /\ Kept

LEMMA Begins == Init => Sound
<1> SUFFICES ASSUME Init PROVE Sound
    OBVIOUS
<1> USE DEF Init
<1>1. /\ changes = <<>> /\ Len(changes) = 0 /\ DOMAIN changes = {}
      /\ publications \in Seq(DOMAIN changes) /\ Len(publications) = 0
      /\ DOMAIN subs = {} /\ DOMAIN inbox = {} /\ DOMAIN outbox = {}
      /\ changes \in Seq([kind: {"created", "committed", "deleted"}, after: Token])
      /\ inbox \in Seq(Request) /\ outbox \in Seq(Frame) /\ <<>> \in Seq(Event)
      /\ watch.early = <<>>
    OBVIOUS
<1>2. watch \in WatchRecord
    BY <1>1, NoneToken DEF WatchRecord, NotAccepted, Acceptance
<1>3. Typed
    BY <1>1, <1>2, NoneToken, BoundsAssumption DEF Typed
<1>4. Coming = {} /\ Replies = {} /\ Asked = {}
    BY <1>1 DEF Coming, Replies, Asked
<1>5. Handshake
    BY <1>1, <1>4 DEF Handshake, Single
<1>6. Chained
    BY <1>3, BirthsOK DEF Chained
<1>7. Known
    BY <1>1, <1>3, <1>6, PastTokens, NoneToken DEF Known, DeliveredPast
<1>8. Following
    BY <1>7 DEF Following, HeldIsWhole, Numbers, Fit, Welcome, Live
<1>9. Heard
    BY DEF Heard, NewestLast, Healed, Informed, Due, Live
<1>10. Kept
    BY DEF Kept
<1> QED BY <1>3, <1>5, <1>6, <1>8, <1>9, <1>10 DEF Sound

LEMMA Stays == Sound /\ [Next]_vars => Sound'
<1> SUFFICES ASSUME Sound, [Next]_vars PROVE Sound'
    OBVIOUS
<1> USE DEF Sound
<1>1. CASE Next
    BY <1>1, Steps, FollowingNext, HeardNext, KeptNext
<1>2. CASE UNCHANGED vars
    <2>1. UNCHANGED <<stored, changes, racing, publications, next, subs, nextId, inbox, outbox,
                      unsent, made, asked, watch, replica>>
        BY <1>2 DEF vars, store, connection, client
    <2>2. Coming' = Coming /\ Replies' = Replies /\ Asked' = Asked /\ Live' = Live
        BY <2>1 DEF Coming, Replies, Asked, Live
    <2>3. \A token : Past(token) <=> Past(token)'
        BY <2>1 DEF Past, Births
    <2>4. Typed' /\ Handshake'
        BY <2>1, <2>2 DEF Typed, Handshake
    <2>5. Chained'
        BY <2>1 DEF Chained, Births
    <2>6. DeliveredPast'
        BY <2>1 DEF Following, Known, DeliveredPast, Past, Births
    <2>7. \A revision : Welcomed(revision)' => Welcomed(revision)
        BY <2>1, <2>2 DEF Welcomed
    <2>8. UNCHANGED <<store, connection, client>>
        BY <1>2 DEF vars
    <2>9. UNCHANGED <<stored, next, subs, unsent, watch>>
        BY <2>1
    <2>10. Healed'
        BY <2>8, <2>9, Elsewhere DEF Heard, Healed, HealedAt, Behind
    <2>11. Informed'
        <3>1. Welcomed(subs[1].revision) => Welcomed(subs[1].revision)'
            BY <2>8, <2>9, Elsewhere DEF Welcomed
        <3> QED BY <2>8, <2>9, <3>1, Elsewhere DEF Heard, Informed, Behind
    <2>12. Heard'
        BY <2>8, <2>9, <2>10, <2>11, Elsewhere, DueStays DEF Heard
    <2>13. Kept'
        BY <2>1, <2>2 DEF Kept
    <2> QED BY <2>1, <2>2, <2>3, <2>4, <2>5, <2>6, <2>7, <2>12, <2>13, FollowingStays
<1> QED BY <1>1, <1>2

THEOREM Invariance == Spec => []Sound
BY Begins, Stays, PTL DEF Spec

(* Whatever update a client takes leaves it holding every operation of the *)
(* state the update names, and no other: onValue of a watch is never given *)
(* a difference from a state its replica does not have.                    *)
THEOREM WhatIsHeldIsWhole == Spec => []HeldIsWhole
BY Invariance, PTL DEF Sound, Following

(* Once every change reached the connection, the client has what is        *)
(* stored: no order of announcements, losses, reconnections and            *)
(* resynchronisations leaves it behind with nothing on its way, unless the *)
(* last update due could not be read, built or encoded.                    *)
THEOREM EveryoneCatchesUp == Spec => []CaughtUp
<1>1. Sound => CaughtUp
    BY HeardAll DEF Sound
<1> QED BY <1>1, Invariance, PTL

(* A watch that was ended leaves no subscription behind, however its end   *)
(* and the answer to its subscribe request cross.                          *)
THEOREM WhatIsEndedIsGivenUp == Spec => []EndedLeavesNone
<1>1. Sound => EndedLeavesNone
    BY KeptEnds DEF Sound
<1> QED BY <1>1, Invariance, PTL

LEMMA PastIsToken ==
    ASSUME Typed, Chained, NEW token \in AnyToken, Past(token)
    PROVE  /\ token \in Token
           /\ Operations(token) \subseteq [born: 1..MaxChanges, number: 1..MaxChanges]
<1>1. /\ token = [born |-> token.born, last |-> token.last]
      /\ token.born \in Nat /\ token.last \in Nat
      /\ token.born <= MaxChanges /\ token.last <= MaxChanges /\ MaxChanges \in Nat
      /\ token.born = 0 => token.last = 0
    <2>1. Births \in Nat /\ Len(changes) \in Nat /\ Births <= Len(changes)
          /\ Len(changes) <= MaxChanges /\ MaxChanges \in Nat
        BY LenProperties, BoundsAssumption DEF Typed, Chained
    <2> QED BY <2>1 DEF AnyToken, Past
<1>2. token \in Token
    BY <1>1 DEF Token
<1>3. ASSUME NEW n \in 1..token.last
      PROVE  [born |-> token.born, number |-> n] \in [born: 1..MaxChanges, number: 1..MaxChanges]
    <2>1. token.born \in 1..MaxChanges /\ n \in 1..MaxChanges
        BY <1>1
    <2> QED BY <2>1
<1> QED BY <1>2, <1>3 DEF Operations

(* Every variable holds what its declaration says.                         *)
THEOREM TypeCorrect == Spec => []TypeOK
<1>1. Sound => TypeOK
    <2> SUFFICES ASSUME Sound PROVE TypeOK
        OBVIOUS
    <2>1. Typed /\ Handshake /\ Chained /\ Known
        BY DEF Sound, Following
    <2>2. stored \in Token
        BY <2>1, PastTokens, PastIsToken DEF Typed
    <2>3. watch.held \in Token /\ watch.revision \in Nat /\ watch.asking \in Nat
        BY <2>1, PastIsToken DEF Typed, WatchRecord, Known
    <2>4. replica \subseteq [born: 1..MaxChanges, number: 1..MaxChanges]
        BY <2>1, PastIsToken DEF Known
    <2>5. \A s \in DOMAIN subs : s < nextId /\ subs[s] \in [revision: Nat, delivered: Token]
        <3> SUFFICES ASSUME NEW s \in DOMAIN subs
                     PROVE  s < nextId /\ subs[s] \in [revision: Nat, delivered: Token]
            OBVIOUS
        <3>1. s = 1 /\ subs[s] \in Subscription
            BY <2>1 DEF Typed
        <3>2. nextId = 2
            BY <2>1 DEF Typed, Handshake
        <3>3. subs[s].delivered \in Token
            BY <2>1, <3>1, PastIsToken DEF Known, DeliveredPast, Subscription
        <3> QED BY <3>1, <3>2, <3>3 DEF Subscription
    <2> QED BY <2>1, <2>2, <2>3, <2>4, <2>5 DEF Typed, TypeOK
<1> QED BY <1>1, Invariance, PTL

=============================================================================
