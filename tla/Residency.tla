----------------------------- MODULE Residency -----------------------------
(***************************************************************************)
(* The documents a collaboration service holds in memory, and the storage  *)
(* port they were read from: crates/clerkenwell-store/src/residency.rs and *)
(* the functions `resident`, `swap` and `remove` of lib.rs.                *)
(*                                                                         *)
(* The model follows one storage source.  Every thread of the service runs *)
(* these functions without a lock around them: only the residency map, the *)
(* stamp of one resident and each call of the storage port are atomic, so  *)
(* each of those is a step here.  A writer that bypasses the service may   *)
(* change the source between any two of them.                              *)
(***************************************************************************)
EXTENDS Integers, Sequences, FiniteSets

CONSTANTS
    Threads,        \* threads calling the service
    Slots,          \* names of `Resident` allocations (an `Arc<Resident>` is a slot)
    Checkpoints,    \* accepted updates an envelope can hold
    MaxGeneration,  \* bound: generations an envelope reaches
    MaxWrites,      \* bound: changes made to the stored bytes
    GaugeModulus,   \* the counters are unsigned words: they wrap at this value
    None,           \* an absent slot, stamp, replica or envelope
    Corrupt         \* bytes that do not parse or validate as an envelope

Generations == 1..MaxGeneration
Envelopes == [generation: Generations, checkpoint: Checkpoints]
Contents == Envelopes \cup {Corrupt, None}

(***************************************************************************)
(* An allocation never fails: there are more slots than what can be        *)
(* referenced at once, the map's entry and, for each thread, the resident  *)
(* it works on and the one it replaced.                                    *)
(***************************************************************************)
ASSUME SlotsAssumption ==
    /\ IsFiniteSet(Threads)
    /\ IsFiniteSet(Slots)
    /\ Cardinality(Slots) > 2 * Cardinality(Threads) + 1
ASSUME BoundsAssumption ==
    /\ MaxGeneration \in Nat \ {0}
    /\ MaxWrites \in Nat
    /\ GaugeModulus \in Nat /\ GaugeModulus > 1
ASSUME NoneAssumption ==
    /\ Checkpoints # {}
    /\ None \notin Slots \cup Envelopes \cup Checkpoints \cup Nat \cup {Corrupt}
    /\ Corrupt \notin Envelopes

VARIABLES
    log,      \* every content the source has had, oldest first; the port's stamp is its length
    heap,     \* the residents allocated
    held,     \* the residency map's entry for the source
    gauge,    \* the `resident_documents` counter
    pc,       \* where each thread is
    call,     \* what the thread's current call is
    got,      \* the resident the thread works on
    earlier,  \* the resident its `hold` replaced
    stamp,    \* the stamp it took
    result,   \* the content its read found
    start     \* history: the length of log when its read began

threadVars == <<pc, call, got, earlier, stamp, result, start>>
vars == <<log, heap, held, gauge, threadVars>>

Resident == [envelope: Contents, stamp: Nat \cup {None}, replica: Checkpoints \cup {None}]
Blank == [envelope |-> None, stamp |-> None, replica |-> None]

Places == {"idle", "got", "stamped", "unvouched", "forget", "restamp",
           "hold", "replaced", "count", "done"}

-----------------------------------------------------------------------------
(* The storage port.                                                       *)

stored == log[Len(log)]

(* What the stored bytes become when a write takes effect.                 *)
Store(content) == log' = Append(log, content)

Writable == Len(log) <= MaxWrites

(* A slot nothing refers to: where a new `Resident` is put.                *)
Referenced == {held} \cup {got[t] : t \in Threads} \cup {earlier[t] : t \in Threads}
NewSlot == CHOOSE s \in Slots : s \notin Referenced

(* Resident::new                                                           *)
NewResident(content, vouching) ==
    [envelope |-> content, stamp |-> vouching, replica |-> None]

(* Resident::vouched_for_by.  Mutant: no stamp vouches for no stamp.       *)
SameStamp(s, vouching) == heap[s].stamp = vouching
VouchedForBy(s, vouching) == vouching # None /\ heap[s].stamp = vouching

(* A thread's call answers, and its locals are dropped.                    *)
Return(t) ==
    /\ pc' = [pc EXCEPT ![t] = "idle"]
    /\ got' = [got EXCEPT ![t] = None]
    /\ earlier' = [earlier EXCEPT ![t] = None]
    /\ stamp' = [stamp EXCEPT ![t] = None]
    /\ result' = [result EXCEPT ![t] = None]
    /\ call' = [call EXCEPT ![t] = "none"]
    /\ start' = [start EXCEPT ![t] = 0]

Goto(t, place) == pc' = [pc EXCEPT ![t] = place]

-----------------------------------------------------------------------------
(* `resident`: the held document while the port's stamp vouches for it,    *)
(* and otherwise the bytes read in its place.                              *)

(* The read begins by taking the residency map's entry.                    *)
Get(t) ==
    /\ pc[t] = "idle"
    /\ Goto(t, "got")
    /\ call' = [call EXCEPT ![t] = "read"]
    /\ got' = [got EXCEPT ![t] = held]
    /\ start' = [start EXCEPT ![t] = Len(log)]
    /\ UNCHANGED <<log, heap, held, gauge, earlier, stamp, result>>

(* The port's stamp is taken before its bytes are read; a port that cannot *)
(* vouch for one gives none.                                               *)
Stamp(t) ==
    /\ pc[t] = "got"
    /\ \E vouching \in {Len(log), None} : stamp' = [stamp EXCEPT ![t] = vouching]
    /\ Goto(t, "stamped")
    /\ UNCHANGED <<log, heap, held, gauge, call, got, earlier, result, start>>

(* The stamp vouches for the held document: it is served unread.           *)
Serve(t) ==
    /\ pc[t] = "stamped"
    /\ got[t] # None
    /\ VouchedForBy(got[t], stamp[t])
    /\ result' = [result EXCEPT ![t] = heap[got[t]].envelope]
    /\ stamp' = [stamp EXCEPT ![t] = None]
    /\ Goto(t, "done")
    /\ UNCHANGED <<log, heap, held, gauge, call, got, earlier, start>>

NotVouched(t) ==
    /\ pc[t] = "stamped"
    /\ got[t] # None => ~VouchedForBy(got[t], stamp[t])
    /\ Goto(t, "unvouched")
    /\ UNCHANGED <<log, heap, held, gauge, call, got, earlier, stamp, result, start>>

(* Nothing is stored: the service stops holding the source.                *)
ReadNothing(t) ==
    /\ pc[t] = "unvouched"
    /\ stored = None
    /\ got' = [got EXCEPT ![t] = None]
    /\ stamp' = [stamp EXCEPT ![t] = None]
    /\ Goto(t, "forget")
    /\ UNCHANGED <<log, heap, held, gauge, call, earlier, result, start>>

(* The bytes read are the ones held: the held document is kept.            *)
ReadHeld(t) ==
    /\ pc[t] = "unvouched"
    /\ got[t] # None
    /\ stored # None
    /\ heap[got[t]].envelope = stored
    /\ result' = [result EXCEPT ![t] = stored]
    /\ Goto(t, "restamp")
    /\ UNCHANGED <<log, heap, held, gauge, call, got, earlier, stamp, start>>

(* Other bytes are read, judged and made a resident of their own.          *)
ReadOther(t) ==
    /\ pc[t] = "unvouched"
    /\ stored \in Envelopes
    /\ got[t] # None => heap[got[t]].envelope # stored
    /\ heap' = [heap EXCEPT ![NewSlot] = NewResident(stored, stamp[t])]
    /\ got' = [got EXCEPT ![t] = NewSlot]
    /\ result' = [result EXCEPT ![t] = stored]
    /\ stamp' = [stamp EXCEPT ![t] = None]
    /\ Goto(t, "hold")
    /\ UNCHANGED <<log, held, gauge, call, earlier, start>>

(* Bytes that are no envelope fail the read, and nothing held changes.     *)
ReadCorrupt(t) ==
    /\ pc[t] = "unvouched"
    /\ stored = Corrupt
    /\ Return(t)
    /\ UNCHANGED <<log, heap, held, gauge>>

(* Resident::restamp.  Mutant: with a stamp taken after the bytes.         *)
RestampLate(t) ==
    /\ pc[t] = "restamp"
    /\ heap' = [heap EXCEPT ![got[t]].stamp = Len(log)]
    /\ stamp' = [stamp EXCEPT ![t] = None]
    /\ Goto(t, "done")
    /\ UNCHANGED <<log, held, gauge, call, got, earlier, result, start>>
Restamp(t) ==
    /\ pc[t] = "restamp"
    /\ heap' = [heap EXCEPT ![got[t]].stamp = stamp[t]]
    /\ stamp' = [stamp EXCEPT ![t] = None]
    /\ Goto(t, "done")
    /\ UNCHANGED <<log, held, gauge, call, got, earlier, result, start>>

-----------------------------------------------------------------------------
(* Residency::hold and Residency::forget.  `hold` releases the map's lock  *)
(* before it takes over what the replaced document built and changes the   *)
(* counters; `forget` counts before it releases the lock.                  *)

Hold(t) ==
    /\ pc[t] = "hold"
    /\ held' = got[t]
    /\ earlier' = [earlier EXCEPT ![t] = held]
    /\ Goto(t, IF held = None THEN "count" ELSE "replaced")
    /\ UNCHANGED <<log, heap, gauge, call, got, stamp, result, start>>

(* Resident::inherit: the replica of the same accepted state is taken over *)
(* unless one is built already.  Mutant: of any state.                     *)
InheritedAnyway(from, to) ==
    IF heap[to].replica = None THEN heap[from].replica ELSE heap[to].replica
Inherited(from, to) ==
    IF /\ heap[from].envelope.checkpoint = heap[to].envelope.checkpoint
       /\ heap[to].replica = None
    THEN heap[from].replica
    ELSE heap[to].replica

(* Residency::count, on an unsigned word.  Mutant: on a signed one.        *)
CountUp == gauge' = IF gauge = GaugeModulus - 1 THEN 0 ELSE gauge + 1
CountDownSigned == gauge' = gauge - 1
CountDown == gauge' = IF gauge = 0 THEN GaugeModulus - 1 ELSE gauge - 1

TakeOver(t) ==
    /\ pc[t] = "replaced"
    /\ heap' = [heap EXCEPT ![got[t]].replica = Inherited(earlier[t], got[t])]
    /\ earlier' = [earlier EXCEPT ![t] = None]
    /\ CountDown
    /\ Goto(t, "count")
    /\ UNCHANGED <<log, held, call, got, stamp, result, start>>

Count(t) ==
    /\ pc[t] = "count"
    /\ CountUp
    /\ Goto(t, "done")
    /\ UNCHANGED <<log, heap, held, call, got, earlier, stamp, result, start>>

(* Mutant: what was not held is counted as well.                           *)
ForgetCounted(t) ==
    /\ pc[t] = "forget"
    /\ held' = None
    /\ CountDown
    /\ Goto(t, "done")
    /\ UNCHANGED <<log, heap, call, got, earlier, stamp, result, start>>

Forget(t) ==
    /\ pc[t] = "forget"
    /\ held' = None
    /\ IF held = None THEN UNCHANGED gauge ELSE CountDown
    /\ Goto(t, "done")
    /\ UNCHANGED <<log, heap, call, got, earlier, stamp, result, start>>

-----------------------------------------------------------------------------
(* What a caller does with what it read.                                   *)

(* `delete` and `repair` read the stored bytes past the residency.         *)
ReadBytes(t) ==
    /\ pc[t] = "idle"
    /\ stored # None
    /\ call' = [call EXCEPT ![t] = "bytes"]
    /\ result' = [result EXCEPT ![t] = stored]
    /\ start' = [start EXCEPT ![t] = Len(log)]
    /\ Goto(t, "done")
    /\ UNCHANGED <<log, heap, held, gauge, got, earlier, stamp>>

(* Resident::replica builds the replica of the held envelope once.         *)
Build(t) ==
    /\ pc[t] = "done"
    /\ got[t] # None
    /\ heap[got[t]].replica = None
    /\ heap' = [heap EXCEPT ![got[t]].replica = heap[got[t]].envelope.checkpoint]
    /\ UNCHANGED <<log, held, gauge, threadVars>>

(* A commit offers the replica it built to whatever is held, when that is  *)
(* the state it committed.                                                 *)
Offer(t) ==
    /\ pc[t] = "done"
    /\ got[t] # None
    /\ held # None
    /\ heap[held].envelope.generation = result[t].generation
    /\ heap[held].envelope.checkpoint = result[t].checkpoint
    /\ heap[held].replica = None
    /\ heap' = [heap EXCEPT ![held].replica = result[t].checkpoint]
    /\ UNCHANGED <<log, held, gauge, threadVars>>

(* The envelopes a caller may write over what it read: a commit over a     *)
(* resident or over nothing, a repair over the bytes it parsed.            *)
NextEnvelopes(t) ==
    CASE call[t] = "read" /\ result[t] = None ->
            [generation: {1}, checkpoint: Checkpoints]
      [] call[t] = "read" /\ result[t] # None ->
            [generation: {result[t].generation + 1}, checkpoint: Checkpoints]
      [] call[t] = "bytes" /\ result[t] \in Envelopes ->
            [generation: {result[t].generation + 1}, checkpoint: {result[t].checkpoint}]
      [] OTHER -> {}

(* `swap`: stores the envelope if the version read is still the stored     *)
(* one, and then holds it under no stamp.                                  *)
Swap(t) ==
    /\ pc[t] = "done"
    /\ Writable
    /\ stored = result[t]
    /\ \E envelope \in NextEnvelopes(t) \cap Envelopes :
          /\ Store(envelope)
          /\ heap' = [heap EXCEPT ![NewSlot] = NewResident(envelope, None)]
          /\ result' = [result EXCEPT ![t] = envelope]
    /\ got' = [got EXCEPT ![t] = NewSlot]
    /\ call' = [call EXCEPT ![t] = "swap"]
    /\ Goto(t, "hold")
    /\ UNCHANGED <<held, gauge, earlier, stamp, start>>

(* `remove`: as `delete` asks, from the bytes it read.                     *)
Remove(t) ==
    /\ pc[t] = "done"
    /\ call[t] = "bytes"
    /\ Writable
    /\ stored = result[t]
    /\ Store(None)
    /\ result' = [result EXCEPT ![t] = None]
    /\ call' = [call EXCEPT ![t] = "remove"]
    /\ Goto(t, "forget")
    /\ UNCHANGED <<heap, held, gauge, got, earlier, stamp, start>>

(* The caller is finished: it only read, its conditional write lost, or it *)
(* goes on to its next call.                                               *)
Finish(t) ==
    /\ pc[t] = "done"
    /\ Return(t)
    /\ UNCHANGED <<log, heap, held, gauge>>

(* A port call fails: the error is returned and nothing held changes.  A   *)
(* swap whose write took effect before its error is a bypassing write to   *)
(* the service.                                                            *)
PortFails(t) ==
    /\ pc[t] \in {"got", "unvouched"}
    /\ Return(t)
    /\ UNCHANGED <<log, heap, held, gauge>>

(* A write that bypasses the service: another process, or a restored copy. *)
BypassingWrite ==
    /\ Writable
    /\ \E content \in Contents \ {stored} : Store(content)
    /\ UNCHANGED <<heap, held, gauge, threadVars>>

(* The service is dropped with its last clone and registered again over    *)
(* the same storage and counters: what was held is released and counted.   *)
Reopen ==
    /\ \A t \in Threads : pc[t] = "idle"
    /\ held # None
    /\ held' = None
    /\ CountDown
    /\ UNCHANGED <<log, heap, threadVars>>

-----------------------------------------------------------------------------

Init ==
    /\ \E content \in {None, [generation |-> 1, checkpoint |-> CHOOSE c \in Checkpoints : TRUE]} :
          log = <<content>>
    /\ heap = [s \in Slots |-> Blank]
    /\ held = None
    /\ gauge = 0
    /\ pc = [t \in Threads |-> "idle"]
    /\ call = [t \in Threads |-> "none"]
    /\ got = [t \in Threads |-> None]
    /\ earlier = [t \in Threads |-> None]
    /\ stamp = [t \in Threads |-> None]
    /\ result = [t \in Threads |-> None]
    /\ start = [t \in Threads |-> 0]

Read(t) ==
    \/ Get(t) \/ Stamp(t) \/ Serve(t) \/ NotVouched(t)
    \/ ReadNothing(t) \/ ReadHeld(t) \/ ReadOther(t) \/ ReadCorrupt(t)
    \/ Restamp(t)

Keep(t) == Hold(t) \/ TakeOver(t) \/ Count(t) \/ Forget(t)

Use(t) ==
    \/ ReadBytes(t) \/ Build(t) \/ Offer(t)
    \/ Swap(t) \/ Remove(t) \/ Finish(t) \/ PortFails(t)

Next ==
    \/ \E t \in Threads : Read(t) \/ Keep(t) \/ Use(t)
    \/ BypassingWrite
    \/ Reopen

Spec == Init /\ [][Next]_vars

-----------------------------------------------------------------------------
(* Properties.                                                             *)

(* Every variable holds what its declaration says.                         *)
TypeOK ==
    /\ log \in Seq(Contents) /\ Len(log) > 0
    /\ heap \in [Slots -> Resident]
    /\ held \in Slots \cup {None}
    /\ gauge \in 0..GaugeModulus-1
    /\ pc \in [Threads -> Places]
    /\ call \in [Threads -> {"none", "read", "bytes", "swap", "remove"}]
    /\ got \in [Threads -> Slots \cup {None}]
    /\ earlier \in [Threads -> Slots \cup {None}]
    /\ stamp \in [Threads -> Nat \cup {None}]
    /\ result \in [Threads -> Contents]
    /\ start \in [Threads -> Nat]

(* The contents the source had at some moment since thread t's read began. *)
CurrentSince(t) == {log[i] : i \in start[t]..Len(log)}

(* A read answers with a content the source had at some moment of the      *)
(* read, whether `resident` served it from memory, kept what it held or    *)
(* read the bytes: a write that bypasses the service is seen by the next   *)
(* read, and no read answers with a document removed before it began.      *)
ReadsCurrent ==
    \A t \in Threads : pc[t] = "done" => result[t] \in CurrentSince(t)

(* The document the residency map holds is the stored one whenever its     *)
(* stamp is the port's, however late a `hold`, `restamp` or `forget` of    *)
(* another thread came: only such a document is served unread.             *)
VouchedIsStored ==
    held # None /\ heap[held].stamp = Len(log) => heap[held].envelope = stored

(* The replica a resident keeps is of its own accepted state, though it    *)
(* may have been taken over from the resident it replaced (`inherit`) or   *)
(* handed over by a commit (`offer`).                                      *)
ReplicaOfEnvelope ==
    \A s \in Slots : s \in Referenced /\ heap[s].replica # None =>
        heap[s].replica = heap[s].envelope.checkpoint

(* Once no `hold` is between its change of the map and its counts, the     *)
(* counter is the number of documents held.                                *)
GaugeSettles ==
    (\A t \in Threads : pc[t] \notin {"replaced", "count"})
        => gauge = IF held = None THEN 0 ELSE 1

=============================================================================
