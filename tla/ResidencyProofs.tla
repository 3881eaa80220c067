-------------------------- MODULE ResidencyProofs --------------------------
(***************************************************************************)
(* For every number of threads, slots, checkpoints and writes: a service's *)
(* reads are current though it serves documents from memory.               *)
(***************************************************************************)
EXTENDS Residency, FiniteSetTheorems, FunctionTheorems, TLAPS

(* content was stored at some moment since the stamp was the port's        *)
StoredSince(contents, since, content) ==
    \E i \in since..Len(contents) : contents[i] = content

(***************************************************************************)
(* The inductive invariant.  The stamp of a resident was the port's at the *)
(* latest when its bytes were stored, and a thread's stamp was taken after *)
(* its read began: so a stamp that vouches at the moment it is compared    *)
(* vouches for bytes stored since the read began, whoever put it there.    *)
(***************************************************************************)
HeapStamps ==
    \A s \in Slots : heap[s].stamp # None =>
        /\ heap[s].stamp \in 1..Len(log)
        /\ StoredSince(log, heap[s].stamp, heap[s].envelope)

ThreadStamps ==
    \A t \in Threads : stamp[t] # None =>
        /\ pc[t] \in {"stamped", "unvouched", "restamp"}
        /\ stamp[t] \in start[t]..Len(log)
        /\ pc[t] = "restamp" => StoredSince(log, stamp[t], result[t])

(* What a thread has at each place of `resident`, `swap` and `remove`.     *)
PlacesOK ==
    \A t \in Threads :
        /\ pc[t] # "idle" => start[t] \in 1..Len(log)
        /\ pc[t] \in {"idle", "got", "stamped", "unvouched"} => result[t] = None
        /\ pc[t] \in {"restamp", "hold", "replaced", "count"} => got[t] # None
        /\ pc[t] = "forget" => got[t] = None
        /\ pc[t] \in {"got", "stamped", "unvouched", "restamp"} => call[t] = "read"
        /\ pc[t] \in {"hold", "replaced", "count"} => call[t] # "bytes"
        /\ pc[t] = "idle" \/ call[t] = "bytes" => got[t] = None
        /\ pc[t] = "replaced" => earlier[t] # None

Answering == {"restamp", "hold", "replaced", "count", "forget", "done"}

(* What a thread answers is what its resident holds, and was stored since  *)
(* its read began.                                                         *)
ResultsOK ==
    \A t \in Threads : pc[t] \in Answering =>
        /\ StoredSince(log, start[t], result[t])
        /\ got[t] # None => result[t] = heap[got[t]].envelope

(* A resident that is referred to holds an envelope.                       *)
LiveOK == \A s \in Slots : s \in Referenced => heap[s].envelope \in Envelopes

IInv ==
    /\ TypeOK /\ HeapStamps /\ ThreadStamps /\ PlacesOK /\ ResultsOK
    /\ LiveOK /\ ReplicaOfEnvelope

-----------------------------------------------------------------------------

(* Whatever is referred to, `Resident::new` finds a slot nothing refers    *)
(* to: an allocation never overwrites a resident some thread still uses.   *)
LEMMA NewSlotIsFree ==
    ASSUME TypeOK
    PROVE  NewSlot \in Slots /\ NewSlot \notin Referenced
<1> DEFINE Got == {got[t] : t \in Threads}
           Early == {earlier[t] : t \in Threads}
<1>1. IsFiniteSet(Got) /\ Cardinality(Got) <= Cardinality(Threads)
    <2>1. got \in Surjection(Threads, Got)
        BY DEF TypeOK, Surjection
    <2> QED BY <2>1, FS_Surjection, SlotsAssumption
<1>2. IsFiniteSet(Early) /\ Cardinality(Early) <= Cardinality(Threads)
    <2>1. earlier \in Surjection(Threads, Early)
        BY DEF TypeOK, Surjection
    <2> QED BY <2>1, FS_Surjection, SlotsAssumption
<1> HIDE DEF Got, Early
<1>3. /\ IsFiniteSet(Got \cup Early)
      /\ Cardinality(Got \cup Early) <= Cardinality(Got) + Cardinality(Early)
    <2>1. /\ IsFiniteSet(Got \cup Early)
          /\ Cardinality(Got \cup Early) =
                Cardinality(Got) + Cardinality(Early) - Cardinality(Got \cap Early)
        BY <1>1, <1>2, FS_Union
    <2>2. IsFiniteSet(Got \cap Early)
        BY <1>1, FS_Intersection
    <2> QED BY <2>1, <2>2, <1>1, <1>2, FS_CardinalityType
<1>4. /\ IsFiniteSet(Got \cup Early \cup {held})
      /\ Cardinality(Got \cup Early \cup {held}) <= Cardinality(Got \cup Early) + 1
    BY <1>3, FS_AddElement, FS_CardinalityType
<1>5. Referenced = Got \cup Early \cup {held}
    BY DEF Referenced, Got, Early
<1>6. Cardinality(Referenced) < Cardinality(Slots)
    <2>1. /\ Cardinality(Threads) \in Nat /\ Cardinality(Slots) \in Nat
          /\ Cardinality(Got) \in Nat /\ Cardinality(Early) \in Nat
          /\ Cardinality(Got \cup Early) \in Nat
          /\ Cardinality(Got \cup Early \cup {held}) \in Nat
        BY <1>1, <1>2, <1>3, <1>4, SlotsAssumption, FS_CardinalityType
    <2> QED BY <2>1, <1>1, <1>2, <1>3, <1>4, <1>5, SlotsAssumption
<1>7. ~ (Slots \subseteq Referenced)
    <2> SUFFICES ASSUME Slots \in SUBSET Referenced PROVE FALSE
        OBVIOUS
    <2>1. Cardinality(Slots) <= Cardinality(Referenced)
        BY <1>4, <1>5, FS_Subset
    <2> QED BY <2>1, <1>6, <1>4, <1>5, SlotsAssumption, FS_CardinalityType
<1> QED BY <1>7 DEF NewSlot

(* What the log keeps when a write takes effect.                           *)
LEMMA StoreGrows ==
    ASSUME TypeOK, NEW content \in Contents, Store(content)
    PROVE  /\ log' \in Seq(Contents)
           /\ Len(log') = Len(log) + 1
           /\ stored' = content
           /\ \A c : \A since \in Nat \ {0} : StoredSince(log, since, c) => StoredSince(log', since, c)
           /\ \A since \in 1..Len(log') : StoredSince(log', since, content)
<1>1. /\ log' \in Seq(Contents) /\ Len(log') = Len(log) + 1
      /\ log'[Len(log')] = content
      /\ \A i \in 1..Len(log) : log'[i] = log[i]
    BY DEF TypeOK, Store
<1>2. Len(log) \in Nat
    BY DEF TypeOK
<1> QED BY <1>1, <1>2 DEF StoredSince, stored

(* What is stored now was stored since every earlier moment.               *)
LEMMA StoredNow ==
    ASSUME TypeOK
    PROVE  /\ stored \in Contents
           /\ Len(log) \in Nat \ {0}
           /\ \A since \in 1..Len(log) : StoredSince(log, since, stored)
BY DEF TypeOK, StoredSince, stored

(* What was stored since a moment was stored since every earlier one.      *)
LEMMA StoredSinceEarlier ==
    ASSUME NEW early \in Nat, NEW late \in Nat, early <= late,
           Len(log) \in Nat, NEW c, StoredSince(log, late, c)
    PROVE  StoredSince(log, early, c)
BY DEF StoredSince

(* Changing one field of a resident.                                       *)
LEMMA ResidentUpdates ==
    ASSUME NEW r \in Resident
    PROVE  /\ \A v \in Nat \cup {None} :
                 /\ [r EXCEPT !.stamp = v] \in Resident
                 /\ [r EXCEPT !.stamp = v].stamp = v
                 /\ [r EXCEPT !.stamp = v].envelope = r.envelope
                 /\ [r EXCEPT !.stamp = v].replica = r.replica
           /\ \A v \in Checkpoints \cup {None} :
                 /\ [r EXCEPT !.replica = v] \in Resident
                 /\ [r EXCEPT !.replica = v].replica = v
                 /\ [r EXCEPT !.replica = v].envelope = r.envelope
                 /\ [r EXCEPT !.replica = v].stamp = r.stamp
BY DEF Resident

-----------------------------------------------------------------------------
(* Each action keeps the invariant.                                        *)

(* The read begins with whatever is held.                                  *)
LEMMA GetInductive ==
    ASSUME IInv, NEW t \in Threads, Get(t)
    PROVE  IInv'
<1> USE NoneAssumption, BoundsAssumption DEF IInv
<1>1. /\ heap' = heap /\ log' = log /\ Len(log) \in Nat \ {0}
    BY StoredNow DEF Get
<1>2. TypeOK' /\ HeapStamps'
    <2>1. TypeOK'
        BY StoredNow DEF Get, Goto, TypeOK, Places, Contents, LiveOK, Referenced
    <2>2. HeapStamps'
        BY <1>1 DEF HeapStamps
    <2> QED BY <2>1, <2>2
<1>3. ThreadStamps'
    BY <1>1, StoredNow DEF Get, Goto, TypeOK, ThreadStamps, PlacesOK
<1>4. PlacesOK'
    BY <1>1 DEF Get, Goto, TypeOK, PlacesOK
<1>5. ResultsOK'
    BY <1>1, StoredNow DEF Get, Goto, TypeOK, PlacesOK, ResultsOK, Answering
<1>6. \A s \in Slots : s \in Referenced' => s \in Referenced
    BY DEF Get, Goto, TypeOK, Referenced
<1>7. LiveOK' /\ ReplicaOfEnvelope'
    BY <1>1, <1>6 DEF LiveOK, ReplicaOfEnvelope
<1> QED BY <1>2, <1>3, <1>4, <1>5, <1>7

(* The stamp is taken after the read began.                                *)
LEMMA StampInductive ==
    ASSUME IInv, NEW t \in Threads, Stamp(t)
    PROVE  IInv'
<1> USE NoneAssumption, BoundsAssumption DEF IInv
<1>1. /\ heap' = heap /\ log' = log /\ Len(log) \in Nat \ {0}
    BY StoredNow DEF Stamp
<1>2. TypeOK' /\ HeapStamps'
    <2>1. TypeOK'
        BY StoredNow DEF Stamp, Goto, TypeOK, Places, Contents, LiveOK, Referenced
    <2>2. HeapStamps'
        BY <1>1 DEF HeapStamps
    <2> QED BY <2>1, <2>2
<1>3. ThreadStamps'
    BY <1>1, StoredNow DEF Stamp, Goto, TypeOK, ThreadStamps, PlacesOK
<1>4. PlacesOK'
    BY <1>1 DEF Stamp, Goto, TypeOK, PlacesOK
<1>5. ResultsOK'
    BY <1>1, StoredNow DEF Stamp, Goto, TypeOK, PlacesOK, ResultsOK, Answering
<1>6. \A s \in Slots : s \in Referenced' => s \in Referenced
    BY DEF Stamp, Goto, TypeOK, Referenced
<1>7. LiveOK' /\ ReplicaOfEnvelope'
    BY <1>1, <1>6 DEF LiveOK, ReplicaOfEnvelope
<1> QED BY <1>2, <1>3, <1>4, <1>5, <1>7

(* The stamps agree: what is served was stored since the stamp was taken.  *)
LEMMA ServeInductive ==
    ASSUME IInv, NEW t \in Threads, Serve(t)
    PROVE  IInv'
<1> USE NoneAssumption, BoundsAssumption DEF IInv
<1>1. /\ heap' = heap /\ log' = log /\ Len(log) \in Nat \ {0}
    BY StoredNow DEF Serve
<1>2. TypeOK' /\ HeapStamps'
    <2>1. TypeOK'
        BY StoredNow DEF Serve, Goto, VouchedForBy, TypeOK, Places, Contents, LiveOK, Referenced
    <2>2. HeapStamps'
        BY <1>1 DEF HeapStamps
    <2> QED BY <2>1, <2>2
<1>3. ThreadStamps'
    BY <1>1, StoredNow DEF Serve, Goto, VouchedForBy, TypeOK, ThreadStamps, PlacesOK
<1>4. PlacesOK'
    BY <1>1 DEF Serve, Goto, VouchedForBy, TypeOK, PlacesOK
<1>5. ResultsOK'
    <2>1. /\ stamp[t] \in start[t]..Len(log) /\ got[t] \in Slots
          /\ StoredSince(log, stamp[t], heap[got[t]].envelope)
          /\ start[t] \in Nat /\ stamp[t] \in Nat
        BY <1>1 DEF Serve, VouchedForBy, TypeOK, HeapStamps, ThreadStamps
    <2>2. StoredSince(log, start[t], heap[got[t]].envelope)
        BY <1>1, <2>1, StoredSinceEarlier
    <2> QED BY <1>1, <2>2 DEF Serve, Goto, TypeOK, ResultsOK, Answering
<1>6. \A s \in Slots : s \in Referenced' => s \in Referenced
    BY DEF Serve, Goto, VouchedForBy, TypeOK, Referenced
<1>7. LiveOK' /\ ReplicaOfEnvelope'
    BY <1>1, <1>6 DEF LiveOK, ReplicaOfEnvelope
<1> QED BY <1>2, <1>3, <1>4, <1>5, <1>7

(* The stamp does not vouch.                                               *)
LEMMA NotVouchedInductive ==
    ASSUME IInv, NEW t \in Threads, NotVouched(t)
    PROVE  IInv'
<1> USE NoneAssumption, BoundsAssumption DEF IInv
<1>1. /\ heap' = heap /\ log' = log /\ Len(log) \in Nat \ {0}
    BY StoredNow DEF NotVouched
<1>2. TypeOK' /\ HeapStamps'
    <2>1. TypeOK'
        BY StoredNow DEF NotVouched, Goto, TypeOK, Places, Contents, LiveOK, Referenced
    <2>2. HeapStamps'
        BY <1>1 DEF HeapStamps
    <2> QED BY <2>1, <2>2
<1>3. ThreadStamps'
    BY <1>1, StoredNow DEF NotVouched, Goto, TypeOK, ThreadStamps, PlacesOK
<1>4. PlacesOK'
    BY <1>1 DEF NotVouched, Goto, TypeOK, PlacesOK
<1>5. ResultsOK'
    BY <1>1, StoredNow DEF NotVouched, Goto, TypeOK, PlacesOK, ResultsOK, Answering
<1>6. \A s \in Slots : s \in Referenced' => s \in Referenced
    BY DEF NotVouched, Goto, TypeOK, Referenced
<1>7. LiveOK' /\ ReplicaOfEnvelope'
    BY <1>1, <1>6 DEF LiveOK, ReplicaOfEnvelope
<1> QED BY <1>2, <1>3, <1>4, <1>5, <1>7

(* Nothing is stored.                                                      *)
LEMMA ReadNothingInductive ==
    ASSUME IInv, NEW t \in Threads, ReadNothing(t)
    PROVE  IInv'
<1> USE NoneAssumption, BoundsAssumption DEF IInv
<1>1. /\ heap' = heap /\ log' = log /\ Len(log) \in Nat \ {0}
    BY StoredNow DEF ReadNothing
<1>2. TypeOK' /\ HeapStamps'
    <2>1. TypeOK'
        BY StoredNow DEF ReadNothing, Goto, TypeOK, Places, Contents, LiveOK, Referenced
    <2>2. HeapStamps'
        BY <1>1 DEF HeapStamps
    <2> QED BY <2>1, <2>2
<1>3. ThreadStamps'
    BY <1>1, StoredNow DEF ReadNothing, Goto, TypeOK, ThreadStamps, PlacesOK
<1>4. PlacesOK'
    BY <1>1 DEF ReadNothing, Goto, TypeOK, PlacesOK
<1>5. ResultsOK'
    BY <1>1, StoredNow DEF ReadNothing, Goto, TypeOK, PlacesOK, ResultsOK, Answering
<1>6. \A s \in Slots : s \in Referenced' => s \in Referenced
    BY DEF ReadNothing, Goto, TypeOK, Referenced
<1>7. LiveOK' /\ ReplicaOfEnvelope'
    BY <1>1, <1>6 DEF LiveOK, ReplicaOfEnvelope
<1> QED BY <1>2, <1>3, <1>4, <1>5, <1>7

(* The bytes held are stored.                                              *)
LEMMA ReadHeldInductive ==
    ASSUME IInv, NEW t \in Threads, ReadHeld(t)
    PROVE  IInv'
<1> USE NoneAssumption, BoundsAssumption DEF IInv
<1>1. /\ heap' = heap /\ log' = log /\ Len(log) \in Nat \ {0}
    BY StoredNow DEF ReadHeld
<1>2. TypeOK' /\ HeapStamps'
    <2>1. TypeOK'
        BY StoredNow DEF ReadHeld, Goto, TypeOK, Places, Contents, LiveOK, Referenced
    <2>2. HeapStamps'
        BY <1>1 DEF HeapStamps
    <2> QED BY <2>1, <2>2
<1>3. ThreadStamps'
    <2>1. stamp[t] # None => StoredSince(log, stamp[t], stored)
        BY <1>1, StoredNow DEF ReadHeld, TypeOK, ThreadStamps, PlacesOK
    <2> QED BY <1>1, <2>1 DEF ReadHeld, Goto, TypeOK, ThreadStamps, PlacesOK
<1>4. PlacesOK'
    BY <1>1 DEF ReadHeld, Goto, TypeOK, PlacesOK
<1>5. ResultsOK'
    BY <1>1, StoredNow DEF ReadHeld, Goto, TypeOK, PlacesOK, ResultsOK, Answering
<1>6. \A s \in Slots : s \in Referenced' => s \in Referenced
    BY DEF ReadHeld, Goto, TypeOK, Referenced
<1>7. LiveOK' /\ ReplicaOfEnvelope'
    BY <1>1, <1>6 DEF LiveOK, ReplicaOfEnvelope
<1> QED BY <1>2, <1>3, <1>4, <1>5, <1>7

(* The resident made of the bytes read takes a slot nothing refers to.     *)
LEMMA ReadOtherInductive ==
    ASSUME IInv, NEW t \in Threads, ReadOther(t)
    PROVE  IInv'
<1> USE NoneAssumption DEF IInv
<1> DEFINE fresh == NewSlot
<1>1. /\ fresh \in Slots /\ fresh \notin Referenced
      /\ heap' = [heap EXCEPT ![fresh] = NewResident(stored, stamp[t])]
      /\ got' = [got EXCEPT ![t] = fresh]
      /\ pc[t] = "unvouched" /\ pc' = [pc EXCEPT ![t] = "hold"]
      /\ stored \in Envelopes /\ result' = [result EXCEPT ![t] = stored]
      /\ stamp' = [stamp EXCEPT ![t] = None]
      /\ UNCHANGED <<log, held, gauge, call, earlier, start>>
    BY NewSlotIsFree DEF ReadOther, Goto
<1> HIDE DEF fresh
<1>2. /\ log' \in Seq(Contents) /\ Len(log) \in Nat \ {0} /\ Len(log') = Len(log)
      /\ \A c : \A since \in Nat \ {0} : StoredSince(log, since, c) => StoredSince(log', since, c)
      /\ \A since \in 1..Len(log) : StoredSince(log', since, stored)
    BY <1>1, StoredNow DEF TypeOK, StoredSince
<1>3. /\ heap' \in [Slots -> Resident]
      /\ \A s \in Slots \ {fresh} : heap'[s] = heap[s]
      /\ heap'[fresh].envelope = stored /\ heap'[fresh].stamp = stamp[t]
      /\ heap'[fresh].replica = None
    BY <1>1 DEF TypeOK, Resident, NewResident, Contents
<1>4. TypeOK'
    BY <1>1, <1>2, <1>3 DEF TypeOK, Places, Contents
<1>5. HeapStamps'
    <2> SUFFICES ASSUME NEW s \in Slots, heap'[s].stamp # None
                 PROVE  /\ heap'[s].stamp \in 1..Len(log')
                        /\ StoredSince(log', heap'[s].stamp, heap'[s].envelope)
        BY DEF HeapStamps
    <2>1. CASE s = fresh
        BY <1>1, <1>2, <1>3, <2>1 DEF TypeOK, ThreadStamps, PlacesOK
    <2>2. CASE s # fresh
        <3>1. heap'[s] = heap[s]
            BY <1>3, <2>2
        <3>2. /\ heap[s].stamp \in 1..Len(log)
              /\ StoredSince(log, heap[s].stamp, heap[s].envelope)
            BY <3>1 DEF HeapStamps
        <3>3. StoredSince(log', heap[s].stamp, heap[s].envelope)
            BY <1>2, <3>2
        <3> QED BY <1>2, <3>1, <3>2, <3>3
    <2> QED BY <2>1, <2>2
<1>6. ThreadStamps'
    BY <1>1, <1>2 DEF TypeOK, ThreadStamps, PlacesOK
<1>7. PlacesOK'
    BY <1>1, <1>2 DEF TypeOK, PlacesOK
<1>8. ResultsOK'
    <2> SUFFICES ASSUME NEW u \in Threads, pc'[u] \in Answering
                 PROVE  /\ StoredSince(log', start'[u], result'[u])
                        /\ got'[u] # None => result'[u] = heap'[got'[u]].envelope
        BY DEF ResultsOK
    <2>1. CASE u = t
        BY <1>1, <1>2, <1>3, <2>1 DEF TypeOK, PlacesOK
    <2>2. CASE u # t
        <3>1. got[u] # None => got[u] \in Slots \ {fresh}
            BY <1>1 DEF TypeOK, Referenced
        <3>2. pc[u] # "idle" /\ start[u] \in Nat \ {0}
            BY <1>1, <1>2, <2>2 DEF TypeOK, PlacesOK, Answering
        <3> QED BY <1>1, <1>2, <1>3, <2>2, <3>1, <3>2 DEF TypeOK, ResultsOK
    <2> QED BY <2>1, <2>2
<1>9. \A s \in Slots : s \in Referenced' => s = fresh \/ s \in Referenced
    BY <1>1 DEF TypeOK, Referenced
<1>10. LiveOK' /\ ReplicaOfEnvelope'
    BY <1>1, <1>3, <1>9 DEF LiveOK, ReplicaOfEnvelope
<1> QED BY <1>4, <1>5, <1>6, <1>7, <1>8, <1>10

(* The bytes read are no envelope.                                         *)
LEMMA ReadCorruptInductive ==
    ASSUME IInv, NEW t \in Threads, ReadCorrupt(t)
    PROVE  IInv'
<1> USE NoneAssumption, BoundsAssumption DEF IInv
<1>1. /\ heap' = heap /\ log' = log /\ Len(log) \in Nat \ {0}
    BY StoredNow DEF ReadCorrupt
<1>2. TypeOK' /\ HeapStamps'
    <2>1. TypeOK'
        BY StoredNow DEF ReadCorrupt, Return, TypeOK, Places, Contents, LiveOK, Referenced
    <2>2. HeapStamps'
        BY <1>1 DEF HeapStamps
    <2> QED BY <2>1, <2>2
<1>3. ThreadStamps'
    BY <1>1, StoredNow DEF ReadCorrupt, Return, TypeOK, ThreadStamps, PlacesOK
<1>4. PlacesOK'
    BY <1>1 DEF ReadCorrupt, Return, TypeOK, PlacesOK
<1>5. ResultsOK'
    BY <1>1, StoredNow DEF ReadCorrupt, Return, TypeOK, PlacesOK, ResultsOK, Answering
<1>6. \A s \in Slots : s \in Referenced' => s \in Referenced
    BY DEF ReadCorrupt, Return, TypeOK, Referenced
<1>7. LiveOK' /\ ReplicaOfEnvelope'
    BY <1>1, <1>6 DEF LiveOK, ReplicaOfEnvelope
<1> QED BY <1>2, <1>3, <1>4, <1>5, <1>7

(* The stamp given to a resident was taken before its bytes were read.     *)
LEMMA RestampInductive ==
    ASSUME IInv, NEW t \in Threads, Restamp(t)
    PROVE  IInv'
<1> USE NoneAssumption, BoundsAssumption DEF IInv
<1>1. got[t] \in Slots /\ stamp[t] \in Nat \cup {None} /\ pc[t] = "restamp"
    BY DEF Restamp, TypeOK, PlacesOK
<1>2. /\ heap' \in [Slots -> Resident]
      /\ \A s \in Slots : heap'[s].envelope = heap[s].envelope
      /\ \A s \in Slots : heap'[s].replica = heap[s].replica
      /\ \A s \in Slots \ {got[t]} : heap'[s].stamp = heap[s].stamp
      /\ heap'[got[t]].stamp = stamp[t]
    BY <1>1, ResidentUpdates DEF Restamp, TypeOK
<1>3. /\ log' = log /\ Len(log) \in Nat \ {0}
    BY StoredNow DEF Restamp
<1>4. TypeOK'
    BY <1>2 DEF Restamp, Goto, TypeOK, Places
<1>5. HeapStamps'
    <2> SUFFICES ASSUME NEW s \in Slots, heap'[s].stamp # None
                 PROVE  /\ heap'[s].stamp \in 1..Len(log)
                        /\ StoredSince(log, heap'[s].stamp, heap[s].envelope)
        BY <1>2, <1>3 DEF HeapStamps
    <2>1. CASE s = got[t]
        BY <1>1, <1>2, <1>3, <2>1 DEF TypeOK, ThreadStamps, PlacesOK, ResultsOK, Answering
    <2>2. CASE s # got[t]
        BY <1>2, <2>2 DEF HeapStamps
    <2> QED BY <2>1, <2>2
<1>6. ThreadStamps'
    BY <1>3 DEF Restamp, Goto, TypeOK, ThreadStamps, PlacesOK
<1>7. PlacesOK'
    BY <1>3 DEF Restamp, Goto, TypeOK, PlacesOK
<1>8. ResultsOK'
    BY <1>2, <1>3 DEF Restamp, Goto, TypeOK, ResultsOK, Answering
<1>9. \A s \in Slots : s \in Referenced' => s \in Referenced
    BY DEF Restamp, Goto, TypeOK, Referenced
<1>10. ReplicaOfEnvelope'
    BY <1>2, <1>9 DEF ReplicaOfEnvelope
<1>12. LiveOK'
    BY <1>2, <1>9 DEF LiveOK
<1> QED BY <1>4, <1>5, <1>6, <1>7, <1>8, <1>10, <1>12

(* The map refers to the resident instead of to the one it replaces.       *)
LEMMA HoldInductive ==
    ASSUME IInv, NEW t \in Threads, Hold(t)
    PROVE  IInv'
<1> USE NoneAssumption, BoundsAssumption DEF IInv
<1>1. /\ heap' = heap /\ log' = log /\ Len(log) \in Nat \ {0}
    BY StoredNow DEF Hold
<1>2. TypeOK' /\ HeapStamps'
    <2>1. TypeOK'
        BY StoredNow DEF Hold, Goto, TypeOK, Places, Contents, LiveOK, Referenced
    <2>2. HeapStamps'
        BY <1>1 DEF HeapStamps
    <2> QED BY <2>1, <2>2
<1>3. ThreadStamps'
    BY <1>1, StoredNow DEF Hold, Goto, TypeOK, ThreadStamps, PlacesOK
<1>4. PlacesOK'
    BY <1>1 DEF Hold, Goto, TypeOK, PlacesOK
<1>5. ResultsOK'
    BY <1>1, StoredNow DEF Hold, Goto, TypeOK, PlacesOK, ResultsOK, Answering
<1>6. \A s \in Slots : s \in Referenced' => s \in Referenced
    BY DEF Hold, Goto, TypeOK, Referenced
<1>7. LiveOK' /\ ReplicaOfEnvelope'
    BY <1>1, <1>6 DEF LiveOK, ReplicaOfEnvelope
<1> QED BY <1>2, <1>3, <1>4, <1>5, <1>7

(* The replaced resident has an envelope of the same accepted state.       *)
LEMMA TakeOverInductive ==
    ASSUME IInv, NEW t \in Threads, TakeOver(t)
    PROVE  IInv'
<1> USE NoneAssumption, BoundsAssumption DEF IInv
<1>1. /\ got[t] \in Slots /\ got[t] \in Referenced
      /\ earlier[t] \in Slots /\ earlier[t] \in Referenced /\ pc[t] = "replaced"
    BY DEF TakeOver, TypeOK, PlacesOK, Referenced
<1>11. /\ Inherited(earlier[t], got[t]) \in Checkpoints \cup {None}
       /\ Inherited(earlier[t], got[t]) # None => Inherited(earlier[t], got[t]) = heap[got[t]].envelope.checkpoint
    BY <1>1 DEF Inherited, TypeOK, Resident, ReplicaOfEnvelope
<1>2. /\ heap' \in [Slots -> Resident]
      /\ \A s \in Slots : heap'[s].envelope = heap[s].envelope
      /\ \A s \in Slots : heap'[s].stamp = heap[s].stamp
      /\ \A s \in Slots \ {got[t]} : heap'[s].replica = heap[s].replica
      /\ heap'[got[t]].replica = Inherited(earlier[t], got[t])
    BY <1>1, <1>11, ResidentUpdates DEF TakeOver, TypeOK
<1>3. /\ log' = log /\ Len(log) \in Nat \ {0}
    BY StoredNow DEF TakeOver
<1>4. TypeOK'
    BY <1>2 DEF TakeOver, CountDown, Goto, TypeOK, Places
<1>5. HeapStamps'
    BY <1>2, <1>3 DEF HeapStamps
<1>6. ThreadStamps'
    BY <1>3 DEF TakeOver, CountDown, Goto, TypeOK, ThreadStamps, PlacesOK
<1>7. PlacesOK'
    BY <1>3 DEF TakeOver, CountDown, Goto, TypeOK, PlacesOK
<1>8. ResultsOK'
    BY <1>2, <1>3 DEF TakeOver, CountDown, Goto, TypeOK, ResultsOK, Answering
<1>9. \A s \in Slots : s \in Referenced' => s \in Referenced
    BY DEF TakeOver, CountDown, Goto, TypeOK, Referenced
<1>10. ReplicaOfEnvelope'
    BY <1>2, <1>9, <1>11 DEF ReplicaOfEnvelope
<1>12. LiveOK'
    BY <1>2, <1>9 DEF LiveOK
<1> QED BY <1>4, <1>5, <1>6, <1>7, <1>8, <1>10, <1>12

(* Only the counter changes.                                               *)
LEMMA CountInductive ==
    ASSUME IInv, NEW t \in Threads, Count(t)
    PROVE  IInv'
<1> USE NoneAssumption, BoundsAssumption DEF IInv
<1>1. /\ heap' = heap /\ log' = log /\ Len(log) \in Nat \ {0}
    BY StoredNow DEF Count
<1>2. TypeOK' /\ HeapStamps'
    <2>1. TypeOK'
        BY StoredNow DEF Count, Goto, CountUp, TypeOK, Places, Contents, LiveOK, Referenced
    <2>2. HeapStamps'
        BY <1>1 DEF HeapStamps
    <2> QED BY <2>1, <2>2
<1>3. ThreadStamps'
    BY <1>1, StoredNow DEF Count, Goto, CountUp, TypeOK, ThreadStamps, PlacesOK
<1>4. PlacesOK'
    BY <1>1 DEF Count, Goto, CountUp, TypeOK, PlacesOK
<1>5. ResultsOK'
    BY <1>1, StoredNow DEF Count, Goto, CountUp, TypeOK, PlacesOK, ResultsOK, Answering
<1>6. \A s \in Slots : s \in Referenced' => s \in Referenced
    BY DEF Count, Goto, CountUp, TypeOK, Referenced
<1>7. LiveOK' /\ ReplicaOfEnvelope'
    BY <1>1, <1>6 DEF LiveOK, ReplicaOfEnvelope
<1> QED BY <1>2, <1>3, <1>4, <1>5, <1>7

(* The map refers to nothing.                                              *)
LEMMA ForgetInductive ==
    ASSUME IInv, NEW t \in Threads, Forget(t)
    PROVE  IInv'
<1> USE NoneAssumption, BoundsAssumption DEF IInv
<1>1. /\ heap' = heap /\ log' = log /\ Len(log) \in Nat \ {0}
    BY StoredNow DEF Forget
<1>2. TypeOK' /\ HeapStamps'
    <2>1. TypeOK'
        BY StoredNow DEF Forget, CountDown, Goto, TypeOK, Places, Contents, LiveOK, Referenced
    <2>2. HeapStamps'
        BY <1>1 DEF HeapStamps
    <2> QED BY <2>1, <2>2
<1>3. ThreadStamps'
    BY <1>1, StoredNow DEF Forget, Goto, TypeOK, ThreadStamps, PlacesOK
<1>4. PlacesOK'
    BY <1>1 DEF Forget, CountDown, Goto, TypeOK, PlacesOK
<1>5. ResultsOK'
    BY <1>1, StoredNow DEF Forget, CountDown, Goto, TypeOK, PlacesOK, ResultsOK, Answering
<1>6. \A s \in Slots : s \in Referenced' => s \in Referenced
    BY DEF Forget, Goto, TypeOK, Referenced
<1>7. LiveOK' /\ ReplicaOfEnvelope'
    BY <1>1, <1>6 DEF LiveOK, ReplicaOfEnvelope
<1> QED BY <1>2, <1>3, <1>4, <1>5, <1>7

(* The bytes are read past the residency.                                  *)
LEMMA ReadBytesInductive ==
    ASSUME IInv, NEW t \in Threads, ReadBytes(t)
    PROVE  IInv'
<1> USE NoneAssumption, BoundsAssumption DEF IInv
<1>1. /\ heap' = heap /\ log' = log /\ Len(log) \in Nat \ {0}
    BY StoredNow DEF ReadBytes
<1>2. TypeOK' /\ HeapStamps'
    <2>1. TypeOK'
        BY StoredNow DEF ReadBytes, Goto, TypeOK, Places, Contents, LiveOK, Referenced
    <2>2. HeapStamps'
        BY <1>1 DEF HeapStamps
    <2> QED BY <2>1, <2>2
<1>3. ThreadStamps'
    BY <1>1, StoredNow DEF ReadBytes, Goto, TypeOK, ThreadStamps, PlacesOK
<1>4. PlacesOK'
    BY <1>1 DEF ReadBytes, Goto, TypeOK, PlacesOK
<1>5. ResultsOK'
    BY <1>1, StoredNow DEF ReadBytes, Goto, TypeOK, PlacesOK, ResultsOK, Answering
<1>6. \A s \in Slots : s \in Referenced' => s \in Referenced
    BY DEF ReadBytes, Goto, TypeOK, Referenced
<1>7. LiveOK' /\ ReplicaOfEnvelope'
    BY <1>1, <1>6 DEF LiveOK, ReplicaOfEnvelope
<1> QED BY <1>2, <1>3, <1>4, <1>5, <1>7

(* A replica of its own envelope.                                          *)
LEMMA BuildInductive ==
    ASSUME IInv, NEW t \in Threads, Build(t)
    PROVE  IInv'
<1> USE NoneAssumption, BoundsAssumption DEF IInv
<1>1. got[t] \in Slots /\ got[t] \in Referenced
    BY DEF Build, TypeOK, Referenced
<1>11. heap[got[t]].envelope.checkpoint \in Checkpoints
    BY <1>1 DEF LiveOK, Envelopes
<1>2. /\ heap' \in [Slots -> Resident]
      /\ \A s \in Slots : heap'[s].envelope = heap[s].envelope
      /\ \A s \in Slots : heap'[s].stamp = heap[s].stamp
      /\ \A s \in Slots \ {got[t]} : heap'[s].replica = heap[s].replica
      /\ heap'[got[t]].replica = heap[got[t]].envelope.checkpoint
    BY <1>1, <1>11, ResidentUpdates DEF Build, TypeOK
<1>3. /\ log' = log /\ Len(log) \in Nat \ {0}
    BY StoredNow DEF Build
<1>4. TypeOK'
    BY <1>2 DEF Build, threadVars, TypeOK, Places
<1>5. HeapStamps'
    BY <1>2, <1>3 DEF HeapStamps
<1>6. ThreadStamps'
    BY <1>3 DEF Build, threadVars, TypeOK, ThreadStamps, PlacesOK
<1>7. PlacesOK'
    BY <1>3 DEF Build, threadVars, TypeOK, PlacesOK
<1>8. ResultsOK'
    BY <1>2, <1>3 DEF Build, threadVars, TypeOK, ResultsOK, Answering
<1>9. \A s \in Slots : s \in Referenced' => s \in Referenced
    BY DEF Build, threadVars, TypeOK, Referenced
<1>10. ReplicaOfEnvelope'
    BY <1>2, <1>9, <1>11 DEF ReplicaOfEnvelope
<1>12. LiveOK'
    BY <1>2, <1>9 DEF LiveOK
<1> QED BY <1>4, <1>5, <1>6, <1>7, <1>8, <1>10, <1>12

(* A replica of the same accepted state.                                   *)
LEMMA OfferInductive ==
    ASSUME IInv, NEW t \in Threads, Offer(t)
    PROVE  IInv'
<1> USE NoneAssumption, BoundsAssumption DEF IInv
<1>1. held \in Slots /\ held \in Referenced
    BY DEF Offer, TypeOK, Referenced
<1>11. result[t].checkpoint \in Checkpoints /\ result[t].checkpoint = heap[held].envelope.checkpoint
    BY <1>1 DEF Offer, LiveOK, Envelopes
<1>2. /\ heap' \in [Slots -> Resident]
      /\ \A s \in Slots : heap'[s].envelope = heap[s].envelope
      /\ \A s \in Slots : heap'[s].stamp = heap[s].stamp
      /\ \A s \in Slots \ {held} : heap'[s].replica = heap[s].replica
      /\ heap'[held].replica = result[t].checkpoint
    BY <1>1, <1>11, ResidentUpdates DEF Offer, TypeOK
<1>3. /\ log' = log /\ Len(log) \in Nat \ {0}
    BY StoredNow DEF Offer
<1>4. TypeOK'
    BY <1>2 DEF Offer, threadVars, TypeOK, Places
<1>5. HeapStamps'
    BY <1>2, <1>3 DEF HeapStamps
<1>6. ThreadStamps'
    BY <1>3 DEF Offer, threadVars, TypeOK, ThreadStamps, PlacesOK
<1>7. PlacesOK'
    BY <1>3 DEF Offer, threadVars, TypeOK, PlacesOK
<1>8. ResultsOK'
    BY <1>2, <1>3 DEF Offer, threadVars, TypeOK, ResultsOK, Answering
<1>9. \A s \in Slots : s \in Referenced' => s \in Referenced
    BY DEF Offer, threadVars, TypeOK, Referenced
<1>10. ReplicaOfEnvelope'
    BY <1>2, <1>9, <1>11 DEF ReplicaOfEnvelope
<1>12. LiveOK'
    BY <1>2, <1>9 DEF LiveOK
<1> QED BY <1>4, <1>5, <1>6, <1>7, <1>8, <1>10, <1>12

(* A swap extends the log, and its resident takes a free slot and no stamp.*)
LEMMA SwapInductive ==
    ASSUME IInv, NEW t \in Threads, Swap(t)
    PROVE  IInv'
<1> USE NoneAssumption DEF IInv
<1> DEFINE fresh == NewSlot
<1>1. PICK envelope \in Envelopes :
      /\ fresh \in Slots /\ fresh \notin Referenced
      /\ Store(envelope)
      /\ heap' = [heap EXCEPT ![fresh] = NewResident(envelope, None)]
      /\ got' = [got EXCEPT ![t] = fresh]
      /\ pc[t] = "done" /\ pc' = [pc EXCEPT ![t] = "hold"]
      /\ result' = [result EXCEPT ![t] = envelope]
      /\ call' = [call EXCEPT ![t] = "swap"]
      /\ UNCHANGED <<held, gauge, earlier, stamp, start>>
    BY NewSlotIsFree DEF Swap, Goto
<1> HIDE DEF fresh
<1>2. /\ log' \in Seq(Contents) /\ Len(log) \in Nat \ {0} /\ Len(log') = Len(log) + 1
      /\ \A c : \A since \in Nat \ {0} : StoredSince(log, since, c) => StoredSince(log', since, c)
      /\ \A since \in 1..Len(log') : StoredSince(log', since, envelope)
    BY <1>1, StoreGrows, StoredNow DEF Contents
<1>3. /\ heap' \in [Slots -> Resident]
      /\ \A s \in Slots \ {fresh} : heap'[s] = heap[s]
      /\ heap'[fresh].envelope = envelope /\ heap'[fresh].stamp = None
      /\ heap'[fresh].replica = None
    BY <1>1 DEF TypeOK, Resident, NewResident, Contents
<1>4. TypeOK'
    BY <1>1, <1>2, <1>3 DEF TypeOK, Places, Contents
<1>5. HeapStamps'
    <2> SUFFICES ASSUME NEW s \in Slots, heap'[s].stamp # None
                 PROVE  /\ heap'[s].stamp \in 1..Len(log')
                        /\ StoredSince(log', heap'[s].stamp, heap'[s].envelope)
        BY DEF HeapStamps
    <2>1. CASE s = fresh
        BY <1>1, <1>2, <1>3, <2>1 DEF TypeOK, ThreadStamps, PlacesOK
    <2>2. CASE s # fresh
        <3>1. heap'[s] = heap[s]
            BY <1>3, <2>2
        <3>2. /\ heap[s].stamp \in 1..Len(log)
              /\ StoredSince(log, heap[s].stamp, heap[s].envelope)
            BY <3>1 DEF HeapStamps
        <3>3. StoredSince(log', heap[s].stamp, heap[s].envelope)
            BY <1>2, <3>2
        <3> QED BY <1>2, <3>1, <3>2, <3>3
    <2> QED BY <2>1, <2>2
<1>6. ThreadStamps'
    BY <1>1, <1>2 DEF TypeOK, ThreadStamps, PlacesOK
<1>7. PlacesOK'
    BY <1>1, <1>2 DEF TypeOK, PlacesOK
<1>8. ResultsOK'
    <2> SUFFICES ASSUME NEW u \in Threads, pc'[u] \in Answering
                 PROVE  /\ StoredSince(log', start'[u], result'[u])
                        /\ got'[u] # None => result'[u] = heap'[got'[u]].envelope
        BY DEF ResultsOK
    <2>1. CASE u = t
        BY <1>1, <1>2, <1>3, <2>1 DEF TypeOK, PlacesOK
    <2>2. CASE u # t
        <3>1. got[u] # None => got[u] \in Slots \ {fresh}
            BY <1>1 DEF TypeOK, Referenced
        <3>2. pc[u] # "idle" /\ start[u] \in Nat \ {0}
            BY <1>1, <1>2, <2>2 DEF TypeOK, PlacesOK, Answering
        <3> QED BY <1>1, <1>2, <1>3, <2>2, <3>1, <3>2 DEF TypeOK, ResultsOK
    <2> QED BY <2>1, <2>2
<1>9. \A s \in Slots : s \in Referenced' => s = fresh \/ s \in Referenced
    BY <1>1 DEF TypeOK, Referenced
<1>10. LiveOK' /\ ReplicaOfEnvelope'
    BY <1>1, <1>3, <1>9 DEF LiveOK, ReplicaOfEnvelope
<1> QED BY <1>4, <1>5, <1>6, <1>7, <1>8, <1>10

(* A removal extends the log.                                              *)
LEMMA RemoveInductive ==
    ASSUME IInv, NEW t \in Threads, Remove(t)
    PROVE  IInv'
<1> USE NoneAssumption DEF IInv
<1>1. /\ log' \in Seq(Contents) /\ Len(log) \in Nat \ {0} /\ Len(log') = Len(log) + 1
      /\ \A c : \A since \in Nat \ {0} : StoredSince(log, since, c) => StoredSince(log', since, c)
      /\ \A since \in 1..Len(log') : StoredSince(log', since, None)
    BY StoreGrows, StoredNow DEF Remove, Contents
<1>2. TypeOK'
    BY <1>1 DEF Remove, Goto, TypeOK, Places, Contents
<1>3. HeapStamps'
    BY <1>1 DEF Remove, TypeOK, HeapStamps
<1>4. ThreadStamps'
    BY <1>1 DEF Remove, Goto, TypeOK, ThreadStamps, PlacesOK
<1>5. PlacesOK'
    BY <1>1 DEF Remove, Goto, TypeOK, PlacesOK
<1>6. ResultsOK'
    <2> SUFFICES ASSUME NEW u \in Threads, pc'[u] \in Answering
                 PROVE  /\ StoredSince(log', start'[u], result'[u])
                        /\ got'[u] # None => result'[u] = heap'[got'[u]].envelope
        BY DEF ResultsOK
    <2>1. pc[u] # "idle" /\ start[u] \in Nat \ {0} /\ start[u] \in 1..Len(log')
        BY <1>1 DEF Remove, Goto, TypeOK, PlacesOK, Answering
    <2> QED BY <1>1, <2>1 DEF Remove, Goto, TypeOK, PlacesOK, ResultsOK, Answering
<1>7. LiveOK' /\ ReplicaOfEnvelope'
    BY DEF Remove, LiveOK, ReplicaOfEnvelope, Referenced
<1> QED BY <1>2, <1>3, <1>4, <1>5, <1>6, <1>7

(* The locals of the call are dropped.                                     *)
LEMMA FinishInductive ==
    ASSUME IInv, NEW t \in Threads, Finish(t)
    PROVE  IInv'
<1> USE NoneAssumption, BoundsAssumption DEF IInv
<1>1. /\ heap' = heap /\ log' = log /\ Len(log) \in Nat \ {0}
    BY StoredNow DEF Finish
<1>2. TypeOK' /\ HeapStamps'
    <2>1. TypeOK'
        BY StoredNow DEF Finish, Return, TypeOK, Places, Contents, LiveOK, Referenced
    <2>2. HeapStamps'
        BY <1>1 DEF HeapStamps
    <2> QED BY <2>1, <2>2
<1>3. ThreadStamps'
    BY <1>1, StoredNow DEF Finish, Return, TypeOK, ThreadStamps, PlacesOK
<1>4. PlacesOK'
    BY <1>1 DEF Finish, Return, TypeOK, PlacesOK
<1>5. ResultsOK'
    BY <1>1, StoredNow DEF Finish, Return, TypeOK, PlacesOK, ResultsOK, Answering
<1>6. \A s \in Slots : s \in Referenced' => s \in Referenced
    BY DEF Finish, Return, TypeOK, Referenced
<1>7. LiveOK' /\ ReplicaOfEnvelope'
    BY <1>1, <1>6 DEF LiveOK, ReplicaOfEnvelope
<1> QED BY <1>2, <1>3, <1>4, <1>5, <1>7

(* The locals of the call are dropped.                                     *)
LEMMA PortFailsInductive ==
    ASSUME IInv, NEW t \in Threads, PortFails(t)
    PROVE  IInv'
<1> USE NoneAssumption, BoundsAssumption DEF IInv
<1>1. /\ heap' = heap /\ log' = log /\ Len(log) \in Nat \ {0}
    BY StoredNow DEF PortFails
<1>2. TypeOK' /\ HeapStamps'
    <2>1. TypeOK'
        BY StoredNow DEF PortFails, Return, TypeOK, Places, Contents, LiveOK, Referenced
    <2>2. HeapStamps'
        BY <1>1 DEF HeapStamps
    <2> QED BY <2>1, <2>2
<1>3. ThreadStamps'
    BY <1>1, StoredNow DEF PortFails, Return, TypeOK, ThreadStamps, PlacesOK
<1>4. PlacesOK'
    BY <1>1 DEF PortFails, Return, TypeOK, PlacesOK
<1>5. ResultsOK'
    BY <1>1, StoredNow DEF PortFails, Return, TypeOK, PlacesOK, ResultsOK, Answering
<1>6. \A s \in Slots : s \in Referenced' => s \in Referenced
    BY DEF PortFails, Return, TypeOK, Referenced
<1>7. LiveOK' /\ ReplicaOfEnvelope'
    BY <1>1, <1>6 DEF LiveOK, ReplicaOfEnvelope
<1> QED BY <1>2, <1>3, <1>4, <1>5, <1>7

(* A write that bypasses the service keeps the invariant.                  *)
LEMMA BypassingWriteInductive ==
    ASSUME IInv, BypassingWrite
    PROVE  IInv'
<1> USE NoneAssumption DEF IInv
<1>1. PICK content \in Contents : Store(content)
    BY DEF BypassingWrite
<1>2. /\ log' \in Seq(Contents) /\ Len(log') = Len(log) + 1
      /\ \A c : \A since \in Nat \ {0} : StoredSince(log, since, c) => StoredSince(log', since, c)
    BY <1>1, StoreGrows
<1>3. TypeOK'
    BY <1>2 DEF BypassingWrite, threadVars, TypeOK
<1>4. HeapStamps' /\ ThreadStamps'
    BY <1>2 DEF BypassingWrite, threadVars, TypeOK, HeapStamps, ThreadStamps, PlacesOK
<1>5. PlacesOK'
    BY <1>2 DEF BypassingWrite, threadVars, TypeOK, PlacesOK
<1>7. ResultsOK'
    <2> SUFFICES ASSUME NEW t \in Threads, pc[t] \in Answering
                 PROVE  /\ StoredSince(log', start[t], result[t])
                        /\ got[t] # None => result[t] = heap[got[t]].envelope
        BY DEF BypassingWrite, threadVars, ResultsOK
    <2>1. start[t] \in Nat \ {0} /\ StoredSince(log, start[t], result[t])
        BY DEF TypeOK, PlacesOK, ResultsOK, Answering
    <2> QED BY <1>2, <2>1 DEF ResultsOK
<1>6. LiveOK' /\ ReplicaOfEnvelope'
    BY DEF BypassingWrite, threadVars, LiveOK, ReplicaOfEnvelope, Referenced
<1> QED BY <1>3, <1>4, <1>5, <1>6, <1>7

(* Dropping the service and opening it again keeps the invariant.          *)
LEMMA ReopenInductive ==
    ASSUME IInv, Reopen
    PROVE  IInv'
<1> USE NoneAssumption, BoundsAssumption DEF IInv, Reopen, threadVars
<1>1. TypeOK'
    BY DEF TypeOK, CountDown
<1>2. HeapStamps' /\ ThreadStamps' /\ PlacesOK' /\ ResultsOK'
    BY DEF HeapStamps, ThreadStamps, PlacesOK, ResultsOK, StoredSince
<1>3. LiveOK' /\ ReplicaOfEnvelope'
    BY DEF LiveOK, ReplicaOfEnvelope, Referenced
<1> QED BY <1>1, <1>2, <1>3

(* The service opens on a source it holds nothing of.                      *)
LEMMA InitOK == Init => IInv
<1> SUFFICES ASSUME Init PROVE IInv
    OBVIOUS
<1>1. PICK content \in Contents : log = <<content>>
    <2>1. (CHOOSE c \in Checkpoints : TRUE) \in Checkpoints
        BY NoneAssumption
    <2>2. [generation |-> 1, checkpoint |-> CHOOSE c \in Checkpoints : TRUE] \in Envelopes
        BY <2>1, BoundsAssumption DEF Envelopes, Generations
    <2> QED BY <2>2 DEF Init, Contents
<1>2. TypeOK
    BY <1>1, NoneAssumption, BoundsAssumption DEF Init, TypeOK, Resident, Blank, Contents, Places
<1>3. HeapStamps /\ ThreadStamps /\ PlacesOK /\ ResultsOK
    BY NoneAssumption DEF Init, HeapStamps, ThreadStamps, PlacesOK, ResultsOK, Answering, Blank
<1>4. LiveOK /\ ReplicaOfEnvelope
    BY NoneAssumption DEF Init, LiveOK, ReplicaOfEnvelope, Referenced, Blank
<1> QED BY <1>2, <1>3, <1>4 DEF IInv

(* Every reachable state of the service satisfies the invariant.           *)
LEMMA Invariance == Spec => []IInv
<1>1. IInv /\ [Next]_vars => IInv'
    <2> SUFFICES ASSUME IInv, [Next]_vars PROVE IInv'
        OBVIOUS
    <2>1. CASE UNCHANGED vars
        BY <2>1 DEF vars, threadVars, IInv, TypeOK, HeapStamps, ThreadStamps,
                    PlacesOK, ResultsOK, LiveOK, ReplicaOfEnvelope, StoredSince, Referenced
    <2>2. CASE Next
        <3>1. ASSUME NEW t \in Threads, Read(t) PROVE IInv'
            BY <3>1, GetInductive, StampInductive, ServeInductive, NotVouchedInductive,
               ReadNothingInductive, ReadHeldInductive, ReadOtherInductive,
               ReadCorruptInductive, RestampInductive DEF Read
        <3>2. ASSUME NEW t \in Threads, Keep(t) PROVE IInv'
            BY <3>2, HoldInductive, TakeOverInductive, CountInductive,
               ForgetInductive DEF Keep
        <3>3. ASSUME NEW t \in Threads, Use(t) PROVE IInv'
            BY <3>3, ReadBytesInductive, BuildInductive, OfferInductive, SwapInductive,
               RemoveInductive, FinishInductive, PortFailsInductive DEF Use
        <3> QED BY <2>2, <3>1, <3>2, <3>3, BypassingWriteInductive, ReopenInductive DEF Next
    <2> QED BY <2>1, <2>2
<1> QED BY InitOK, <1>1, PTL DEF Spec

-----------------------------------------------------------------------------

(* Type correctness of the residency and of every thread in it.            *)
THEOREM TypeCorrect == Spec => []TypeOK
BY Invariance, PTL DEF IInv

(* A read is current: whatever `resident` answers, from memory or from the *)
(* port, was stored at some moment since the read began.                   *)
THEOREM ReadsAreCurrent == Spec => []ReadsCurrent
<1>1. IInv => ReadsCurrent
    BY DEF IInv, ResultsOK, Answering, ReadsCurrent, CurrentSince, StoredSince
<1> QED BY Invariance, <1>1, PTL

(* A held document whose stamp is still the port's is the stored one.      *)
THEOREM VouchedDocumentIsStored == Spec => []VouchedIsStored
<1>1. IInv => VouchedIsStored
    BY NoneAssumption DEF IInv, TypeOK, HeapStamps, VouchedIsStored, StoredSince, stored
<1> QED BY Invariance, <1>1, PTL

(* A replica taken over or offered is of the state its resident holds.     *)
THEOREM ReplicasMatch == Spec => []ReplicaOfEnvelope
BY Invariance, PTL DEF IInv

-----------------------------------------------------------------------------
(* The gauge.  A hold that replaced a document owes the counter a step     *)
(* down and one up, one that replaced nothing a step up, and one that has  *)
(* counted down a step up: the counter and what is owed are, but for whole *)
(* turns of the word, the number of documents held.                        *)
Counting == {t \in Threads : pc[t] = "count"}
Holding == IF held = None THEN 0 ELSE 1
Owed == \E turns \in Int : gauge + Cardinality(Counting) = Holding + turns * GaugeModulus

LEMMA CountingFinite ==
    IsFiniteSet(Counting) /\ Cardinality(Counting) \in Nat
BY SlotsAssumption, FS_Subset, FS_CardinalityType DEF Counting

LEMMA WholeTurns ==
    ASSUME NEW turns \in Int
    PROVE  /\ (turns + 1) * GaugeModulus = turns * GaugeModulus + GaugeModulus
           /\ (turns - 1) * GaugeModulus = turns * GaugeModulus - GaugeModulus
           /\ turns * GaugeModulus \in Int
BY BoundsAssumption

(* What becomes of it when the counter, what is owed and what is held each *)
(* change by one at most.                                                  *)
LEMMA OwedAfter ==
    ASSUME Owed, gauge \in 0..GaugeModulus - 1, NEW owing \in Int, NEW holding \in Int,
           Cardinality(Counting)' = Cardinality(Counting) + owing,
           Holding' = Holding + holding,
           \/ UNCHANGED gauge /\ owing = holding
           \/ CountUp /\ owing + 1 = holding
           \/ CountDown /\ owing - 1 = holding
    PROVE  Owed'
<1>1. PICK turns \in Int : gauge + Cardinality(Counting) = Holding + turns * GaugeModulus
    BY DEF Owed
<1>2. Holding \in Int /\ Cardinality(Counting) \in Int /\ gauge \in Int /\ GaugeModulus \in Int
    BY CountingFinite, BoundsAssumption DEF Holding
<1>3. \E more \in Int : gauge' + Cardinality(Counting)' = Holding' + more * GaugeModulus
    <2> DEFINE span == turns * GaugeModulus
    <2>1. /\ span \in Int
          /\ (turns + 1) * GaugeModulus = span + GaugeModulus
          /\ (turns - 1) * GaugeModulus = span - GaugeModulus
        BY WholeTurns
    <2>2. gauge + Cardinality(Counting) = Holding + span
        BY <1>1
    <2> HIDE DEF span
    <2>3. CASE gauge' + Cardinality(Counting)' = Holding' + span
        BY <2>3 DEF span
    <2>4. CASE gauge' + Cardinality(Counting)' = Holding' + (span - GaugeModulus)
        BY <2>1, <2>4
    <2>5. CASE gauge' + Cardinality(Counting)' = Holding' + (span + GaugeModulus)
        BY <2>1, <2>5
    <2> QED BY <1>2, <2>1, <2>2, <2>3, <2>4, <2>5 DEF CountUp, CountDown
<1> QED BY <1>3 DEF Owed

(* A step that leaves the counter alone, and which no hold counts in.      *)
LEMMA NothingCounted ==
    ASSUME Owed, gauge \in 0..GaugeModulus - 1, NEW t \in Threads,
           pc \in [Threads -> Places], UNCHANGED <<held, gauge>>,
           NEW place, pc[t] # "count", place # "count",
           pc' = pc \/ pc' = [pc EXCEPT ![t] = place]
    PROVE  Owed'
<1>1. Counting' = Counting
    BY DEF Counting
<1>2. Holding' = Holding
    BY DEF Holding
<1> QED BY <1>1, <1>2, CountingFinite, OwedAfter DEF Holding

LEMMA OwedKept == IInv /\ Owed /\ [Next]_vars => Owed'
<1> SUFFICES ASSUME IInv, Owed, [Next]_vars
             PROVE  Owed'
    OBVIOUS
<1> USE DEF Goto, Return
<1>1. /\ pc \in [Threads -> Places] /\ gauge \in 0..GaugeModulus - 1
      /\ Cardinality(Counting) \in Int /\ Holding \in Int
    BY CountingFinite DEF IInv, TypeOK, Holding
<1>2. ASSUME NEW t \in Threads, Read(t) PROVE Owed'
    BY <1>1, <1>2, NothingCounted DEF Read, Get, Stamp, Serve, NotVouched, ReadNothing,
       ReadHeld, ReadOther, ReadCorrupt, Restamp
<1>3. ASSUME NEW t \in Threads, Use(t) PROVE Owed'
    BY <1>1, <1>3, NothingCounted DEF Use, ReadBytes, Build, Offer, Swap, Remove, Finish,
       PortFails, threadVars
<1>4. ASSUME NEW t \in Threads, Keep(t) PROVE Owed'
    <2>1. CASE Hold(t)
        <3>1. CASE held = None
            <4>1. Counting' = Counting \cup {t} /\ t \notin Counting
                BY <1>1, <2>1, <3>1 DEF Hold, Counting
            <4>2. Cardinality(Counting') = Cardinality(Counting) + 1
                BY <4>1, CountingFinite, FS_AddElement
            <4>3. Holding' = Holding + 1
                BY <2>1, <3>1 DEF Hold, Holding, IInv, PlacesOK
            <4> QED BY <1>1, <2>1, <4>2, <4>3, OwedAfter DEF Hold
        <3>2. CASE held # None
            <4>1. Counting' = Counting
                BY <1>1, <2>1, <3>2 DEF Hold, Counting
            <4>2. Holding = 1 /\ Holding' = 1
                BY <2>1, <3>2 DEF Hold, Holding, IInv, PlacesOK
            <4> QED BY <1>1, <2>1, <4>1, <4>2, OwedAfter DEF Hold
        <3> QED BY <3>1, <3>2
    <2>2. CASE TakeOver(t)
        <3>1. Counting' = Counting \cup {t} /\ t \notin Counting
            BY <1>1, <2>2 DEF TakeOver, Counting
        <3>2. Cardinality(Counting') = Cardinality(Counting) + 1
            BY <3>1, CountingFinite, FS_AddElement
        <3>3. Holding' = Holding + 0
            BY <2>2 DEF TakeOver, Holding
        <3> QED BY <1>1, <2>2, <3>2, <3>3, OwedAfter DEF TakeOver
    <2>3. CASE Count(t)
        <3>1. Counting' = Counting \ {t} /\ t \in Counting
            BY <1>1, <2>3 DEF Count, Counting
        <3>2. Cardinality(Counting') = Cardinality(Counting) - 1
            BY <3>1, CountingFinite, FS_RemoveElement
        <3>3. Holding' = Holding
            BY <2>3 DEF Count, Holding
        <3> QED BY <1>1, <2>3, <3>2, <3>3, OwedAfter DEF Count
    <2>4. CASE Forget(t)
        <3>1. Counting' = Counting
            BY <1>1, <2>4 DEF Forget, Counting
        <3>2. Holding' = 0
            BY <2>4 DEF Forget, Holding
        <3>3. CASE held = None
            BY <1>1, <2>4, <3>1, <3>2, <3>3, OwedAfter DEF Forget, Holding
        <3>4. CASE held # None
            BY <1>1, <2>4, <3>1, <3>2, <3>4, OwedAfter DEF Forget, Holding
        <3> QED BY <3>3, <3>4
    <2> QED BY <1>4, <2>1, <2>2, <2>3, <2>4 DEF Keep
<1>5. CASE BypassingWrite \/ UNCHANGED vars
    BY <1>5 DEF BypassingWrite, vars, threadVars, Owed, Counting, Holding
<1>6. CASE Reopen
    <2>1. Counting' = Counting /\ Holding = 1 /\ Holding' = 0 /\ CountDown
        BY <1>6 DEF Reopen, threadVars, Counting, Holding
    <2> QED BY <1>1, <2>1, OwedAfter
<1> QED BY <1>2, <1>3, <1>4, <1>5, <1>6 DEF Next

(* The counter of the documents held is right whenever no hold is under    *)
(* way, however holds and forgets interleave their counts.                 *)
THEOREM GaugeIsRight == Spec => []GaugeSettles
<1>1. Init => Owed
    <2> SUFFICES ASSUME Init PROVE Owed
        OBVIOUS
    <2>1. Counting = {} /\ Holding = 0 /\ gauge = 0
        BY DEF Init, Counting, Holding
    <2>2. gauge + Cardinality(Counting) = Holding + 0 * GaugeModulus
        BY <2>1, FS_EmptySet, BoundsAssumption
    <2> QED BY <2>2 DEF Owed
<1>2. IInv /\ Owed => GaugeSettles
    <2> SUFFICES ASSUME IInv, Owed, \A t \in Threads : pc[t] \notin {"replaced", "count"}
                 PROVE  gauge = Holding
        BY DEF GaugeSettles, Holding
    <2>1. Cardinality(Counting) = 0
        <3>1. Counting = {}
            BY DEF Counting
        <3> QED BY <3>1, FS_EmptySet
    <2>2. PICK turns \in Int : gauge + 0 = Holding + turns * GaugeModulus
        BY <2>1 DEF Owed
    <2>3. gauge \in 0..GaugeModulus - 1 /\ Holding \in {0, 1}
        BY DEF IInv, TypeOK, Holding
    <2>4. turns * GaugeModulus \in -1..GaugeModulus - 1
        BY <2>2, <2>3, BoundsAssumption, WholeTurns
    <2>5. turns = 0
        <3>1. turns >= 1 => turns * GaugeModulus >= GaugeModulus
            BY BoundsAssumption
        <3>2. turns <= -1 => turns * GaugeModulus <= -GaugeModulus
            BY BoundsAssumption
        <3> QED BY <2>4, <3>1, <3>2, BoundsAssumption
    <2> QED BY <2>2, <2>3, <2>5, BoundsAssumption
<1> QED BY <1>1, <1>2, OwedKept, Invariance, PTL DEF Spec

=============================================================================
