------------------------------ MODULE Recovery ------------------------------
(***************************************************************************)
(* Stored documents that went wrong, and the operators who put them right: *)
(* the inspection and recovery calls of crates/clerkenwell-store/src/lib.rs *)
(* and the operations of crates/clerkenwell-ops/src that reach them.       *)
(*                                                                         *)
(* Storage keeps an envelope for each document.  A fault outside the       *)
(* service (a torn write, a file restored to the wrong place, an older     *)
(* program) may leave bytes there that no commit wrote; the service must   *)
(* refuse them, keep them, and let an operator look, preserve, repair or   *)
(* reset.  Every call runs on a thread of its own and takes no lock, so    *)
(* commits, repairs and resets of one document race.  A read through the   *)
(* residency is one step, as module Residency shows it may be.             *)
(*                                                                         *)
(* A document is a number, which is also where it is kept and its order    *)
(* among the sources.  A commit is one attempt here: module                *)
(* CollaborationStore has its judgement and its retries.                   *)
(***************************************************************************)
EXTENDS Integers, Sequences, FiniteSets

CONSTANTS
    Threads,      \* threads that call the service
    Docs,         \* the documents of the one store
    Targets,      \* bound: the documents calls name and faults meet
    Plan,         \* the schema version of the deployed plan
    Calls,        \* the calls made, a subset of AllCalls
    Faults,       \* what goes wrong in storage, a subset of AllFaults
    MaxCalls,     \* bound: calls begun
    MaxFaults,    \* bound: faults
    MaxServices,  \* bound: services made for the store
    Torn,         \* bytes that are not JSON, or not an envelope's
    OtherFormat,  \* an envelope that declares another format
    None

Recoveries == {"export", "quarantine", "repair", "reindex", "reset"}
Reads == {"get", "list", "verify", "inspect", "audit"}
AllCalls == Recoveries \cup Reads \cup {"commit", "store_or_register"}
AllFaults == {"torn", "format", "misfiled", "checkpoint", "unreadable", "unversioned",
              "unminted", "unbound", "operation", "window"}

ASSUME DocsAssumption == IsFiniteSet(Docs) /\ Docs \subseteq Nat /\ Targets \subseteq Docs /\ Plan \in Nat \ {0}
ASSUME CallsAssumption == Calls \subseteq AllCalls /\ Faults \subseteq AllFaults
ASSUME BoundsAssumption == {MaxCalls, MaxFaults} \subseteq Nat /\ MaxServices \in Nat \ {0}
(* An envelope is misfiled as the document of another place.               *)
ASSUME PlacesAssumption == "misfiled" \in Faults => \A d \in Docs : \E other \in Docs : other # d

VARIABLES
    kept,        \* the stored bytes of each document with their version, or None
    evidence,    \* the bytes preserved for each recovery
    audit,       \* the audit records kept, in the order they were appended
    registered,  \* the service the set holds under the store's name, or None
    held,        \* each service's residency
    job,         \* what each thread is doing
    answer,      \* what each thread's last call answered
    begun,       \* the number of calls begun; a call is known by its number
    changes,     \* history: every change made to the stored bytes
    discarded    \* history: audit records before this moment were discarded

vars == <<kept, evidence, audit, registered, held, job, answer, begun, changes, discarded>>

Services == 1..MaxServices

(* Envelopes keep one retained operation, or none after a repair.          *)
Operations == [sequence: Nat, schema: Nat, sound: BOOLEAN]
Windows == {window \in Seq(Operations) : Len(window) <= 1}
Envelopes ==
    [of: Docs, schema: Nat, minted: BOOLEAN, bound: BOOLEAN, sound: BOOLEAN, readable: BOOLEAN,
     checkpoint: SUBSET Nat, sequence: Nat, compacted: Int,
     retained: Windows, generation: Nat]
Versions == [version: Nat, bytes: Envelopes \cup {Torn, OtherFormat}]
Residents == [version: Nat, envelope: Envelopes]

(* The marks are not taken for anything that is stored, held or named.     *)
ASSUME MarksAssumption ==
    /\ None \notin {Torn, OtherFormat} \cup Threads
    /\ \A mark \in {None, Torn, OtherFormat} :
          mark \notin Envelopes /\ mark \notin Versions /\ mark \notin Residents
    /\ None \notin Nat /\ None \notin [Docs -> Residents \cup {None}]

-----------------------------------------------------------------------------
(* Envelopes.  A checkpoint is the set of the operations it holds; a       *)
(* checksum is whether it still matches.                                   *)

Envelope(of, schema, checkpoint, sequence, generation, retained) ==
    [of |-> of, schema |-> schema, minted |-> TRUE, bound |-> TRUE,
     sound |-> TRUE, readable |-> TRUE, checkpoint |-> checkpoint,
     sequence |-> sequence, compacted |-> sequence - Len(retained),
     retained |-> retained, generation |-> generation]

RetainedOperation(sequence, schema) ==
    [sequence |-> sequence, schema |-> schema, sound |-> TRUE]

(* decode_envelope: JSON, in this program's format.                        *)
Decodes(bytes) == bytes \notin {Torn, OtherFormat}

(* The retained operations follow one another from where the history was   *)
(* compacted to the checkpoint, each whole and of the envelope's schema.   *)
WindowIsWhole(e) ==
    LET before(i) == IF i = 1 THEN e.compacted ELSE e.retained[i - 1].sequence
    IN /\ \A i \in DOMAIN e.retained : /\ e.retained[i].sequence > before(i)
                                       /\ e.retained[i].schema = e.schema
                                       /\ e.retained[i].sound
       /\ before(Len(e.retained) + 1) = e.sequence

(* validate_envelope, of an envelope taken as the document it names.       *)
(* Mutant: the retained operations are not looked at.                      *)
WholeUnlooked(e) ==
    e.schema # 0 /\ e.minted /\ e.sound /\ e.readable /\ e.bound
Whole(e) ==
    e.schema # 0 /\ e.minted /\ e.sound /\ e.readable /\ e.bound /\ WindowIsWhole(e)

(* validate_envelope, of an envelope taken as document d's.                *)
Valid(d, e) == e.of = d /\ Whole(e)

(* inspection_from_envelope: the document the envelope names, and whether  *)
(* it is of another schema than the plan's.                                *)
InspectionFromEnvelope(e, valid, failure) ==
    [of |-> e.of, valid |-> valid, migration |-> e.schema # Plan, failure |-> failure]

(* inspect_stored: what an operator is told of bytes kept for d.           *)
Inspection(d, bytes) ==
    IF ~Decodes(bytes)
    THEN [of |-> d, valid |-> FALSE, migration |-> FALSE,
          failure |-> IF bytes = Torn THEN "invalid_envelope_json"
                                      ELSE "collaboration_state_corrupt"]
    ELSE IF Whole(bytes) THEN InspectionFromEnvelope(bytes, TRUE, None)
    ELSE InspectionFromEnvelope(bytes, FALSE, "collaboration_state_corrupt")

(* verify, of a document whose bytes cannot be read at all.                *)
Unreadable(d) == [of |-> d, valid |-> FALSE, migration |-> FALSE,
                  failure |-> "collaboration_state_unreadable"]

(* repair: the retained operations are dropped.                            *)
Repaired(e) ==
    [e EXCEPT !.retained = <<>>, !.compacted = e.sequence, !.generation = @ + 1]

(* next_envelope of a commit of operation n, keeping one operation.        *)
Committed(d, e, n) ==
    IF e = None THEN Envelope(d, Plan, {n}, 1, 1, <<RetainedOperation(1, Plan)>>)
    ELSE Envelope(d, Plan, e.checkpoint \cup {n}, e.sequence + 1, e.generation + 1,
                  <<RetainedOperation(e.sequence + 1, Plan)>>)

-----------------------------------------------------------------------------
(* Jobs and answers.                                                       *)

Idle == [phase |-> "idle", call |-> None, doc |-> None, number |-> 0, service |-> None,
         read |-> None, left |-> {}, found |-> {}, limit |-> 0, since |-> 0, at |-> 0]

Set(t, value) == job' = [job EXCEPT ![t] = value]

(* What a call answers: `code` is "done" or what it is refused with, and   *)
(* `dispatched` whether the refusal owns that the store may have run.      *)
Answered(call, code, dispatched, result) ==
    [call |-> call.call, doc |-> call.doc, number |-> call.number, since |-> call.since,
     until |-> Len(changes), code |-> code, dispatched |-> dispatched, result |-> result]

Done(t, result) ==
    /\ Set(t, Idle)
    /\ answer' = [answer EXCEPT ![t] = Answered(job[t], "done", TRUE, result)]

(* refusals::store.  Mutant: the refusal says the store did not run.       *)
StoreRefusesEarly(t, code) ==
    /\ Set(t, Idle)
    /\ answer' = [answer EXCEPT ![t] = Answered(job[t], code, FALSE, None)]
StoreRefuses(t, code) ==
    /\ Set(t, Idle)
    /\ answer' = [answer EXCEPT ![t] = Answered(job[t], code, TRUE, None)]

(* Which refusals may be retried as they are.                              *)
Retryable == {"collaboration_commit_contended", "collaboration_repair_contended"}

(* The stored bytes of d change: what the storage port does when the       *)
(* version it keeps is the one expected.                                   *)
Change(t, d, by, bytes) ==
    /\ kept' = [kept EXCEPT ![d] =
          IF bytes = None THEN None ELSE [version |-> Len(changes) + 1, bytes |-> bytes]]
    /\ changes' = Append(changes,
          [doc |-> d, by |-> by, number |-> IF t = None THEN 0 ELSE job[t].number,
           before |-> IF kept[d] = None THEN None ELSE kept[d].bytes, after |-> bytes])

(* compare_and_swap: what is stored is what was read.  Mutant: a whole     *)
(* envelope is.                                                            *)
StillKeptWhole(d, read) ==
    \/ kept[d] = read
    \/ None \notin {kept[d], read} /\ Decodes(kept[d].bytes) /\ Valid(d, kept[d].bytes)
StillKept(d, read) == kept[d] = read

-----------------------------------------------------------------------------
(* A call begins.  The set of stores gives out the service registered; a   *)
(* grant that maps to no principal, a store the set does not hold and an   *)
(* audit of half a document are refused before the store runs.             *)

Audited(call) == call \in Recoveries

FirstPhase(call) ==
    CASE Audited(call) -> "audit"
      [] call \in {"list", "inspect"} -> "sources"
      [] call = "store_or_register" -> "look_up"
      [] OTHER -> "read"

Arrived(t, call, d, limit) ==
    [Idle EXCEPT !.call = call, !.doc = d, !.number = begun + 1,
                 !.limit = limit, !.since = Len(changes)]

Begin(t, call, d, limit) ==
    /\ begun < MaxCalls /\ job[t].phase = "idle"
    /\ begun' = begun + 1
    /\ call # "store_or_register" => registered # None
    /\ Set(t, [Arrived(t, call, d, limit) EXCEPT
                   !.phase = FirstPhase(call),
                   !.service = IF call = "store_or_register" THEN None ELSE registered])
    /\ answer' = [answer EXCEPT ![t] = None]
    /\ UNCHANGED <<kept, evidence, audit, registered, held, changes, discarded>>

(* ... or is refused by principal, by Context::store or for its input.     *)
TurnedFor(call) ==
    {"unauthenticated"} \cup (IF call = "audit" THEN {"invalid_params"} ELSE {})
                        \cup (IF registered = None THEN {"not_found"} ELSE {})

Turned(t, call, d) ==
    /\ begun < MaxCalls /\ job[t].phase = "idle"
    /\ begun' = begun + 1
    /\ \E code \in TurnedFor(call) :
          answer' = [answer EXCEPT ![t] = Answered(Arrived(t, call, d, 0), code, FALSE, None)]
    /\ UNCHANGED <<kept, evidence, audit, registered, held, job, changes, discarded>>

-----------------------------------------------------------------------------
(* CollaborationStores.                                                    *)

MadeServices == {s \in Services : held[s] # None}
NextService == Cardinality(MadeServices) + 1

(* A service is made with nothing held, over the envelopes there are.      *)
Make(s) == /\ s \in Services
           /\ registered' = s
           /\ held' = [held EXCEPT ![s] = [d \in Docs |-> None]]

(* register refuses a name the set holds.                                  *)
Register ==
    /\ registered = None
    /\ Make(NextService)
    /\ UNCHANGED <<kept, evidence, audit, job, answer, begun, changes, discarded>>

(* store_or_register looks the name up, and only then takes the lock it    *)
(* registers under.                                                        *)
LookUp(t) ==
    /\ job[t].phase = "look_up"
    /\ \/ registered # None /\ Done(t, registered)
       \/ /\ registered = None
          /\ Set(t, [job[t] EXCEPT !.phase = "insert"])
          /\ UNCHANGED answer
    /\ UNCHANGED <<kept, evidence, audit, registered, held, begun, changes, discarded>>

(* The name is looked up again under the lock.                             *)
Insert(t) ==
    /\ job[t].phase = "insert"
    /\ \/ registered # None /\ Done(t, registered) /\ UNCHANGED <<registered, held>>
       \/ registered = None /\ Make(NextService) /\ Done(t, NextService)
    /\ UNCHANGED <<kept, evidence, audit, begun, changes, discarded>>

(* The envelopes stay where they are, and a call that holds the service    *)
(* goes on with it.                                                        *)
Forget ==
    /\ registered # None /\ NextService \in Services
    /\ registered' = None
    /\ UNCHANGED <<kept, evidence, audit, held, job, answer, begun, changes, discarded>>

-----------------------------------------------------------------------------
(* Reading through the residency.                                          *)

(* What service s makes of the bytes kept for d, taken as d's envelope or, *)
(* in a list, as the envelope they name.  What s holds of those very bytes *)
(* is served without being judged again.                                   *)
Resident(s, d, listed) ==
    LET stored == kept[d]
        here == held[s][d]
    IN IF stored = None THEN None
       ELSE IF here # None /\ here.version = stored.version THEN here
       ELSE IF Decodes(stored.bytes) /\ (IF listed THEN Whole(stored.bytes) ELSE Valid(d, stored.bytes))
            THEN [version |-> stored.version, envelope |-> stored.bytes]
       ELSE Torn

Hold(s, d, resident) ==
    held' = [held EXCEPT ![s][d] = IF resident = Torn THEN @ ELSE resident]

(* read_document: the envelope, and the replica its plan builds of it.     *)
Get(t) ==
    LET d == job[t].doc
        resident == Resident(job[t].service, d, FALSE)
    IN /\ job[t].phase = "read" /\ job[t].call = "get"
       /\ Hold(job[t].service, d, resident)
       /\ CASE resident = None -> StoreRefuses(t, "collaboration_document_not_found")
            [] resident = Torn -> StoreRefuses(t, "collaboration_state_corrupt")
            [] resident \notin {None, Torn} /\ resident.envelope.schema # Plan
                 -> StoreRefuses(t, "collaboration_migration_required")
            [] OTHER -> Done(t, resident.envelope)
       /\ UNCHANGED <<kept, evidence, audit, registered, begun, changes, discarded>>

(* A commit reads the document, and swaps in the next envelope.            *)
ReadToCommit(t) ==
    LET d == job[t].doc
        resident == Resident(job[t].service, d, FALSE)
    IN /\ job[t].phase = "read" /\ job[t].call = "commit"
       /\ Hold(job[t].service, d, resident)
       /\ CASE resident = Torn -> StoreRefuses(t, "collaboration_state_corrupt")
            [] resident \notin {None, Torn} /\ resident.envelope.schema # Plan
                 -> StoreRefuses(t, "collaboration_migration_required")
            [] OTHER -> /\ Set(t, [job[t] EXCEPT !.phase = "swap", !.read = kept[d],
                                     !.found = IF resident = None THEN {} ELSE {resident.envelope}])
                        /\ UNCHANGED answer
       /\ UNCHANGED <<kept, evidence, audit, registered, begun, changes, discarded>>

(* swap: what is stored is held as well.                                   *)
SwapIn(t, d, by, e) ==
    /\ Change(t, d, by, e)
    /\ held' = [held EXCEPT ![job[t].service][d] = [version |-> Len(changes) + 1, envelope |-> e]]

SwapCommit(t) ==
    LET d == job[t].doc
        current == IF job[t].found = {} THEN None ELSE CHOOSE e \in job[t].found : TRUE
        next == Committed(d, current, job[t].number)
    IN /\ job[t].phase = "swap" /\ job[t].call = "commit"
       /\ \/ /\ StillKept(d, job[t].read)
             /\ SwapIn(t, d, "commit", next)
             /\ Done(t, next)
          \/ /\ ~StillKept(d, job[t].read)
             /\ StoreRefuses(t, "collaboration_commit_contended")
             /\ UNCHANGED <<kept, changes, held>>
       /\ UNCHANGED <<evidence, audit, registered, begun, discarded>>

-----------------------------------------------------------------------------
(* summaries, inspect and reindex go through the sources there were when   *)
(* they asked, one by one.                                                 *)

FirstOf(sources, n) == {d \in sources : Cardinality({e \in sources : e < d}) < n}

(* The sources to read, and whether more exist.                            *)
Truncated(sources, limit) == Cardinality(sources) > limit

Sources(t) ==
    LET sources == {d \in Docs : kept[d] # None}
        limit == IF job[t].call = "inspect" THEN job[t].limit ELSE Cardinality(Docs)
    IN /\ job[t].phase = "sources"
       /\ Set(t, [job[t] EXCEPT !.phase = "each", !.left = FirstOf(sources, limit),
                                !.limit = IF Truncated(sources, limit) THEN 1 ELSE 0])
       /\ UNCHANGED <<kept, evidence, audit, registered, held, answer, begun, changes, discarded>>

Next1(sources) == CHOOSE d \in sources : \A e \in sources : d <= e

(* A source that is gone by now is passed over.  In a list, one that is    *)
(* corrupt fails it.                                                       *)
ListNext(t) ==
    LET d == Next1(job[t].left)
        resident == Resident(job[t].service, d, TRUE)
    IN /\ job[t].phase = "each" /\ job[t].left # {} /\ job[t].call = "list"
       /\ Hold(job[t].service, d, resident)
       /\ \/ /\ resident = Torn
             /\ StoreRefuses(t, "internal_error")
          \/ /\ resident # Torn
             /\ Set(t, [job[t] EXCEPT !.left = @ \ {d},
                           !.found = @ \cup (IF resident = None THEN {} ELSE {[at |-> d]})])
             /\ UNCHANGED answer
       /\ UNCHANGED <<kept, evidence, audit, registered, begun, changes, discarded>>

InspectNext(t) ==
    LET d == Next1(job[t].left)
    IN /\ job[t].phase = "each" /\ job[t].left # {} /\ job[t].call \in {"inspect", "reindex"}
       /\ Set(t, [job[t] EXCEPT !.left = @ \ {d},
                     !.found = @ \cup (IF kept[d] = None THEN {}
                                       ELSE {[at |-> d, is |-> Inspection(d, kept[d].bytes)]})])
       /\ UNCHANGED <<kept, evidence, audit, registered, held, answer, begun, changes, discarded>>

EndOfSources(t) ==
    /\ job[t].phase = "each" /\ job[t].left = {}
    /\ Done(t, [found |-> {f.at : f \in job[t].found}, truncated |-> job[t].limit = 1])
    /\ UNCHANGED <<kept, evidence, audit, registered, held, begun, changes, discarded>>

Verify(t) ==
    LET d == job[t].doc
    IN /\ job[t].phase = "read" /\ job[t].call = "verify"
       /\ Done(t, [is |-> IF kept[d] = None THEN Unreadable(d) ELSE Inspection(d, kept[d].bytes),
                   bytes |-> IF kept[d] = None THEN None ELSE kept[d].bytes])
       /\ UNCHANGED <<kept, evidence, audit, registered, held, begun, changes, discarded>>

-----------------------------------------------------------------------------
(* The recoveries.                                                         *)

(* audit_recovery_request: on record before anything is done.  audit_request *)
(* reads the clock for the record ...                                      *)
Audit(t) ==
    /\ job[t].phase = "audit"
    /\ Set(t, [job[t] EXCEPT !.phase = "append", !.at = begun])
    /\ UNCHANGED <<kept, evidence, audit, registered, held, answer, begun, changes, discarded>>

(* ... and the storage port appends it: records of recoveries that race    *)
(* may stand in another order than their times.                            *)
AppendAudit(t) ==
    /\ job[t].phase = "append"
    /\ audit' = Append(audit, [number |-> job[t].number, at |-> job[t].at, action |-> job[t].call,
                               doc |-> IF job[t].call = "reindex" THEN None ELSE job[t].doc,
                               destructive |-> job[t].call = "reset"])
    /\ Set(t, [job[t] EXCEPT !.phase = IF job[t].call = "reindex" THEN "sources" ELSE "read"])
    /\ UNCHANGED <<kept, evidence, registered, held, answer, begun, changes, discarded>>

Export(t) ==
    LET stored == kept[job[t].doc]
    IN /\ job[t].phase = "read" /\ job[t].call = "export"
       /\ IF stored = None THEN StoreRefuses(t, "not_found") ELSE Done(t, stored.bytes)
       /\ UNCHANGED <<kept, evidence, audit, registered, held, begun, changes, discarded>>

ReadToQuarantine(t) ==
    LET stored == kept[job[t].doc]
    IN /\ job[t].phase = "read" /\ job[t].call = "quarantine"
       /\ IF stored = None THEN StoreRefuses(t, "not_found")
          ELSE /\ Set(t, [job[t] EXCEPT !.phase = "preserve", !.read = stored])
               /\ UNCHANGED answer
       /\ UNCHANGED <<kept, evidence, audit, registered, held, begun, changes, discarded>>

(* repair takes an envelope that parses and whose checkpoint is sound.     *)
ReadToRepair(t) ==
    LET stored == kept[job[t].doc]
    IN /\ job[t].phase = "read" /\ job[t].call = "repair"
       /\ CASE stored = None -> StoreRefuses(t, "not_found")
            [] stored # None /\ ~(Decodes(stored.bytes) /\ stored.bytes.sound)
                 -> StoreRefuses(t, "collaboration_state_corrupt")
            [] OTHER -> /\ Set(t, [job[t] EXCEPT !.phase = "preserve", !.read = stored])
                        /\ UNCHANGED answer
       /\ UNCHANGED <<kept, evidence, audit, registered, held, begun, changes, discarded>>

(* The bytes preserved.  Mutant: the envelope as it will be stored.        *)
PreservedRepaired(t) ==
    IF job[t].call = "repair" THEN Repaired(job[t].read.bytes) ELSE job[t].read.bytes
Preserved(t) == job[t].read.bytes

Preserve(t) ==
    /\ job[t].phase = "preserve"
    /\ evidence' = evidence \cup {[number |-> job[t].number, doc |-> job[t].doc,
                                   bytes |-> Preserved(t)]}
    /\ \/ /\ job[t].call = "quarantine"
          /\ Done(t, None)
       \/ /\ job[t].call = "repair"
          /\ Set(t, [job[t] EXCEPT !.phase = "swap"])
          /\ UNCHANGED answer
    /\ UNCHANGED <<kept, audit, registered, held, begun, changes, discarded>>

SwapRepaired(t) ==
    LET d == job[t].doc
        next == Repaired(job[t].read.bytes)
    IN /\ job[t].phase = "swap" /\ job[t].call = "repair"
       /\ \/ /\ ~Valid(d, next)
             /\ StoreRefuses(t, "collaboration_state_corrupt")
             /\ UNCHANGED <<kept, changes, held>>
          \/ /\ Valid(d, next) /\ StillKept(d, job[t].read)
             /\ SwapIn(t, d, "repair", next)
             /\ Done(t, next)
          \/ /\ Valid(d, next) /\ ~StillKept(d, job[t].read)
             /\ StoreRefuses(t, "collaboration_repair_contended")
             /\ UNCHANGED <<kept, changes, held>>
       /\ UNCHANGED <<evidence, audit, registered, begun, discarded>>

(* delete, as reset asks for it: what is stored is read and removed,       *)
(* whatever it holds, until it is gone.                                    *)
ReadToReset(t) ==
    LET stored == kept[job[t].doc]
    IN /\ job[t].phase = "read" /\ job[t].call = "reset"
       /\ IF stored = None THEN Done(t, None)
          ELSE /\ Set(t, [job[t] EXCEPT !.phase = "remove", !.read = stored])
               /\ UNCHANGED answer
       /\ UNCHANGED <<kept, evidence, audit, registered, held, begun, changes, discarded>>

(* What a removal that lost its race does.                                 *)
TryAgain(t) == Set(t, [job[t] EXCEPT !.phase = "read"]) /\ UNCHANGED answer

Remove(t) ==
    LET d == job[t].doc
    IN /\ job[t].phase = "remove"
       /\ \/ /\ kept[d] = job[t].read
             /\ Change(t, d, "reset", None)
             /\ held' = [held EXCEPT ![job[t].service][d] = None]
             /\ Done(t, None)
          \/ /\ kept[d] # job[t].read
             /\ TryAgain(t)
             /\ UNCHANGED <<kept, changes, held>>
       /\ UNCHANGED <<evidence, audit, registered, begun, discarded>>

(* CollaborationAuditQuery::selects, of the records of one document.       *)
Selects(query, record) == query.doc = record.doc /\ record.at >= query.from

AuditQuery(t) ==
    LET query == [doc |-> job[t].doc, from |-> job[t].limit]
        selected == {i \in DOMAIN audit : Selects(query, audit[i])}
    IN /\ job[t].phase = "read" /\ job[t].call = "audit"
       /\ Done(t, [numbers |-> {audit[i].number : i \in selected},
                   from |-> IF query.from < discarded THEN discarded ELSE query.from])
       /\ UNCHANGED <<kept, evidence, audit, registered, held, begun, changes, discarded>>

(* discard_audit_before: records from before the cutoff are discarded, and *)
(* the rest stay in their order.  None is from before the first call, so   *)
(* that a cutoff there would discard nothing.                              *)
From(cutoff, record) == record.at >= cutoff

DiscardAudit(cutoff) ==
    /\ discarded < cutoff /\ cutoff <= begun
    /\ LET places == {i \in DOMAIN audit : From(cutoff, audit[i])}
       IN \E place \in [1..Cardinality(places) -> places] :
             /\ \A i \in DOMAIN place : \A j \in DOMAIN place : i < j => place[i] < place[j]
             /\ \A p \in places : \E i \in DOMAIN place : place[i] = p
             /\ audit' = [i \in DOMAIN place |-> audit[place[i]]]
    /\ discarded' = cutoff
    /\ UNCHANGED <<kept, evidence, registered, held, job, answer, begun, changes>>

-----------------------------------------------------------------------------
(* What the service does not do: a thread's call fails where the storage   *)
(* port does, and storage goes wrong.                                      *)

Fail(t) ==
    /\ job[t].phase # "idle"
    /\ Set(t, Idle)
    /\ UNCHANGED <<kept, evidence, audit, registered, held, answer, begun, changes, discarded>>

Damaged(e, fault, d) ==
    CASE fault = "torn" -> Torn
      [] fault = "format" -> OtherFormat
      [] fault = "misfiled" -> [e EXCEPT !.of = CHOOSE other \in Docs : other # d]
      [] fault = "checkpoint" -> [e EXCEPT !.sound = FALSE]
      [] fault = "unreadable" -> [e EXCEPT !.readable = FALSE]
      [] fault = "unversioned" -> [e EXCEPT !.schema = 0]
      [] fault = "unminted" -> [e EXCEPT !.minted = FALSE]
      [] fault = "unbound" -> [e EXCEPT !.bound = FALSE]
      [] fault = "operation" -> [e EXCEPT !.retained[1].sound = FALSE]
      [] fault = "window" -> [e EXCEPT !.compacted = e.sequence]

Damage(d, fault) ==
    /\ Cardinality({i \in DOMAIN changes : changes[i].by = "fault"}) < MaxFaults
    /\ kept[d] # None /\ Decodes(kept[d].bytes) /\ Valid(d, kept[d].bytes)
    /\ fault \in {"operation", "window"} => kept[d].bytes.retained # <<>>
    /\ Change(None, d, "fault", Damaged(kept[d].bytes, fault, d))
    /\ UNCHANGED <<evidence, audit, registered, held, job, answer, begun, discarded>>

-----------------------------------------------------------------------------
(* A store in use: only its first document is stored, or all are and the   *)
(* first is still of the schema before the deployed one, if there was one. *)
Stored(d, schema) ==
    [version |-> 0, bytes |-> Envelope(d, schema, {0}, 2, 2, <<RetainedOperation(2, schema)>>)]

Init ==
    /\ \/ kept = [d \in Docs |-> IF d = Next1(Docs) THEN Stored(d, Plan) ELSE None]
       \/ /\ Plan > 1
          /\ kept = [d \in Docs |-> IF d = Next1(Docs) THEN Stored(d, Plan - 1)
                                                       ELSE Stored(d, Plan)]
    /\ evidence = {} /\ audit = <<>>
    /\ registered \in {1, None}
    /\ held = [s \in Services |-> IF s = registered THEN [d \in Docs |-> None] ELSE None]
    /\ job = [t \in Threads |-> Idle]
    /\ answer = [t \in Threads |-> None]
    /\ begun = 0 /\ changes = <<>> /\ discarded = 0

Wide == {"list", "reindex", "inspect", "store_or_register"}

BeginSome(t) ==
    \/ \E call \in Calls \ Wide, d \in Targets : Turned(t, call, d)
    \/ \E call \in Calls \ Wide, d \in Targets :
          \E from \in (IF call = "audit" THEN 0..begun ELSE {0}) : Begin(t, call, d, from)
    \/ \E call \in (Calls \cap Wide) \ {"inspect"} : Begin(t, call, None, 0)
    \/ "inspect" \in Calls /\ \E limit \in 0..Cardinality(Docs) : Begin(t, "inspect", None, limit)

Step(t) ==
    \/ BeginSome(t) \/ LookUp(t) \/ Insert(t)
    \/ Get(t) \/ ReadToCommit(t) \/ SwapCommit(t)
    \/ Sources(t) \/ ListNext(t) \/ InspectNext(t) \/ EndOfSources(t) \/ Verify(t)
    \/ Audit(t) \/ AppendAudit(t) \/ AuditQuery(t)
    \/ Export(t) \/ ReadToQuarantine(t) \/ ReadToRepair(t) \/ Preserve(t)
    \/ SwapRepaired(t) \/ ReadToReset(t) \/ Remove(t) \/ Fail(t)

Next == \/ \E t \in Threads : Step(t)
        \/ Register \/ Forget
        \/ \E cutoff \in 2..MaxCalls : DiscardAudit(cutoff)
        \/ \E d \in Targets, fault \in Faults : Damage(d, fault)

Spec == Init /\ [][Next]_vars

-----------------------------------------------------------------------------
(* Properties.                                                             *)

Bytes(d) == IF kept[d] = None THEN None ELSE kept[d].bytes

(* Every document is kept under a version of its own, every call in        *)
(* progress holds a service, and what it holds of a document it read.      *)
TypeOK ==
    /\ \A d \in Docs : kept[d] # None => kept[d].version \in 0..Len(changes)
    /\ registered \in Services \cup {None}
    /\ begun \in 0..MaxCalls /\ discarded \in 0..begun
    /\ \A t \in Threads :
          /\ job[t].number \in 0..begun /\ job[t].left \subseteq Docs
          /\ job[t].phase \notin {"idle", "look_up", "insert"}
                => job[t].service \in Services /\ held[job[t].service] # None
          /\ job[t].phase \in {"preserve", "remove"} => job[t].read # None

(* Bytes a fault left are never replaced by a commit: they are refused as  *)
(* corrupt, whatever the fault, until an operator repairs or resets them   *)
(* (corrupt_state: "authoritative state was not replaced").  Left aside    *)
(* are the bytes of another document, which a commit that finds them held  *)
(* takes for its document's.                                               *)
FaultsKept ==
    \A i \in DOMAIN changes :
        changes[i].by = "commit" /\ changes[i].before # None =>
            \/ \A j \in 1..(i - 1) :
                  changes[j].doc = changes[i].doc /\ changes[j].by = "fault"
                      => changes[j].after # changes[i].before
            \/ Decodes(changes[i].before) /\ changes[i].before.of # changes[i].doc

(* A repair replaces exactly the bytes it preserved as evidence, though    *)
(* commits, faults and other repairs come between its steps, and leaves    *)
(* the checkpoint as it was; it is refused as corrupt only where more is   *)
(* wrong than the retained operations it drops.                            *)
RepairMends ==
    /\ \A i \in DOMAIN changes : changes[i].by = "repair" =>
          /\ [number |-> changes[i].number, doc |-> changes[i].doc, bytes |-> changes[i].before]
                \in evidence
          /\ changes[i].after.checkpoint = changes[i].before.checkpoint
    /\ \A t \in Threads :
          answer[t] # None /\ answer[t].call = "repair"
              /\ answer[t].code = "collaboration_state_corrupt" =>
          \E i \in DOMAIN changes :
              /\ changes[i].doc = answer[t].doc /\ changes[i].by = "fault"
              /\ ~ /\ Decodes(changes[i].after) /\ changes[i].after.of = changes[i].doc
                   /\ changes[i].after.sound /\ changes[i].after.readable
                   /\ changes[i].after.minted /\ changes[i].after.bound
                   /\ changes[i].after.schema # 0

(* A commit that was acknowledged stays in the document through every      *)
(* commit and repair that raced with it, until a reset or a fault.         *)
CommitsKept ==
    \A i \in DOMAIN changes :
        changes[i].by = "commit"
            /\ (\A j \in (i + 1)..Len(changes) :
                    changes[j].doc = changes[i].doc => changes[j].by \in {"commit", "repair"})
        => Bytes(changes[i].doc) # None
           /\ changes[i].number \in Bytes(changes[i].doc).checkpoint

(* What an operator asks the audit for tells every recovery of the         *)
(* document that had an effect by then: no repair, reset or preserved      *)
(* envelope of the time asked for is missing, unless it was discarded,     *)
(* though the clock is read before the record is appended, and discards    *)
(* come between.                                                           *)
AuditTells ==
    \A t \in Threads :
        answer[t] # None /\ answer[t].call = "audit" /\ answer[t].code = "done" =>
        \A i \in 1..answer[t].until :
            (/\ changes[i].doc = answer[t].doc
             /\ changes[i].by \in {"repair", "reset"}
             /\ changes[i].number >= answer[t].result.from)
            => changes[i].number \in answer[t].result.numbers

(* Whether document d was stored after the first n changes.                *)
StoredAt(d, n) ==
    \/ kept[d] # None /\ \A i \in (n + 1)..Len(changes) : changes[i].doc # d
    \/ \E i \in (n + 1)..Len(changes) :
          /\ changes[i].doc = d /\ changes[i].before # None
          /\ \A j \in (n + 1)..(i - 1) : changes[j].doc # d

(* A list, an inspection or a reindex that does not say more exist has     *)
(* every document that was stored from before it began until it answered;  *)
(* one that says so leaves out a document that was stored meanwhile.       *)
NoneOverlooked ==
    \A t \in Threads :
        answer[t] # None /\ answer[t].call \in {"list", "inspect", "reindex"}
            /\ answer[t].code = "done" =>
        /\ answer[t].result.truncated =>
              \E d \in Docs \ answer[t].result.found :
                  \E n \in answer[t].since..answer[t].until : StoredAt(d, n)
        /\ ~answer[t].result.truncated =>
              \A d \in Docs : (\A n \in answer[t].since..answer[t].until : StoredAt(d, n))
                  => d \in answer[t].result.found

(* A refusal is the truth: the refused call changed no document; one said  *)
(* not to be dispatched left no audit record and no evidence either; and a *)
(* call refused as contended was overtaken by another.                     *)
RefusalsAreTrue ==
    \A t \in Threads : answer[t] # None /\ answer[t].code # "done" =>
        /\ \A i \in DOMAIN changes : changes[i].number # answer[t].number
        /\ ~answer[t].dispatched =>
              /\ \A i \in DOMAIN audit : audit[i].number # answer[t].number
              /\ \A v \in evidence : v.number # answer[t].number
        /\ answer[t].code \in Retryable =>
              \E i \in (answer[t].since + 1)..answer[t].until : changes[i].doc = answer[t].doc

(* When a reset answers, the document was gone at some moment of the call, *)
(* however many writers raced with it.                                     *)
ResetRemoves ==
    \A t \in Threads :
        answer[t] # None /\ answer[t].call = "reset" /\ answer[t].code = "done" =>
            \/ \E i \in DOMAIN changes : changes[i].number = answer[t].number
            \/ \E n \in answer[t].since..answer[t].until : ~StoredAt(answer[t].doc, n)

(* What callers and operators are told is true of what happened, though    *)
(* other calls, commits and faults came between a call's steps: refusals,  *)
(* removals, the documents a listing leaves out and the audit's records.   *)
AnswersAreTrue == RefusalsAreTrue /\ ResetRemoves /\ NoneOverlooked /\ AuditTells

=============================================================================
