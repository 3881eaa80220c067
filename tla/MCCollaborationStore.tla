------------------------ MODULE MCCollaborationStore ------------------------
(***************************************************************************)
(* CollaborationStore for TLC.  Threads, principals and operation ids are  *)
(* interchangeable.  The views leave out what neither an action nor a      *)
(* property of the run reads.                                              *)
(***************************************************************************)
EXTENDS CollaborationStore, TLC

Symmetry == Permutations(Threads) \cup Permutations(Principals) \cup Permutations(Ids)

(* The operations something still refers to.                               *)
CheckpointOf(envelope) == IF envelope = None THEN {} ELSE envelope.checkpoint
InRequest(r) ==
    IF r = None THEN {}
    ELSE r.base \cup r.update \cup (IF r.fence = None THEN {} ELSE r.fence)
Live ==
    {1} \cup CheckpointOf(stored) \cup UNION {InRequest(r) : r \in sent}
        \cup UNION {InRequest(job[t].request) \cup job[t].history
                    \cup CheckpointOf(job[t].read) \cup CheckpointOf(job[t].of) : t \in Threads}
LiveOperations ==
    [n \in DOMAIN operations |-> IF n \in Live THEN operations[n] ELSE None]

(* For runs with no property of the feed, of the answers given, of when a  *)
(* change was made or of how often a request was attempted; of the changes *)
(* made they read whether one removed the document.                        *)
EditView ==
    <<stored, plan, LiveOperations, minted, sent, Len(changes), NeverRemoved,
      [t \in Threads |-> [job[t] EXCEPT !.since = 0]]>>

(* The same with what the audit record is compared with.                   *)
AuditView ==
    <<EditView, audit, {id \in Ids : answers[id] = Refused},
      {changes[k].call : k \in DOMAIN changes} \cap {"repair", "reset"}>>

=============================================================================
