------------------------- MODULE MCProjectionServer -------------------------
(***************************************************************************)
(* ProjectionServer for TLC.  Connections are interchangeable.  The view   *)
(* leaves out what no guard and no property reads: revisions; of the       *)
(* publications every connection has passed all but their modifications;   *)
(* and what is left behind by connections that ended, whose properties     *)
(* their last step does not touch.                                         *)
(***************************************************************************)
EXTENDS ProjectionServer, FiniteSetsExt, TLC

Symmetry == Permutations(Connections)

Receiving == {c \in Connections : phase[c] \in {"admitting", "select", "mutating", "lagging"}}
Ended(c) == phase[c] \in {"refused", "broken", "closed"}
Passed == Min({next[c] : c \in Receiving} \cup {Last + 1}) - 1

View ==
    <<saved, unpublished, Last, {publications[i].modification : i \in 1..Passed},
      SubSeq(publications, Passed + 1, Last), commands, permits, lifecycle, closingAt,
      phase, made, running, ran, lag, frames,
      [c \in Connections |->
          IF Ended(c) THEN <<>>
          ELSE <<next[c], opened[c],
                 [s \in DOMAIN subs[c] |-> [subs[c][s] EXCEPT !.revision = 0]]>>]>>

=============================================================================
