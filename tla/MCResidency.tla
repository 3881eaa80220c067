---------------------------- MODULE MCResidency ----------------------------
(***************************************************************************)
(* Residency for TLC.  The fingerprint leaves out what no action and no    *)
(* property reads: the name of a slot (who refers to it stands for it),    *)
(* residents nothing refers to, and contents older than every read.        *)
(***************************************************************************)
EXTENDS Residency, FiniteSetsExt, TLC

Referrers(s) ==
    [held |-> s = held,
     got |-> {t \in Threads : got[t] = s},
     earlier |-> {t \in Threads : earlier[t] = s}]

Oldest == Min({Len(log)} \cup {start[t] : t \in {u \in Threads : pc[u] # "idle"}})

View ==
    <<Len(log), SubSeq(log, Oldest, Len(log)),
      {<<Referrers(s), heap[s]>> : s \in Referenced \ {None}},
      gauge, pc, call, stamp, result, start>>

Symmetry == Permutations(Threads) \cup Permutations(Checkpoints)

=============================================================================
