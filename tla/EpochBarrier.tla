---------------------------- MODULE EpochBarrier ----------------------------
(***************************************************************************)
(* A barrier that is used again and again: player_sync of mc_rand_walk.c   *)
(* and sync_barrier of mc_util.h both promise it.  arrived[c] and left[c]  *)
(* count the times core c has come to the barrier and gone past it.        *)
(***************************************************************************)
EXTENDS Integers

CONSTANTS
  NumCores,
  Rounds                \* how many times each core comes to the barrier

Cores == 0 .. NumCores - 1

VARIABLES arrived, left

vars == <<arrived, left>>

Init ==
  /\ arrived = [c \in Cores |-> 0]
  /\ left = [c \in Cores |-> 0]

Arrive(c) ==
  /\ left[c] = arrived[c]
  /\ arrived[c] < Rounds
  /\ arrived' = [arrived EXCEPT ![c] = @ + 1]
  /\ UNCHANGED left

Leave(c) ==
  /\ left[c] < arrived[c]
  /\ \A d \in Cores : arrived[c] <= arrived[d]
  /\ left' = [left EXCEPT ![c] = @ + 1]
  /\ UNCHANGED arrived

Next == \E c \in Cores : Arrive(c) \/ Leave(c)

Spec == Init /\ [][Next]_vars

\* Nobody is left behind: a core that may leave the barrier does.
FairSpec == Spec /\ \A c \in Cores : WF_vars(Arrive(c)) /\ WF_vars(Leave(c))
=============================================================================
