-------------------------- MODULE MCCheckpointVotes --------------------------
(* Instances of CheckpointVotes: two chains of checkpoints, one of each at  *)
(* every index, and one of a later index that only the faulty vote for.     *)
EXTENDS CheckpointVotes, TLC

CONSTANTS v1, v2, v3, a1, a2, a3, b1, b2, b3, far

IndexOf == [c \in Checkpoint \cup {None} |->
                CASE c = None -> 0
                  [] c \in {a1, b1} -> 1
                  [] c \in {a2, b2} -> 2
                  [] c \in {a3, b3} -> 3
                  [] c = far -> 4]

PrevOf == [c \in Checkpoint |->
                CASE c \in {a1, b1, far} -> None
                  [] c = a2 -> a1
                  [] c = b2 -> b1
                  [] c = a3 -> a2
                  [] c = b3 -> b2]

FourSeats == 1..4
MajorHolder == <<v1, v1, v1, v2>>    \* v1 alone is a quorum
HeavyHolder == <<v1, v2, v3, v3>>   \* v3 and any other are a quorum
=============================================================================
