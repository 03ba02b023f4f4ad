---------------------------- MODULE MCCommitRule ----------------------------
(* Small committees and leader tables for CommitRule. *)
EXTENDS CommitRule, TLC

CONSTANTS a, b, c, s1, s2, s3, s4

(* Three seats and one: the major member is a quorum by itself. *)
MajorHolder == s1 :> a @@ s2 :> a @@ s3 :> a @@ s4 :> b

(* Two seats, one and one: a and either other are a quorum. *)
PairHolder == s1 :> a @@ s2 :> a @@ s3 :> b @@ s4 :> c

(* One leader a round, the smaller member in all but round 1. *)
DrawOne(o, r, k) == IF r = 1 THEN a ELSE b

(* The first checkpoint hands the rounds it releases to the other member. *)
DrawSwapped(o, r, k) == IF (r = 1) = (o = <<>>) THEN a ELSE b

Never(o) == FALSE
AtFirst(o) == Len(o) = 1
AtEvery(o) == TRUE
AtSecond(o) == Len(o) = 2

(* The faulty member shows support for everyone, and delivers none for b. *)
ShowAll == {Validator}
LeaveOutB == {Validator \ {b}}

(* Without restarts the journal and what was executed follow from the rest;  *)
(* a first proposal counts only until its vertex is delivered.               *)
Undelivered == [i \in Honest |-> [p \in Position \ dag[i] |-> first[i][p]]]
Silent == {i \in Honest : first[i] = NoProposal}
View == <<strong, past, dag, Undelivered, Silent, round, decided, halted>>
RestartView == <<View, journal, replay, resuming, executed, counts>>
=============================================================================
