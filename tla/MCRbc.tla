-------------------------------- MODULE MCRbc --------------------------------
(* Instances of Rbc for TLC. *)
EXTENDS Rbc, TLC

CONSTANTS v1, v2, v3, v4, d1, d2

(* Four members of one seat each; a seat is named by its holder. *)
FlatHolder == [v \in {v1, v2, v3, v4} |-> v]

(* Seven seats over three members: 2, 2 and 3. *)
SevenSeats == 1..7
SevenHolder == <<v1, v1, v2, v2, v3, v3, v3>>

(* Four seats over three members: 2, 1 and 1. *)
FourSeats == 1..4
FourHolder == <<v1, v1, v2, v3>>

(* All that the faulty members can say. *)
AllFaulty == [from : Byzantine, kind : Kind, digest : Digest]

(* A one-seat broadcaster weighs nothing in the tallies of ECHO, VOTE and *)
(* ACK, so only its READYs are worth hearing.                             *)
FaultyReady == [from : Byzantine, kind : {"Ready"}, digest : Digest]

(* All but its VOTEs, which count towards ACKs only, as its ECHOs do too. *)
FaultyButVote == [from : Byzantine, kind : Kind \ {"Vote"}, digest : Digest]

(* Its ECHOs and READYs alone. *)
FaultyEnds == [from : Byzantine, kind : {"Echo", "Ready"}, digest : Digest]

DigestSymmetry == Permutations({d1, d2})
FlatSymmetry == DigestSymmetry \cup Permutations(Validator \ {Author})

(***************************************************************************)
(* A state without the tallies no later step reads: two states that differ *)
(* in nothing else have the same future, up to such tallies, and the same  *)
(* truth of every invariant checked.                                       *)
(***************************************************************************)
View == <<[i \in Honest |->
             <<inst[i].proposed, inst[i].delivered, [k \in Kind |->
                  IF Read(i, k) THEN inst[i].got[k] ELSE <<inst[i].got[k][i]>>]>>],
          journal, wire, own, output, crashes>>
=============================================================================
