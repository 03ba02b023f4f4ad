------------------------------ MODULE Committee ------------------------------
(***************************************************************************)
(* The committee of one epoch and the thresholds counted in its seats      *)
(* (crates/tenzro-finality/src/committee.rs).                              *)
(*                                                                         *)
(* A member's weight is the number of seats it holds.  Seats are elements  *)
(* of a finite set and Holder names each seat's member, so the weight of a *)
(* set of members is the cardinality of the set of their seats.            *)
(***************************************************************************)
EXTENDS Integers, FiniteSets

CONSTANTS Validator,    \* the members of the committee
          Seat,         \* the seats the stake is apportioned into
          Holder        \* the member that holds each seat

(***************************************************************************)
(* from_members refuses an empty committee and a member without a seat.    *)
(***************************************************************************)
ASSUME CommitteeAssumption ==
    /\ IsFiniteSet(Seat)
    /\ IsFiniteSet(Validator)
    /\ Validator # {}
    /\ Holder \in [Seat -> Validator]
    /\ \A v \in Validator : \E s \in Seat : Holder[s] = v

SeatsOf(S) == {s \in Seat : Holder[s] \in S}

(* The weight a SeatSet holding the members S reports. *)
Weight(S) == Cardinality(SeatsOf(S))

div_ceil(a, b) == (a + b - 1) \div b

size == Cardinality(Validator)
total_seats == Cardinality(Seat)
max_faulty == (total_seats - 1) \div 3
quorum == total_seats - max_faulty
validity == max_faulty + 1
ready_delivery == 2 * max_faulty + 1
rbc_vote_threshold == div_ceil(total_seats, 2)
rbc_ack_threshold == div_ceil(total_seats + max_faulty - 1, 2)

(* saturating_sub: the sum is at least 2 except in a one-seat committee. *)
rbc_fast_threshold ==
    LET sum == total_seats + 2 * max_faulty
    IN  div_ceil(IF sum >= 2 THEN sum - 2 ELSE 0, 2)
=============================================================================
