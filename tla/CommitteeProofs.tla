--------------------------- MODULE CommitteeProofs ---------------------------
(* Facts about the thresholds and weights of any committee. *)
EXTENDS Committee, FiniteSetTheorems, WellFoundedInduction, TLAPS

(* A set of naturals has a least element. *)
LEMMA NatLeast ==
    ASSUME NEW T, T \subseteq Nat, T # {}
    PROVE  \E x \in T : \A y \in T : x <= y
<1>1. PICK x \in T : \A y \in T : <<y, x>> \notin OpToRel(<, Nat)
  BY WFMin, NatLessThanWellFounded
<1>2. \A y \in T : ~(y < x)
  BY <1>1 DEF OpToRel
<1> QED
  BY <1>2

(* The thresholds of committee.rs, without the roundings. *)
LEMMA Thresholds ==
    /\ total_seats \in Nat /\ total_seats >= 1
    /\ max_faulty \in Nat /\ 3 * max_faulty + 1 <= total_seats
    /\ quorum = total_seats - max_faulty
    /\ validity = max_faulty + 1
    /\ ready_delivery = 2 * max_faulty + 1
    /\ rbc_vote_threshold \in Int /\ 2 * rbc_vote_threshold >= total_seats
    /\ rbc_ack_threshold \in Int
    /\ 2 * rbc_ack_threshold >= total_seats + max_faulty - 1
    /\ rbc_fast_threshold \in Int
    /\ 2 * rbc_fast_threshold >= total_seats + 2 * max_faulty - 2
<1>1. total_seats \in Nat
  BY CommitteeAssumption, FS_CardinalityType DEF total_seats
<1>2. total_seats >= 1
  <2>1. Seat # {}
    BY CommitteeAssumption
  <2> QED
    BY <1>1, <2>1, CommitteeAssumption, FS_EmptySet DEF total_seats
<1>3. ASSUME NEW m \in Nat, m >= 1
      PROVE  (m - 1) \div 3 \in Nat /\ 3 * ((m - 1) \div 3) + 1 <= m
  BY <1>3
<1>4. max_faulty \in Nat /\ 3 * max_faulty + 1 <= total_seats
  BY <1>1, <1>2, <1>3 DEF max_faulty
<1>5. ASSUME NEW m \in Int
      PROVE  div_ceil(m, 2) \in Int /\ 2 * div_ceil(m, 2) >= m
  BY DEF div_ceil
<1>6. rbc_vote_threshold \in Int /\ 2 * rbc_vote_threshold >= total_seats
  BY <1>1, <1>5 DEF rbc_vote_threshold
<1>7. /\ rbc_ack_threshold \in Int
      /\ 2 * rbc_ack_threshold >= total_seats + max_faulty - 1
  <2>1. total_seats + max_faulty - 1 \in Int
    BY <1>1, <1>4
  <2> QED
    BY <2>1, <1>5 DEF rbc_ack_threshold
<1>8. /\ rbc_fast_threshold \in Int
      /\ 2 * rbc_fast_threshold >= total_seats + 2 * max_faulty - 2
  <2> DEFINE sum == total_seats + 2 * max_faulty
             m == IF sum >= 2 THEN sum - 2 ELSE 0
  <2>1. m \in Int /\ m >= sum - 2
    BY <1>1, <1>4
  <2>2. rbc_fast_threshold = div_ceil(m, 2)
    BY DEF rbc_fast_threshold
  <2> HIDE DEF m
  <2>3. div_ceil(m, 2) \in Int /\ 2 * div_ceil(m, 2) >= m
    BY <2>1, <1>5
  <2> QED
    BY <2>1, <2>2, <2>3, <1>1, <1>4
<1> QED
  BY <1>1, <1>2, <1>4, <1>6, <1>7, <1>8 DEF quorum, validity, ready_delivery

(* A larger set of members weighs no less (SeatSet::weight). *)
LEMMA WeightOfSubset ==
    ASSUME NEW S, NEW T, S \subseteq T
    PROVE  Weight(S) \in Nat /\ Weight(T) \in Nat /\ Weight(S) <= Weight(T)
<1>1. SeatsOf(S) \subseteq SeatsOf(T) /\ SeatsOf(T) \subseteq Seat
  BY DEF SeatsOf
<1>2. IsFiniteSet(SeatsOf(T))
  BY <1>1, CommitteeAssumption, FS_Subset
<1> QED
  BY <1>1, <1>2, FS_Subset, FS_CardinalityType DEF Weight

(* Two sets of members weigh at most all seats and what they share. *)
LEMMA WeightOverlap ==
    ASSUME NEW S, NEW T
    PROVE  Weight(S) + Weight(T) <= total_seats + Weight(S \cap T)
<1> DEFINE A == SeatsOf(S)
           B == SeatsOf(T)
<1>1. A \cup B \subseteq Seat /\ A \cap B = SeatsOf(S \cap T) /\ A \subseteq Seat /\ B \subseteq Seat
  BY DEF SeatsOf
<1>2. IsFiniteSet(A) /\ IsFiniteSet(B) /\ IsFiniteSet(A \cup B)
  BY <1>1, CommitteeAssumption, FS_Subset
<1>3. Cardinality(A \cup B) = Cardinality(A) + Cardinality(B) - Cardinality(A \cap B)
  BY <1>2, FS_Union
<1>4. Cardinality(A \cup B) <= total_seats
  BY <1>1, CommitteeAssumption, FS_Subset DEF total_seats
<1>5. /\ Cardinality(A) \in Nat /\ Cardinality(B) \in Nat
      /\ Cardinality(A \cup B) \in Nat /\ Cardinality(A \cap B) \in Nat
  BY <1>2, FS_CardinalityType, FS_Subset, A \cap B \subseteq A
<1>6. Cardinality(A) + Cardinality(B) <= total_seats + Cardinality(A \cap B)
  <2> HIDE DEF A, B
  <2> QED
    BY <1>3, <1>4, <1>5, Thresholds
<1> QED
  BY <1>1, <1>6 DEF Weight

(***************************************************************************)
(* Two sets of members with a quorum of seats each share more seats than   *)
(* the committee tolerates to be faulty (Committee::quorum).               *)
(***************************************************************************)
THEOREM QuorumOverlap ==
    ASSUME NEW S, NEW T, Weight(S) >= quorum, Weight(T) >= quorum
    PROVE  Weight(S \cap T) >= validity
<1>1. Weight(S) \in Nat /\ Weight(T) \in Nat /\ Weight(S \cap T) \in Nat
  BY WeightOfSubset
<1> QED
  BY <1>1, WeightOverlap, Thresholds
=============================================================================
