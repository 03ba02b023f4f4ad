---------------------------- MODULE CommitProofs ----------------------------
(***************************************************************************)
(* Agreement of CommitRule, for every committee, schedule and bound.       *)
(*                                                                         *)
(* Justified says why a validator decided as it did, in terms of facts     *)
(* that stay true once they are.  Two justified sets of decisions under    *)
(* the same leaders never commit and skip one slot (NoConflict).  Valid    *)
(* says that each outcome was decided by a justified set under the leaders *)
(* the outcomes before it draw; valid outcomes agree (ValidAgree).         *)
(***************************************************************************)
EXTENDS CommitDagProofs

(* Honest authors whose next-round vertex references v. *)
Supported(v) ==
    {a \in Honest : <<v[1] + 1, a>> \in made /\ v[2] \in strong[<<v[1] + 1, a>>]}

Certified(v) == v \in made /\ Weight(Supported(v)) >= validity

Blamed(v) ==
    \A a \in Validator : <<v[1] + 1, a>> \in made /\ v[2] \notin strong[<<v[1] + 1, a>>]

CommitReason(o, D, s) ==
    /\ SlotVertex(o, s) \in made
    /\ \/ Certified(SlotVertex(o, s))
       \/ \E t \in DOMAIN D : /\ Anchors(D, s, t) /\ D[t] = "commit"
                              /\ SlotVertex(o, s) \in past[SlotVertex(o, t)]

SkipReason(o, D, s) ==
    \/ Blamed(SlotVertex(o, s))
    \/ \E t \in DOMAIN D : /\ Anchors(D, s, t) /\ D[t] = "commit"
                           /\ SlotVertex(o, s) \notin past[SlotVertex(o, t)]
                           /\ Solid(SlotVertex(o, t), SlotRound(s) + 2)

Decisions == UNION {[X -> Decision] : X \in SUBSET Slot}

Justified(o, D) ==
    \A s \in DOMAIN D :
        /\ s > Len(o)
        /\ \A u \in Slot : Len(o) < u /\ u <= s => u \in DOMAIN D
        /\ D[s] = "commit" => CommitReason(o, D, s)
        /\ D[s] = "skip" => SkipReason(o, D, s)

(* Decisions are about slots. *)
LEMMA DecisionsFacts ==
    ASSUME NEW D \in Decisions
    PROVE  DOMAIN D \subseteq Slot /\ \A s \in DOMAIN D : D[s] \in Decision
  BY DEF Decisions

-----------------------------------------------------------------------------
(* Weights. *)

(* The honest seats are a quorum. *)
LEMMA HonestWeight ==
    Weight(Honest) >= quorum
<1>1. SeatsOf(Honest) \cup SeatsOf(Byzantine) = Seat /\ SeatsOf(Honest) \cap SeatsOf(Byzantine) = {}
  BY CommitteeAssumption, CommitRuleAssumption DEF SeatsOf, Honest
<1>2. IsFiniteSet(SeatsOf(Honest)) /\ IsFiniteSet(SeatsOf(Byzantine))
  <2>1. SeatsOf(Honest) \subseteq Seat /\ SeatsOf(Byzantine) \subseteq Seat
    BY DEF SeatsOf
  <2> QED
    BY <2>1, CommitteeAssumption, FS_Subset
<1>3. total_seats = Weight(Honest) + Weight(Byzantine) - 0
  BY <1>1, <1>2, FS_Union, FS_EmptySet DEF total_seats, Weight
<1>4. Weight(Honest) \in Nat /\ Weight(Byzantine) \in Nat
  BY WeightOfSubset
<1> QED
  BY <1>3, <1>4, Thresholds, CommitRuleAssumption

(* A quorum has f + 1 honest seats. *)
LEMMA HonestOfQuorum ==
    ASSUME NEW S, Weight(S) >= quorum
    PROVE  Weight(S \cap Honest) >= validity
  BY HonestWeight, QuorumOverlap

(* f + 1 seats meet every quorum. *)
LEMMA ValidityMeetsQuorum ==
    ASSUME NEW S, NEW T, Weight(S) >= validity, Weight(T) >= quorum
    PROVE  S \cap T # {}
<1>1. Weight(S) \in Nat /\ Weight(T) \in Nat /\ Weight(S \cap T) \in Nat
  BY WeightOfSubset
<1>2. Weight(S \cap T) > 0
  BY <1>1, WeightOverlap, Thresholds
<1>3. Weight({}) = 0
  <2>1. SeatsOf({}) = {}
    BY DEF SeatsOf
  <2> QED
    BY <2>1, FS_EmptySet DEF Weight
<1> QED
  BY <1>2, <1>3

(* Only the whole committee holds all seats. *)
LEMMA AllSeats ==
    ASSUME NEW S, Weight(S) >= total_seats
    PROVE  Validator \subseteq S
<1>1. SeatsOf(S) \subseteq Seat /\ IsFiniteSet(Seat)
  BY CommitteeAssumption DEF SeatsOf
<1>2. Cardinality(SeatsOf(S)) <= Cardinality(Seat)
      /\ (Cardinality(Seat) = Cardinality(SeatsOf(S)) => Seat = SeatsOf(S))
  BY <1>1, FS_Subset
<1>3. Cardinality(SeatsOf(S)) \in Nat /\ Cardinality(Seat) \in Nat
  BY <1>1, FS_Subset, FS_CardinalityType
<1>4. Seat = SeatsOf(S)
  BY <1>2, <1>3 DEF Weight, total_seats
<1> QED
  BY <1>4, CommitteeAssumption DEF SeatsOf

-----------------------------------------------------------------------------
(* What decide_slots returns is justified. *)

(* A slot is committed only while its vertex is held. *)
LEMMA CommitHeld ==
    ASSUME NEW i, NEW t \in OpenSlots(i), decide_slots(i)[t] = "commit"
    PROVE  SlotVertex(decided[i], t) \in dag[i]
<1> DEFINE D == decide_slots(i)
<1>1. Choice(i, t, D) = "commit"
  BY DecideSlots
<1> HIDE DEF D
<1>2. direct(i, t) = "commit" => SlotVertex(decided[i], t) \in dag[i]
  BY DEF direct
<1>3. indirect(i, t, D) = "commit" => SlotVertex(decided[i], t) \in dag[i]
  BY DEF indirect
<1> QED
  BY <1>1, <1>2, <1>3 DEF Choice

(* A direct commit means that f + 1 honest seats support the vertex,      *)
(* first proposals or not.                                                *)
LEMMA DirectCommit ==
    ASSUME DagInv, NEW i \in Honest, NEW s \in Slot, direct(i, s) = "commit"
    PROVE  Certified(SlotVertex(decided[i], s))
<1> DEFINE v == SlotVertex(decided[i], s)
           S == Supporters(i, v[1], v[2])
<1>1. Weight(S) >= quorum /\ v \in dag[i]
  BY DEF direct
<1>2. decided[i] \in Outcomes /\ OwnOf(i)
  BY Types DEF DagInv, Kept
<1>3. v[1] + 1 \in Round /\ v[2] \in Validator
  BY <1>2, SlotVertexType, SlotFacts
<1> HIDE DEF v
<1>4. S \cap Honest \subseteq Supported(v)
  <2>1. ASSUME NEW a \in S \cap Honest PROVE a \in Supported(v)
    <3> DEFINE q == <<v[1] + 1, a>>
    <3>1. v[2] \in IF q \in dag[i] THEN strong[q] ELSE first[i][q]
      BY <2>1 DEF Supporters
    <3>2. q \in Position /\ q[2] \in Honest
      BY <1>3, <2>1 DEF Position, Honest
    <3> HIDE DEF q
    <3>3. q \in made /\ v[2] \in strong[q]
      <4>1. CASE q \in dag[i]
        BY <1>2, <3>1, <4>1 DEF OwnOf
      <4>2. CASE q \notin dag[i]
        BY <1>2, <3>1, <3>2, <4>2 DEF OwnOf
      <4> QED
        BY <4>1, <4>2
    <3> QED
      BY <2>1, <3>3 DEF Supported, q
  <2> QED
    BY <2>1
<1>5. Weight(Supported(v)) >= validity
  <2>1. Weight(S \cap Honest) >= validity
    BY <1>1, HonestOfQuorum
  <2>2. /\ Weight(S \cap Honest) \in Nat /\ Weight(Supported(v)) \in Nat
        /\ Weight(S \cap Honest) <= Weight(Supported(v))
    BY <1>4, WeightOfSubset
  <2> QED
    BY <2>1, <2>2, Thresholds
<1> QED
  BY <1>1, <1>2, <1>5 DEF Certified, OwnOf, v

(* A direct skip means that every member made a vertex that leaves the    *)
(* leader out.                                                            *)
LEMMA DirectSkip ==
    ASSUME DagInv, NEW i \in Honest, NEW s \in Slot, direct(i, s) = "skip"
    PROVE  Blamed(SlotVertex(decided[i], s))
<1> DEFINE v == SlotVertex(decided[i], s)
           S == Blamers(i, v[1], v[2])
<1>1. Weight(S) >= total_seats
  BY DEF direct
<1>2. Validator \subseteq S
  BY <1>1, AllSeats
<1>3. dag[i] \subseteq made
  BY DEF DagInv, Kept, OwnOf
<1> QED
  BY <1>2, <1>3 DEF Blamers, Authors, Blamed

(* A slot skipped through an anchor is not below it, and nothing above    *)
(* the slot was missing.                                                  *)
LEMMA IndirectSkip ==
    ASSUME DagInv, NEW i \in Honest, NEW s \in OpenSlots(i),
           indirect(i, s, decide_slots(i)) = "skip"
    PROVE  SkipReason(decided[i], decide_slots(i), s)
<1> DEFINE D == decide_slots(i)
           o == decided[i]
           v == SlotVertex(o, s)
<1>0. D \in [OpenSlots(i) -> Decision] /\ o \in Outcomes /\ World /\ OwnOf(i) /\ HeldBy(i)
      /\ s \in Slot /\ s > Len(o)
  <2>1. s \in Slot /\ Len(o) < s
    BY OpenSlotsFacts
  <2>2. D \in [OpenSlots(i) -> Decision] /\ o \in Outcomes /\ World /\ OwnOf(i) /\ HeldBy(i)
    BY DecideSlots, Types DEF DagInv, Kept
  <2>3. s \in Nat /\ Len(o) \in Nat
    BY <2>1, <2>2, SlotFacts, OutcomesFacts
  <2> QED
    BY <2>1, <2>2, <2>3
<1>1. PICK t \in DOMAIN D : /\ Anchors(D, s, t) /\ D[t] = "commit"
                            /\ ~(v \in dag[i] /\ v \in past[SlotVertex(o, t)])
  BY DEF indirect
<1> DEFINE w == SlotVertex(o, t)
<1>2. w \in dag[i] /\ w \in made
  <2>1. t \in OpenSlots(i)
    BY <1>0, <1>1
  <2> QED
    BY <1>0, <1>1, <2>1, CommitHeld DEF OwnOf
<1>3. v[1] = SlotRound(s) /\ SlotRound(s) \in Nat
  BY <1>0, SlotVertexType, SlotFacts
<1>4. \A r \in Nat : r >= SlotRound(s) => ~Pruned(o, r)
  BY <1>0, PrunedFacts, Zenon
<1> HIDE DEF D, o, v, w
<1>5. v \notin past[w]
  <2>1. ~Pruned(o, v[1])
    BY <1>3, <1>4
  <2> QED
    BY <1>0, <1>1, <1>2, <2>1 DEF HeldBy, o, w
<1>6. Solid(w, SlotRound(s) + 2)
  <2>1. SUFFICES ASSUME NEW q \in past[w], q[1] >= SlotRound(s) + 2
                 PROVE  Weight(strong[q]) >= quorum
    BY DEF Solid
  <2>2. q \in made
    BY <1>0, <1>2 DEF World
  <2>3. q[1] \in Nat
    BY <2>2, CommitRuleAssumption, Types DEF DagInv, Position, Round
  <2>4. q[1] > 0 /\ q[1] - 1 \in Nat /\ q[1] >= SlotRound(s) /\ q[1] - 1 >= SlotRound(s)
    BY <1>3, <2>1, <2>3
  <2>5. ~Pruned(o, q[1]) /\ ~Pruned(o, q[1] - 1)
    BY <1>4, <2>3, <2>4, Zenon
  <2>6. q \in dag[i]
    BY <1>0, <1>2, <2>1, <2>5, Zenon DEF HeldBy, o
  <2> QED
    BY <1>0, <2>4, <2>5, <2>6, Zenon DEF HeldBy, o
<1> QED
  BY <1>1, <1>5, <1>6 DEF SkipReason, D, o, v, w

(* What decide_slots returns is justified. *)
LEMMA JustifiedNow ==
    ASSUME DagInv, NEW i \in Honest
    PROVE  decide_slots(i) \in Decisions /\ Justified(decided[i], decide_slots(i))
<1> DEFINE D == decide_slots(i)
           o == decided[i]
<1>1. /\ D \in [OpenSlots(i) -> Decision] /\ DOMAIN D = OpenSlots(i) /\ OpenSlots(i) \subseteq Slot
      /\ o \in Outcomes /\ dag[i] \subseteq made
  BY DecideSlots, OpenSlotsFacts, Types DEF DagInv, Kept, OwnOf
<1>2. D \in Decisions
  BY <1>1 DEF Decisions
<1>3. ASSUME NEW s \in OpenSlots(i), D[s] = "commit" PROVE CommitReason(o, D, s)
  <2>1. SlotVertex(o, s) \in made
    BY <1>1, <1>3, CommitHeld
  <2>2. Choice(i, s, D) = "commit"
    BY <1>3, DecideSlots
  <2>3. CASE direct(i, s) = "commit"
    BY <1>1, <2>1, <2>3, DirectCommit, Zenon DEF CommitReason
  <2>4. CASE indirect(i, s, D) = "commit"
    <3>1. \E t \in DOMAIN D : /\ Anchors(D, s, t) /\ D[t] = "commit"
                              /\ SlotVertex(o, s) \in past[SlotVertex(o, t)]
      BY <2>4 DEF indirect
    <3> QED
      BY <2>1, <3>1 DEF CommitReason
  <2> QED
    BY <2>2, <2>3, <2>4 DEF Choice
<1>4. ASSUME NEW s \in OpenSlots(i), D[s] = "skip" PROVE SkipReason(o, D, s)
  <2>1. Choice(i, s, D) = "skip"
    BY <1>4, DecideSlots, Zenon
  <2>2. CASE direct(i, s) = "skip"
    BY <1>1, <2>2, DirectSkip DEF SkipReason
  <2>3. CASE indirect(i, s, D) = "skip"
    BY <2>3, IndirectSkip
  <2> QED
    BY <2>1, <2>2, <2>3 DEF Choice
<1>5. ASSUME NEW s \in OpenSlots(i)
      PROVE  s > Len(o) /\ \A u \in Slot : Len(o) < u /\ u <= s => u \in OpenSlots(i)
  <2>1. Len(o) \in Nat /\ s \in Nat /\ Len(o) < s
    BY <1>1, OpenSlotsFacts, OutcomesFacts, SlotFacts
  <2> QED
    BY <2>1, OpenSlotsFacts
<1> HIDE DEF D, o
<1>6. Justified(o, D)
  BY <1>1, <1>3, <1>4, <1>5, Zenon DEF Justified
<1> QED
  BY <1>2, <1>6, Zenon DEF D, o

-----------------------------------------------------------------------------
(* A justification stays one. *)

(* A justification stays one as the DAG grows. *)
LEMMA JustifiedStable ==
    ASSUME TypeOK, World, Grows, NEW o \in Outcomes, NEW D \in Decisions, Justified(o, D)
    PROVE  Justified(o, D)'
<1>0. DOMAIN D \subseteq Slot
  BY DecisionsFacts
<1>1. ASSUME NEW v, Certified(v) PROVE Certified(v)'
  <2>1. Supported(v) \subseteq Supported(v)'
    BY DEF Supported, Grows
  <2>2. /\ Weight(Supported(v)) \in Nat /\ Weight(Supported(v)') \in Nat
        /\ Weight(Supported(v)) <= Weight(Supported(v)')
    BY <2>1, WeightOfSubset
  <2>3. Weight(Supported(v)') >= validity
    BY <1>1, <2>2, Thresholds DEF Certified
  <2>4. v \in made'
    BY <1>1 DEF Certified, Grows
  <2> QED
    BY <2>3, <2>4 DEF Certified
<1>2. ASSUME NEW v, Blamed(v) PROVE Blamed(v)'
  BY <1>2 DEF Blamed, Grows
<1>3. ASSUME NEW p \in made, NEW k, Solid(p, k) PROVE Solid(p, k)'
  <2>1. past'[p] = past[p] /\ \A q \in past[p] : strong'[q] = strong[q]
    BY DEF World, Grows
  <2> QED
    BY <1>3, <2>1 DEF Solid
<1>4. \A s : SlotVertex(o, s)' = SlotVertex(o, s)
  BY Zenon DEF SlotVertex, Leader, Released, Checkpoints, Prefix, SlotRound, SlotIndex
<1>5. \A t \in DOMAIN D : D[t] = "commit" =>
          SlotVertex(o, t) \in made /\ past'[SlotVertex(o, t)] = past[SlotVertex(o, t)]
  BY DEF Justified, CommitReason, Grows
<1>6. \A s, t : Anchors(D, s, t)' <=> Anchors(D, s, t)
  BY DEF Anchors, SlotRound
<1>7. ASSUME NEW s \in DOMAIN D, D[s] = "commit" PROVE CommitReason(o, D, s)'
  <2>1. SlotVertex(o, s) \in made' /\ CommitReason(o, D, s)
    BY <1>5, <1>7, Zenon DEF Grows, Justified
  <2> QED
    BY <1>1, <1>4, <1>5, <1>6, <2>1, Zenon DEF CommitReason
<1>8. ASSUME NEW s \in DOMAIN D, D[s] = "skip" PROVE SkipReason(o, D, s)'
  <2>1. SkipReason(o, D, s)
    BY <1>8 DEF Justified
  <2>2. CASE Blamed(SlotVertex(o, s))
    BY <1>2, <1>4, <2>2, Zenon DEF SkipReason
  <2>3. ASSUME NEW t \in DOMAIN D, Anchors(D, s, t), D[t] = "commit",
               SlotVertex(o, s) \notin past[SlotVertex(o, t)],
               Solid(SlotVertex(o, t), SlotRound(s) + 2)
        PROVE  SkipReason(o, D, s)'
    <3>1. Solid(SlotVertex(o, t), SlotRound(s) + 2)'
      BY <1>3, <1>5, <2>3, Zenon
    <3> QED
      BY <1>4, <1>5, <1>6, <2>3, <3>1, Zenon DEF SkipReason
  <2> QED
    BY <2>1, <2>2, <2>3 DEF SkipReason
<1> QED
  BY <1>7, <1>8 DEF Justified

-----------------------------------------------------------------------------
(* Justified decisions under the same leaders do not conflict. *)

(* A certified vertex is reached by every solid one two rounds later. *)
LEMMA CertifiedReached ==
    ASSUME TypeOK, World, NEW v \in Position, Certified(v), NEW w \in made,
           w[1] >= v[1] + 2, Solid(w, v[1] + 2)
    PROVE  v \in past[w]
<1>0. v[1] \in Nat /\ w \in Position /\ w[1] \in Round /\ w[1] \in Nat
      /\ v = <<v[1], v[2]>> /\ MaxRound \in Nat
  BY CommitRuleAssumption, Types DEF Position, Round
<1>1. PICK q \in past[w] : q[1] = v[1] + 2
  <2>1. v[1] + 2 \in Round /\ v[1] + 2 <= w[1]
    BY <1>0 DEF Round
  <2>2. Solid(w, v[1] + 2 + 1)
    <3>1. \A q \in past[w] : q[1] \in Nat
      BY CommitRuleAssumption, Types DEF World, Position, Round
    <3> QED
      BY <1>0, <3>1 DEF Solid
  <2> QED
    BY <2>1, <2>2 DEF World
<1>2. Weight(strong[q]) >= quorum
  <2>1. q[1] >= v[1] + 2
    BY <1>0, <1>1
  <2> QED
    BY <2>1 DEF Solid
<1>3. PICK a \in Supported(v) : a \in strong[q]
  BY <1>2, ValidityMeetsQuorum DEF Certified
<1> DEFINE u == <<v[1] + 1, a>>
<1>4. q \in made /\ past[q] \subseteq past[w]
  BY DEF World
<1>5. u \in made /\ v[2] \in strong[u] /\ u[1] = v[1] + 1
  BY <1>3, Zenon DEF Supported
<1>6. u \in Parents(q[1], strong[q])
  <2>1. q[1] - 1 = v[1] + 1
    BY <1>0, <1>1
  <2> QED
    BY <1>3, <2>1 DEF Parents
<1>7. v \in Parents(u[1], strong[u])
  <2>1. u[1] - 1 = v[1]
    BY <1>0, <1>5
  <2> QED
    BY <1>0, <1>5, <2>1 DEF Parents
<1> HIDE DEF u
<1>8. v \in made
  BY DEF Certified
<1>9. \A p \in made : p \in past[p] /\ \A x \in Parents(p[1], strong[p]) : past[x] \subseteq past[p]
  <2>1. ASSUME NEW p \in made
        PROVE  p \in past[p] /\ \A x \in Parents(p[1], strong[p]) : past[x] \subseteq past[p]
    <3>1. past[p] = Reaches(p[1], p[2], strong[p]) /\ p = <<p[1], p[2]>>
      BY Types DEF World, Position
    <3> QED
      BY <3>1 DEF Reaches
  <2> QED
    BY <2>1
<1> QED
  BY <1>4, <1>5, <1>6, <1>7, <1>8, <1>9, Zenon

(* Two justified sets of decisions have no last slot on which they        *)
(* conflict.                                                              *)
LEMMA LastConflict ==
    ASSUME TypeOK, World, NEW x \in Outcomes, NEW y \in Outcomes,
           NEW D \in Decisions, NEW E \in Decisions, Justified(x, D), Justified(y, E),
           \A s : SlotVertex(x, s) = SlotVertex(y, s),
           NEW s \in DOMAIN D \cap DOMAIN E, D[s] = "commit", E[s] = "skip",
           \A u \in DOMAIN D \cap DOMAIN E : u > s =>
               ~(D[u] = "commit" /\ E[u] = "skip") /\ ~(D[u] = "skip" /\ E[u] = "commit")
    PROVE  FALSE
<1> DEFINE v == SlotVertex(x, s)
<1>0. /\ DOMAIN D \subseteq Slot /\ DOMAIN E \subseteq Slot /\ s \in Slot
      /\ v \in Position /\ v[1] = SlotRound(s) /\ v[2] \in Validator /\ SlotRound(s) \in Nat
  BY DecisionsFacts, SlotVertexType, SlotFacts, Zenon
<1>1. CommitReason(x, D, s) /\ SkipReason(y, E, s) /\ SlotVertex(y, s) = v
  BY Zenon DEF Justified
<1>2. \A t \in DOMAIN D : D[t] = "commit" => SlotVertex(x, t) \in made
  BY Zenon DEF Justified, CommitReason
<1>3. \A t \in DOMAIN E : E[t] = "commit" => SlotVertex(x, t) \in made
  BY DEF Justified, CommitReason
<1>4. \A t \in Slot : SlotVertex(x, t)[1] = SlotRound(t) /\ SlotRound(t) \in Nat /\ t \in Nat
  BY SlotVertexType, SlotFacts
<1>5. \A t \in Slot : SlotRound(t) >= SlotRound(s) + 2 => t > s
  <2>1. ASSUME NEW t \in Slot, SlotRound(t) >= SlotRound(s) + 2 PROVE t > s
    <3>1. t <= s => SlotRound(t) <= SlotRound(s)
      BY <1>0, SlotFacts
    <3> QED
      BY <1>0, <1>4, <2>1, <3>1
  <2> QED
    BY <2>1
<1>6. CASE Certified(v) /\ Blamed(v)
  <2>1. Supported(v) = {}
    BY <1>6 DEF Supported, Blamed, Honest
  <2>2. Weight(Supported(v)) >= validity /\ Weight(Validator) >= quorum
    <3>1. Weight(Honest) \in Nat /\ Weight(Validator) \in Nat /\ Weight(Honest) <= Weight(Validator)
      BY WeightOfSubset, Zenon DEF Honest
    <3> QED
      BY <1>6, <3>1, HonestWeight, Thresholds DEF Certified
  <2> QED
    BY <2>1, <2>2, ValidityMeetsQuorum, Zenon
<1>7. ASSUME Certified(v), NEW t \in DOMAIN E, Anchors(E, s, t), E[t] = "commit",
             v \notin past[SlotVertex(x, t)], Solid(SlotVertex(x, t), SlotRound(s) + 2)
      PROVE  FALSE
  <2>1. SlotVertex(x, t) \in made /\ SlotVertex(x, t)[1] >= v[1] + 2
    BY <1>0, <1>3, <1>4, <1>7, Zenon DEF Anchors
  <2> QED
    BY <1>0, <1>7, <2>1, CertifiedReached, Zenon
<1>8. ASSUME Blamed(v), NEW t \in DOMAIN D, Anchors(D, s, t), D[t] = "commit",
             v \in past[SlotVertex(x, t)]
      PROVE  FALSE
  <2> DEFINE w == SlotVertex(x, t)
  <2>1. w \in made /\ w[1] >= v[1] + 2
    BY <1>0, <1>2, <1>4, <1>8, Zenon DEF Anchors
  <2>2. w # v
    BY <1>0, <1>4, <2>1
  <2>3. Below(w, v)
    BY <1>8, <2>1, <2>2 DEF World
  <2> QED
    BY <1>8, <2>3, Zenon DEF Below, Blamed
<1>9. ASSUME NEW t \in DOMAIN D, Anchors(D, s, t), D[t] = "commit",
             v \in past[SlotVertex(x, t)],
             NEW z \in DOMAIN E, Anchors(E, s, z), E[z] = "commit",
             v \notin past[SlotVertex(x, z)]
      PROVE  FALSE
  <2>0. t \in Slot /\ z \in Slot /\ t \in Nat /\ z \in Nat /\ t > s /\ z > s
        /\ SlotRound(t) >= SlotRound(s) + 2 /\ SlotRound(z) >= SlotRound(s) + 2
    BY <1>0, <1>4, <1>5, <1>9, Zenon DEF Anchors
  <2>1. t # z
    BY <1>9
  <2>2. Len(x) \in Nat /\ Len(y) \in Nat /\ Len(x) < s /\ Len(y) < s /\ s \in Nat
    BY <1>0, <1>4, OutcomesFacts DEF Justified
  <2>3. CASE t < z
    <3>1. t \in DOMAIN E
      <4>1. Len(y) < t /\ t <= z
        BY <2>0, <2>2, <2>3
      <4> QED
        BY <1>9, <2>0, <4>1, Zenon DEF Justified
    <3>2. E[t] = "skip"
      BY <1>9, <2>0, <2>3, <3>1, Zenon DEF Anchors
    <3> QED
      BY <1>9, <2>0, <3>1, <3>2, Zenon
  <2>4. CASE z < t
    <3>1. z \in DOMAIN D
      <4>1. Len(x) < z /\ z <= t
        BY <2>0, <2>2, <2>4
      <4> QED
        BY <1>9, <2>0, <4>1, Zenon DEF Justified
    <3>2. D[z] = "skip"
      BY <1>9, <2>0, <2>4, <3>1, Zenon DEF Anchors
    <3> QED
      BY <1>9, <2>0, <3>1, <3>2, Zenon
  <2> QED
    BY <2>0, <2>1, <2>3, <2>4
<1>10. Certified(v) \/ \E t \in DOMAIN D : /\ Anchors(D, s, t) /\ D[t] = "commit"
                                          /\ v \in past[SlotVertex(x, t)]
  BY <1>1, Zenon DEF CommitReason
<1>11. Blamed(v) \/ \E t \in DOMAIN E : /\ Anchors(E, s, t) /\ E[t] = "commit"
                                       /\ v \notin past[SlotVertex(x, t)]
                                       /\ Solid(SlotVertex(x, t), SlotRound(s) + 2)
  BY <1>1 DEF SkipReason
<1> HIDE DEF v
<1> QED
  BY <1>6, <1>7, <1>8, <1>9, <1>10, <1>11, Zenon

(* Justified decisions under the same leaders do not conflict. *)
LEMMA NoConflict ==
    ASSUME TypeOK, World, NEW x \in Outcomes, NEW y \in Outcomes,
           NEW D \in Decisions, NEW E \in Decisions, Justified(x, D), Justified(y, E),
           \A s : SlotVertex(x, s) = SlotVertex(y, s)
    PROVE  \A s \in DOMAIN D \cap DOMAIN E :
               ~(D[s] = "commit" /\ E[s] = "skip") /\ ~(D[s] = "skip" /\ E[s] = "commit")
<1> DEFINE Conflict(s) == \/ D[s] = "commit" /\ E[s] = "skip"
                          \/ D[s] = "skip" /\ E[s] = "commit"
           T == {s \in DOMAIN D \cap DOMAIN E : Conflict(s)}
           K == Slots * MaxRound
<1>1. SUFFICES ASSUME T # {} PROVE FALSE
  OBVIOUS
<1>2. T \subseteq 0..K /\ K \in Nat /\ \A s \in DOMAIN D \cap DOMAIN E : s \in Nat
  <2>1. K \in Nat /\ DOMAIN D \subseteq Slot
    BY CommitRuleAssumption, DecisionsFacts
  <2> QED
    BY <2>1 DEF Slot
<1>3. PICK s \in T : \A u \in T : u <= s
  <2> HIDE DEF T, K
  <2> QED
    BY <1>1, <1>2, NatGreatest, ZenonT(30)
<1>4. \A u \in DOMAIN D \cap DOMAIN E : u > s =>
          /\ ~(D[u] = "commit" /\ E[u] = "skip") /\ ~(D[u] = "skip" /\ E[u] = "commit")
          /\ ~(E[u] = "commit" /\ D[u] = "skip") /\ ~(E[u] = "skip" /\ D[u] = "commit")
  BY <1>2, <1>3
<1>5. CASE D[s] = "commit" /\ E[s] = "skip"
  BY <1>3, <1>4, <1>5, LastConflict
<1>6. CASE D[s] = "skip" /\ E[s] = "commit"
  BY <1>3, <1>4, <1>6, LastConflict, Zenon
<1> QED
  BY <1>3, <1>5, <1>6, Zenon

-----------------------------------------------------------------------------
(* Outcomes decided by justified decisions agree. *)

(* Outcome s is what decisions D, justified after the first n outcomes, say   *)
(* of its slot, with no checkpoint decided in between.                       *)
Rests(o, s, n, D) ==
    /\ Justified(Prefix(o, n), D)
    /\ s \in DOMAIN D /\ D[s] # "undecided"
    /\ o[s] = Result(Prefix(o, n), D, s)
    /\ \A c \in Checkpoints(o) : c <= n \/ c >= s

Valid(o) ==
    \A s \in DOMAIN o : \E n \in 0..(s - 1) : \E D \in Decisions : Rests(o, s, n, D)

(* Two outcomes of a slot after the same outcomes are equal. *)
LEMMA SameResult ==
    ASSUME TypeOK, World, NEW o \in Outcomes, NEW n \in 0..Len(o), NEW m \in 0..Len(o),
           n <= m, \A c \in Checkpoints(o) : c <= n,
           NEW D \in Decisions, NEW E \in Decisions,
           Justified(Prefix(o, n), D), Justified(Prefix(o, m), E),
           NEW s \in DOMAIN D \cap DOMAIN E, D[s] # "undecided", E[s] # "undecided"
    PROVE  Result(Prefix(o, n), D, s) = Result(Prefix(o, m), E, s)
<1>1. \A t : SlotVertex(Prefix(o, n), t) = SlotVertex(Prefix(o, m), t)
  BY SlotVertexSame
<1>2. Prefix(o, n) \in Outcomes /\ Prefix(o, m) \in Outcomes
  BY PrefixFacts
<1>3. ~(D[s] = "commit" /\ E[s] = "skip") /\ ~(D[s] = "skip" /\ E[s] = "commit")
  BY <1>1, <1>2, NoConflict
<1>4. D[s] \in {"commit", "skip"} /\ E[s] \in {"commit", "skip"}
  BY DecisionsFacts DEF Decision
<1> QED
  BY <1>1, <1>3, <1>4, Zenon DEF Result

(* Valid outcomes agree: at the first difference both rest on the same    *)
(* leaders.                                                               *)
LEMMA ValidAgree ==
    ASSUME TypeOK, World, NEW x \in Outcomes, NEW y \in Outcomes, Valid(x), Valid(y)
    PROVE  Agree(x, y)
<1> DEFINE T == {s \in DOMAIN x \cap DOMAIN y : x[s] # y[s]}
<1>0. /\ Len(x) \in Nat /\ Len(y) \in Nat /\ DOMAIN x = 1..Len(x) /\ DOMAIN y = 1..Len(y)
  BY OutcomesFacts
<1>1. SUFFICES ASSUME T # {} PROVE FALSE
  BY DEF Agree
<1>2. PICK s \in T : \A u \in T : s <= u
  <2>1. T \subseteq Nat
    BY <1>0
  <2> HIDE DEF T
  <2> QED
    BY <1>1, <2>1, NatLeast, Zenon
<1>3. s \in Nat /\ s >= 1 /\ s <= Len(x) /\ s <= Len(y) /\ s - 1 \in Nat /\ x[s] # y[s]
  BY <1>0, <1>2
<1>4. \A u \in 1..(s - 1) : x[u] = y[u]
  BY <1>0, <1>2, <1>3
<1> DEFINE o == Prefix(x, s - 1)
<1>5. s - 1 \in 0..Len(x) /\ s - 1 \in 0..Len(y)
  BY <1>0, <1>3
<1>6. o \in Outcomes /\ Len(o) = s - 1 /\ o = Prefix(y, s - 1)
  <2>1. \A m \in 0..(s - 1) : Prefix(x, m) = Prefix(y, m)
    BY <1>3, <1>4, PrefixSame
  <2> QED
    BY <1>3, <1>5, <2>1, PrefixFacts
<1>7. PICK n \in 0..(s - 1), D \in Decisions : Rests(x, s, n, D)
  BY <1>2 DEF Valid
<1>8. PICK m \in 0..(s - 1), E \in Decisions : Rests(y, s, m, E)
  BY <1>2 DEF Valid
<1>9. Prefix(x, n) = Prefix(o, n) /\ Prefix(y, m) = Prefix(o, m)
  BY <1>5, <1>6, PrefixOfPrefix, Zenon
<1>10. \A c \in Checkpoints(o) : c <= n /\ c <= m
  <2>1. ASSUME NEW c \in Checkpoints(o) PROVE c <= n /\ c <= m
    <3>1. c \in Checkpoints(x) /\ c \in Checkpoints(y) /\ c <= s - 1
      BY <1>5, <1>6, CheckpointsOfPrefix, Zenon
    <3>2. c \in Nat
      BY <1>0, <3>1 DEF Checkpoints
    <3>3. ~(c >= s)
      BY <1>3, <3>1, <3>2
    <3> QED
      BY <1>7, <1>8, <3>1, <3>3, Zenon DEF Rests
  <2> QED
    BY <2>1
<1>11. n \in Nat /\ m \in Nat /\ n \in 0..Len(o) /\ m \in 0..Len(o)
  BY <1>3, <1>6
<1> HIDE DEF o, T
<1>12. Result(Prefix(o, n), D, s) = Result(Prefix(o, m), E, s)
  <2>1. /\ Justified(Prefix(o, n), D) /\ Justified(Prefix(o, m), E)
        /\ s \in DOMAIN D \cap DOMAIN E /\ D[s] # "undecided" /\ E[s] # "undecided"
    BY <1>7, <1>8, <1>9, Zenon DEF Rests
  <2>2. CASE n <= m
    BY <1>6, <1>10, <1>11, <2>1, <2>2, SameResult
  <2>3. CASE m <= n
    BY <1>6, <1>10, <1>11, <2>1, <2>3, SameResult
  <2> QED
    BY <1>11, <2>2, <2>3
<1> QED
  BY <1>3, <1>7, <1>8, <1>9, <1>12, Zenon DEF Rests

(* A prefix of valid outcomes is valid, so an ordering state is. *)
LEMMA ValidPrefix ==
    ASSUME NEW o \in Outcomes, Valid(o), NEW n \in 0..Len(o)
    PROVE  Valid(Prefix(o, n))
<1> DEFINE p == Prefix(o, n)
<1>0. /\ Len(o) \in Nat /\ DOMAIN o = 1..Len(o) /\ n \in Nat /\ n <= Len(o)
      /\ DOMAIN p = 1..n /\ \A s \in 1..n : p[s] = o[s]
  BY OutcomesFacts, PrefixFacts
<1>1. SUFFICES ASSUME NEW s \in DOMAIN p
               PROVE  \E m \in 0..(s - 1) : \E D \in Decisions : Rests(p, s, m, D)
  BY DEF Valid
<1>2. s \in DOMAIN o /\ s \in Nat /\ s <= n
  BY <1>0
<1>3. PICK m \in 0..(s - 1), D \in Decisions : Rests(o, s, m, D)
  BY <1>2 DEF Valid
<1>4. Prefix(p, m) = Prefix(o, m)
  <2>1. m \in 0..n
    BY <1>0, <1>2
  <2> QED
    BY <2>1, PrefixOfPrefix, Zenon
<1>5. \A c \in Checkpoints(p) : c \in Checkpoints(o)
  BY CheckpointsOfPrefix
<1>6. p[s] = o[s]
  BY <1>0
<1> HIDE DEF p
<1>7. Rests(p, s, m, D)
  BY <1>3, <1>4, <1>5, <1>6, Zenon DEF Rests
<1> QED
  BY <1>7

(* Valid outcomes stay valid as the DAG grows. *)
LEMMA ValidStable ==
    ASSUME TypeOK, World, Grows, NEW o \in Outcomes, Valid(o)
    PROVE  Valid(o)'
<1>1. SUFFICES ASSUME NEW s \in DOMAIN o
               PROVE  \E n \in 0..(s - 1) : \E D \in Decisions : Rests(o, s, n, D)'
  BY DEF Valid, Decisions
<1>2. PICK n \in 0..(s - 1), D \in Decisions : Rests(o, s, n, D)
  BY DEF Valid
<1>3. Prefix(o, n) \in Outcomes
  <2>1. Len(o) \in Nat /\ s \in 1..Len(o)
    BY OutcomesFacts
  <2>2. n \in 0..Len(o)
    BY <2>1
  <2> QED
    BY <2>2, PrefixFacts, Zenon
<1>4. Justified(Prefix(o, n), D)'
  BY <1>2, <1>3, JustifiedStable, Zenon DEF Rests
<1>5. Rests(o, s, n, D)'
  BY <1>2, <1>4, Zenon DEF Rests
<1> QED
  BY <1>5, Zenon

(* What a pass of try_commit decides is valid. *)
LEMMA ValidExtended ==
    ASSUME DagInv, NEW i \in Honest, Valid(decided[i]),
           NEW t \in OpenSlots(i), Taken(decided[i], decide_slots(i), t)
    PROVE  Valid(Extended(decided[i], decide_slots(i), t))
<1> DEFINE o == decided[i]
           D == decide_slots(i)
           e == Extended(o, D, t)
<1>0. /\ o \in Outcomes /\ t \in Slot /\ t > Len(o) /\ Len(o) \in Nat /\ t \in Nat
      /\ DOMAIN o = 1..Len(o)
  <2>1. o \in Outcomes
    BY Types DEF DagInv
  <2>2. t \in Slot /\ Len(o) < t
    BY OpenSlotsFacts, Zenon
  <2>3. Len(o) \in Nat /\ t \in Nat /\ DOMAIN o = 1..Len(o)
    BY <2>1, <2>2, OutcomesFacts, SlotFacts
  <2> QED
    BY <2>1, <2>2, <2>3, Zenon
<1>1. D \in Decisions /\ Justified(o, D) /\ DOMAIN D = OpenSlots(i)
  BY JustifiedNow, DecideSlots, ZenonT(30)
<1>2. /\ e \in Outcomes /\ Len(e) = t /\ DOMAIN e = 1..t
      /\ \A s \in 1..Len(o) : e[s] = o[s]
      /\ \A s \in (Len(o) + 1)..t : e[s] = Result(o, D, s)
  BY <1>0, ExtendedFacts, OutcomesFacts
<1>3. /\ \A n \in 0..Len(o) : Prefix(e, n) = Prefix(o, n)
      /\ \A s \in (Len(o) + 1)..t : Prefix(e, s) = Extended(o, D, s)
  BY <1>0, ExtendedPrefix, Zenon
<1>4. \A s \in (Len(o) + 1)..t : s \in DOMAIN D
  <2>1. ASSUME NEW s \in (Len(o) + 1)..t PROVE s \in DOMAIN D
    <3>1. s \in Slot
      <4> DEFINE K == Slots * MaxRound
      <4>1. K \in Nat /\ t <= K
        BY <1>0, SlotFacts, CommitRuleAssumption
      <4> HIDE DEF K
      <4>2. s \in 1..K
        BY <1>0, <4>1
      <4> QED
        BY <4>2, Zenon DEF Slot, K
    <3> QED
      BY <1>0, <1>1, <3>1, OpenSlotsFacts
  <2> QED
    BY <2>1, ZenonT(30)
<1>5. ASSUME NEW c \in Checkpoints(e) PROVE c <= Len(o) \/ c >= t
  <2>0. c \in Nat
    <3>1. c \in DOMAIN e
      BY <1>5, Zenon DEF Checkpoints
    <3> HIDE DEF e, o
    <3> QED
      BY <1>0, <1>2, <3>1
  <2>1. SUFFICES ASSUME c > Len(o), c < t PROVE FALSE
    <3> HIDE DEF o
    <3> QED
      BY <1>0, <2>0
  <2>2. c \in (Len(o) + 1)..t /\ e[c] # Skip /\ Closes(Prefix(e, c))
    <3>1. e[c] # Skip /\ Closes(Prefix(e, c))
      BY <1>5, Zenon DEF Checkpoints
    <3>2. c \in (Len(o) + 1)..t
      <4> HIDE DEF o, e
      <4> QED
        BY <1>0, <2>0, <2>1
    <3> QED
      BY <3>1, <3>2, Zenon
  <2>3. D[c] = "commit"
    BY <1>2, <2>2, Zenon DEF Result
  <2>4. Closes(Extended(o, D, c))
    BY <1>3, <2>2, Zenon
  <2> QED
    BY <1>4, <2>1, <2>2, <2>3, <2>4, Zenon DEF Taken
<1>6. \A c \in Checkpoints(o) : c \in Checkpoints(e) /\ c <= Len(o)
  <2>1. Prefix(e, Len(o)) = o /\ Len(o) \in 0..Len(e)
    BY <1>0, <1>2, <1>3, PrefixWhole
  <2> QED
    BY <1>2, <2>1, CheckpointsOfPrefix, ZenonT(30)
<1>7. \A c \in Checkpoints(e) : c <= Len(o) => c \in Checkpoints(o)
  <2>1. Prefix(e, Len(o)) = o /\ Len(o) \in 0..Len(e)
    BY <1>0, <1>2, <1>3, PrefixWhole
  <2> QED
    BY <1>2, <2>1, CheckpointsOfPrefix, Zenon
<1>8. D[t] # "undecided" /\ \A s \in (Len(o) + 1)..t : D[s] # "undecided"
  BY <1>0, <1>4 DEF Taken
<1>9. Prefix(e, Len(o)) = o
  BY <1>0, <1>3, PrefixWhole
<1> HIDE DEF o, D, e
<1>10. SUFFICES ASSUME NEW s \in DOMAIN e
                PROVE  \E n \in 0..(s - 1) : \E F \in Decisions : Rests(e, s, n, F)
  BY DEF Valid, o, D, e
<1>11. CASE s <= Len(o)
  <2>1. s \in DOMAIN o /\ s \in Nat
    BY <1>0, <1>2, <1>11
  <2>2. PICK n \in 0..(s - 1), F \in Decisions : Rests(o, s, n, F)
    BY <2>1 DEF Valid, o
  <2>3. Prefix(e, n) = Prefix(o, n) /\ e[s] = o[s]
    <3>1. n \in 0..Len(o) /\ s \in 1..Len(o)
      BY <1>0, <1>11, <2>1
    <3> QED
      BY <1>2, <1>3, <3>1, Zenon
  <2>4. ASSUME NEW c \in Checkpoints(e) PROVE c <= n \/ c >= s
    <3>1. CASE c <= Len(o)
      BY <1>7, <2>2, <2>4, <3>1, Zenon DEF Rests
    <3>2. CASE c >= t
      <4>1. c \in DOMAIN e
        BY <2>4, Zenon DEF Checkpoints
      <4>2. c \in Nat
        BY <1>0, <1>2, <4>1
      <4> QED
        BY <1>0, <1>11, <2>1, <3>2, <4>2
    <3> QED
      BY <1>5, <2>4, <3>1, <3>2, Zenon
  <2>5. Rests(e, s, n, F)
    BY <2>2, <2>3, <2>4, Zenon DEF Rests
  <2> QED
    BY <2>5
<1>12. CASE s > Len(o)
  <2>1. s \in (Len(o) + 1)..t /\ Len(o) \in 0..(s - 1)
    BY <1>0, <1>2, <1>12
  <2>2. ASSUME NEW c \in Checkpoints(e) PROVE c <= Len(o) \/ c >= s
    <3>1. c \in DOMAIN e
      BY <2>2, Zenon DEF Checkpoints
    <3>2. c \in Nat
      BY <1>0, <1>2, <3>1
    <3>3. c <= Len(o) \/ c >= t
      BY <1>5, <2>2, Zenon
    <3> QED
      BY <1>0, <2>1, <3>2, <3>3
  <2>3. Rests(e, s, Len(o), D)
    BY <1>1, <1>2, <1>4, <1>8, <1>9, <2>1, <2>2, Zenon DEF Rests
  <2> QED
    BY <1>1, <2>1, <2>3, Zenon
<1> QED
  BY <1>0, <1>2, <1>11, <1>12

-----------------------------------------------------------------------------
(* Agreement. *)

(* Whatever a validator decided, acted upon, journaled or resumes from is    *)
(* valid.                                                                    *)
ValidOf(i) ==
    /\ Valid(decided[i]) /\ Valid(executed[i])
    /\ Valid(journal[i].base) /\ Valid(resuming[i].base)

ValidInv == \A i \in Honest : ValidOf(i)

(* No outcomes are valid outcomes. *)
LEMMA ValidEmpty ==
    Valid(<<>>)
  BY DEF Valid

(* The empty sequence is a sequence of outcomes. *)
LEMMA ValidEmptyType ==
    <<>> \in Outcomes
<1> DEFINE K == Slots * MaxRound
<1>1. <<>> \in Seq(Outcome) /\ Len(<<>>) = 0 /\ K \in Nat
  BY CommitRuleAssumption
<1> HIDE DEF K
<1>2. Len(<<>>) <= K
  BY <1>1
<1> QED
  BY <1>1, <1>2, OutcomesOfSeq, Zenon DEF K

(* The invariant holds at the start of an epoch. *)
LEMMA ValidInit ==
    Init => ValidInv
  BY ValidEmpty DEF Init, ValidInv, ValidOf, NotResuming

(* A step leaves the others valid. *)
LEMMA ValidOthers ==
    ASSUME DagInv, Grows, ValidInv, NEW i \in Honest,
           \A j \in Honest \ {i} : /\ decided'[j] = decided[j] /\ executed'[j] = executed[j]
                                   /\ journal'[j] = journal[j] /\ resuming'[j] = resuming[j],
           ValidOf(i)'
    PROVE  ValidInv'
<1>1. TypeOK /\ World
  BY Zenon DEF DagInv
<1>2. ASSUME NEW j \in Honest, j # i PROVE ValidOf(j)'
  <2>1. /\ decided[j] \in Outcomes /\ executed[j] \in Outcomes
        /\ journal[j].base \in Outcomes /\ resuming[j].base \in Outcomes
    BY <1>1, Types, Zenon DEF Journal
  <2>2. ValidOf(j)
    BY DEF ValidInv
  <2>3. /\ decided'[j] = decided[j] /\ executed'[j] = executed[j]
        /\ journal'[j] = journal[j] /\ resuming'[j] = resuming[j]
    BY <1>2, Zenon
  <2>4. \A o \in Outcomes : Valid(o) => Valid(o)'
    BY <1>1, ValidStable
  <2> QED
    BY <2>1, <2>2, <2>3, <2>4, Zenon DEF ValidOf
<1> QED
  BY <1>2, Zenon DEF ValidInv

(* Every step keeps what was decided, journaled and resumed from valid. *)
LEMMA ValidStep ==
    ASSUME ~Retry, DagInv, ValidInv, [Next]_vars
    PROVE  ValidInv'
<1>0. TypeOK /\ World /\ Grows
  BY DagStep DEF DagInv
<1>1. \A o \in Outcomes : Valid(o) => Valid(o)'
  BY <1>0, ValidStable, Zenon
<1>2. \A i \in Honest : /\ decided[i] \in Outcomes /\ executed[i] \in Outcomes
                        /\ journal[i].base \in Outcomes /\ resuming[i].base \in Outcomes
                        /\ ValidOf(i)
  BY <1>0, Types DEF Journal, ValidInv
<1>3. CASE UNCHANGED vars
  <2>1. \A i \in Honest : ValidOf(i)'
    BY <1>1, <1>2, <1>3, Zenon DEF ValidOf, vars
  <2> QED
    BY <2>1, Zenon DEF ValidInv
<1>4. ASSUME NEW i \in Honest, Step(i, decide_slots(i)) PROVE ValidInv'
  <2> DEFINE D == decide_slots(i)
  <2>0. /\ decided \in [Honest -> Outcomes] /\ executed \in [Honest -> Outcomes]
        /\ journal \in [Honest -> Journal]
        /\ resuming \in [Honest -> [base : Outcomes, own : Round \cup {-1}]]
    BY <1>0, Types, Zenon
  <2>1. CASE UNCHANGED <<decided, executed, resuming>>
             /\ journal'[i].base = journal[i].base
             /\ \A j \in Honest \ {i} : journal'[j] = journal[j]
    <3>1. ValidOf(i)'
      BY <1>1, <1>2, <2>1, Zenon DEF ValidOf
    <3> QED
      BY <1>0, <2>1, <3>1, ValidOthers, Zenon
  <2>2. CASE TryCommit(i, D)
    <3>1. PICK t \in DOMAIN D :
              /\ Taken(decided[i], D, t)
              /\ decided' = [decided EXCEPT ![i] = Extended(decided[i], D, t)]
              /\ executed' = [executed EXCEPT ![i] = Longer(@, Extended(decided[i], D, t))]
      BY <2>2, Zenon DEF TryCommit
    <3>2. UNCHANGED <<journal, resuming>>
      BY <2>2, Zenon DEF TryCommit, recovery
    <3> DEFINE e == Extended(decided[i], D, t)
    <3>3. t \in OpenSlots(i)
      BY DecideSlots
    <3>4. Valid(e) /\ e \in Outcomes
      <4>1. Valid(e)
        BY <1>2, <3>1, <3>3, ValidExtended, ZenonT(30) DEF ValidOf
      <4>2. t \in Slot /\ Len(decided[i]) < t /\ Len(decided[i]) \in Nat /\ t \in Nat
        BY <1>2, <3>3, OpenSlotsFacts, OutcomesFacts, SlotFacts
      <4>3. e \in Outcomes
        BY <1>2, <4>2, ExtendedFacts, Zenon
      <4> QED
        BY <4>1, <4>3, Zenon
    <3> HIDE DEF D, e
    <3>5. decided'[i] = e /\ executed'[i] \in {executed[i], e}
      BY <2>0, <3>1, Zenon DEF Longer, e
    <3>6. ValidOf(i)'
      BY <1>1, <1>2, <3>2, <3>4, <3>5, Zenon DEF ValidOf
    <3>7. \A j \in Honest \ {i} : decided'[j] = decided[j] /\ executed'[j] = executed[j]
      BY <2>0, <3>1, Zenon
    <3> QED
      BY <1>0, <3>2, <3>6, <3>7, ValidOthers, Zenon
  <2>3. ASSUME NEW r \in Round, Propose(i, r) PROVE ValidInv'
    <3>1. UNCHANGED <<decided, executed, resuming>>
      BY <2>3, Zenon DEF Propose, counts
    <3>2. journal'[i].base = journal[i].base /\ \A j \in Honest \ {i} : journal'[j] = journal[j]
      BY <2>0, <2>3, Zenon DEF Propose
    <3> QED
      BY <2>1, <3>1, <3>2, Zenon
  <2>4. CASE Replay(i, D)
    BY <2>1, <2>4, Zenon DEF Replay
  <2>5. ASSUME NEW p \in Position, OnPropose(i, p) PROVE ValidInv'
    BY <2>1, <2>5, Zenon DEF OnPropose, recovery
  <2>6. ASSUME NEW p, NEW S, Accept(i, p, S) PROVE ValidInv'
    <3>1. UNCHANGED <<decided, executed, resuming>>
      BY <2>6 DEF Accept
    <3>2. journal'[i].base = journal[i].base /\ \A j \in Honest \ {i} : journal'[j] = journal[j]
      BY <2>0, <2>6, Zenon DEF Accept, Journal
    <3> QED
      BY <2>1, <3>1, <3>2
  <2>7. ASSUME NEW p \in Position, Deliver(i, p) \/ DeliverFaulty(i, p) PROVE ValidInv'
    BY <2>6, <2>7, Zenon DEF Deliver, DeliverFaulty
  <2>8. CASE CrashRecover(i)
    <3>1. /\ decided' = [decided EXCEPT ![i] = journal[i].base]
          /\ resuming' = [resuming EXCEPT ![i] = NotResuming]
          /\ journal' = journal /\ executed' = executed
      BY <2>8, Zenon DEF CrashRecover
    <3>2. decided'[i] = journal[i].base /\ resuming'[i].base = <<>>
      BY <2>0, <3>1 DEF NotResuming
    <3>3. <<>> \in Outcomes
      BY ValidEmptyType, Zenon
    <3>4. ValidOf(i)'
      BY <1>1, <1>2, <3>1, <3>2, <3>3, ValidEmpty, Zenon DEF ValidOf
    <3>5. \A j \in Honest \ {i} : decided'[j] = decided[j] /\ resuming'[j] = resuming[j]
      BY <2>0, <3>1, Zenon
    <3> QED
      BY <1>0, <3>1, <3>4, <3>5, ValidOthers, Zenon
  <2>9. ASSUME NEW j \in Honest, NEW s \in Slot, Resume(i, j, s) PROVE ValidInv'
    <3>1. /\ decided' = [decided EXCEPT ![i] = <<>>]
          /\ resuming' = [resuming EXCEPT ![i] =
                 [base |-> Prefix(executed[j], s), own |-> round[i]]]
          /\ journal' = journal /\ executed' = executed
      BY <2>9 DEF Resume, ordering_state
    <3>2. s \in 0..Len(executed[j])
      <4>1. s \in Checkpoints(executed[j])
        BY <2>9, Zenon DEF Resume
      <4>2. s \in DOMAIN executed[j]
        BY <4>1, ZenonT(30) DEF Checkpoints
      <4>3. Len(executed[j]) \in Nat /\ DOMAIN executed[j] = 1..Len(executed[j])
        BY <1>2, OutcomesFacts
      <4> QED
        BY <4>2, <4>3
    <3>3. Prefix(executed[j], s) \in Outcomes /\ Valid(Prefix(executed[j], s))
      BY <1>2, <3>2, PrefixFacts, ValidPrefix, ZenonT(30) DEF ValidOf
    <3>4. decided'[i] = <<>> /\ resuming'[i].base = Prefix(executed[j], s)
      BY <2>0, <3>1
    <3>5. <<>> \in Outcomes
      BY ValidEmptyType, Zenon
    <3>6. ValidOf(i)'
      BY <1>1, <1>2, <3>1, <3>3, <3>4, <3>5, ValidEmpty, Zenon DEF ValidOf
    <3>7. \A k \in Honest \ {i} : decided'[k] = decided[k] /\ resuming'[k] = resuming[k]
      BY <2>0, <3>1, Zenon
    <3> QED
      BY <1>0, <3>1, <3>6, <3>7, ValidOthers, Zenon
  <2>10. CASE OnOrdering(i)
    <3> DEFINE b == resuming[i].base
    <3>1. /\ decided' = [decided EXCEPT ![i] = b]
          /\ executed' = [executed EXCEPT ![i] = Longer(@, b)]
          /\ resuming' = [resuming EXCEPT ![i] = NotResuming]
      BY <2>10 DEF OnOrdering
    <3>2. \E r : journal' = [journal EXCEPT ![i] =
                     [own |-> {}, delivered |-> {}, base |-> b, round |-> r]]
      BY <2>10, Zenon DEF OnOrdering
    <3>3. b \in Outcomes /\ Valid(b)
      BY <1>2 DEF ValidOf
    <3> HIDE DEF b
    <3>4. /\ decided'[i] = b /\ executed'[i] \in {executed[i], b}
          /\ resuming'[i].base = <<>> /\ journal'[i].base = b
      <4>1. decided'[i] = b /\ resuming'[i] = NotResuming
        BY <2>0, <3>1, Zenon
      <4>2. executed'[i] = Longer(executed[i], b)
        BY <2>0, <3>1
      <4>3. Longer(executed[i], b) \in {executed[i], b}
        BY Zenon DEF Longer
      <4>4. NotResuming.base = <<>>
        BY Zenon DEF NotResuming
      <4>5. journal'[i].base = b
        BY <2>0, <3>2
      <4> QED
        BY <4>1, <4>2, <4>3, <4>4, <4>5, Zenon
    <3>5. <<>> \in Outcomes
      BY ValidEmptyType
    <3>6. ValidOf(i)'
      BY <1>1, <1>2, <3>3, <3>4, <3>5, ValidEmpty, Zenon DEF ValidOf
    <3>7. \A j \in Honest \ {i} : /\ decided'[j] = decided[j] /\ executed'[j] = executed[j]
                                  /\ journal'[j] = journal[j] /\ resuming'[j] = resuming[j]
      BY <2>0, <3>1, <3>2, Zenon
    <3> QED
      BY <1>0, <3>6, <3>7, ValidOthers, Zenon
  <2> QED
    BY <1>4, <2>2, <2>3, <2>4, <2>5, <2>7, <2>8, <2>9, <2>10, Zenon DEF Step
<1> QED
  BY <1>3, <1>4 DEF Next

(* Two validators, and one validator before and after it restarts, decide    *)
(* every slot alike (try_commit), for every committee with at most f faulty  *)
(* seats, every schedule and any number of crashes and fast-forwards, as     *)
(* long as no core is fast-forwarded while it still waits for its state.     *)
THEOREM SlotAgreementTheorem ==
    ASSUME ~Retry
    PROVE  Spec => []SlotAgreement
<1>1. Init => DagInv /\ ValidInv
  BY DagInit, ValidInit
<1>2. DagInv /\ ValidInv /\ [Next]_vars => DagInv' /\ ValidInv'
  BY DagStep, ValidStep, Zenon
<1>3. DagInv /\ ValidInv => SlotAgreement
  <2>1. SUFFICES ASSUME DagInv, ValidInv, NEW i \in Honest, NEW j \in Honest
                 PROVE  Agree(decided[i], executed[j]) /\ Agree(executed[i], executed[j])
    BY DEF SlotAgreement
  <2>2. TypeOK /\ World
    BY <2>1, Zenon DEF DagInv
  <2>3. decided[i] \in Outcomes /\ executed[i] \in Outcomes /\ executed[j] \in Outcomes
    BY <2>2, Types, Zenon
  <2>4. Valid(decided[i]) /\ Valid(executed[i]) /\ Valid(executed[j])
    BY <2>1, Zenon DEF ValidInv, ValidOf
  <2> QED
    BY <2>2, <2>3, <2>4, ValidAgree, Zenon
<1> QED
  BY <1>1, <1>2, <1>3, PTL DEF Spec

-----------------------------------------------------------------------------
(* The end of an epoch. *)

NoHandover(o) == \A c \in Checkpoints(o) : ~Ends(Prefix(o, c))

EndsLast(o) == \A c \in Checkpoints(o) : c < Len(o) => ~Ends(Prefix(o, c))

(* Without fast-forwards a core that is not halted has decided no handover,  *)
(* and recovery starts from nothing.                                         *)
HandoverOf(i) ==
    /\ EndsLast(decided[i]) /\ EndsLast(executed[i])
    /\ ~halted[i] => NoHandover(decided[i])
    /\ journal[i].base = <<>> /\ resuming[i] = NotResuming

HandoverInv == \A i \in Honest : HandoverOf(i)

(* No outcomes hold no handover. *)
LEMMA HandoverEmpty ==
    NoHandover(<<>>) /\ EndsLast(<<>>)
<1>1. Checkpoints(<<>>) = {}
  BY DEF Checkpoints
<1> QED
  BY <1>1 DEF NoHandover, EndsLast

(* The invariant holds at the start of an epoch. *)
LEMMA HandoverInit ==
    Init => HandoverInv
  BY HandoverEmpty DEF Init, HandoverInv, HandoverOf

(* A pass ends with the handover, if it decides it, and then halts.          *)
LEMMA HandoverExtended ==
    ASSUME DagInv, NEW i \in Honest, NoHandover(decided[i]),
           NEW t \in OpenSlots(i), Taken(decided[i], decide_slots(i), t),
           NEW e, e = Extended(decided[i], decide_slots(i), t)
    PROVE  EndsLast(e) /\ (~Halts(e, decide_slots(i)[t]) => NoHandover(e))
<1> DEFINE o == decided[i]
           D == decide_slots(i)
<1>0. /\ o \in Outcomes /\ t \in Slot /\ t > Len(o) /\ Len(o) \in Nat /\ t \in Nat
      /\ DOMAIN D = OpenSlots(i) /\ Len(o) \in 0..t
  <2>1. o \in Outcomes /\ DOMAIN D = OpenSlots(i)
    BY DecideSlots, Types, Zenon DEF DagInv
  <2>2. t \in Slot /\ Len(o) < t
    BY OpenSlotsFacts, Zenon
  <2>3. Len(o) \in Nat /\ t \in Nat
    BY <2>1, <2>2, LenNat, SlotNat, Zenon
  <2>4. t > Len(o) /\ Len(o) \in 0..t
    BY <2>2, <2>3
  <2> QED
    BY <2>1, <2>2, <2>3, <2>4, Zenon
<1>1. /\ e \in Outcomes /\ Len(e) = t /\ DOMAIN e = 1..t
      /\ \A s \in (Len(o) + 1)..t : e[s] = Result(o, D, s)
  <2>1. /\ e \in Outcomes /\ Len(e) = t
        /\ \A s \in (Len(o) + 1)..t : e[s] = Result(o, D, s)
    BY <1>0, ExtendedFacts, Zenon
  <2> QED
    BY <2>1, LenNat, Zenon
<1>2. /\ \A n \in 0..Len(o) : Prefix(e, n) = Prefix(o, n)
      /\ \A s \in (Len(o) + 1)..t : Prefix(e, s) = Extended(o, D, s)
  BY <1>0, ExtendedPrefix, Zenon
<1>3. Prefix(e, Len(o)) = o /\ Prefix(e, t) = e
  <2>1. Len(o) \in 0..Len(o)
    BY <1>0
  <2>2. Prefix(o, Len(o)) = o /\ Prefix(e, Len(e)) = e
    BY <1>0, <1>1, PrefixWhole, Zenon
  <2> QED
    BY <1>1, <1>2, <2>1, <2>2, Zenon
<1>4. ASSUME NEW c \in Checkpoints(e), c < t PROVE ~Ends(Prefix(e, c))
  <2>1. c \in 1..t /\ e[c] # Skip /\ Closes(Prefix(e, c))
    BY <1>1, Zenon DEF Checkpoints
  <2>2. CASE c <= Len(o)
    <3>1. c \in Checkpoints(o)
      <4>1. Len(o) \in 0..Len(e)
        BY <1>0, <1>1, Zenon
      <4> QED
        BY <1>1, <1>3, <2>2, <4>1, CheckpointsOfPrefix, Zenon
    <3>2. Prefix(e, c) = Prefix(o, c)
      <4>1. c \in 0..Len(o)
        BY <1>0, <2>1, <2>2
      <4> QED
        BY <1>2, <4>1, Zenon
    <3> QED
      BY <3>1, <3>2, Zenon DEF NoHandover
  <2>3. CASE c > Len(o)
    <3>1. c \in (Len(o) + 1)..t
      BY <1>0, <2>1, <2>3
    <3>2. D[c] = "commit" /\ Closes(Extended(o, D, c))
      BY <1>1, <1>2, <2>1, <3>1, Zenon DEF Result
    <3>3. c \in DOMAIN D
      <4> DEFINE K == Slots * MaxRound
      <4>1. K \in Nat /\ t <= K
        BY <1>0, SlotFacts, CommitRuleAssumption
      <4> HIDE DEF K
      <4>2. c \in 1..K /\ Len(o) < c /\ c <= t
        BY <1>0, <2>1, <3>1, <4>1
      <4> QED
        BY <1>0, <4>2, OpenSlotsFacts, Zenon DEF Slot, K
    <3> QED
      BY <1>4, <3>2, <3>3, Zenon DEF Taken
  <2> QED
    BY <1>0, <2>1, <2>2, <2>3
<1>5. EndsLast(e)
  BY <1>1, <1>4 DEF EndsLast
<1>6. ASSUME ~Halts(e, D[t]) PROVE NoHandover(e)
  <2>1. ASSUME NEW c \in Checkpoints(e) PROVE ~Ends(Prefix(e, c))
    <3>1. c \in 1..t
      BY <1>1, Zenon DEF Checkpoints
    <3>2. CASE c = t
      <4>1. e[t] # Skip /\ Closes(e)
        BY <1>3, <2>1, <3>2, Zenon DEF Checkpoints
      <4>2. t \in (Len(o) + 1)..t
        BY <1>0
      <4>3. D[t] = "commit"
        BY <1>1, <4>1, <4>2, Zenon DEF Result
      <4> QED
        BY <1>3, <1>6, <3>2, <4>1, <4>3, Zenon DEF Halts
    <3> QED
      BY <1>0, <1>4, <2>1, <3>1, <3>2
  <2> QED
    BY <2>1 DEF NoHandover
<1> QED
  BY <1>5, <1>6, Zenon

(* Every step preserves the invariant. *)
LEMMA HandoverStep ==
    ASSUME MaxResumes = 0, DagInv, HandoverInv, [Next]_vars
    PROVE  HandoverInv'
<1>0. TypeOK /\ \A i \in Honest : HandoverOf(i)
  BY Zenon DEF DagInv, HandoverInv
<1>1. CASE UNCHANGED vars
  BY <1>0, <1>1, Zenon DEF HandoverInv, HandoverOf, vars
<1>2. ASSUME NEW i \in Honest, Step(i, decide_slots(i)) PROVE HandoverInv'
  <2> DEFINE D == decide_slots(i)
  <2>0. /\ decided \in [Honest -> Outcomes] /\ executed \in [Honest -> Outcomes]
        /\ journal \in [Honest -> Journal] /\ halted \in [Honest -> BOOLEAN]
        /\ resuming \in [Honest -> [base : Outcomes, own : Round \cup {-1}]]
    BY <1>0, Types, Zenon
  <2>1. CASE /\ UNCHANGED <<decided, executed, halted, resuming>>
             /\ \A j \in Honest : journal'[j].base = journal[j].base
    BY <1>0, <2>1, Zenon DEF HandoverInv, HandoverOf
  <2>2. CASE TryCommit(i, D)
    <3>1. PICK t \in DOMAIN D :
              /\ Taken(decided[i], D, t)
              /\ decided' = [decided EXCEPT ![i] = Extended(decided[i], D, t)]
              /\ executed' = [executed EXCEPT ![i] = Longer(@, Extended(decided[i], D, t))]
              /\ halted' = [halted EXCEPT ![i] = Halts(Extended(decided[i], D, t), D[t])]
      BY <2>2, Zenon DEF TryCommit
    <3>2. UNCHANGED <<journal, resuming>> /\ ~halted[i]
      BY <2>2, Zenon DEF TryCommit, recovery
    <3> DEFINE e == Extended(decided[i], D, t)
    <3>3. EndsLast(e) /\ (~Halts(e, D[t]) => NoHandover(e))
      <4>1. t \in OpenSlots(i) /\ NoHandover(decided[i])
        BY <1>0, <3>2, DecideSlots, Zenon DEF HandoverOf
      <4> QED
        BY <3>1, <4>1, HandoverExtended, Zenon
    <3> HIDE DEF D, e
    <3>4. decided'[i] = e /\ executed'[i] \in {executed[i], e} /\ halted'[i] = Halts(e, D[t])
      BY <2>0, <3>1, Zenon DEF Longer, e
    <3>5. HandoverOf(i)'
      BY <1>0, <3>2, <3>3, <3>4, Zenon DEF HandoverOf, EndsLast, NoHandover
    <3>6. \A j \in Honest \ {i} : /\ decided'[j] = decided[j] /\ executed'[j] = executed[j]
                                  /\ halted'[j] = halted[j]
      BY <2>0, <3>1, Zenon
    <3>7. \A j \in Honest \ {i} : HandoverOf(j)'
      BY <1>0, <3>2, <3>6, Zenon DEF HandoverOf
    <3> QED
      BY <3>5, <3>7, Zenon DEF HandoverInv
  <2>3. ASSUME NEW r \in Round, Propose(i, r) PROVE HandoverInv'
    <3>1. UNCHANGED <<decided, executed, halted, resuming>>
      BY <2>3, Zenon DEF Propose, counts
    <3>2. \A j \in Honest : journal'[j].base = journal[j].base
      BY <2>0, <2>3, Zenon DEF Propose
    <3> QED
      BY <2>1, <3>1, <3>2, Zenon
  <2>4. CASE Replay(i, D)
    BY <2>1, <2>4, Zenon DEF Replay
  <2>5. ASSUME NEW p \in Position, OnPropose(i, p) PROVE HandoverInv'
    BY <2>1, <2>5, Zenon DEF OnPropose, recovery
  <2>6. ASSUME NEW p, NEW S, Accept(i, p, S) PROVE HandoverInv'
    <3>1. UNCHANGED <<decided, executed, halted, resuming>>
      BY <2>6 DEF Accept
    <3>2. \A j \in Honest : journal'[j].base = journal[j].base
      BY <2>0, <2>6, Zenon DEF Accept, Journal
    <3> QED
      BY <2>1, <3>1, <3>2, Zenon
  <2>7. ASSUME NEW p \in Position, Deliver(i, p) \/ DeliverFaulty(i, p) PROVE HandoverInv'
    BY <2>6, <2>7 DEF Deliver, DeliverFaulty
  <2>8. CASE CrashRecover(i)
    <3>1. /\ decided' = [decided EXCEPT ![i] = journal[i].base]
          /\ halted' = [halted EXCEPT ![i] = FALSE]
          /\ resuming' = [resuming EXCEPT ![i] = NotResuming]
          /\ journal' = journal /\ executed' = executed
      BY <2>8, Zenon DEF CrashRecover
    <3>2. decided'[i] = <<>> /\ resuming'[i] = NotResuming
      BY <1>0, <2>0, <3>1, Zenon DEF HandoverOf
    <3>3. HandoverOf(i)'
      BY <1>0, <3>1, <3>2, HandoverEmpty, Zenon DEF HandoverOf, EndsLast, NoHandover
    <3>4. \A j \in Honest \ {i} : HandoverOf(j)'
      BY <1>0, <2>0, <3>1, Zenon DEF HandoverOf
    <3> QED
      BY <3>3, <3>4, Zenon DEF HandoverInv
  <2>9. ~(\E j \in Honest, s \in Slot : Resume(i, j, s))
    <3>1. \A j \in Honest, s \in Slot : Resume(i, j, s) => resumes < MaxResumes
      BY Zenon DEF Resume
    <3>2. resumes \in Nat
      BY <1>0, Types, Zenon
    <3>3. ~(resumes < MaxResumes)
      BY <3>2
    <3> QED
      BY <3>1, <3>3, Zenon
  <2>10. ~OnOrdering(i)
    BY <1>0, Zenon DEF OnOrdering, HandoverOf
  <2> QED
    BY <1>2, <2>2, <2>3, <2>4, <2>5, <2>7, <2>8, <2>9, <2>10, Zenon DEF Step
<1> QED
  BY <1>1, <1>2 DEF Next

(* Without fast-forwards no slot is acted upon after the commit that decided *)
(* the handover checkpoint, over any number of crashes (decide_checkpoint,   *)
(* recover).                                                                 *)
THEOREM NothingPastHandoverTheorem ==
    ASSUME ~Retry, MaxResumes = 0
    PROVE  Spec => []NothingPastHandover
<1>1. Init => DagInv /\ HandoverInv
  BY DagInit, HandoverInit
<1>2. DagInv /\ HandoverInv /\ [Next]_vars => DagInv' /\ HandoverInv'
  BY DagStep, HandoverStep, Zenon
<1>3. HandoverInv => NothingPastHandover
  BY Zenon DEF HandoverInv, HandoverOf, EndsLast, NothingPastHandover
<1> QED
  BY <1>1, <1>2, <1>3, PTL DEF Spec
=============================================================================
