------------------------------ MODULE RbcProofs ------------------------------
(***************************************************************************)
(* Proofs about the reliable broadcast of Rbc, for every committee, every  *)
(* distribution of its seats and every set of faulty members that holds at *)
(* most max_faulty of them.                                                *)
(***************************************************************************)
EXTENDS Rbc, CommitteeProofs

-----------------------------------------------------------------------------
(* Weights of sets of members. *)

(* Weights are numbers and grow with the set (SeatSet::insert). *)
LEMMA WeightGrows ==
    ASSUME NEW S, NEW T, S \subseteq T
    PROVE  /\ Weight(S) \in Nat /\ Weight(T) \in Nat
           /\ Weight(S) <= Weight(T)
           /\ NonAuthorWeight(S) \in Nat /\ NonAuthorWeight(T) \in Nat
           /\ NonAuthorWeight(S) <= NonAuthorWeight(T)
<1>1. SeatsOf(S) \subseteq SeatsOf(T) /\ SeatsOf(T) \subseteq Seat
  BY DEF SeatsOf
<1>2. IsFiniteSet(SeatsOf(T)) /\ IsFiniteSet(SeatsOf(T) \ {AuthorSeat})
  BY <1>1, CommitteeAssumption, FS_Subset
<1>3. Weight(S) \in Nat /\ Weight(T) \in Nat /\ Weight(S) <= Weight(T)
  BY <1>1, <1>2, FS_Subset, FS_CardinalityType DEF Weight
<1>4. SeatsOf(S) \ {AuthorSeat} \subseteq SeatsOf(T) \ {AuthorSeat}
  BY <1>1
<1>5. /\ NonAuthorWeight(S) \in Nat /\ NonAuthorWeight(T) \in Nat
      /\ NonAuthorWeight(S) <= NonAuthorWeight(T)
  BY <1>2, <1>4, FS_Subset, FS_CardinalityType DEF NonAuthorWeight
<1> QED
  BY <1>3, <1>5

(* Every member has a seat, and the author loses exactly one of its own in *)
(* the tallies that leave out the broadcaster.                             *)
LEMMA FaultyWeight ==
    /\ NonAuthorWeight(Byzantine) <= max_faulty
    /\ Byzantine # {} => max_faulty >= 1
    /\ Author \in Byzantine => NonAuthorWeight(Byzantine) <= max_faulty - 1
<1> DEFINE B == SeatsOf(Byzantine)
<1>1. B \subseteq Seat /\ IsFiniteSet(B)
  BY CommitteeAssumption, FS_Subset DEF SeatsOf
<1>2. Cardinality(B) <= max_faulty /\ Cardinality(B) \in Nat /\ max_faulty \in Nat
  BY <1>1, RbcAssumption, Thresholds, FS_CardinalityType DEF Weight
<1>3. NonAuthorWeight(Byzantine) \in Nat /\ NonAuthorWeight(Byzantine) <= max_faulty
  <2>1. /\ Cardinality(B \ {AuthorSeat}) <= Cardinality(B)
        /\ Cardinality(B \ {AuthorSeat}) \in Nat
    BY <1>1, FS_Subset, FS_CardinalityType
  <2> QED
    BY <1>2, <2>1 DEF NonAuthorWeight
<1>4. ASSUME Byzantine # {}
      PROVE  max_faulty >= 1
  <2>1. PICK v \in Byzantine : TRUE
    BY <1>4
  <2>2. PICK s \in Seat : Holder[s] = v
    BY <2>1, CommitteeAssumption, RbcAssumption
  <2>3. B # {}
    BY <2>1, <2>2 DEF SeatsOf
  <2> QED
    BY <1>1, <1>2, <2>3, FS_EmptySet
<1>5. ASSUME Author \in Byzantine
      PROVE  NonAuthorWeight(Byzantine) <= max_faulty - 1
  <2>1. AuthorSeat \in B
    BY <1>5, RbcAssumption DEF SeatsOf
  <2>2. Cardinality(B \ {AuthorSeat}) = Cardinality(B) - 1
    BY <1>1, <2>1, FS_RemoveElement
  <2> QED
    BY <1>2, <2>2 DEF NonAuthorWeight
<1> QED
  BY <1>3, <1>4, <1>5

(* Two sets of members that have only faulty members in common: together   *)
(* they weigh no more than every seat but the author's one, plus the seats *)
(* of the faulty.                                                          *)
LEMMA Overlap ==
    ASSUME NEW S, NEW T, S \cap T \subseteq Byzantine
    PROVE  NonAuthorWeight(S) + NonAuthorWeight(T)
             <= total_seats - 1 + NonAuthorWeight(Byzantine)
<1> DEFINE A == SeatsOf(S) \ {AuthorSeat}
           B == SeatsOf(T) \ {AuthorSeat}
           F == SeatsOf(Byzantine) \ {AuthorSeat}
           R == Seat \ {AuthorSeat}
<1>1. A \cup B \subseteq R /\ A \cap B \subseteq F /\ F \subseteq R
  BY DEF SeatsOf
<1>2. IsFiniteSet(R) /\ Cardinality(R) = total_seats - 1
  BY Zenon, CommitteeAssumption, RbcAssumption, FS_RemoveElement DEF total_seats
<1>3. /\ IsFiniteSet(A) /\ IsFiniteSet(B) /\ IsFiniteSet(F)
      /\ IsFiniteSet(A \cup B) /\ IsFiniteSet(A \cap B)
  <2>1. A \subseteq R /\ B \subseteq R /\ A \cap B \subseteq R
    BY <1>1
  <2> HIDE DEF A, B, F, R
  <2> QED
    BY <2>1, <1>1, <1>2, FS_Subset
<1>4. Cardinality(A \cup B) = Cardinality(A) + Cardinality(B) - Cardinality(A \cap B)
  BY <1>3, FS_Union
<1>5. Cardinality(A \cup B) <= Cardinality(R)
  BY <1>1, <1>2, FS_Subset
<1>6. Cardinality(A \cap B) <= Cardinality(F)
  BY <1>1, <1>3, FS_Subset
<1>7. /\ Cardinality(A) \in Nat /\ Cardinality(B) \in Nat /\ Cardinality(F) \in Nat
      /\ Cardinality(A \cup B) \in Nat /\ Cardinality(A \cap B) \in Nat
  BY <1>3, FS_CardinalityType
<1>8. Cardinality(A) + Cardinality(B) <= total_seats - 1 + Cardinality(F)
  <2> HIDE DEF A, B, F, R
  <2> QED
    BY <1>2, <1>4, <1>5, <1>6, <1>7, Thresholds
<1> QED
  BY <1>8 DEF NonAuthorWeight

(* A set that outweighs the faulty members has an honest one. *)
LEMMA HonestAmong ==
    ASSUME NEW S, S \subseteq Validator,
           Weight(S) > max_faulty \/ NonAuthorWeight(S) > NonAuthorWeight(Byzantine)
    PROVE  \E v \in S : v \in Honest
<1> SUFFICES ASSUME S \subseteq Byzantine PROVE FALSE
  BY DEF Honest
<1>1. /\ Weight(S) \in Nat /\ Weight(Byzantine) \in Nat
      /\ Weight(S) <= Weight(Byzantine)
      /\ NonAuthorWeight(S) \in Nat /\ NonAuthorWeight(Byzantine) \in Nat
      /\ NonAuthorWeight(S) <= NonAuthorWeight(Byzantine)
  BY WeightGrows
<1> QED
  BY <1>1, RbcAssumption, Thresholds

-----------------------------------------------------------------------------
(* A handler's steps on validator i's instance. *)

(* The wire once validator i's instance is s and its signals are sent. *)
After(s, i) == [wire EXCEPT ![i] = [k \in Kind |-> {s.got[k][i]} \ {NoDigest}]]

(* What the checks of on_signal preserve while a handler runs. *)
StepInv(s, i) ==
    /\ s \in Instance
    /\ \A k \in Kind : inst[i].got[k][i] \in {NoDigest, s.got[k][i]}
    /\ \A k \in Kind, j \in Honest : s.got[k][j] \in Maybe(After(s, i)[j][k])
    /\ s.proposed = NoDigest => s.got["Echo"][i] = NoDigest
    /\ SignalsBacked(After(s, i))
    /\ s.delivered # NoDigest => DeliveryBacked(After(s, i), s.delivered)

(* More on the wire backs what less backed. *)
LEMMA BackingGrows ==
    ASSUME NEW w, NEW x, \A v \in Honest, k \in Kind : w[v][k] \subseteq x[v][k],
           NEW d
    PROVE  /\ \A k \in Kind : SignalBacked(w, k, d) => SignalBacked(x, k, d)
           /\ DeliveryBacked(w, d) => DeliveryBacked(x, d)
<1>1. \A k \in Kind : Said(w, k, d) \subseteq Said(x, k, d)
  BY DEF Said
<1>2. \A k \in Kind :
        /\ Weight(Said(w, k, d)) \in Nat /\ Weight(Said(x, k, d)) \in Nat
        /\ Weight(Said(w, k, d)) <= Weight(Said(x, k, d))
        /\ NonAuthorWeight(Said(w, k, d)) \in Nat
        /\ NonAuthorWeight(Said(x, k, d)) \in Nat
        /\ NonAuthorWeight(Said(w, k, d)) <= NonAuthorWeight(Said(x, k, d))
  BY <1>1, WeightGrows
<1>3. "Echo" \in Kind /\ "Vote" \in Kind /\ "Ack" \in Kind /\ "Ready" \in Kind
  BY DEF Kind
<1> QED
  BY <1>2, <1>3, Thresholds DEF SignalBacked, DeliveryBacked

(* What one pass of the checks changes. *)
LEMMA CheckChanges ==
    ASSUME NEW s \in Instance, NEW i \in Honest, NEW d \in Digest
    PROVE  LET t == Check(s, i, d)
           IN  /\ t \in Instance
               /\ t.proposed = s.proposed
               /\ \A k \in Kind, j \in Validator :
                     \/ t.got[k][j] = s.got[k][j]
                     \/ /\ j = i /\ s.got[k][i] = NoDigest /\ t.got[k][i] = d
                        /\ Justified(s, k, d)
               /\ \/ t.delivered = s.delivered
                  \/ s.delivered = NoDigest /\ t.delivered = d /\ Deliverable(s, d)
<1> DEFINE t == Check(s, i, d)
           g == [k \in Kind |-> IF s.got[k][i] = NoDigest /\ Justified(s, k, d)
                                THEN [s.got[k] EXCEPT ![i] = d]
                                ELSE s.got[k]]
           e == IF s.delivered = NoDigest /\ Deliverable(s, d) THEN d ELSE s.delivered
<1>1. i \in Validator
  BY DEF Honest
<1>2. /\ s.proposed \in Maybe(Digest)
      /\ s.got \in [Kind -> [Validator -> Maybe(Digest)]]
      /\ s.delivered \in Maybe(Digest)
  BY DEF Instance
<1>3. t = [proposed |-> s.proposed, got |-> g, delivered |-> e]
  BY DEF Check
<1>4. g \in [Kind -> [Validator -> Maybe(Digest)]] /\ e \in Maybe(Digest)
  BY <1>1, <1>2 DEF Maybe
<1>5. \A k \in Kind, j \in Validator :
        \/ g[k][j] = s.got[k][j]
        \/ j = i /\ s.got[k][i] = NoDigest /\ g[k][i] = d /\ Justified(s, k, d)
  BY <1>1, <1>2
<1>6. t \in Instance
  BY <1>2, <1>3, <1>4 DEF Instance
<1> HIDE DEF g, e
<1>7. t.proposed = s.proposed /\ t.got = g /\ t.delivered = e
  BY <1>3
<1> QED
  BY <1>5, <1>6, <1>7 DEF e

(* A validator counts no one who did not speak: its tallies are within     *)
(* what is on the wire.                                                    *)
LEMMA TalliesBacked ==
    ASSUME NEW s, NEW i \in Honest, StepInv(s, i), NEW d \in Digest, NEW k \in Kind
    PROVE  /\ Senders(s, k, d) \subseteq Said(After(s, i), k, d)
           /\ Weight(Senders(s, k, d)) \in Nat
           /\ NonAuthorWeight(Senders(s, k, d)) \in Nat
           /\ Weight(Said(After(s, i), k, d)) \in Nat
           /\ NonAuthorWeight(Said(After(s, i), k, d)) \in Nat
           /\ Weight(Senders(s, k, d)) <= Weight(Said(After(s, i), k, d))
           /\ NonAuthorWeight(Senders(s, k, d))
                <= NonAuthorWeight(Said(After(s, i), k, d))
<1>1. Senders(s, k, d) \subseteq Said(After(s, i), k, d)
  <2> SUFFICES ASSUME NEW v \in Senders(s, k, d), v \notin Byzantine
               PROVE  v \in Honest /\ d \in After(s, i)[v][k]
    BY DEF Said
  <2>1. v \in Honest /\ s.got[k][v] = d
    BY DEF Senders, Honest
  <2>2. s.got[k][v] \in Maybe(After(s, i)[v][k])
    BY <2>1, Zenon DEF StepInv
  <2> QED
    BY <2>1, <2>2, RbcAssumption DEF Maybe
<1> QED
  BY <1>1, WeightGrows

(* One pass of on_signal's checks keeps what is said and delivered backed. *)
LEMMA CheckStep ==
    ASSUME TypeOK, NEW s, NEW i \in Honest, StepInv(s, i), NEW d \in Digest
    PROVE  StepInv(Check(s, i, d), i)
<1> DEFINE t == Check(s, i, d)
           w == After(s, i)
           x == After(t, i)
<1>1. s \in Instance
  BY DEF StepInv
<1>2. /\ t \in Instance
      /\ t.proposed = s.proposed
      /\ \A k \in Kind, j \in Validator :
            \/ t.got[k][j] = s.got[k][j]
            \/ /\ j = i /\ s.got[k][i] = NoDigest /\ t.got[k][i] = d
               /\ Justified(s, k, d)
      /\ \/ t.delivered = s.delivered
         \/ s.delivered = NoDigest /\ t.delivered = d /\ Deliverable(s, d)
  BY <1>1, CheckChanges
<1> HIDE DEF t
<1>3. i \in Validator /\ Honest \subseteq Validator
  BY DEF Honest
<1>4. wire \in [Honest -> [Kind -> SUBSET Digest]]
  BY DEF TypeOK
<1>5. /\ \A v \in Honest, k \in Kind :
            /\ w[v][k] = IF v = i THEN {s.got[k][i]} \ {NoDigest} ELSE wire[v][k]
            /\ x[v][k] = IF v = i THEN {t.got[k][i]} \ {NoDigest} ELSE wire[v][k]
  BY <1>4 DEF After
<1> HIDE DEF w, x
<1>6. \A v \in Honest, k \in Kind : w[v][k] \subseteq x[v][k]
  <2> SUFFICES ASSUME NEW v \in Honest, NEW k \in Kind PROVE w[v][k] \subseteq x[v][k]
    OBVIOUS
  <2>1. CASE v # i
    BY Zenon, <2>1, <1>5
  <2>2. CASE v = i
    <3>1. s.got[k][i] \in {NoDigest, t.got[k][i]}
      BY <1>2, <1>3
    <3>2. w[v][k] = {s.got[k][i]} \ {NoDigest} /\ x[v][k] = {t.got[k][i]} \ {NoDigest}
      BY Zenon, <2>2, <1>5
    <3> QED
      BY <3>1, <3>2
  <2> QED
    BY <2>1, <2>2
<1>7. \A k \in Kind : inst[i].got[k][i] \in {NoDigest, t.got[k][i]}
  BY <1>2, <1>3 DEF StepInv
<1>8. ASSUME NEW k \in Kind, NEW j \in Honest
      PROVE  t.got[k][j] \in Maybe(x[j][k])
  <2>1. s.got[k][j] \in Maybe(w[j][k])
    BY DEF StepInv, w
  <2>2. CASE j # i
    <3>1. t.got[k][j] = s.got[k][j]
      BY <2>2, <1>2, <1>3
    <3>2. w[j][k] = x[j][k]
      BY Zenon, <2>2, <1>5
    <3> QED
      BY <2>1, <3>1, <3>2
  <2>3. CASE j = i
    <3>1. x[j][k] = {t.got[k][i]} \ {NoDigest}
      BY Zenon, <2>3, <1>5
    <3> QED
      BY <2>3, <3>1 DEF Maybe
  <2> QED
    BY <2>2, <2>3
<1>9. t.proposed = NoDigest => t.got["Echo"][i] = NoDigest
  <2>1. ~ Justified(s, "Echo", d)
    BY DEF Justified
  <2>2. t.got["Echo"][i] = s.got["Echo"][i]
    BY <2>1, <1>2, <1>3 DEF Kind
  <2> QED
    BY <2>2, <1>2 DEF StepInv
<1>10. ASSUME NEW k \in Kind, Justified(s, k, d)
       PROVE  SignalBacked(w, k, d)
  <2> DEFINE tally(q) == NonAuthorWeight(Senders(s, q, d))
  <2>1. "Echo" \in Kind /\ "Vote" \in Kind /\ "Ack" \in Kind /\ "Ready" \in Kind
    BY DEF Kind
  <2>2. \A q \in Kind : /\ tally(q) \in Nat
                        /\ NonAuthorWeight(Said(w, q, d)) \in Nat
                        /\ tally(q) <= NonAuthorWeight(Said(w, q, d))
    BY TalliesBacked DEF w
  <2>3. CASE k = "Echo"
    BY <1>10, <2>3 DEF Justified
  <2>4. CASE k = "Vote"
    BY <1>10, <2>1, <2>2, <2>4, Thresholds DEF Justified, SignalBacked
  <2>5. CASE k = "Ack"
    BY <1>10, <2>1, <2>2, <2>5, Thresholds DEF Justified, SignalBacked
  <2>6. CASE k = "Ready"
    <3>1. CASE tally("Ack") >= rbc_ack_threshold
      BY <3>1, <2>1, <2>2, <2>6, Thresholds DEF SignalBacked
    <3>2. CASE Weight(Senders(s, "Ready", d)) >= validity
      <4>1. Weight(Senders(s, "Ready", d)) > max_faulty
        BY <3>2, <2>1, TalliesBacked, Thresholds
      <4>2. PICK v \in Senders(s, "Ready", d) : v \in Honest
        BY <4>1, HonestAmong DEF Senders
      <4>3. d \in w[v]["Ready"]
        <5>1. s.got["Ready"][v] \in Maybe(w[v]["Ready"])
          BY <4>2, <2>1 DEF StepInv, w
        <5>2. s.got["Ready"][v] = d
          BY <4>2 DEF Senders
        <5> QED
          BY <5>1, <5>2, RbcAssumption, Zenon DEF Maybe
      <4>4. SignalsBacked(w)
        BY DEF StepInv, w
      <4> QED
        BY <4>2, <4>3, <4>4, <2>1, <2>6 DEF SignalsBacked
    <3> QED
      BY <1>10, <2>6, <3>1, <3>2 DEF Justified
  <2> QED
    BY <2>3, <2>4, <2>5, <2>6 DEF Kind
<1>11. SignalsBacked(x)
  <2> SUFFICES ASSUME NEW v \in Honest, NEW k \in Kind, NEW e \in x[v][k]
               PROVE  SignalBacked(w, k, e)
    BY Zenon, <1>6, BackingGrows DEF SignalsBacked
  <2>1. CASE e \in w[v][k]
    BY <2>1 DEF StepInv, SignalsBacked, w
  <2>2. CASE e \notin w[v][k]
    <3>1. e = d /\ Justified(s, k, d)
      <4>1. v = i
        BY Zenon, <2>2, <1>5
      <4>2. e = t.got[k][i] /\ e # NoDigest /\ s.got[k][i] # e
        BY ZenonT(30), <4>1, <2>2, <1>5
      <4> QED
        BY <4>2, <1>2, <1>3
    <3> QED
      BY <3>1, <1>10
  <2> QED
    BY <2>1, <2>2
<1>12. t.delivered # NoDigest => DeliveryBacked(x, t.delivered)
  <2> SUFFICES ASSUME t.delivered # NoDigest PROVE DeliveryBacked(w, t.delivered)
    BY <1>6, BackingGrows
  <2>1. CASE t.delivered = s.delivered
    BY <2>1 DEF StepInv, w
  <2>2. CASE t.delivered = d /\ Deliverable(s, d)
    <3>1. "Echo" \in Kind /\ "Ready" \in Kind
      BY DEF Kind
    <3>2. /\ NonAuthorWeight(Senders(s, "Echo", d)) \in Nat
          /\ NonAuthorWeight(Said(w, "Echo", d)) \in Nat
          /\ NonAuthorWeight(Senders(s, "Echo", d)) <= NonAuthorWeight(Said(w, "Echo", d))
          /\ Weight(Senders(s, "Ready", d)) \in Nat
          /\ Weight(Said(w, "Ready", d)) \in Nat
          /\ Weight(Senders(s, "Ready", d)) <= Weight(Said(w, "Ready", d))
      BY <3>1, TalliesBacked DEF w
    <3> QED
      BY <2>2, <3>2, Thresholds DEF Deliverable, DeliveryBacked
  <2> QED
    BY <1>2, <2>1, <2>2
<1> QED
  BY <1>2, <1>7, <1>8, <1>9, <1>11, <1>12, Zenon DEF StepInv, t, x

(* Every pass of the checks, loopback included. *)
LEMMA ChecksStep ==
    ASSUME TypeOK, NEW s, NEW i \in Honest, StepInv(s, i), NEW d \in Digest
    PROVE  StepInv(Checks(s, i, d), i)
<1>1. StepInv(Check(s, i, d), i)
  BY CheckStep
<1>2. StepInv(Check(Check(s, i, d), i, d), i)
  BY <1>1, CheckStep
<1>3. StepInv(Check(Check(Check(s, i, d), i, d), i, d), i)
  BY <1>2, CheckStep
<1> QED
  BY <1>3, CheckStep DEF Checks

(* Between handlers an instance is as a handler finds it. *)
LEMMA StartStep ==
    ASSUME Inv, NEW i \in Honest
    PROVE  After(inst[i], i) = wire /\ StepInv(inst[i], i)
<1>1. inst[i] \in Instance /\ wire \in [Honest -> [Kind -> SUBSET Digest]]
  BY DEF Inv, TypeOK
<1>2. After(inst[i], i) = wire
  <2>1. wire[i] = [k \in Kind |-> {inst[i].got[k][i]} \ {NoDigest}]
    BY <1>1 DEF Inv, OneVoice
  <2> QED
    BY <1>1, <2>1 DEF After
<1>3. inst[i].delivered # NoDigest => DeliveryBacked(wire, inst[i].delivered)
  BY DEF Inv, Deliveries, Maybe
<1> QED
  BY <1>1, <1>2, <1>3 DEF Inv, StepInv, Heard

(* Counting a signal someone else sent. *)
LEMMA CountOther ==
    ASSUME Inv, NEW i \in Honest, NEW j \in Validator, j # i, NEW k \in Kind,
           NEW d \in Digest, j \in Honest => d \in wire[j][k]
    PROVE  StepInv(Count(inst[i], k, j, d), i)
<1> DEFINE s == inst[i]
           t == Count(s, k, j, d)
<1>1. StepInv(s, i) /\ After(s, i) = wire
  BY StartStep
<1>2. s \in Instance /\ i \in Validator
  BY DEF Inv, TypeOK, Honest
<1>3. /\ t \in Instance
      /\ t.proposed = s.proposed
      /\ t.delivered = s.delivered
      /\ \A q \in Kind, v \in Validator :
            t.got[q][v] = IF q = k /\ v = j THEN d ELSE s.got[q][v]
  BY Zenon, <1>2 DEF Count, Instance, Maybe
<1> HIDE DEF s, t
<1>4. \A q \in Kind : t.got[q][i] = s.got[q][i]
  BY <1>2, <1>3
<1>5. After(t, i) = wire
  BY <1>1, <1>4 DEF After
<1>6. \A q \in Kind, v \in Honest : t.got[q][v] \in Maybe(wire[v][q])
  <2> SUFFICES ASSUME NEW q \in Kind, NEW v \in Honest
               PROVE  t.got[q][v] \in Maybe(wire[v][q])
    OBVIOUS
  <2>1. v \in Validator /\ s.got[q][v] \in Maybe(wire[v][q])
    BY <1>1 DEF StepInv, Honest
  <2>2. CASE q = k /\ v = j
    <3>1. t.got[q][v] = d /\ d \in wire[v][q]
      BY <2>1, <2>2, <1>3
    <3> QED
      BY <3>1 DEF Maybe
  <2>3. CASE ~(q = k /\ v = j)
    BY <2>1, <2>3, <1>3, Zenon
  <2> QED
    BY <2>2, <2>3
<1>7. t.proposed = NoDigest => t.got["Echo"][i] = NoDigest
  BY <1>1, <1>3, <1>4, Zenon DEF StepInv, Kind
<1>8. StepInv(t, i)
  BY <1>1, <1>3, <1>4, <1>5, <1>6, <1>7 DEF StepInv
<1> QED
  BY <1>8 DEF s, t

(* Echoing the first proposal taken. *)
LEMMA CountEcho ==
    ASSUME Inv, NEW i \in Honest, NEW d \in Digest, inst[i].got["Echo"][i] = NoDigest
    PROVE  StepInv(Count([inst[i] EXCEPT !.proposed = d], "Echo", i, d), i)
<1> DEFINE s == inst[i]
           t == Count([s EXCEPT !.proposed = d], "Echo", i, d)
           x == After(t, i)
<1>1. StepInv(s, i) /\ After(s, i) = wire
  BY StartStep
<1>2. s \in Instance /\ i \in Validator /\ "Echo" \in Kind
  BY DEF Inv, TypeOK, Honest, Kind
<1>3. wire \in [Honest -> [Kind -> SUBSET Digest]] /\ d # NoDigest
  BY RbcAssumption DEF Inv, TypeOK
<1>4. /\ t \in Instance
      /\ t.proposed = d
      /\ t.delivered = s.delivered
      /\ \A q \in Kind, v \in Validator :
            t.got[q][v] = IF q = "Echo" /\ v = i THEN d ELSE s.got[q][v]
  BY Zenon, <1>2 DEF Count, Instance, Maybe
<1>5. s.got["Echo"][i] = NoDigest
  OBVIOUS
<1> HIDE DEF s, t
<1>6. \A v \in Honest, q \in Kind :
        x[v][q] = IF v = i THEN {t.got[q][i]} \ {NoDigest} ELSE wire[v][q]
  BY <1>3 DEF After
<1>7. \A q \in Kind : wire[i][q] = {s.got[q][i]} \ {NoDigest}
  BY DEF Inv, OneVoice, s
<1> HIDE DEF x
<1>8. \A v \in Honest, q \in Kind :
        /\ wire[v][q] \subseteq x[v][q]
        /\ q # "Echo" => x[v][q] = wire[v][q]
  <2> SUFFICES ASSUME NEW v \in Honest, NEW q \in Kind
               PROVE  /\ wire[v][q] \subseteq x[v][q]
                      /\ q # "Echo" => x[v][q] = wire[v][q]
    OBVIOUS
  <2>1. CASE v # i
    BY Zenon, <2>1, <1>6
  <2>2. CASE v = i /\ q # "Echo"
    <3>1. t.got[q][i] = s.got[q][i]
      BY <2>2, <1>2, <1>4
    <3>2. x[v][q] = {t.got[q][i]} \ {NoDigest}
      BY Zenon, <2>2, <1>6
    <3>3. x[v][q] = wire[v][q]
      BY <3>1, <3>2, <2>2, <1>7
    <3> QED
      BY <3>3
  <2>3. CASE v = i /\ q = "Echo"
    BY <2>3, <1>5, <1>7
  <2> QED
    BY <2>1, <2>2, <2>3
<1>9. \A q \in Kind, v \in Honest : t.got[q][v] \in Maybe(x[v][q])
  <2> SUFFICES ASSUME NEW q \in Kind, NEW v \in Honest
               PROVE  t.got[q][v] \in Maybe(x[v][q])
    OBVIOUS
  <2>1. v \in Validator /\ s.got[q][v] \in Maybe(wire[v][q])
    BY <1>1 DEF StepInv, Honest
  <2>2. CASE v = i
    BY Zenon, <2>2, <1>6 DEF Maybe
  <2>3. CASE v # i
    BY Zenon, <2>1, <2>3, <1>4, <1>6
  <2> QED
    BY <2>2, <2>3
<1>10. SignalsBacked(x)
  <2> SUFFICES ASSUME NEW v \in Honest, NEW q \in Kind, NEW e \in x[v][q]
               PROVE  SignalBacked(x, q, e)
    BY DEF SignalsBacked
  <2>1. CASE q = "Echo"
    BY <2>1 DEF SignalBacked
  <2>2. CASE q # "Echo"
    <3>1. SignalBacked(wire, q, e)
      BY <2>2, <1>8 DEF Inv, SignalsBacked
    <3> QED
      BY Zenon, <3>1, <1>8, BackingGrows
  <2> QED
    BY <2>1, <2>2
<1>11. t.delivered # NoDigest => DeliveryBacked(x, t.delivered)
  <2> SUFFICES ASSUME t.delivered # NoDigest PROVE DeliveryBacked(wire, t.delivered)
    BY Zenon, <1>8, BackingGrows
  <2> QED
    BY <1>1, <1>4 DEF StepInv
<1>12. \A q \in Kind : inst[i].got[q][i] \in {NoDigest, t.got[q][i]}
  BY <1>2, <1>4, <1>5, Zenon DEF s
<1>13. StepInv(t, i)
  BY <1>3, <1>4, <1>9, <1>10, <1>11, <1>12 DEF StepInv, x
<1> QED
  BY <1>13 DEF s, t

-----------------------------------------------------------------------------
(* An honest author's instance. *)

(* The honest validators of instance s speak for o alone. *)
OnlyFor(s, o) ==
    /\ \A k \in Kind, j \in Honest : s.got[k][j] \in {NoDigest, o}
    /\ s.delivered \in {NoDigest, o}

(* The faulty members alone reach no threshold. *)
LEMMA FaultyAlone ==
    ASSUME NEW S, S \subseteq Byzantine, Byzantine # {}
    PROVE  /\ ~(NonAuthorWeight(S) >= rbc_vote_threshold)
           /\ ~(NonAuthorWeight(S) >= rbc_ack_threshold)
           /\ ~(NonAuthorWeight(S) >= rbc_fast_threshold)
           /\ ~(Weight(S) >= validity)
           /\ ~(Weight(S) >= ready_delivery)
<1>1. /\ Weight(S) \in Nat /\ Weight(Byzantine) \in Nat
      /\ Weight(S) <= Weight(Byzantine)
      /\ NonAuthorWeight(S) \in Nat /\ NonAuthorWeight(Byzantine) \in Nat
      /\ NonAuthorWeight(S) <= NonAuthorWeight(Byzantine)
  BY WeightGrows
<1>2. Weight(S) <= max_faulty /\ NonAuthorWeight(S) <= max_faulty /\ max_faulty >= 1
  BY <1>1, FaultyWeight, RbcAssumption, Thresholds
<1> QED
  BY <1>1, <1>2, Thresholds

(* An instance in which the honest signals and the delivery name only o stays
   so through one check: faulty members alone justify no signal for another
   digest, and without faulty members no other digest is checked. *)
LEMMA CheckOnlyFor ==
    ASSUME NEW s \in Instance, NEW i \in Honest, NEW d \in Digest, NEW o,
           OnlyFor(s, o), d # o => Byzantine # {}
    PROVE  OnlyFor(Check(s, i, d), o)
<1> DEFINE t == Check(s, i, d)
<1>1. /\ \A k \in Kind, j \in Validator :
            \/ t.got[k][j] = s.got[k][j]
            \/ /\ j = i /\ s.got[k][i] = NoDigest /\ t.got[k][i] = d
               /\ Justified(s, k, d)
      /\ \/ t.delivered = s.delivered
         \/ s.delivered = NoDigest /\ t.delivered = d /\ Deliverable(s, d)
  BY CheckChanges
<1> HIDE DEF t
<1>2. Honest \subseteq Validator
  BY DEF Honest
<1>a. /\ \A k \in Kind, j \in Honest : s.got[k][j] \in {NoDigest, o}
      /\ s.delivered \in {NoDigest, o}
  BY DEF OnlyFor
<1>3. CASE d = o
  <2>1. ASSUME NEW k \in Kind, NEW j \in Honest
        PROVE  t.got[k][j] \in {NoDigest, o}
    BY <1>1, <1>2, <1>3, <1>a
  <2>2. t.delivered \in {NoDigest, o}
    BY <1>1, <1>3, <1>a
  <2> QED
    BY <2>1, <2>2 DEF OnlyFor, t
<1>4. CASE d # o
  <2>1. \A k \in Kind : Senders(s, k, d) \subseteq Byzantine
    BY <1>4, RbcAssumption DEF Senders, OnlyFor, Honest
  <2>2. \A k \in Kind :
          /\ ~(NonAuthorWeight(Senders(s, k, d)) >= rbc_vote_threshold)
          /\ ~(NonAuthorWeight(Senders(s, k, d)) >= rbc_ack_threshold)
          /\ ~(NonAuthorWeight(Senders(s, k, d)) >= rbc_fast_threshold)
          /\ ~(Weight(Senders(s, k, d)) >= validity)
          /\ ~(Weight(Senders(s, k, d)) >= ready_delivery)
    BY <1>4, <2>1, FaultyAlone
  <2>3. "Echo" \in Kind /\ "Vote" \in Kind /\ "Ack" \in Kind /\ "Ready" \in Kind
    BY DEF Kind
  <2>4. ~Deliverable(s, d) /\ \A k \in Kind : ~Justified(s, k, d)
    BY <2>2, <2>3 DEF Deliverable, Justified
  <2>5. ASSUME NEW k \in Kind, NEW j \in Honest
        PROVE  t.got[k][j] \in {NoDigest, o}
    BY <1>1, <1>2, <2>4, <1>a, Zenon
  <2>6. t.delivered \in {NoDigest, o}
    BY <1>1, <2>4, <1>a
  <2> QED
    BY <2>5, <2>6 DEF OnlyFor, t
<1> QED
  BY <1>3, <1>4 DEF t

(* The same for all the checks of one call. *)
LEMMA ChecksOnlyFor ==
    ASSUME NEW s \in Instance, NEW i \in Honest, NEW d \in Digest, NEW o,
           OnlyFor(s, o), d # o => Byzantine # {}
    PROVE  OnlyFor(Checks(s, i, d), o)
<1>1. Check(s, i, d) \in Instance /\ OnlyFor(Check(s, i, d), o)
  BY CheckChanges, CheckOnlyFor
<1>2. /\ Check(Check(s, i, d), i, d) \in Instance
      /\ OnlyFor(Check(Check(s, i, d), i, d), o)
  BY <1>1, CheckChanges, CheckOnlyFor
<1>3. /\ Check(Check(Check(s, i, d), i, d), i, d) \in Instance
      /\ OnlyFor(Check(Check(Check(s, i, d), i, d), i, d), o)
  BY <1>2, CheckChanges, CheckOnlyFor
<1> QED
  BY <1>3, CheckOnlyFor, Zenon DEF Checks

-----------------------------------------------------------------------------
(* The invariant. *)

(* The invariant holds before any instance has a signal (Instance::new). *)
LEMMA InitInv == Init => Inv
<1> SUFFICES ASSUME Init PROVE Inv
  OBVIOUS
<1> USE DEF Init, NoInstance, NoJournal
<1>1. TypeOK
  BY DEF TypeOK, Instance, Journal, Maybe
<1>2. OneVoice
  BY DEF OneVoice, Honest
<1>3. Heard
  BY DEF Heard, Maybe, Honest, Kind
<1>4. SignalsBacked(wire)
  BY DEF SignalsBacked
<1>5. Deliveries
  BY DEF Deliveries, Maybe
<1>6. AuthorKnown
  BY DEF AuthorKnown
<1> QED
  BY <1>1, <1>2, <1>3, <1>4, <1>5, <1>6 DEF Inv

(* A pass of the driver over an instance the handler left well backed. *)
LEMMA PassKeeps ==
    ASSUME Inv, NEW i \in Honest, NEW s, StepInv(s, i), Pass(i, s),
           own' \in Maybe(Digest), own \in {NoDigest, own'},
           Author \in Honest => OnlyFor(s, own')
    PROVE  Inv'
<1> DEFINE x == After(s, i)
<1>1. s \in Instance /\ i \in Validator
  BY DEF StepInv, Honest
<1>2. /\ inst \in [Honest -> Instance]
      /\ journal \in [Honest -> Journal]
      /\ wire \in [Honest -> [Kind -> SUBSET Digest]]
      /\ output \in [Honest -> SUBSET Digest]
      /\ crashes \in Nat
  BY DEF Inv, TypeOK
<1>3. /\ s.got \in [Kind -> [Validator -> Maybe(Digest)]]
      /\ s.delivered \in Maybe(Digest)
  BY <1>1 DEF Instance
<1>4. inst' = [inst EXCEPT ![i] = s]
  BY DEF Pass
<1>5. /\ journal' \in [Honest -> Journal]
      /\ \A v \in Honest, k \in Kind :
            journal'[v].sent[k] = IF v = i THEN s.got[k][i] ELSE journal[v].sent[k]
      /\ \A v \in Honest : journal'[v].delivered = journal[v].delivered
  <2> DEFINE sent == [k \in Kind |-> s.got[k][i]]
  <2>1. journal' = [journal EXCEPT ![i].sent = sent]
    BY DEF Pass
  <2>2. sent \in [Kind -> Maybe(Digest)]
    BY <1>1, <1>3
  <2>3. \A k \in Kind : sent[k] = s.got[k][i]
    OBVIOUS
  <2> HIDE DEF sent
  <2> QED
    BY <2>1, <2>2, <2>3, <1>2 DEF Journal
<1>6. wire' = x
  <2>1. \A k \in Kind :
          wire[i][k] \cup ({s.got[k][i]} \ {NoDigest}) = {s.got[k][i]} \ {NoDigest}
    <3> SUFFICES ASSUME NEW k \in Kind
                 PROVE  wire[i][k] \subseteq {s.got[k][i]} \ {NoDigest}
      OBVIOUS
    <3>1. wire[i][k] = {inst[i].got[k][i]} \ {NoDigest}
      BY Zenon DEF Inv, OneVoice
    <3>2. inst[i].got[k][i] \in {NoDigest, s.got[k][i]}
      BY DEF StepInv
    <3> QED
      BY <3>1, <3>2
  <2>2. wire' = [wire EXCEPT ![i] =
                    [k \in Kind |-> wire[i][k] \cup ({s.got[k][i]} \ {NoDigest})]]
    BY Zenon, <1>2 DEF Pass
  <2> QED
    BY Zenon, <2>1, <2>2 DEF After
<1>7. \A v \in Honest, k \in Kind :
        x[v][k] = IF v = i THEN {s.got[k][i]} \ {NoDigest} ELSE wire[v][k]
  BY <1>2 DEF After
<1>8. output' = [output EXCEPT ![i] = output[i] \cup ({s.delivered} \ {NoDigest})]
  BY <1>2, Zenon DEF Pass
<1>9. \A v \in Honest, k \in Kind : wire[v][k] \subseteq x[v][k]
  <2> SUFFICES ASSUME NEW k \in Kind
               PROVE  wire[i][k] \subseteq {s.got[k][i]} \ {NoDigest}
    <3>1. \A v \in Honest, q \in Kind : v # i => x[v][q] = wire[v][q]
      BY Zenon, <1>7
    <3>2. \A q \in Kind : x[i][q] = {s.got[q][i]} \ {NoDigest}
      BY Zenon, <1>7
    <3> HIDE DEF x
    <3> QED
      BY <3>1, <3>2
  <2>1. wire[i][k] = {inst[i].got[k][i]} \ {NoDigest}
    BY DEF Inv, OneVoice
  <2>2. inst[i].got[k][i] \in {NoDigest, s.got[k][i]}
    BY DEF StepInv
  <2> QED
    BY <2>1, <2>2
<1>10. TypeOK'
  <2>1. wire' \in [Honest -> [Kind -> SUBSET Digest]]
    BY <1>1, <1>2, <1>3, <1>6 DEF After, Maybe
  <2>2. output' \in [Honest -> SUBSET Digest]
    BY <1>2, <1>3, <1>8 DEF Maybe
  <2>3. crashes' \in Nat
    BY <1>2, Zenon DEF Pass
  <2> QED
    BY Zenon, <1>1, <1>2, <1>4, <1>5, <2>1, <2>2, <2>3 DEF TypeOK
<1> HIDE DEF x
<1>11. OneVoice'
  <2> SUFFICES ASSUME NEW v \in Honest, NEW k \in Kind
               PROVE  /\ journal'[v].sent[k] = inst'[v].got[k][v]
                      /\ x[v][k] = {inst'[v].got[k][v]} \ {NoDigest}
    BY <1>6 DEF OneVoice
  <2>1. CASE v = i
    BY Zenon, <2>1, <1>2, <1>4, <1>5, <1>7
  <2>2. CASE v # i
    <3>1. inst'[v] = inst[v]
      BY <2>2, <1>2, <1>4
    <3>2. /\ journal[v].sent[k] = inst[v].got[k][v]
          /\ wire[v][k] = {inst[v].got[k][v]} \ {NoDigest}
      BY Zenon DEF Inv, OneVoice
    <3> QED
      BY Zenon, <2>2, <3>1, <3>2, <1>5, <1>7
  <2> QED
    BY <2>1, <2>2
<1>12. Heard'
  <2> SUFFICES ASSUME NEW v \in Honest
               PROVE  /\ \A j \in Honest, k \in Kind :
                            inst'[v].got[k][j] \in Maybe(x[j][k])
                      /\ inst'[v].proposed = NoDigest =>
                            inst'[v].got["Echo"][v] = NoDigest
    BY <1>6, Zenon DEF Heard, Maybe
  <2>1. CASE v = i
    BY <2>1, <1>2, <1>4, Zenon DEF StepInv, x
  <2>2. CASE v # i
    <3>1. inst'[v] = inst[v]
      BY <2>2, <1>2, <1>4, Zenon
    <3> QED
      BY <3>1, <1>9 DEF Inv, Heard, Maybe
  <2> QED
    BY <2>1, <2>2
<1>13. SignalsBacked(wire)'
  <2>1. SignalsBacked(x)
    BY DEF StepInv, x
  <2>2. \A k, d : SignalBacked(wire, k, d)' <=> SignalBacked(x, k, d)
    BY <1>6 DEF SignalBacked, Said
  <2> QED
    BY <2>1, <2>2, <1>6, Zenon DEF SignalsBacked
<1>14. Deliveries'
  <2>1. \A d : DeliveryBacked(wire, d)' <=> DeliveryBacked(x, d)
    BY <1>6 DEF DeliveryBacked, Said
  <2> SUFFICES ASSUME NEW v \in Honest
               PROVE  /\ inst'[v].delivered \in output'[v] \cup {NoDigest}
                      /\ journal'[v].delivered \in output'[v] \cup {NoDigest}
                      /\ \A d \in output'[v] : DeliveryBacked(x, d)
    BY <2>1 DEF Deliveries, Maybe
  <2>2. /\ inst[v].delivered \in output[v] \cup {NoDigest}
        /\ journal[v].delivered \in output[v] \cup {NoDigest}
        /\ \A d \in output[v] : DeliveryBacked(x, d)
    BY Zenon, <1>9, BackingGrows DEF Inv, Deliveries, Maybe
  <2>3. CASE v = i
    <3>1. s.delivered # NoDigest => DeliveryBacked(x, s.delivered)
      BY DEF StepInv, x
    <3>2. output'[i] = output[i] \cup ({s.delivered} \ {NoDigest})
      BY <1>2, <1>8
    <3>3. inst'[i] = s /\ journal'[i].delivered = journal[i].delivered
      BY <1>2, <1>4, <1>5, Zenon
    <3> QED
      BY <2>2, <2>3, <3>1, <3>2, <3>3, Zenon
  <2>4. CASE v # i
    <3>1. output'[v] = output[v] /\ inst'[v] = inst[v]
      BY <2>4, <1>2, <1>4, <1>8
    <3> QED
      BY <2>2, <3>1, <1>5
  <2> QED
    BY <2>3, <2>4, Zenon
<1>15. AuthorKnown'
  <2> SUFFICES ASSUME Author \in Honest, NEW v \in Honest
               PROVE  /\ output'[v] \subseteq {own'}
                      /\ \A k \in Kind : x[v][k] \subseteq {own'}
    BY <1>6 DEF AuthorKnown
  <2>1. OnlyFor(s, own')
    OBVIOUS
  <2>2. /\ output[v] \subseteq {own'}
        /\ \A k \in Kind : wire[v][k] \subseteq {own'}
    <3>1. output[v] \subseteq {own} /\ \A k \in Kind : wire[v][k] \subseteq {own}
      BY DEF Inv, AuthorKnown
    <3>2. output[v] \subseteq Digest /\ \A k \in Kind : wire[v][k] \subseteq Digest
      BY <1>2
    <3> QED
      BY <3>1, <3>2, RbcAssumption, Zenon
  <2>3. CASE v = i
    <3>1. /\ s.delivered \in {NoDigest, own'}
          /\ \A k \in Kind : s.got[k][i] \in {NoDigest, own'}
      BY <2>1 DEF OnlyFor
    <3>2. output'[i] = output[i] \cup ({s.delivered} \ {NoDigest})
      BY <1>2, <1>8, Zenon
    <3>3. output'[v] \subseteq {own'}
      BY <2>2, <2>3, <3>1, <3>2
    <3>4. ASSUME NEW k \in Kind
          PROVE  x[v][k] \subseteq {own'}
      <4>1. x[v][k] = {s.got[k][i]} \ {NoDigest}
        BY Zenon, <2>3, <1>7
      <4> QED
        BY <4>1, <3>1
    <3> QED
      BY <3>3, <3>4, Zenon
  <2>4. CASE v # i
    BY Zenon, <2>2, <2>4, <1>2, <1>7, <1>8
  <2> QED
    BY <2>3, <2>4, Zenon
<1> QED
  BY <1>10, <1>11, <1>12, <1>13, <1>14, <1>15, Zenon DEF Inv

(* A step that sends nothing leaves all backed that was. *)
LEMMA SameWire ==
    ASSUME Inv, wire' = wire
    PROVE  SignalsBacked(wire)' /\ \A d : DeliveryBacked(wire, d)' <=> DeliveryBacked(wire, d)
<1>1. \A k, d : SignalBacked(wire, k, d)' <=> SignalBacked(wire, k, d)
  BY DEF SignalBacked, Said
<1>2. \A d : DeliveryBacked(wire, d)' <=> DeliveryBacked(wire, d)
  BY DEF DeliveryBacked, Said
<1>3. SignalsBacked(wire)
  BY DEF Inv
<1>4. SignalsBacked(wire)'
  BY <1>1, <1>3 DEF SignalsBacked
<1> QED
  BY <1>2, <1>4

(* Each step of Next keeps the invariant. *)
LEMMA NextInv == Inv /\ [Next]_vars => Inv'
<1> SUFFICES ASSUME Inv, [Next]_vars PROVE Inv'
  OBVIOUS
<1>t. /\ TypeOK
      /\ inst \in [Honest -> Instance]
      /\ journal \in [Honest -> Journal]
      /\ wire \in [Honest -> [Kind -> SUBSET Digest]]
      /\ own \in Maybe(Digest)
      /\ output \in [Honest -> SUBSET Digest]
      /\ crashes \in Nat
  BY DEF Inv, TypeOK
<1>o. ASSUME Author \in Honest, NEW i \in Honest
      PROVE  OnlyFor(inst[i], own)
  <2>1. ASSUME NEW k \in Kind, NEW j \in Honest
        PROVE  inst[i].got[k][j] \in {NoDigest, own}
    BY <1>o DEF Inv, AuthorKnown, Heard, Maybe
  <2>2. inst[i].delivered \in {NoDigest, own}
    BY <1>o DEF Inv, AuthorKnown, Deliveries, Maybe
  <2> QED
    BY <2>1, <2>2, Zenon DEF OnlyFor
<1>p. ASSUME NEW i \in Honest, NEW d \in Digest, inst[i].got["Echo"][i] = NoDigest,
             Author \in Honest => own \in {NoDigest, d}
      PROVE  LET s == TakeProposal(inst[i], i, d)
             IN  StepInv(s, i) /\ (Author \in Honest => OnlyFor(s, d))
  <2> DEFINE taken == [inst[i] EXCEPT !.proposed = d]
             s == TakeProposal(inst[i], i, d)
  <2>1. i \in Validator /\ inst[i] \in Instance /\ "Echo" \in Kind
    BY <1>t DEF Honest, Kind
  <2>2. CASE size = 1
    <3>1. s = [taken EXCEPT !.delivered = d]
      BY <2>2 DEF TakeProposal
    <3>2. /\ s \in Instance /\ s.got = inst[i].got
          /\ s.proposed = d /\ s.delivered = d
      BY Zenon, <2>1, <3>1 DEF Instance, Maybe
    <3> HIDE DEF s
    <3>3. After(s, i) = wire /\ StepInv(inst[i], i) /\ After(inst[i], i) = wire
      BY <3>2, StartStep DEF After
    <3>4. DeliveryBacked(After(s, i), s.delivered)
      BY <2>2, Zenon DEF DeliveryBacked
    <3>5. StepInv(s, i)
      BY <3>2, <3>3, <3>4, RbcAssumption, Zenon DEF StepInv
    <3>6. ASSUME Author \in Honest
          PROVE  OnlyFor(s, d)
      <4>1. OnlyFor(inst[i], own) /\ own \in {NoDigest, d}
        BY <3>6, <1>o, <1>p
      <4> QED
        BY <4>1, <3>2 DEF OnlyFor
    <3> QED
      BY <3>5, <3>6 DEF s
  <2>3. CASE size # 1
    <3> DEFINE c == Count(taken, "Echo", i, d)
    <3>1. s = Checks(c, i, d)
      BY <2>3 DEF TakeProposal
    <3>2. StepInv(c, i)
      BY <1>p, CountEcho
    <3>3. StepInv(s, i)
      BY <3>1, <3>2, <1>t, ChecksStep, Zenon
    <3>4. ASSUME Author \in Honest
          PROVE  OnlyFor(s, d)
      <4>1. OnlyFor(inst[i], own) /\ own \in {NoDigest, d}
        BY <3>4, <1>o, <1>p
      <4>2. /\ c \in Instance
            /\ c.delivered = inst[i].delivered
            /\ \A q \in Kind, v \in Validator :
                  c.got[q][v] = IF q = "Echo" /\ v = i THEN d ELSE inst[i].got[q][v]
        BY Zenon, <2>1 DEF Count, Instance, Maybe
      <4> HIDE DEF c
      <4>3. OnlyFor(c, d)
        <5>1. ASSUME NEW k \in Kind, NEW j \in Honest
              PROVE  c.got[k][j] \in {NoDigest, d}
          BY <4>1, <4>2 DEF OnlyFor, Honest
        <5>2. c.delivered \in {NoDigest, d}
          BY <4>1, <4>2 DEF OnlyFor
        <5> QED
          BY <5>1, <5>2, Zenon DEF OnlyFor
      <4> QED
        BY <3>1, <4>2, <4>3, ChecksOnlyFor
    <3> QED
      BY <3>3, <3>4
  <2> QED
    BY <2>2, <2>3
<1>1. ASSUME NEW d \in Digest, Propose(d)
      PROVE  Inv'
  <2> DEFINE s == TakeProposal(inst[Author], Author, d)
  <2>1. /\ Author \in Honest /\ own = NoDigest /\ own' = d /\ Pass(Author, s)
    BY <1>1, Zenon DEF Propose
  <2>2. inst[Author].got["Echo"][Author] = NoDigest
    <3>1. wire[Author]["Echo"] \subseteq {own} /\ wire[Author]["Echo"] \subseteq Digest
      BY <2>1, <1>t, ZenonT(30) DEF Inv, AuthorKnown, Kind
    <3>2. wire[Author]["Echo"] = {inst[Author].got["Echo"][Author]} \ {NoDigest}
      BY <2>1 DEF Inv, OneVoice, Kind
    <3> QED
      BY <2>1, <3>1, <3>2, RbcAssumption
  <2>3. StepInv(s, Author) /\ OnlyFor(s, d)
    BY <2>1, <2>2, <1>p
  <2> HIDE DEF s
  <2> QED
    BY <2>1, <2>3, PassKeeps DEF Maybe
<1>2. ASSUME NEW i \in Honest, NEW d \in Digest, OnPropose(i, d)
      PROVE  Inv'
  <2> DEFINE s == TakeProposal(inst[i], i, d)
  <2>1. /\ Author \in Honest => own = d
        /\ inst[i].proposed = NoDigest /\ Pass(i, s) /\ own' = own
    BY <1>2, Zenon DEF OnPropose
  <2>2. inst[i].got["Echo"][i] = NoDigest
    BY <2>1, Zenon DEF Inv, Heard
  <2>3. StepInv(s, i) /\ (Author \in Honest => OnlyFor(s, own'))
    BY <2>1, <2>2, <1>p
  <2> HIDE DEF s
  <2> QED
    BY <2>1, <2>3, <1>t, PassKeeps
<1>3. ASSUME NEW i \in Honest, NEW j \in Validator, NEW k \in Kind, NEW d \in Digest,
             OnSignal(i, j, k, d)
      PROVE  Inv'
  <2> DEFINE c == Count(inst[i], k, j, d)
             s == Checks(c, i, d)
  <2>1. /\ j # i /\ Pass(i, s) /\ own' = own
        /\ j \in Honest => d \in wire[j][k]
    BY <1>3, Zenon DEF OnSignal
  <2>2. StepInv(c, i)
    BY <2>1, CountOther
  <2>3. StepInv(s, i)
    BY <2>2, <1>t, ChecksStep
  <2>4. ASSUME Author \in Honest
        PROVE  OnlyFor(s, own)
    <3>1. d # own => j \in Byzantine
      <4>1. \A v \in Honest : wire[v][k] \subseteq {own}
        BY <2>4, Zenon DEF Inv, AuthorKnown
      <4>2. j \in Honest => d = own
        BY <2>1, <4>1, Zenon
      <4> QED
        BY <4>2, Zenon DEF Honest
    <3>2. c \in Instance
      BY <2>2, Zenon DEF StepInv
    <3>3. OnlyFor(inst[i], own)
      BY <2>4, <1>o
    <3>4. /\ c.delivered = inst[i].delivered
          /\ \A q \in Kind, v \in Validator :
                c.got[q][v] = IF q = k /\ v = j THEN d ELSE inst[i].got[q][v]
      BY <1>t DEF Count, Instance
    <3> HIDE DEF c
    <3>5. OnlyFor(c, own)
      <4>1. ASSUME NEW q \in Kind, NEW v \in Honest
            PROVE  c.got[q][v] \in {NoDigest, own}
        BY <3>1, <3>3, <3>4 DEF OnlyFor, Honest
      <4>2. c.delivered \in {NoDigest, own}
        BY <3>3, <3>4 DEF OnlyFor
      <4> QED
        BY <4>1, <4>2 DEF OnlyFor
    <3> QED
      BY <3>1, <3>2, <3>5, ChecksOnlyFor
  <2> HIDE DEF s
  <2> QED
    BY <2>1, <2>3, <2>4, <1>t, PassKeeps, Zenon
<1>4. ASSUME NEW i \in Honest, EnterDag(i)
      PROVE  Inv'
  <2>1. /\ journal' = [journal EXCEPT ![i].delivered = inst[i].delivered]
        /\ inst' = inst /\ wire' = wire /\ own' = own /\ output' = output
        /\ crashes' = crashes
    BY <1>4 DEF EnterDag
  <2>2. inst[i].delivered \in Maybe(Digest)
    BY <1>t DEF Instance
  <2>3. /\ journal' \in [Honest -> Journal]
        /\ \A v \in Honest : /\ journal'[v].sent = journal[v].sent
                              /\ \/ journal'[v].delivered = journal[v].delivered
                                 \/ journal'[v].delivered = inst[v].delivered
    BY <2>1, <2>2, <1>t, Zenon DEF Journal
  <2>4. TypeOK'
    BY <2>1, <2>3, <1>t DEF TypeOK
  <2>5. OneVoice'
    BY <2>1, <2>3 DEF Inv, OneVoice
  <2>6. Heard' /\ AuthorKnown'
    BY <2>1 DEF Inv, Heard, AuthorKnown, Maybe
  <2>7. SignalsBacked(wire)' /\ \A d : DeliveryBacked(wire, d)' <=> DeliveryBacked(wire, d)
    BY <2>1, SameWire
  <2>8. Deliveries'
    BY <2>1, <2>3, <2>7 DEF Inv, Deliveries, Maybe
  <2> QED
    BY <2>4, <2>5, <2>6, <2>7, <2>8 DEF Inv
<1>5. ASSUME NEW i \in Honest, CrashRecover(i)
      PROVE  Inv'
  <2> DEFINE s == Restored(i, journal[i])
  <2>1. /\ inst' = [inst EXCEPT ![i] = s]
        /\ journal' = journal /\ wire' = wire /\ own' = own /\ output' = output
        /\ crashes' = crashes + 1
    BY <1>5 DEF CrashRecover
  <2>2. i \in Validator /\ journal[i] \in Journal /\ "Echo" \in Kind
    BY <1>t, Zenon DEF Honest, Kind
  <2>3. /\ s \in Instance
        /\ s.proposed = journal[i].sent["Echo"]
        /\ s.delivered = journal[i].delivered
        /\ \A k \in Kind, v \in Validator :
              s.got[k][v] = IF v = i THEN journal[i].sent[k] ELSE NoDigest
    BY <2>2, Zenon DEF Restored, Instance, Journal, Maybe
  <2> HIDE DEF s
  <2>4. \A k \in Kind : s.got[k][i] = inst[i].got[k][i]
    BY <2>2, <2>3, ZenonT(30) DEF Inv, OneVoice
  <2>5. TypeOK'
    BY <2>1, <2>3, <1>t DEF TypeOK
  <2>6. OneVoice'
    <3> SUFFICES ASSUME NEW v \in Honest, NEW k \in Kind
                 PROVE  inst'[v].got[k][v] = inst[v].got[k][v]
      BY <2>1 DEF Inv, OneVoice
    <3> QED
      BY <2>1, <2>4, <1>t, Zenon
  <2>7. Heard'
    <3> SUFFICES ASSUME NEW v \in Honest
                 PROVE  /\ \A j \in Honest, k \in Kind :
                              inst'[v].got[k][j] \in Maybe(wire[j][k])
                        /\ inst'[v].proposed = NoDigest =>
                              inst'[v].got["Echo"][v] = NoDigest
      BY <2>1 DEF Heard, Maybe
    <3>1. CASE v = i
      <4>1. inst'[v] = s
        BY <3>1, <2>1, <1>t
      <4>2. ASSUME NEW j \in Honest, NEW k \in Kind
            PROVE  s.got[k][j] \in Maybe(wire[j][k])
        <5>1. CASE j = i
          BY <5>1, <2>4, Zenon DEF Inv, Heard
        <5>2. CASE j # i
          BY <5>2, <2>3, Zenon DEF Maybe, Honest
        <5> QED
          BY <5>1, <5>2, Zenon
      <4> QED
        BY <3>1, <4>1, <4>2, <2>2, <2>3, Zenon
    <3>2. CASE v # i
      BY <3>2, <2>1, <1>t DEF Inv, Heard
    <3> QED
      BY <3>1, <3>2, Zenon
  <2>8. SignalsBacked(wire)' /\ \A d : DeliveryBacked(wire, d)' <=> DeliveryBacked(wire, d)
    BY <2>1, SameWire, Zenon
  <2>9. Deliveries'
    <3> SUFFICES ASSUME NEW v \in Honest
                 PROVE  inst'[v].delivered \in Maybe(output[v])
      BY <2>1, <2>8 DEF Inv, Deliveries, Maybe
    <3> QED
      BY <2>1, <2>3, <1>t, Zenon DEF Inv, Deliveries
  <2>10. AuthorKnown'
    BY <2>1 DEF Inv, AuthorKnown
  <2> QED
    BY <2>5, <2>6, <2>7, <2>8, <2>9, <2>10 DEF Inv
<1>6. CASE UNCHANGED vars
  <2>1. /\ inst' = inst /\ journal' = journal /\ wire' = wire /\ own' = own
        /\ output' = output /\ crashes' = crashes
    BY <1>6 DEF vars
  <2>2. SignalsBacked(wire)' /\ \A d : DeliveryBacked(wire, d)' <=> DeliveryBacked(wire, d)
    BY <2>1, SameWire
  <2> QED
    BY Zenon, <2>1, <2>2 DEF Inv, TypeOK, OneVoice, Heard, Deliveries, AuthorKnown, Maybe
<1> QED
  BY <1>1, <1>2, <1>3, <1>4, <1>5, <1>6 DEF Next

-----------------------------------------------------------------------------
(* The theorems. *)

(* In every state the invariant allows, two deliveries name one digest. *)
LEMMA InvAgreement == Inv => Agreement
<1> SUFFICES ASSUME Inv, NEW i \in Honest, NEW j \in Honest,
                    NEW d \in output[i], NEW e \in output[j], d # e
             PROVE  FALSE
  BY DEF Agreement
<1>1. CASE Author \in Honest
  BY <1>1 DEF Inv, AuthorKnown
<1>2. CASE Author \in Byzantine
  <2> DEFINE na(k, a) == NonAuthorWeight(Said(wire, k, a))
             B == NonAuthorWeight(Byzantine)
             n == total_seats
             f == max_faulty
  <2>t. /\ wire \in [Honest -> [Kind -> SUBSET Digest]]
        /\ d \in Digest /\ e \in Digest
    BY DEF Inv, TypeOK
  <2>k. "Echo" \in Kind /\ "Vote" \in Kind /\ "Ack" \in Kind /\ "Ready" \in Kind
    BY Zenon DEF Kind
  <2>w. /\ B \in Nat
        /\ \A k, a : /\ na(k, a) \in Nat /\ Weight(Said(wire, k, a)) \in Nat
                     /\ Said(wire, k, a) \subseteq Validator
    BY WeightGrows, RbcAssumption DEF Said, Honest
  <2>f. f >= 1 /\ B <= f - 1
    BY <1>2, FaultyWeight
  (* An honest validator signals one digest of each kind, so the speakers *)
  (* for two digests have only faulty members in common.                  *)
  <2>1. \A k \in Kind : na(k, d) + na(k, e) <= n - 1 + B
    <3>1. ASSUME NEW k \in Kind
          PROVE  Said(wire, k, d) \cap Said(wire, k, e) \subseteq Byzantine
      BY DEF Said, Inv, OneVoice
    <3> QED
      BY <3>1, Overlap, Zenon
  <2>2. ASSUME NEW k \in Kind, NEW a, na(k, a) > B \/ Weight(Said(wire, k, a)) > f
        PROVE  SignalBacked(wire, k, a)
    <3>1. PICK v \in Said(wire, k, a) : v \in Honest
      BY <2>2, <2>w, HonestAmong
    <3>2. a \in wire[v][k]
      BY <3>1 DEF Said, Honest
    <3> QED
      BY <3>1, <3>2, Zenon DEF Inv, SignalsBacked
  <2> HIDE DEF na, B, n, f
  <2>n. /\ n \in Nat /\ f \in Nat /\ 3 * f + 1 <= n
        /\ rbc_vote_threshold \in Int /\ 2 * rbc_vote_threshold >= n
        /\ rbc_ack_threshold \in Int /\ 2 * rbc_ack_threshold >= n + f - 1
        /\ rbc_fast_threshold \in Int /\ 2 * rbc_fast_threshold >= n + 2 * f - 2
        /\ ready_delivery = 2 * f + 1
    BY Thresholds DEF n, f
  (* An ACK quorum rests on a VOTE or an ECHO quorum, a VOTE quorum on an *)
  (* ECHO quorum.                                                         *)
  <2>3. ASSUME NEW a, na("Ack", a) >= rbc_ack_threshold
        PROVE  \/ na("Echo", a) >= rbc_ack_threshold
               \/ na("Echo", a) >= rbc_vote_threshold
    <3>1. na("Ack", a) > B
      BY <2>3, <2>w, <2>f, <2>n
    <3>2. \/ na("Echo", a) >= rbc_ack_threshold
          \/ na("Vote", a) >= rbc_ack_threshold
      BY <3>1, <2>2, <2>k, Zenon DEF SignalBacked, na
    <3>3. ASSUME na("Vote", a) >= rbc_ack_threshold
          PROVE  na("Echo", a) >= rbc_vote_threshold
      <4>1. na("Vote", a) > B
        BY <3>3, <2>w, <2>f, <2>n
      <4> QED
        BY <4>1, <2>2, <2>k DEF SignalBacked, na
    <3> QED
      BY <3>2, <3>3, Zenon
  (* A delivery rests on a fast ECHO quorum or on an ACK quorum. *)
  <2>4. ASSUME NEW a, DeliveryBacked(wire, a)
        PROVE  \/ na("Echo", a) >= rbc_fast_threshold
               \/ na("Ack", a) >= rbc_ack_threshold
    <3>1. size # 1
      <4> SUFFICES ASSUME size = 1 PROVE FALSE
        OBVIOUS
      <4>1. PICK v : Validator = {v}
        BY CommitteeAssumption, FS_Singleton, Zenon DEF size
      <4>2. Author = v /\ i = v
        BY <4>1, RbcAssumption DEF Honest
      <4> QED
        BY <4>2, <1>2 DEF Honest
    <3>2. CASE Weight(Said(wire, "Ready", a)) >= ready_delivery
      <4>1. Weight(Said(wire, "Ready", a)) > f
        BY <3>2, <2>w, <2>n
      <4> QED
        BY <4>1, <2>2, <2>k DEF SignalBacked, na
    <3> QED
      BY <2>4, <3>1, <3>2 DEF DeliveryBacked, na
  <2>5. DeliveryBacked(wire, d) /\ DeliveryBacked(wire, e)
    BY DEF Inv, Deliveries
  <2>6. /\ na("Echo", d) + na("Echo", e) <= n - 1 + B
        /\ na("Ack", d) + na("Ack", e) <= n - 1 + B
    BY <2>1, <2>k, Zenon
  <2>7. ~(na("Echo", d) >= rbc_fast_threshold /\ na("Echo", e) >= rbc_fast_threshold)
    BY <2>6, <2>w, <2>f, <2>n
  <2>8. ~(na("Ack", d) >= rbc_ack_threshold /\ na("Ack", e) >= rbc_ack_threshold)
    BY <2>6, <2>w, <2>f, <2>n
  <2>9. ~(na("Echo", d) >= rbc_fast_threshold /\ na("Ack", e) >= rbc_ack_threshold)
    BY <2>3, <2>6, <2>w, <2>f, <2>n
  <2>10. ~(na("Ack", d) >= rbc_ack_threshold /\ na("Echo", e) >= rbc_fast_threshold)
    BY <2>3, <2>6, <2>w, <2>f, <2>n
  <2> QED
    BY <2>4, <2>5, <2>7, <2>8, <2>9, <2>10, Zenon
<1> QED
  BY <1>1, <1>2, RbcAssumption DEF Honest

(* The inductive invariant, the type invariant with it, holds of every     *)
(* behaviour: on_propose, on_signal, the journal and recovery keep it.     *)
THEOREM Invariance == Spec => []Inv
<1> QED
  BY InitInv, NextInv, PTL DEF Spec

(* In a committee of any size and distribution of seats, however the       *)
(* faulty members speak and the honest ones crash and recover from their   *)
(* journals, reliable broadcast never delivers two different vertices of   *)
(* one instance to honest validators (on_signal's thresholds).             *)
THEOREM AgreementTheorem == Spec => []Agreement
<1> QED
  BY Invariance, InvAgreement, PTL

(* An honest validator never signals two digests of one kind, over any     *)
(* number of restarts: what restore_sent restores is what was sent.        *)
THEOREM NoContradictionTheorem == Spec => []NoContradiction
<1>1. Inv => NoContradiction
  BY DEF Inv, OneVoice, NoContradiction
<1> QED
  BY <1>1, Invariance, PTL

(* Nothing but the vertex an honest author persisted and proposed is ever  *)
(* delivered in its instance.                                              *)
THEOREM AuthorIntegrityTheorem == Spec => []AuthorIntegrity
<1>1. Inv => AuthorIntegrity
  BY DEF Inv, AuthorKnown, AuthorIntegrity
<1> QED
  BY <1>1, Invariance, PTL

(* A pass hands on one vertex, the one everyone was handed, or nothing new. *)
LEMMA PassHands ==
    ASSUME Inv, TypeOK', Agreement', AuthorIntegrity',
           NEW i \in Honest, NEW s, Pass(i, s)
    PROVE  \/ output' = output
           \/ \E d \in Digest : /\ Author \in Honest => d = own'
                                /\ \A j \in Honest : output[j] \subseteq {d}
                                /\ output' = [output EXCEPT ![i] = {d}]
<1> DEFINE d == s.delivered
<1>1. output' = [output EXCEPT ![i] = @ \cup ({d} \ {NoDigest})]
  BY DEF Pass
<1>2. output \in [Honest -> SUBSET Digest] /\ output' \in [Honest -> SUBSET Digest]
  BY DEF Inv, TypeOK
<1>3. CASE d \in output[i] \cup {NoDigest}
  BY <1>1, <1>2, <1>3
<1>4. CASE d \notin output[i] \cup {NoDigest}
  <2> HIDE DEF d
  <2>1. d \in output'[i] /\ d \in Digest
    BY <1>1, <1>2, <1>4
  <2>2. \A j \in Honest : output'[j] \subseteq {d}
    BY <2>1 DEF Agreement
  <2>3. \A j \in Honest : output[j] \subseteq output'[j]
    BY <1>1, <1>2
  <2>4. output[i] \cup {d} = {d}
    BY <2>2, <2>3
  <2>5. output' = [output EXCEPT ![i] = {d}]
    BY <1>1, <1>2, <1>4, <2>4, Zenon
  <2>6. Author \in Honest => d = own'
    BY <2>1 DEF AuthorIntegrity
  <2> QED
    BY <2>1, <2>2, <2>3, <2>5, <2>6, Zenon
<1> QED
  BY <1>3, <1>4

(* Every step of Rbc is a step of Broadcast or leaves it as it is. *)
LEMMA StepHands ==
    ASSUME Inv, TypeOK', Agreement', AuthorIntegrity', [Next]_vars
    PROVE  [Abstract!Next]_(Abstract!vars)
<1>1. ASSUME NEW d \in Digest, Propose(d) PROVE Abstract!Next
  <2>1. /\ Author \in Honest /\ own = NoDigest /\ own' = d
        /\ Pass(Author, TakeProposal(inst[Author], Author, d))
    BY <1>1 DEF Propose
  <2>2. output' \in {output, [output EXCEPT ![Author] = {d}]}
    BY <2>1, PassHands
  <2> QED
    BY <2>1, <2>2 DEF Abstract!Next, Abstract!Propose
<1>2. ASSUME NEW i \in Honest, NEW s, Pass(i, s), own' = own
      PROVE  Abstract!Next \/ UNCHANGED <<own, output>>
  BY <1>2, PassHands DEF Abstract!Next, Abstract!Deliver
<1>3. CASE \E i \in Honest, d \in Digest : OnPropose(i, d)
  BY <1>2, <1>3, Zenon DEF OnPropose, Abstract!vars
<1>4. CASE \E i \in Honest, j \in Validator, k \in Kind, d \in Digest : OnSignal(i, j, k, d)
  BY <1>2, <1>4 DEF OnSignal, Abstract!vars
<1>5. CASE \E i \in Honest : EnterDag(i) \/ CrashRecover(i)
  BY <1>5 DEF EnterDag, CrashRecover, Abstract!vars
<1>6. CASE UNCHANGED vars
  BY <1>6 DEF vars, Abstract!vars
<1> QED
  BY <1>1, <1>3, <1>4, <1>5, <1>6 DEF Next

(* The reliable broadcast the code runs implements the one the DAG relies  *)
(* on (RbcAction::Deliver), in every committee and over any restarts.      *)
THEOREM BroadcastsTheorem == Spec => Broadcasts
<1>1. Init => Abstract!Init
  BY DEF Init, Abstract!Init
<1>2. Inv => TypeOK /\ Agreement /\ AuthorIntegrity
  BY InvAgreement DEF Inv, AuthorKnown, AuthorIntegrity
<1>3. Inv /\ (TypeOK /\ Agreement /\ AuthorIntegrity)' /\ [Next]_vars
        => [Abstract!Next]_(Abstract!vars)
  BY StepHands
<1> QED
  BY Invariance, <1>1, <1>2, <1>3, PTL DEF Spec, Broadcasts, Abstract!Spec

-----------------------------------------------------------------------------
(* What a pass leaves to be done. *)

(* Of kind k validator i has sent its signal or has no reason to send d. *)
Done(s, i, d, k) == s.got[k][i] # NoDigest \/ ~Justified(s, k, d)

(* Nothing is left to send for d, nor to deliver once another member was     *)
(* heard on it.                                                              *)
SettledFor(s, i, d) ==
    /\ \A k \in Kind : Done(s, i, d, k)
    /\ \/ s.delivered # NoDigest
       \/ \A j \in Validator \ {i}, k \in Kind : s.got[k][j] # d
       \/ ~Deliverable(s, d)

(* From s to t signals for d were counted and nothing was taken back. *)
CountsFor(s, t, d) ==
    /\ \A k \in Kind, j \in Validator :
          t.got[k][j] = s.got[k][j] \/ (s.got[k][j] = NoDigest /\ t.got[k][j] = d)
    /\ s.delivered # NoDigest => t.delivered # NoDigest

(* The tallies for another digest, and what is settled of it, are the same. *)
LEMMA OthersSettled ==
    ASSUME NEW s, NEW t, NEW i \in Honest, NEW d \in Digest, NEW e \in Digest, d # e,
           CountsFor(s, t, d), SettledFor(s, i, e)
    PROVE  SettledFor(t, i, e)
<1>1. \A k \in Kind : Senders(t, k, e) = Senders(s, k, e)
  BY RbcAssumption DEF Senders, CountsFor
<1>2. "Echo" \in Kind /\ "Vote" \in Kind /\ "Ack" \in Kind /\ "Ready" \in Kind
  BY DEF Kind
<1>3. /\ \A k \in Kind : Justified(t, k, e) <=> Justified(s, k, e)
      /\ Deliverable(t, e) <=> Deliverable(s, e)
  BY <1>1, <1>2 DEF Justified, Deliverable
<1>4. i \in Validator
  BY Zenon DEF Honest
<1>5. ASSUME NEW k \in Kind, t.got[k][i] = NoDigest PROVE s.got[k][i] = NoDigest
  BY <1>4, <1>5, RbcAssumption, Zenon DEF CountsFor
<1>6. \A k \in Kind : Done(t, i, e, k)
  BY <1>3, <1>5 DEF SettledFor, Done
<1>7. ASSUME NEW j \in Validator, NEW k \in Kind, t.got[k][j] = e PROVE s.got[k][j] = e
  BY <1>7 DEF CountsFor
<1>8. t.delivered = NoDigest => s.delivered = NoDigest
  BY Zenon DEF CountsFor
<1> QED
  BY <1>3, <1>6, <1>7, <1>8 DEF SettledFor

(* One pass of the checks sends what there was reason to send. *)
LEMMA CheckSends ==
    ASSUME NEW s \in Instance, NEW i \in Honest, NEW d \in Digest
    PROVE  LET t == Check(s, i, d)
           IN  /\ t \in Instance /\ t.proposed = s.proposed
               /\ \A k \in Kind : Done(s, i, d, k) => t.got[k] = s.got[k]
               /\ \A k \in Kind : ~Done(s, i, d, k) => t.got[k][i] # NoDigest
               /\ CountsFor(s, t, d)
               /\ Deliverable(s, d) => t.delivered # NoDigest
<1> DEFINE t == Check(s, i, d)
<1>1. /\ t \in Instance /\ t.proposed = s.proposed
      /\ \A k \in Kind, j \in Validator :
            \/ t.got[k][j] = s.got[k][j]
            \/ /\ j = i /\ s.got[k][i] = NoDigest /\ t.got[k][i] = d
               /\ Justified(s, k, d)
      /\ \/ t.delivered = s.delivered
         \/ s.delivered = NoDigest /\ t.delivered = d /\ Deliverable(s, d)
  BY CheckChanges
<1>2. i \in Validator /\ d # NoDigest /\ s.got \in [Kind -> [Validator -> Maybe(Digest)]]
  BY RbcAssumption DEF Honest, Instance
<1>3. /\ t.got = [k \in Kind |->
                        IF s.got[k][i] = NoDigest /\ Justified(s, k, d)
                        THEN [s.got[k] EXCEPT ![i] = d]
                        ELSE s.got[k]]
      /\ t.delivered = IF s.delivered = NoDigest /\ Deliverable(s, d)
                       THEN d ELSE s.delivered
  BY Zenon DEF Check
<1> HIDE DEF t
<1>4. \A k \in Kind : Done(s, i, d, k) => t.got[k] = s.got[k]
  BY <1>3, Zenon DEF Done
<1>5. \A k \in Kind : ~Done(s, i, d, k) => t.got[k][i] # NoDigest
  BY <1>2, <1>3, Zenon DEF Done
<1>6. CountsFor(s, t, d)
  BY <1>1, <1>2, Zenon DEF CountsFor
<1>7. Deliverable(s, d) => t.delivered # NoDigest
  BY <1>2, <1>3, Zenon
<1> QED
  BY <1>1, <1>4, <1>5, <1>6, <1>7, Zenon DEF t

(* VOTEs rest on ECHOs, ACKs on ECHOs and VOTEs, READYs on ACKs and READYs:  *)
(* one pass settles a kind once those below it are settled.                  *)
LEMMA CheckDoes ==
    ASSUME NEW s \in Instance, NEW i \in Honest, NEW d \in Digest
    PROVE  LET t == Check(s, i, d)
           IN  /\ Done(t, i, d, "Echo") /\ t.got["Echo"] = s.got["Echo"]
               /\ Done(t, i, d, "Vote")
               /\ Done(s, i, d, "Vote") => Done(t, i, d, "Ack")
               /\ Done(s, i, d, "Ack") => Done(t, i, d, "Ready")
<1> DEFINE t == Check(s, i, d)
<1>1. /\ \A k \in Kind : Done(s, i, d, k) => t.got[k] = s.got[k]
      /\ \A k \in Kind : ~Done(s, i, d, k) => t.got[k][i] # NoDigest
  BY CheckSends
<1> HIDE DEF t
<1>2. "Echo" \in Kind /\ "Vote" \in Kind /\ "Ack" \in Kind /\ "Ready" \in Kind
  BY DEF Kind
<1>3. Done(s, i, d, "Echo") /\ Done(t, i, d, "Echo")
  BY DEF Done, Justified
<1>4. t.got["Echo"] = s.got["Echo"]
  BY <1>1, <1>2, <1>3
<1>5. ASSUME NEW k \in Kind, t.got[k][i] = NoDigest
      PROVE  t.got[k] = s.got[k] /\ ~Justified(s, k, d)
  BY <1>1, <1>5, Zenon DEF Done
<1>6. Done(t, i, d, "Vote")
  <2> SUFFICES ASSUME t.got["Vote"][i] = NoDigest PROVE ~Justified(t, "Vote", d)
    BY DEF Done
  <2>1. ~Justified(s, "Vote", d)
    BY <1>2, <1>5, Zenon
  <2> QED
    BY <2>1, <1>4 DEF Justified, Senders
<1>7. ASSUME Done(s, i, d, "Vote") PROVE Done(t, i, d, "Ack")
  <2> SUFFICES ASSUME t.got["Ack"][i] = NoDigest PROVE ~Justified(t, "Ack", d)
    BY Zenon DEF Done
  <2>1. ~Justified(s, "Ack", d) /\ t.got["Vote"] = s.got["Vote"]
    BY <1>1, <1>2, <1>5, <1>7, Zenon
  <2> QED
    BY <2>1, <1>4 DEF Justified, Senders
<1>8. ASSUME Done(s, i, d, "Ack") PROVE Done(t, i, d, "Ready")
  <2> SUFFICES ASSUME t.got["Ready"][i] = NoDigest PROVE ~Justified(t, "Ready", d)
    BY DEF Done
  <2>1. ~Justified(s, "Ready", d) /\ t.got["Ready"] = s.got["Ready"]
        /\ t.got["Ack"] = s.got["Ack"]
    BY <1>1, <1>2, <1>5, <1>8
  <2> QED
    BY <2>1 DEF Justified, Senders
<1> QED
  BY <1>3, <1>4, <1>6, <1>7, <1>8, Zenon DEF t

(* Signals counted one after the other. *)
LEMMA CountsOn ==
    ASSUME NEW s, NEW t, NEW u, NEW d \in Digest, CountsFor(s, t, d), CountsFor(t, u, d)
    PROVE  CountsFor(s, u, d)
  BY ZenonT(30) DEF CountsFor

(* The four passes are all of on_signal's recursion: they leave nothing to   *)
(* send or to deliver for the digest.                                        *)
LEMMA ChecksSettle ==
    ASSUME NEW s \in Instance, NEW i \in Honest, NEW d \in Digest
    PROVE  LET t == Checks(s, i, d)
           IN  /\ t \in Instance /\ t.proposed = s.proposed
               /\ t.got["Echo"] = s.got["Echo"]
               /\ CountsFor(s, t, d)
               /\ SettledFor(t, i, d)
<1> DEFINE a == Check(s, i, d)
           b == Check(a, i, d)
           c == Check(b, i, d)
           t == Check(c, i, d)
<1>0. Checks(s, i, d) = t
  BY Zenon DEF Checks
<1>1. /\ a \in Instance /\ a.proposed = s.proposed /\ a.got["Echo"] = s.got["Echo"]
      /\ CountsFor(s, a, d) /\ Done(a, i, d, "Vote")
  BY CheckSends, CheckDoes, Zenon
<1> HIDE DEF a
<1>2. /\ b \in Instance /\ b.proposed = s.proposed /\ b.got["Echo"] = s.got["Echo"]
      /\ CountsFor(a, b, d) /\ Done(b, i, d, "Vote") /\ Done(b, i, d, "Ack")
  BY <1>1, CheckSends, CheckDoes, ZenonT(30)
<1> HIDE DEF b
<1>3. /\ c \in Instance /\ c.proposed = s.proposed /\ c.got["Echo"] = s.got["Echo"]
      /\ CountsFor(b, c, d) /\ \A k \in Kind : Done(c, i, d, k)
  <2>1. /\ c \in Instance /\ c.proposed = s.proposed /\ c.got["Echo"] = s.got["Echo"]
        /\ CountsFor(b, c, d)
    BY <1>2, CheckSends, CheckDoes DEF Kind
  <2>2. Done(c, i, d, "Echo") /\ Done(c, i, d, "Vote") /\ Done(c, i, d, "Ack") /\ Done(c, i, d, "Ready")
    BY <1>2, CheckDoes
  <2>3. \A k \in Kind : Done(c, i, d, k)
    BY <2>2 DEF Kind
  <2> QED
    BY <2>1, <2>3, Zenon
<1> HIDE DEF c
<1>4. /\ t \in Instance /\ t.proposed = s.proposed /\ t.got["Echo"] = s.got["Echo"]
      /\ CountsFor(c, t, d) /\ \A k \in Kind : t.got[k] = c.got[k]
      /\ Deliverable(c, d) => t.delivered # NoDigest
  BY <1>3, CheckSends, CheckDoes, ZenonT(30)
<1> HIDE DEF t
<1>5. CountsFor(s, t, d)
  BY <1>1, <1>2, <1>3, <1>4, CountsOn, Zenon
<1>6. "Echo" \in Kind /\ "Vote" \in Kind /\ "Ack" \in Kind /\ "Ready" \in Kind
  BY DEF Kind
<1>7. /\ \A k \in Kind : Justified(t, k, d) <=> Justified(c, k, d)
      /\ Deliverable(t, d) <=> Deliverable(c, d)
  BY <1>4, <1>6, Zenon DEF Justified, Deliverable, Senders
<1>8. SettledFor(t, i, d)
  BY <1>3, <1>4, <1>7 DEF SettledFor, Done
<1> QED
  BY <1>0, <1>4, <1>5, <1>8

(* Two members hold two seats. *)
LEMMA TwoSeats == size # 1 => total_seats >= 2
<1> SUFFICES ASSUME size # 1, total_seats = 1 PROVE FALSE
  BY Thresholds
<1>1. PICK v \in Validator : TRUE
  BY CommitteeAssumption
<1>2. Validator # {v}
  BY FS_Singleton, CommitteeAssumption DEF size
<1>3. PICK u \in Validator : u # v
  BY <1>1, <1>2
<1>4. PICK x : Seat = {x}
  BY FS_Singleton, CommitteeAssumption, Zenon DEF total_seats
<1> QED
  BY <1>3, <1>4, CommitteeAssumption

(* An instance as Settled describes it. *)
SettledAt(s, i, o) ==
    /\ s.proposed = s.got["Echo"][i]
    /\ i = Author /\ o # NoDigest => s.proposed # NoDigest
    /\ \A d \in Digest : SettledFor(s, i, d)

(* Settled, one validator at a time. *)
LEMMA SettledParts ==
    Settled <=> (size # 1 => \A i \in Honest : SettledAt(inst[i], i, own))
  BY Zenon DEF Settled, SettledAt, SettledFor, Done

(* Nothing is to be done in an instance not heard of. *)
LEMMA NoInstanceSettled ==
    ASSUME size # 1, NEW i \in Honest
    PROVE  SettledAt(NoInstance, i, NoDigest)
<1>1. /\ NoInstance.proposed = NoDigest /\ NoInstance.delivered = NoDigest
      /\ \A k \in Kind, j \in Validator : NoInstance.got[k][j] = NoDigest
  BY DEF NoInstance
<1>2. i \in Validator /\ "Echo" \in Kind /\ "Vote" \in Kind /\ "Ack" \in Kind /\ "Ready" \in Kind
  BY DEF Honest, Kind
<1>3. Weight({}) = 0 /\ NonAuthorWeight({}) = 0
  <2>1. SeatsOf({}) = {} /\ SeatsOf({}) \ {AuthorSeat} = {}
    BY DEF SeatsOf
  <2> QED
    BY <2>1, FS_EmptySet DEF Weight, NonAuthorWeight
<1>4. /\ ~(0 >= rbc_vote_threshold) /\ ~(0 >= rbc_ack_threshold) /\ ~(0 >= validity)
  BY TwoSeats, Thresholds
<1>5. ASSUME NEW d \in Digest PROVE SettledFor(NoInstance, i, d)
  <2>1. \A k \in Kind : Senders(NoInstance, k, d) = {}
    BY <1>1, RbcAssumption DEF Senders
  <2>2. \A k \in Kind : ~Justified(NoInstance, k, d)
    BY <1>2, <1>3, <1>4, <2>1 DEF Justified
  <2>3. \A j \in Validator \ {i}, k \in Kind : NoInstance.got[k][j] # d
    BY <1>1, RbcAssumption, Zenon
  <2> QED
    BY <2>2, <2>3 DEF SettledFor, Done
<1> QED
  BY <1>1, <1>2, <1>5 DEF SettledAt

(* A restart restores every signal sent and no other member's. *)
LEMMA RestoredSettled ==
    ASSUME Inv, size # 1, NEW i \in Honest, SettledAt(inst[i], i, own)
    PROVE  SettledAt(Restored(i, journal[i]), i, own)
<1> DEFINE s == inst[i]
           t == Restored(i, journal[i])
<1>1. i \in Validator /\ "Echo" \in Kind /\ "Vote" \in Kind /\ "Ack" \in Kind /\ "Ready" \in Kind
  BY DEF Honest, Kind
<1>2. \A k \in Kind : journal[i].sent[k] = s.got[k][i]
  BY Zenon DEF Inv, OneVoice
<1>3. /\ t.proposed = s.got["Echo"][i]
      /\ \A k \in Kind, v \in Validator :
            t.got[k][v] = IF v = i THEN s.got[k][i] ELSE NoDigest
  BY <1>1, <1>2 DEF Restored
<1>4. SettledAt(s, i, own)
  BY Zenon
<1> HIDE DEF s, t
<1>5. ASSUME NEW d \in Digest PROVE SettledFor(t, i, d)
  <2>1. \A k \in Kind : Senders(t, k, d) \subseteq Senders(s, k, d)
    BY <1>3, RbcAssumption DEF Senders
  <2>2. ASSUME NEW k \in Kind
        PROVE  /\ Weight(Senders(t, k, d)) \in Nat /\ Weight(Senders(s, k, d)) \in Nat
               /\ Weight(Senders(t, k, d)) <= Weight(Senders(s, k, d))
               /\ NonAuthorWeight(Senders(t, k, d)) \in Nat
               /\ NonAuthorWeight(Senders(s, k, d)) \in Nat
               /\ NonAuthorWeight(Senders(t, k, d)) <= NonAuthorWeight(Senders(s, k, d))
    BY <2>1, WeightGrows, Zenon
  <2>3. \A k \in Kind : Justified(t, k, d) => Justified(s, k, d)
    BY <1>1, <2>2, Thresholds DEF Justified
  <2>4. \A k \in Kind : Done(t, i, d, k)
    BY <1>1, <1>3, <1>4, <2>3, Zenon DEF SettledAt, SettledFor, Done
  <2>5. \A j \in Validator \ {i}, k \in Kind : t.got[k][j] # d
    BY <1>3, RbcAssumption, Zenon
  <2> QED
    BY <2>4, <2>5, Zenon DEF SettledFor
<1>6. /\ t.proposed = t.got["Echo"][i]
      /\ i = Author /\ own # NoDigest => t.proposed # NoDigest
  BY <1>1, <1>3, <1>4 DEF SettledAt
<1> QED
  BY <1>5, <1>6 DEF SettledAt, t

(* The checks that follow a count for d settle every digest. *)
LEMMA CountSettles ==
    ASSUME NEW i \in Honest, NEW s, NEW c \in Instance, NEW d \in Digest,
           \A e \in Digest : SettledFor(s, i, e), CountsFor(s, c, d)
    PROVE  \A e \in Digest : SettledFor(Checks(c, i, d), i, e)
<1> DEFINE t == Checks(c, i, d)
<1>1. CountsFor(c, t, d) /\ SettledFor(t, i, d)
  BY ChecksSettle
<1> HIDE DEF t
<1>2. CountsFor(s, t, d)
  BY <1>1, CountsOn
<1>3. \A e \in Digest : e # d => SettledFor(t, i, e)
  BY <1>2, OthersSettled
<1> QED
  BY <1>1, <1>3, Zenon DEF t

(* Taking the proposal echoes it and settles what the echo brings about. *)
LEMMA ProposalSettles ==
    ASSUME Inv, size # 1, NEW i \in Honest, NEW d \in Digest, NEW o,
           SettledAt(inst[i], i, o), inst[i].proposed = NoDigest
    PROVE  \A p : SettledAt(TakeProposal(inst[i], i, d), i, p)
<1> DEFINE s == inst[i]
           c == Count([s EXCEPT !.proposed = d], "Echo", i, d)
           t == Checks(c, i, d)
<1>1. /\ i \in Validator /\ s \in Instance /\ "Echo" \in Kind /\ d # NoDigest
      /\ \A e \in Digest : SettledFor(s, i, e)
      /\ s.got["Echo"][i] = NoDigest
  BY RbcAssumption DEF Inv, TypeOK, Honest, Kind, SettledAt
<1>2. TakeProposal(s, i, d) = t
  BY DEF TakeProposal
<1>3. /\ c \in Instance /\ c.proposed = d /\ c.delivered = s.delivered
      /\ \A q \in Kind, v \in Validator :
            c.got[q][v] = IF q = "Echo" /\ v = i THEN d ELSE s.got[q][v]
  <2> HIDE DEF s
  <2> QED
    BY Zenon, <1>1 DEF Count, Instance, Maybe
<1> HIDE DEF s, c
<1>4. CountsFor(s, c, d)
  BY <1>1, <1>3, Zenon DEF CountsFor
<1>5. /\ \A e \in Digest : SettledFor(t, i, e)
      /\ t.proposed = d /\ t.got["Echo"] = c.got["Echo"]
  BY <1>1, <1>3, <1>4, CountSettles, ChecksSettle, Zenon
<1>6. t.got["Echo"][i] = d
  BY <1>1, <1>3, <1>5, ZenonT(30)
<1> HIDE DEF t
<1>7. \A p : SettledAt(t, i, p)
  BY <1>1, <1>5, <1>6 DEF SettledAt
<1> QED
  BY <1>2, <1>7, Zenon DEF s

(* A pass touches one instance. *)
LEMMA PassSettled ==
    ASSUME Inv, \A q \in Honest : SettledAt(inst[q], q, own), NEW i \in Honest, NEW s,
           inst' = [inst EXCEPT ![i] = s], SettledAt(s, i, own'),
           own' = own \/ i = Author
    PROVE  \A q \in Honest : SettledAt(inst'[q], q, own')
<1> SUFFICES ASSUME NEW q \in Honest PROVE SettledAt(inst'[q], q, own')
  OBVIOUS
<1>1. CASE q = i
  <2>1. inst'[q] = s
    BY <1>1, Zenon DEF Inv, TypeOK
  <2> QED
    BY <1>1, <2>1
<1>2. CASE q # i
  <2>1. inst'[q] = inst[q]
    BY <1>2 DEF Inv, TypeOK
  <2>2. SettledAt(inst[q], q, own) /\ (own' = own \/ q # Author)
    BY <1>2
  <2> QED
    BY <2>1, <2>2 DEF SettledAt
<1> QED
  BY <1>1, <1>2

(* Every step leaves every honest instance settled. *)
LEMMA NextSettled ==
    ASSUME Inv, Settled, [Next]_vars
    PROVE  Settled'
<1>0. Settled' <=> (size # 1 => \A i \in Honest : SettledAt(inst'[i], i, own'))
  <2>1. ASSUME NEW i \in Honest, NEW k \in Kind, NEW d \in Digest
        PROVE  Justified(inst[i], k, d)' <=> Justified(inst'[i], k, d)
    BY Zenon DEF Justified, Senders, NonAuthorWeight, Weight, SeatsOf
  <2>2. ASSUME NEW i \in Honest, NEW d \in Digest
        PROVE  Deliverable(inst[i], d)' <=> Deliverable(inst'[i], d)
    BY DEF Deliverable, Senders, NonAuthorWeight, Weight, SeatsOf
  <2> QED
    BY <2>1, <2>2, Zenon DEF Settled, SettledAt, SettledFor, Done
<1> SUFFICES ASSUME size # 1 PROVE \A i \in Honest : SettledAt(inst'[i], i, own')
  BY <1>0
<1> DEFINE Goal == \A i \in Honest : SettledAt(inst'[i], i, own')
<1>1. \A i \in Honest : SettledAt(inst[i], i, own)
  BY SettledParts
<1>2. inst \in [Honest -> Instance] /\ \A i \in Honest : inst[i] \in Instance
  BY DEF Inv, TypeOK
<1>3. ASSUME NEW d \in Digest, Propose(d) PROVE Goal
  <2> DEFINE s == TakeProposal(inst[Author], Author, d)
  <2>1. /\ Author \in Honest /\ own = NoDigest
        /\ inst' = [inst EXCEPT ![Author] = s]
    BY <1>3 DEF Propose, Pass
  <2>2. inst[Author].proposed = NoDigest
    <3>1. wire[Author]["Echo"] \subseteq {own} /\ wire[Author]["Echo"] \subseteq Digest
      BY <2>1 DEF Inv, TypeOK, AuthorKnown, Kind
    <3>2. wire[Author]["Echo"] = {inst[Author].got["Echo"][Author]} \ {NoDigest}
      BY <2>1 DEF Inv, OneVoice, Kind
    <3>3. inst[Author].got["Echo"][Author] = NoDigest
      BY <2>1, <3>1, <3>2, RbcAssumption
    <3> QED
      BY <1>1, <2>1, <3>3 DEF SettledAt
  <2>3. SettledAt(s, Author, own')
    BY <1>1, <2>1, <2>2, ProposalSettles, Zenon
  <2> HIDE DEF s
  <2> QED
    BY <1>1, <2>1, <2>3, PassSettled, Zenon
<1>4. ASSUME NEW i \in Honest, NEW d \in Digest, OnPropose(i, d) PROVE Goal
  <2> DEFINE s == TakeProposal(inst[i], i, d)
  <2>1. /\ inst[i].proposed = NoDigest /\ own' = own
        /\ inst' = [inst EXCEPT ![i] = s]
    BY <1>4, Zenon DEF OnPropose, Pass
  <2>2. SettledAt(s, i, own')
    BY <1>1, <2>1, ProposalSettles, Zenon
  <2> HIDE DEF s
  <2> QED
    BY <1>1, <2>1, <2>2, PassSettled
<1>5. ASSUME NEW i \in Honest, NEW j \in Validator, NEW k \in Kind, NEW d \in Digest,
             OnSignal(i, j, k, d)
      PROVE  Goal
  <2> DEFINE s == inst[i]
             c == Count(s, k, j, d)
             t == Checks(c, i, d)
  <2>1. /\ j # i /\ own' = own /\ s.got[k][j] = NoDigest
        /\ inst' = [inst EXCEPT ![i] = t]
    BY <1>5 DEF OnSignal, Pass
  <2>2. /\ i \in Validator /\ s \in Instance /\ "Echo" \in Kind
        /\ SettledAt(s, i, own)
    BY <1>1, <1>2 DEF Honest, Kind
  <2> HIDE DEF s
  <2>3. /\ c \in Instance /\ c.proposed = s.proposed /\ c.delivered = s.delivered
        /\ \A q \in Kind, v \in Validator :
              c.got[q][v] = IF q = k /\ v = j THEN d ELSE s.got[q][v]
    BY Zenon, <2>2 DEF Count, Instance, Maybe
  <2> HIDE DEF c
  <2>4. CountsFor(s, c, d)
    BY <2>1, <2>3, Zenon DEF CountsFor
  <2>5. /\ \A e \in Digest : SettledFor(t, i, e)
        /\ t.proposed = c.proposed /\ t.got["Echo"] = c.got["Echo"]
    BY <2>2, <2>3, <2>4, CountSettles, ChecksSettle, Zenon DEF SettledAt
  <2>6. t.got["Echo"][i] = s.got["Echo"][i]
    BY <2>1, <2>2, <2>3, <2>5, Zenon
  <2> HIDE DEF t
  <2>7. SettledAt(t, i, own')
    BY <2>1, <2>2, <2>3, <2>5, <2>6, Zenon DEF SettledAt
  <2> QED
    BY <1>1, <2>1, <2>7, PassSettled
<1>6. ASSUME NEW i \in Honest, CrashRecover(i) PROVE Goal
  <2>1. inst' = [inst EXCEPT ![i] = Restored(i, journal[i])] /\ own' = own
    BY <1>6 DEF CrashRecover
  <2>2. SettledAt(Restored(i, journal[i]), i, own')
    BY <1>1, <2>1, RestoredSettled
  <2> QED
    BY <1>1, <2>1, <2>2, PassSettled
<1>7. ASSUME UNCHANGED <<inst, own>> PROVE Goal
  BY <1>1, <1>7
<1>8. ASSUME NEW i \in Honest, EnterDag(i) PROVE UNCHANGED <<inst, own>>
  BY <1>8 DEF EnterDag
<1>9. UNCHANGED vars => UNCHANGED <<inst, own>>
  BY DEF vars
<1> HIDE DEF Goal
<1>10. Goal
  BY Zenon, <1>3, <1>4, <1>5, <1>6, <1>7, <1>8, <1>9 DEF Next
<1> QED
  BY <1>10, Zenon DEF Goal

(* At the end of every pass, and after every restart, nothing is left to do. *)
LEMMA SettledInvariance == Spec => []Settled
<1>1. Init => Settled
  <2> SUFFICES ASSUME Init, size # 1 PROVE \A i \in Honest : SettledAt(inst[i], i, own)
    BY SettledParts
  <2>1. own = NoDigest /\ \A i \in Honest : inst[i] = NoInstance
    BY DEF Init
  <2> QED
    BY <2>1, NoInstanceSettled
<1>2. Inv /\ Settled /\ [Next]_vars => Settled'
  BY NextSettled
<1> QED
  BY <1>1, <1>2, Invariance, PTL DEF Spec

-----------------------------------------------------------------------------
(* Totality. *)

(* Two sets of members together weigh no more than both. *)
LEMMA WeightOfUnion ==
    ASSUME NEW S, NEW T
    PROVE  /\ Weight(S \cup T) <= Weight(S) + Weight(T)
           /\ NonAuthorWeight(S \cup T) <= NonAuthorWeight(S) + NonAuthorWeight(T)
<1>1. ASSUME NEW A, NEW B, A \subseteq Seat, B \subseteq Seat
      PROVE  Cardinality(A \cup B) <= Cardinality(A) + Cardinality(B)
  <2>1. IsFiniteSet(A) /\ IsFiniteSet(B) /\ IsFiniteSet(A \cap B)
    BY <1>1, CommitteeAssumption, FS_Subset
  <2>2. Cardinality(A) \in Nat /\ Cardinality(B) \in Nat /\ Cardinality(A \cap B) \in Nat
    BY <2>1, FS_CardinalityType
  <2>3. Cardinality(A \cup B) = Cardinality(A) + Cardinality(B) - Cardinality(A \cap B)
    BY <2>1, FS_Union
  <2> QED
    BY <2>2, <2>3
<1>2. SeatsOf(S) \subseteq Seat /\ SeatsOf(T) \subseteq Seat
  BY DEF SeatsOf
<1>3. /\ SeatsOf(S \cup T) = SeatsOf(S) \cup SeatsOf(T)
      /\ SeatsOf(S \cup T) \ {AuthorSeat}
            = (SeatsOf(S) \ {AuthorSeat}) \cup (SeatsOf(T) \ {AuthorSeat})
  BY Zenon DEF SeatsOf
<1> QED
  BY <1>1, <1>2, <1>3, Zenon DEF Weight, NonAuthorWeight

(* The honest members hold all seats but the faulty ones'. *)
LEMMA HonestWeight ==
    /\ Weight(Honest) \in Nat /\ Weight(Honest) >= total_seats - max_faulty
    /\ NonAuthorWeight(Honest) \in Nat
    /\ NonAuthorWeight(Honest) >= total_seats - 1 - NonAuthorWeight(Byzantine)
<1>1. /\ Weight(Honest) \in Nat /\ NonAuthorWeight(Honest) \in Nat
      /\ Weight(Byzantine) \in Nat /\ NonAuthorWeight(Byzantine) \in Nat
  BY WeightGrows
<1>2. Honest \cup Byzantine = Validator
  BY RbcAssumption DEF Honest
<1>3. SeatsOf(Validator) = Seat
  BY CommitteeAssumption DEF SeatsOf
<1>4. Weight(Validator) = total_seats /\ NonAuthorWeight(Validator) = total_seats - 1
  BY <1>3, CommitteeAssumption, RbcAssumption, FS_RemoveElement, Zenon
     DEF Weight, NonAuthorWeight, total_seats
<1>5. /\ Weight(Validator) <= Weight(Honest) + Weight(Byzantine)
      /\ NonAuthorWeight(Validator) <= NonAuthorWeight(Honest) + NonAuthorWeight(Byzantine)
  BY <1>2, WeightOfUnion
<1> QED
  BY <1>1, <1>4, <1>5, RbcAssumption, Thresholds

(* The thresholds rounded up are reached as soon as the halves are. *)
LEMMA ThresholdsReached ==
    ASSUME NEW m \in Int
    PROVE  /\ 2 * m >= total_seats => m >= rbc_vote_threshold
           /\ 2 * m >= total_seats + max_faulty - 1 => m >= rbc_ack_threshold
<1>1. total_seats \in Nat /\ max_faulty \in Nat
  BY Thresholds
<1>2. ASSUME NEW a \in Int, 2 * m >= a PROVE m >= div_ceil(a, 2)
  BY <1>2 DEF div_ceil
<1>3. total_seats + max_faulty - 1 \in Int
  BY <1>1
<1> QED
  BY <1>1, <1>2, <1>3 DEF rbc_vote_threshold, rbc_ack_threshold

(* The honest members that signalled k for d. *)
Spoke(k, d) == {v \in Honest : d \in wire[v][k]}

(* At rest a validator that reads a kind has counted every honest signal of it. *)
LEMMA HeardAll ==
    ASSUME Inv, AtRest, NEW v \in Honest, NEW k \in Kind, NEW d \in Digest, Read(v, k)
    PROVE  Spoke(k, d) \subseteq Senders(inst[v], k, d)
<1> SUFFICES ASSUME NEW u \in Honest, d \in wire[u][k]
             PROVE  u \in Validator /\ inst[v].got[k][u] = d
  BY DEF Spoke, Senders
<1>1. inst[v].got[k][u] # NoDigest
  BY Zenon DEF AtRest
<1>2. inst[v].got[k][u] \in Maybe(wire[u][k])
  BY Zenon DEF Inv, Heard
<1>3. wire[u][k] = {d}
  BY DEF Inv, OneVoice
<1> QED
  BY <1>1, <1>2, <1>3 DEF Maybe, Honest

(* What a validator has reason to send once it counted the members S. *)
LEMMA CountedJustifies ==
    ASSUME NEW s, NEW S, NEW d
    PROVE  /\ /\ S \subseteq Senders(s, "Echo", d)
              /\ 2 * NonAuthorWeight(S) >= total_seats
              => Justified(s, "Vote", d)
           /\ /\ S \subseteq Senders(s, "Echo", d) \/ S \subseteq Senders(s, "Vote", d)
              /\ 2 * NonAuthorWeight(S) >= total_seats + max_faulty - 1
              => Justified(s, "Ack", d)
           /\ /\ S \subseteq Senders(s, "Ack", d)
              /\ 2 * NonAuthorWeight(S) >= total_seats + max_faulty - 1
              => Justified(s, "Ready", d)
           /\ S \subseteq Senders(s, "Ready", d) /\ Weight(S) >= validity
              => Justified(s, "Ready", d)
           /\ S \subseteq Senders(s, "Ready", d) /\ Weight(S) >= ready_delivery
              => Deliverable(s, d)
<1> DEFINE m == NonAuthorWeight(S)
<1>1. ASSUME NEW k, S \subseteq Senders(s, k, d)
      PROVE  /\ Weight(S) \in Nat /\ Weight(Senders(s, k, d)) \in Nat
             /\ Weight(S) <= Weight(Senders(s, k, d))
             /\ m \in Nat /\ NonAuthorWeight(Senders(s, k, d)) \in Nat
             /\ m <= NonAuthorWeight(Senders(s, k, d))
  BY <1>1, WeightGrows
<1>2. m \in Int
  BY WeightGrows
<1>3. /\ 2 * m >= total_seats => m >= rbc_vote_threshold
      /\ 2 * m >= total_seats + max_faulty - 1 => m >= rbc_ack_threshold
      /\ rbc_vote_threshold \in Int /\ rbc_ack_threshold \in Int
      /\ validity \in Int /\ ready_delivery \in Int
  <2> HIDE DEF m
  <2> QED
    BY <1>2, ThresholdsReached, Thresholds
<1>4. ASSUME S \subseteq Senders(s, "Echo", d), 2 * m >= total_seats
      PROVE  Justified(s, "Vote", d)
  <2>1. NonAuthorWeight(Senders(s, "Echo", d)) >= rbc_vote_threshold
    BY <1>1, <1>3, <1>4
  <2> QED
    BY <2>1 DEF Justified
<1>5. ASSUME NEW k \in {"Echo", "Vote", "Ack"}, S \subseteq Senders(s, k, d),
             2 * m >= total_seats + max_faulty - 1
      PROVE  NonAuthorWeight(Senders(s, k, d)) >= rbc_ack_threshold
  BY <1>1, <1>3, <1>5
<1>6. ASSUME S \subseteq Senders(s, "Ready", d)
      PROVE  /\ Weight(S) >= validity => Justified(s, "Ready", d)
             /\ Weight(S) >= ready_delivery => Deliverable(s, d)
  BY <1>1, <1>3, <1>6 DEF Justified, Deliverable
<1> QED
  BY <1>4, <1>5, <1>6 DEF Justified

(* What every honest validator has reason to send, and nothing else of the   *)
(* kind was sent, is sent by all.                                            *)
LEMMA AllSend ==
    ASSUME Inv, Settled, size # 1, NEW d \in Digest, NEW k \in Kind,
           \A v \in Honest : inst[v].got[k][v] = NoDigest => Justified(inst[v], k, d),
           \A v \in Honest : wire[v][k] \subseteq {d}
    PROVE  Spoke(k, d) = Honest
<1> SUFFICES ASSUME NEW v \in Honest PROVE d \in wire[v][k]
  BY DEF Spoke
<1>1. wire[v][k] = {inst[v].got[k][v]} \ {NoDigest}
  BY DEF Inv, OneVoice
<1>2. inst[v].got[k][v] # NoDigest
  BY DEF Settled
<1> QED
  BY <1>1, <1>2, Zenon

(* The speakers for two digests have only faulty members in common. *)
LEMMA SaidOverlap ==
    ASSUME Inv, NEW k \in Kind, NEW d, NEW e, d # e
    PROVE  /\ NonAuthorWeight(Said(wire, k, d)) \in Nat
           /\ NonAuthorWeight(Said(wire, k, e)) \in Nat
           /\ NonAuthorWeight(Byzantine) \in Nat
           /\ NonAuthorWeight(Said(wire, k, d)) + NonAuthorWeight(Said(wire, k, e))
                <= total_seats - 1 + NonAuthorWeight(Byzantine)
           /\ Spoke(k, d) = Honest => Said(wire, k, e) = Byzantine
<1>1. Said(wire, k, d) \cap Said(wire, k, e) \subseteq Byzantine
  BY DEF Said, Inv, OneVoice
<1>2. Spoke(k, d) = Honest => Said(wire, k, e) = Byzantine
  BY DEF Spoke, Said, Inv, OneVoice
<1> QED
  BY <1>1, <1>2, Overlap, WeightGrows

(* Honest speakers weigh what all of them do, less the faulty ones. *)
LEMMA SpokeWeight ==
    ASSUME NEW k, NEW d
    PROVE  /\ Weight(Spoke(k, d)) \in Nat /\ NonAuthorWeight(Spoke(k, d)) \in Nat
           /\ Weight(Said(wire, k, d)) <= Weight(Byzantine) + Weight(Spoke(k, d))
           /\ NonAuthorWeight(Said(wire, k, d))
                <= NonAuthorWeight(Byzantine) + NonAuthorWeight(Spoke(k, d))
<1>1. Said(wire, k, d) = Byzantine \cup Spoke(k, d)
  BY DEF Said, Spoke
<1> QED
  BY <1>1, WeightGrows, WeightOfUnion

(* The faulty members alone make no ACK quorum. *)
LEMMA FaultyNoAck ==
    ASSUME size # 1
    PROVE  NonAuthorWeight(Byzantine) < rbc_ack_threshold
<1>1. /\ total_seats \in Nat /\ max_faulty \in Nat /\ 3 * max_faulty + 1 <= total_seats
      /\ total_seats >= 2
      /\ rbc_ack_threshold \in Int /\ 2 * rbc_ack_threshold >= total_seats + max_faulty - 1
  BY Thresholds, TwoSeats
<1>2. NonAuthorWeight(Byzantine) \in Nat /\ NonAuthorWeight(Byzantine) <= max_faulty
  BY FaultyWeight, WeightGrows
<1> QED
  BY <1>1, <1>2

(* All honest members are an ACK quorum. *)
LEMMA HonestAck ==
    /\ NonAuthorWeight(Honest) \in Nat
    /\ 2 * NonAuthorWeight(Honest) >= total_seats + max_faulty - 1
<1>1. /\ total_seats \in Nat /\ max_faulty \in Nat /\ 3 * max_faulty + 1 <= total_seats
  BY Thresholds
<1>2. NonAuthorWeight(Byzantine) \in Nat /\ NonAuthorWeight(Byzantine) <= max_faulty
  BY FaultyWeight, WeightGrows, Zenon
<1> QED
  BY <1>1, <1>2, HonestWeight

(* Once all honest validators echoed or voted for d and acknowledge nothing  *)
(* else, all acknowledge it.                                                 *)
LEMMA AllAck ==
    ASSUME Inv, Settled, AtRest, size # 1, NEW d \in Digest, NEW k \in {"Echo", "Vote"},
           Spoke(k, d) = Honest, \A v \in Honest : wire[v]["Ack"] \subseteq {d}
    PROVE  Spoke("Ack", d) = Honest
<1>1. k \in Kind /\ "Ack" \in Kind
  BY Zenon DEF Kind
<1>2. ASSUME NEW v \in Honest, inst[v].got["Ack"][v] = NoDigest
      PROVE  Justified(inst[v], "Ack", d)
  <2>1. Read(v, k)
    BY <1>2, Zenon DEF Read
  <2>2. Honest \subseteq Senders(inst[v], k, d)
    BY <1>1, <2>1, HeardAll
  <2>3. Honest \subseteq Senders(inst[v], "Echo", d) \/ Honest \subseteq Senders(inst[v], "Vote", d)
    BY <2>2, Zenon
  <2> QED
    BY <2>3, HonestAck, CountedJustifies, Zenon
<1> QED
  BY <1>1, <1>2, AllSend

(* Once all acknowledged d, all are ready to deliver it. *)
LEMMA AllReady ==
    ASSUME Inv, Settled, AtRest, size # 1, NEW d \in Digest, Spoke("Ack", d) = Honest
    PROVE  Spoke("Ready", d) = Honest
<1>1. "Ack" \in Kind /\ "Ready" \in Kind
  BY DEF Kind
<1>2. ASSUME NEW v \in Honest, inst[v].got["Ready"][v] = NoDigest
      PROVE  Justified(inst[v], "Ready", d)
  <2>1. Read(v, "Ack")
    BY <1>2 DEF Read
  <2>2. Honest \subseteq Senders(inst[v], "Ack", d)
    BY <1>1, <2>1, HeardAll
  <2> QED
    BY <2>2, HonestAck, CountedJustifies
<1>3. ASSUME NEW v \in Honest, NEW e \in wire[v]["Ready"], e # d
      PROVE  FALSE
  <2>1. NonAuthorWeight(Said(wire, "Ack", e)) >= rbc_ack_threshold
    BY <1>1, Zenon DEF Inv, SignalsBacked, SignalBacked
  <2>2. Said(wire, "Ack", e) = Byzantine
    BY <1>1, <1>3, SaidOverlap, Zenon
  <2>3. NonAuthorWeight(Byzantine) \in Nat /\ rbc_ack_threshold \in Int
    BY WeightGrows, Thresholds
  <2> QED
    BY <2>1, <2>2, <2>3, FaultyNoAck
<1> QED
  BY <1>1, <1>2, <1>3, AllSend

(* What was delivered anywhere on the ECHOs of a faulty author's vertex is   *)
(* voted for by all.                                                         *)
LEMMA FastVotes ==
    ASSUME Inv, Settled, AtRest, size # 1, Author \in Byzantine, NEW d \in Digest,
           NonAuthorWeight(Said(wire, "Echo", d)) >= rbc_fast_threshold
    PROVE  /\ Spoke("Vote", d) = Honest
           /\ \A v \in Honest : wire[v]["Ack"] \subseteq {d}
<1> DEFINE B == NonAuthorWeight(Byzantine)
           E == NonAuthorWeight(Said(wire, "Echo", d))
           S == NonAuthorWeight(Spoke("Echo", d))
           n == total_seats
           f == max_faulty
<1>1. "Echo" \in Kind /\ "Vote" \in Kind /\ "Ack" \in Kind
  BY DEF Kind
<1>2. B \in Nat /\ B <= f - 1 /\ E \in Nat
  BY FaultyWeight, WeightGrows
<1>3. S \in Nat /\ E <= B + S
  BY SpokeWeight
<1>4. ASSUME NEW e, e # d
      PROVE  /\ NonAuthorWeight(Said(wire, "Echo", e)) \in Nat
             /\ E + NonAuthorWeight(Said(wire, "Echo", e)) <= n - 1 + B
             /\ Spoke("Vote", d) = Honest => Said(wire, "Vote", e) = Byzantine
  BY <1>1, <1>4, SaidOverlap
<1>5. /\ n \in Nat /\ f \in Nat /\ E >= rbc_fast_threshold
      /\ rbc_vote_threshold \in Int /\ 2 * rbc_vote_threshold >= n
      /\ rbc_ack_threshold \in Int /\ 2 * rbc_ack_threshold >= n + f - 1
      /\ rbc_fast_threshold \in Int /\ 2 * rbc_fast_threshold >= n + 2 * f - 2
  BY Thresholds
<1>6. 2 * S >= n
  <2> HIDE DEF B, E, S, n, f
  <2> QED
    BY <1>2, <1>3, <1>5
<1>7. ASSUME NEW v \in Honest, inst[v].got["Vote"][v] = NoDigest
      PROVE  Justified(inst[v], "Vote", d)
  <2>1. Read(v, "Echo")
    BY <1>7 DEF Read
  <2>2. Spoke("Echo", d) \subseteq Senders(inst[v], "Echo", d)
    BY <1>1, <2>1, HeardAll
  <2> QED
    BY <1>6, <2>2, CountedJustifies
<1>8. ASSUME NEW v \in Honest, NEW e \in wire[v]["Vote"], e # d
      PROVE  FALSE
  <2>1. NonAuthorWeight(Said(wire, "Echo", e)) >= rbc_vote_threshold
    BY <1>1, Zenon DEF Inv, SignalsBacked, SignalBacked
  <2> DEFINE G == NonAuthorWeight(Said(wire, "Echo", e))
  <2>2. G \in Nat /\ E + G <= n - 1 + B /\ G >= rbc_vote_threshold
    BY <1>4, <1>8, <2>1, Zenon
  <2> HIDE DEF B, E, S, n, f, G
  <2> QED
    BY <1>2, <1>5, <2>2
<1>9. Spoke("Vote", d) = Honest
  BY <1>1, <1>7, <1>8, AllSend, Zenon
<1>10. ASSUME NEW v \in Honest, NEW e \in wire[v]["Ack"], e # d
       PROVE  FALSE
  <2> DEFINE G == NonAuthorWeight(Said(wire, "Echo", e))
  <2>1. \/ G >= rbc_ack_threshold
        \/ NonAuthorWeight(Said(wire, "Vote", e)) >= rbc_ack_threshold
    BY <1>1, Zenon DEF Inv, SignalsBacked, SignalBacked
  <2>2. ~(NonAuthorWeight(Said(wire, "Vote", e)) >= rbc_ack_threshold)
    BY <1>2, <1>4, <1>5, <1>9, <1>10, FaultyNoAck
  <2>3. G \in Nat /\ E + G <= n - 1 + B
    BY <1>4, <1>10, Zenon
  <2> HIDE DEF B, E, S, n, f, G
  <2> QED
    BY <1>2, <1>5, <2>1, <2>2, <2>3
<1> QED
  BY <1>9, <1>10

(* Honest READYs of more than max_faulty seats make all honest validators    *)
(* ready: the amplification.                                                 *)
LEMMA SlowReady ==
    ASSUME Inv, Settled, AtRest, size # 1, Author \in Byzantine, NEW d \in Digest,
           Weight(Said(wire, "Ready", d)) >= ready_delivery
    PROVE  Spoke("Ready", d) = Honest
<1>1. "Ack" \in Kind /\ "Ready" \in Kind
  BY Zenon DEF Kind
<1>2. /\ Weight(Spoke("Ready", d)) \in Nat /\ Weight(Byzantine) \in Nat
      /\ Weight(Said(wire, "Ready", d)) \in Nat
      /\ Weight(Said(wire, "Ready", d)) <= Weight(Byzantine) + Weight(Spoke("Ready", d))
  BY SpokeWeight, WeightGrows, Zenon
<1>3. Weight(Spoke("Ready", d)) >= validity
  BY <1>2, RbcAssumption, Thresholds
<1>4. ASSUME NEW v \in Honest, inst[v].got["Ready"][v] = NoDigest
      PROVE  Justified(inst[v], "Ready", d)
  <2>1. Read(v, "Ready")
    BY <1>4 DEF Read
  <2>2. Spoke("Ready", d) \subseteq Senders(inst[v], "Ready", d)
    BY <1>1, <2>1, HeardAll, Zenon
  <2> QED
    BY <1>3, <2>2, CountedJustifies
<1>5. PICK u \in Honest : d \in wire[u]["Ready"]
  <2>1. Weight({}) = 0
    BY FS_EmptySet DEF Weight, SeatsOf
  <2>2. Spoke("Ready", d) # {}
    BY <1>3, <2>1, Thresholds
  <2> QED
    BY <2>2 DEF Spoke
<1>6. ASSUME NEW v \in Honest, NEW e \in wire[v]["Ready"], e # d
      PROVE  FALSE
  <2> DEFINE D == NonAuthorWeight(Said(wire, "Ack", d))
             G == NonAuthorWeight(Said(wire, "Ack", e))
             B == NonAuthorWeight(Byzantine)
  <2>1. D >= rbc_ack_threshold /\ G >= rbc_ack_threshold
    BY <1>1, <1>5, Zenon DEF Inv, SignalsBacked, SignalBacked
  <2>2. D \in Nat /\ G \in Nat /\ B \in Nat /\ D + G <= total_seats - 1 + B
    BY <1>1, <1>6, SaidOverlap, Zenon
  <2>3. B <= max_faulty - 1
    BY FaultyWeight, Zenon
  <2>4. /\ total_seats \in Nat /\ max_faulty \in Nat
        /\ rbc_ack_threshold \in Int /\ 2 * rbc_ack_threshold >= total_seats + max_faulty - 1
    BY Thresholds
  <2> HIDE DEF D, G, B
  <2> QED
    BY <2>1, <2>2, <2>3, <2>4
<1> QED
  BY <1>1, <1>4, <1>6, AllSend

(* An honest author's vertex, once taken by all, is acknowledged by all. *)
LEMMA AuthorAck ==
    ASSUME Inv, Settled, AtRest, size # 1, Author \in Honest, own # NoDigest
    PROVE  own \in Digest /\ Spoke("Ack", own) = Honest
<1>1. "Echo" \in Kind /\ "Ack" \in Kind /\ own \in Digest
  BY DEF Kind, Inv, TypeOK, Maybe
<1>2. \A v \in Honest, k \in Kind : wire[v][k] \subseteq {own}
  BY DEF Inv, AuthorKnown
<1>3. ASSUME NEW v \in Honest PROVE own \in wire[v]["Echo"]
  <2>1. inst[v].proposed # NoDigest
    BY DEF AtRest, Settled
  <2>2. inst[v].got["Echo"][v] # NoDigest
    BY <2>1 DEF Settled
  <2>3. wire[v]["Echo"] = {inst[v].got["Echo"][v]} \ {NoDigest}
    BY <1>1 DEF Inv, OneVoice
  <2> QED
    BY <1>1, <1>2, <2>2, <2>3, ZenonT(30)
<1>4. Spoke("Echo", own) = Honest
  BY <1>3, Zenon DEF Spoke
<1> QED
  BY <1>1, <1>2, <1>4, AllAck

(* At rest every honest validator is ready to deliver what any delivered,    *)
(* and has all the READYs it takes.                                          *)
LEMMA InvTotality == Inv /\ Settled => Totality
<1> SUFFICES ASSUME Inv, Settled, AtRest, NEW i \in Honest, NEW j \in Honest, i # j,
                    NEW d \in output[i], inst[j].delivered = NoDigest
             PROVE  FALSE
  BY DEF Totality
<1>1. "Ready" \in Kind /\ d \in Digest /\ i \in Validator /\ j \in Validator
  BY DEF Kind, Inv, TypeOK, Honest
<1>2. size # 1
  BY <1>1, CommitteeAssumption, FS_Singleton DEF size
<1>3. DeliveryBacked(wire, d)
  BY Zenon DEF Inv, Deliveries
<1>4. Spoke("Ready", d) = Honest
  <2>1. CASE Author \in Honest
    <3>1. own = d /\ own # NoDigest
      BY <1>1, <2>1, RbcAssumption, Zenon DEF Inv, AuthorKnown
    <3> QED
      BY <1>1, <1>2, <2>1, <3>1, AuthorAck, AllReady, Zenon
  <2>2. CASE Author \in Byzantine
    <3>1. CASE NonAuthorWeight(Said(wire, "Echo", d)) >= rbc_fast_threshold
      BY <1>1, <1>2, <2>2, <3>1, FastVotes, AllAck, AllReady, Zenon
    <3>2. CASE Weight(Said(wire, "Ready", d)) >= ready_delivery
      BY <1>1, <1>2, <2>2, <3>2, SlowReady
    <3> QED
      BY <1>2, <1>3, <3>1, <3>2, Zenon DEF DeliveryBacked
  <2> QED
    BY <2>1, <2>2, RbcAssumption DEF Honest
<1>5. Read(j, "Ready")
  BY Zenon DEF Read
<1>6. Honest \subseteq Senders(inst[j], "Ready", d)
  BY <1>1, <1>4, <1>5, HeardAll, Zenon
<1>7. Deliverable(inst[j], d)
  <2>1. Weight(Honest) >= ready_delivery
    BY HonestWeight, Thresholds
  <2> QED
    BY <1>6, <2>1, CountedJustifies, Zenon
<1>8. inst[j].got["Ready"][i] = d
  BY <1>6 DEF Senders
<1> QED
  BY <1>1, <1>2, <1>7, <1>8, Zenon DEF Settled

(* Every variable keeps the shape of the field it stands for. *)
THEOREM TypeCorrect == Spec => []TypeOK
<1>1. Inv => TypeOK
  BY DEF Inv
<1> QED
  BY <1>1, Invariance, PTL

(***************************************************************************)
(* Delivery is all or nothing in every committee: once what the honest     *)
(* members sent has reached all of them, a vertex one of them ever         *)
(* delivered, on either path, all have delivered, whatever the faulty      *)
(* members said or withheld and whatever was forgotten in restarts.        *)
(***************************************************************************)
THEOREM TotalityTheorem == Spec => []Totality
<1> QED
  BY Invariance, SettledInvariance, InvTotality, PTL
=============================================================================
