---------------------------- MODULE CommitLemmas ----------------------------
(***************************************************************************)
(* Facts about the outcomes, the leader schedule and the decisions of      *)
(* CommitRule that hold in every state.                                    *)
(***************************************************************************)
EXTENDS CommitRule, CommitteeProofs

(* A bounded set of naturals has a greatest element. *)
LEMMA NatGreatest ==
    ASSUME NEW K \in Nat, NEW T, T \subseteq 0..K, T # {}
    PROVE  \E x \in T : \A y \in T : y <= x
<1> DEFINE U == {K - y : y \in T}
<1>1. U \subseteq Nat /\ U # {}
  <2>1. \A y \in T : y \in Int /\ K - y \in Nat
    OBVIOUS
  <2> QED
    BY <2>1, Zenon
<1>2. PICK u \in U : \A w \in U : u <= w
  <2> HIDE DEF U
  <2> QED
    BY <1>1, NatLeast
<1>3. PICK x \in T : u = K - x
  OBVIOUS
<1>4. \A y \in T : K - x <= K - y
  BY <1>2, <1>3
<1> QED
  BY <1>4

(* Division, as the provers need it. *)
LEMMA Division ==
    ASSUME NEW b \in Nat \ {0}, NEW x \in Nat
    PROVE  /\ x \div b \in Nat /\ x % b \in 0..(b - 1)
           /\ x = b * (x \div b) + (x % b)
<1>1. x \div b \in Int /\ x \div b >= 0
  OBVIOUS
<1>2. x % b \in 0..(b - 1)
  OBVIOUS
<1>3. x = b * (x \div b) + (x % b)
  OBVIOUS
<1>4. x \div b \in Nat
  BY <1>1
<1> QED
  BY <1>2, <1>3, <1>4, Zenon

(* Division by a constant is monotone. *)
LEMMA DivisionMonotone ==
    ASSUME NEW b \in Nat \ {0}, NEW x \in Nat, NEW y \in Nat, x <= y
    PROVE  x \div b <= y \div b
<1> DEFINE q == x \div b
           p == y \div b
           m == x % b
           n == y % b
<1>1. q \in Nat /\ p \in Nat /\ m \in 0..(b - 1) /\ n \in 0..(b - 1)
      /\ x = b * q + m /\ y = b * p + n
  BY Division
<1> HIDE DEF q, p, m, n
<1>2. ASSUME q > p PROVE FALSE
  <2>1. PICK k \in Nat : q = p + 1 + k
    <3>1. q - p - 1 \in Nat /\ q = p + 1 + (q - p - 1)
      BY <1>1, <1>2
    <3> QED
      BY <3>1
  <2>2. b * q = b * p + b + b * k
    BY <1>1, <2>1
  <2>3. b * k \in Nat /\ b * p \in Nat
    BY <1>1
  <2> QED
    BY <1>1, <2>2, <2>3
<1> QED
  BY <1>1, <1>2 DEF q, p

(* The round and the index of a slot (Slot in core.rs). *)
LEMMA SlotFacts ==
    /\ \A s \in Slot : /\ s \in Nat /\ s >= 1 /\ s <= Slots * MaxRound
                        /\ SlotRound(s) \in Nat /\ SlotRound(s) + 1 \in Round
                        /\ SlotRound(s) \in Round
                        /\ SlotIndex(s) \in 0..(Slots - 1)
    /\ \A s, t \in Slot : s <= t => SlotRound(s) <= SlotRound(t)
<1>0. Slots \in Nat \ {0} /\ MaxRound \in Nat /\ Slots * MaxRound \in Nat
  BY CommitRuleAssumption
<1>1. ASSUME NEW s \in Slot
      PROVE  /\ s \in Nat /\ s >= 1 /\ s <= Slots * MaxRound
             /\ SlotRound(s) \in Nat /\ SlotRound(s) + 1 \in Round
             /\ SlotRound(s) \in Round
             /\ SlotIndex(s) \in 0..(Slots - 1)
  <2>1. s \in Nat /\ s >= 1 /\ s <= Slots * MaxRound /\ s - 1 \in Nat
    BY <1>0 DEF Slot
  <2>2. /\ SlotRound(s) \in Nat /\ SlotIndex(s) \in 0..(Slots - 1)
        /\ s - 1 = Slots * SlotRound(s) + SlotIndex(s)
    BY <1>0, <2>1, Division DEF SlotRound, SlotIndex
  <2>3. ASSUME SlotRound(s) >= MaxRound PROVE FALSE
    <3>1. PICK k \in Nat : SlotRound(s) = MaxRound + k
      <4>1. SlotRound(s) - MaxRound \in Nat /\ SlotRound(s) = MaxRound + (SlotRound(s) - MaxRound)
        BY <1>0, <2>2, <2>3
      <4> QED
        BY <4>1
    <3>2. Slots * SlotRound(s) = Slots * MaxRound + Slots * k /\ Slots * k \in Nat
      BY <1>0, <3>1
    <3> QED
      BY <1>0, <2>1, <2>2, <3>2
  <2> QED
    BY <1>0, <2>1, <2>2, <2>3 DEF Round
<1>2. ASSUME NEW s \in Slot, NEW t \in Slot, s <= t
      PROVE  SlotRound(s) <= SlotRound(t)
  <2>1. s - 1 \in Nat /\ t - 1 \in Nat /\ s - 1 <= t - 1
    BY <1>1, <1>2
  <2> QED
    BY <1>0, <2>1, DivisionMonotone DEF SlotRound
<1> QED
  BY <1>1, <1>2

(* Outcomes are sequences of bounded length. *)
LEMMA OutcomesFacts ==
    ASSUME NEW o \in Outcomes
    PROVE  /\ o \in Seq(Outcome)
           /\ Len(o) \in 0..(Slots * MaxRound)
           /\ DOMAIN o = 1..Len(o)
           /\ DOMAIN o \subseteq Slot
           /\ o \in [1..Len(o) -> Outcome]
<1>1. PICK n \in 0..(Slots * MaxRound) : o \in [1..n -> Outcome]
  BY DEF Outcomes
<1>2. n \in Nat /\ Slots * MaxRound \in Nat
  BY <1>1, CommitRuleAssumption
<1>3. o \in Seq(Outcome) /\ Len(o) = n
  BY <1>1, <1>2
<1> QED
  BY <1>1, <1>2, <1>3 DEF Slot

(* The length of outcomes, and slots, are naturals. *)
LEMMA LenNat ==
    ASSUME NEW o \in Outcomes
    PROVE  Len(o) \in Nat /\ DOMAIN o = 1..Len(o)
  BY OutcomesFacts

LEMMA SlotNat ==
    ASSUME NEW s \in Slot
    PROVE  s \in Nat
  BY SlotFacts

(* A sequence of outcomes that is not too long is one of Outcomes. *)
LEMMA OutcomesOfSeq ==
    ASSUME NEW o \in Seq(Outcome), Len(o) <= Slots * MaxRound
    PROVE  o \in Outcomes
<1>1. Len(o) \in 0..(Slots * MaxRound) /\ o \in [1..Len(o) -> Outcome]
  BY CommitRuleAssumption
<1> QED
  BY <1>1 DEF Outcomes

(* The outcomes of the first slots. *)
LEMMA PrefixFacts ==
    ASSUME NEW o \in Outcomes, NEW n \in 0..Len(o)
    PROVE  /\ Prefix(o, n) \in Outcomes /\ Len(Prefix(o, n)) = n
           /\ DOMAIN Prefix(o, n) = 1..n
           /\ \A s \in 1..n : Prefix(o, n)[s] = o[s]
<1>1. o \in Seq(Outcome) /\ Len(o) \in Nat /\ Len(o) <= Slots * MaxRound
      /\ Slots * MaxRound \in Nat
  BY OutcomesFacts, CommitRuleAssumption
<1>2. \A s \in 1..n : o[s] \in Outcome
  BY <1>1
<1>3. /\ Prefix(o, n) \in Seq(Outcome) /\ Len(Prefix(o, n)) = n
      /\ \A s \in 1..n : Prefix(o, n)[s] = o[s]
  <2>1. /\ SubSeq(o, 1, n) \in Seq(Outcome)
        /\ Len(SubSeq(o, 1, n)) = IF 1 <= n THEN n - 1 + 1 ELSE 0
        /\ \A s \in 1..(n - 1 + 1) : SubSeq(o, 1, n)[s] = o[1 + s - 1]
    BY <1>1, <1>2
  <2>2. n \in Nat /\ n - 1 + 1 = n /\ \A s \in 1..n : 1 + s - 1 = s
    BY <1>1
  <2>3. Len(SubSeq(o, 1, n)) = n
    BY <2>1, <2>2
  <2>4. \A s \in 1..n : SubSeq(o, 1, n)[s] = o[s]
    BY <2>1, <2>2
  <2> QED
    BY <2>1, <2>3, <2>4 DEF Prefix
<1>4. n <= Slots * MaxRound
  BY <1>1
<1> QED
  BY <1>3, <1>4, OutcomesOfSeq, OutcomesFacts

(* Outcomes equal at every slot are equal. *)
LEMMA OutcomesEqual ==
    ASSUME NEW x \in Outcomes, NEW y \in Outcomes, Len(x) = Len(y),
           \A s \in 1..Len(x) : x[s] = y[s]
    PROVE  x = y
<1>1. x \in Seq(Outcome) /\ y \in Seq(Outcome)
  BY OutcomesFacts
<1> QED
  BY <1>1

(* Outcomes that agree on n slots have the same prefixes up to n. *)
LEMMA PrefixSame ==
    ASSUME NEW x \in Outcomes, NEW y \in Outcomes, NEW n \in Nat,
           n <= Len(x), n <= Len(y), \A s \in 1..n : x[s] = y[s]
    PROVE  \A m \in 0..n : Prefix(x, m) = Prefix(y, m)
<1>1. SUFFICES ASSUME NEW m \in 0..n PROVE Prefix(x, m) = Prefix(y, m)
  OBVIOUS
<1>2. Len(x) \in Nat /\ Len(y) \in Nat
  BY OutcomesFacts
<1>3. m \in 0..Len(x) /\ m \in 0..Len(y) /\ \A s \in 1..m : s \in 1..n
  BY <1>2
<1>4. /\ Prefix(x, m) \in Outcomes /\ Prefix(y, m) \in Outcomes
      /\ Len(Prefix(x, m)) = m /\ Len(Prefix(y, m)) = m
      /\ \A s \in 1..m : Prefix(x, m)[s] = x[s] /\ Prefix(y, m)[s] = y[s]
  BY <1>3, PrefixFacts
<1> QED
  BY <1>3, <1>4, OutcomesEqual

(* A prefix of a prefix is a prefix. *)
LEMMA PrefixOfPrefix ==
    ASSUME NEW o \in Outcomes, NEW n \in 0..Len(o)
    PROVE  \A m \in 0..n : Prefix(Prefix(o, n), m) = Prefix(o, m)
<1>1. Len(o) \in Nat
  BY OutcomesFacts
<1>2. /\ Prefix(o, n) \in Outcomes /\ Len(Prefix(o, n)) = n
      /\ \A s \in 1..n : Prefix(o, n)[s] = o[s]
  BY PrefixFacts
<1>3. n \in Nat /\ n <= Len(o)
  BY <1>1
<1> QED
  BY <1>2, <1>3, PrefixSame

(* The prefix of full length is the whole. *)
LEMMA PrefixWhole ==
    ASSUME NEW o \in Outcomes
    PROVE  Prefix(o, Len(o)) = o
<1>1. Len(o) \in 0..Len(o)
  BY OutcomesFacts
<1> QED
  BY <1>1, PrefixFacts, OutcomesEqual

(* The checkpoints of a prefix are those of the whole up to its end. *)
LEMMA CheckpointsOfPrefix ==
    ASSUME NEW o \in Outcomes, NEW n \in 0..Len(o)
    PROVE  \A c : c \in Checkpoints(Prefix(o, n)) <=> c \in Checkpoints(o) /\ c <= n
<1>0. Len(o) \in Nat /\ DOMAIN o = 1..Len(o)
  BY OutcomesFacts
<1>1. /\ DOMAIN Prefix(o, n) = 1..n
      /\ \A s \in 1..n : Prefix(o, n)[s] = o[s] /\ Prefix(Prefix(o, n), s) = Prefix(o, s)
  <2>1. \A s \in 1..n : s \in 0..n
    BY <1>0
  <2> QED
    BY <2>1, PrefixFacts, PrefixOfPrefix
<1>2. \A c : c \in 1..n <=> c \in 1..Len(o) /\ c <= n
  BY <1>0
<1> QED
  BY <1>0, <1>1, <1>2 DEF Checkpoints

(* The outcomes a draw is made from are those of the first slots. *)
LEMMA ReleasedOutcomes ==
    ASSUME NEW o \in Outcomes, NEW r \in Round
    PROVE  Released(o, r) \in Outcomes
<1> DEFINE C == {c \in Checkpoints(o) : SlotRound(c) + Lookahead < r}
           U == {u \in DOMAIN o :
                    \E c \in Checkpoints(o) : u <= c /\ SlotRound(c) + Lookahead < r}
<1>0. /\ Len(o) \in Nat /\ DOMAIN o = 1..Len(o) /\ o \in [1..Len(o) -> Outcome]
      /\ Len(o) <= Slots * MaxRound /\ Slots * MaxRound \in Nat
  BY OutcomesFacts, CommitRuleAssumption
<1>1. C \subseteq 1..Len(o)
  BY <1>0 DEF Checkpoints
<1>2. PICK m \in 0..Len(o) : U = 1..m
  <2>1. CASE C = {}
    <3>1. U = 1..0
      BY <2>1
    <3> QED
      BY <1>0, <3>1
  <2>2. CASE C # {}
    <3>1. C \subseteq 0..Len(o)
      BY <1>0, <1>1
    <3>2. PICK m \in C : \A c \in C : c <= m
      <4> HIDE DEF C
      <4> QED
        BY <1>0, <2>2, <3>1, NatGreatest
    <3>3. m \in 1..Len(o)
      BY <1>1, <3>2
    <3>4. ASSUME NEW u \in U PROVE u \in 1..m
      <4>1. PICK c \in C : u <= c
        OBVIOUS
      <4>2. c <= m /\ u \in 1..Len(o) /\ c \in 1..Len(o)
        BY <1>0, <1>1, <3>2
      <4> QED
        BY <3>3, <4>1, <4>2
    <3>5. ASSUME NEW u \in 1..m PROVE u \in U
      <4>1. u <= m /\ u \in DOMAIN o
        BY <1>0, <3>3
      <4> QED
        BY <3>2, <4>1
    <3> QED
      BY <3>3, <3>4, <3>5
  <2> QED
    BY <2>1, <2>2
<1>3. Released(o, r) = [s \in 1..m |-> o[s]]
  BY <1>2 DEF Released
<1>4. \A s \in 1..m : o[s] \in Outcome
  BY <1>0
<1> QED
  BY <1>0, <1>3, <1>4 DEF Outcomes

(* Slots that decide no checkpoint leave the leaders of all rounds alone. *)
LEMMA ReleasedSame ==
    ASSUME NEW o \in Outcomes, NEW n \in 0..Len(o), NEW m \in 0..Len(o), n <= m,
           \A c \in Checkpoints(o) : c <= n \/ c > m, NEW r
    PROVE  Released(Prefix(o, n), r) = Released(Prefix(o, m), r)
<1>0. Len(o) \in Nat /\ DOMAIN o = 1..Len(o)
  BY OutcomesFacts
<1>1. Checkpoints(o) \subseteq 1..Len(o)
  BY <1>0 DEF Checkpoints
<1>2. \A c : c \in Checkpoints(Prefix(o, n)) <=> c \in Checkpoints(o) /\ c <= n
  BY CheckpointsOfPrefix
<1>3. \A c : c \in Checkpoints(Prefix(o, m)) <=> c \in Checkpoints(o) /\ c <= n
  <2>1. \A c \in Checkpoints(o) : c <= m <=> c <= n
    BY <1>0, <1>1
  <2> QED
    BY <2>1, CheckpointsOfPrefix
<1>4. /\ DOMAIN Prefix(o, n) = 1..n /\ DOMAIN Prefix(o, m) = 1..m
      /\ \A s \in 1..n : Prefix(o, n)[s] = Prefix(o, m)[s]
  <2>1. \A s \in 1..n : s \in 1..m
    BY <1>0
  <2> QED
    BY <2>1, PrefixFacts
<1> DEFINE U == {u \in 1..n : \E c \in Checkpoints(o) :
                                 c <= n /\ u <= c /\ SlotRound(c) + Lookahead < r}
<1>5. Released(Prefix(o, n), r) = [s \in U |-> Prefix(o, n)[s]]
  BY <1>2, <1>4, Zenon DEF Released
<1>6. Released(Prefix(o, m), r) = [s \in U |-> Prefix(o, m)[s]]
  <2>1. ASSUME NEW u, NEW c \in Checkpoints(o), c <= n, u <= c, u \in 1..m
        PROVE  u \in 1..n
    BY <1>0, <1>1, <2>1
  <2>2. U = {u \in DOMAIN Prefix(o, m) : \E c \in Checkpoints(Prefix(o, m)) :
                                 u <= c /\ SlotRound(c) + Lookahead < r}
    <3>1. \A u \in 1..n : u \in 1..m
      BY <1>0
    <3> QED
      BY <1>3, <1>4, <2>1, <3>1
  <2> QED
    BY <2>2, Zenon DEF Released
<1> QED
  BY <1>4, <1>5, <1>6

(* A slot is filled by a vertex of its round. *)
LEMMA SlotVertexType ==
    ASSUME NEW o \in Outcomes, NEW s \in Slot
    PROVE  /\ SlotVertex(o, s) \in Position
           /\ SlotVertex(o, s)[1] = SlotRound(s) /\ SlotVertex(o, s)[2] \in Validator
<1>1. SlotRound(s) \in Round /\ SlotIndex(s) \in 0..(Slots - 1)
  BY SlotFacts
<1>2. Released(o, SlotRound(s)) \in Outcomes
  BY <1>1, ReleasedOutcomes
<1>3. Leader(o, SlotRound(s), SlotIndex(s)) \in Validator
  BY <1>1, <1>2, CommitRuleAssumption DEF Leader
<1> QED
  BY <1>1, <1>3 DEF SlotVertex, Position

(* Slots decided since the last checkpoint do not change the leaders. *)
LEMMA SlotVertexSame ==
    ASSUME NEW o \in Outcomes, NEW n \in 0..Len(o), NEW m \in 0..Len(o), n <= m,
           \A c \in Checkpoints(o) : c <= n \/ c > m, NEW s
    PROVE  SlotVertex(Prefix(o, n), s) = SlotVertex(Prefix(o, m), s)
<1>1. Released(Prefix(o, n), SlotRound(s)) = Released(Prefix(o, m), SlotRound(s))
  BY ReleasedSame
<1> QED
  BY <1>1 DEF SlotVertex, Leader

(* The outcome decision D makes of slot s. *)
Result(o, D, s) == IF D[s] = "commit" THEN SlotVertex(o, s)[2] ELSE Skip

(* A pass of try_commit keeps the outcomes and appends its decisions. *)
LEMMA ExtendedFacts ==
    ASSUME NEW o \in Outcomes, NEW D, NEW t \in Slot, t > Len(o)
    PROVE  /\ Extended(o, D, t) \in Outcomes /\ Len(Extended(o, D, t)) = t
           /\ \A s \in 1..Len(o) : Extended(o, D, t)[s] = o[s]
           /\ \A s \in (Len(o) + 1)..t : Extended(o, D, t)[s] = Result(o, D, s)
<1> DEFINE k == t - Len(o)
           e == [n \in 1..k |-> Result(o, D, Len(o) + n)]
<1>0. /\ o \in Seq(Outcome) /\ Len(o) \in Nat /\ t \in Nat /\ t >= 1
      /\ t <= Slots * MaxRound /\ Slots * MaxRound \in Nat /\ k \in Nat
  <2>1. o \in Seq(Outcome) /\ Len(o) \in Nat
    BY OutcomesFacts
  <2>2. t \in Nat /\ t >= 1 /\ t <= Slots * MaxRound /\ Slots * MaxRound \in Nat
    BY SlotFacts, CommitRuleAssumption
  <2> QED
    BY <2>1, <2>2
<1>1. \A n \in 1..k : Result(o, D, Len(o) + n) \in Outcome
  <2>1. SUFFICES ASSUME NEW n \in 1..k PROVE Result(o, D, Len(o) + n) \in Outcome
    OBVIOUS
  <2>2. Len(o) + n \in Slot
    BY <1>0 DEF Slot
  <2> QED
    BY <2>2, SlotVertexType DEF Result, Outcome
<1>2. e \in Seq(Outcome) /\ Len(e) = k /\ \A n \in 1..k : e[n] = Result(o, D, Len(o) + n)
  <2> HIDE DEF k
  <2> QED
    BY <1>0, <1>1
<1>3. Extended(o, D, t) = o \o e
  BY DEF Extended, Result
<1> HIDE DEF e
<1>4. /\ o \o e \in Seq(Outcome) /\ Len(o \o e) = t
      /\ \A s \in 1..t : (o \o e)[s] = IF s <= Len(o) THEN o[s] ELSE e[s - Len(o)]
  <2>1. Len(o) + k = t
    BY <1>0
  <2> QED
    BY <1>0, <1>2, <2>1
<1>5. \A s \in 1..Len(o) : s \in 1..t /\ s <= Len(o)
  BY <1>0
<1>6. \A s \in (Len(o) + 1)..t : s \in 1..t /\ ~(s <= Len(o)) /\ s - Len(o) \in 1..k
                                /\ Len(o) + (s - Len(o)) = s
  BY <1>0
<1>7. \A s \in (Len(o) + 1)..t : (o \o e)[s] = Result(o, D, s)
  BY <1>2, <1>4, <1>6
<1> QED
  BY <1>0, <1>3, <1>4, <1>5, <1>7, OutcomesOfSeq

(* The prefixes of an extension are the old ones and shorter extensions. *)
LEMMA ExtendedPrefix ==
    ASSUME NEW o \in Outcomes, NEW D, NEW t \in Slot, t > Len(o)
    PROVE  /\ \A n \in 0..Len(o) : Prefix(Extended(o, D, t), n) = Prefix(o, n)
           /\ \A s \in (Len(o) + 1)..t : Prefix(Extended(o, D, t), s) = Extended(o, D, s)
<1>0. Len(o) \in Nat /\ t \in Nat
  BY OutcomesFacts, SlotFacts
<1>1. /\ Extended(o, D, t) \in Outcomes /\ Len(Extended(o, D, t)) = t
      /\ \A s \in 1..Len(o) : Extended(o, D, t)[s] = o[s]
      /\ \A s \in (Len(o) + 1)..t : Extended(o, D, t)[s] = Result(o, D, s)
  BY ExtendedFacts
<1>2. \A n \in 0..Len(o) : Prefix(Extended(o, D, t), n) = Prefix(o, n)
  BY <1>0, <1>1, PrefixSame
<1>3. ASSUME NEW s \in (Len(o) + 1)..t
      PROVE  Prefix(Extended(o, D, t), s) = Extended(o, D, s)
  <2>1. s \in Slot /\ s > Len(o) /\ s \in 0..t
    <3>1. t <= Slots * MaxRound /\ Slots * MaxRound \in Nat
      BY SlotFacts, CommitRuleAssumption
    <3> QED
      BY <1>0, <3>1 DEF Slot
  <2>2. /\ Extended(o, D, s) \in Outcomes /\ Len(Extended(o, D, s)) = s
        /\ \A u \in 1..Len(o) : Extended(o, D, s)[u] = o[u]
        /\ \A u \in (Len(o) + 1)..s : Extended(o, D, s)[u] = Result(o, D, u)
    BY <2>1, ExtendedFacts
  <2>3. /\ Prefix(Extended(o, D, t), s) \in Outcomes
        /\ Len(Prefix(Extended(o, D, t), s)) = s
        /\ \A u \in 1..s : Prefix(Extended(o, D, t), s)[u] = Extended(o, D, t)[u]
    BY <1>1, <2>1, PrefixFacts
  <2>4. \A u \in 1..s : u \in 1..Len(o) \/ (u \in (Len(o) + 1)..s /\ u \in (Len(o) + 1)..t)
    BY <1>0, <2>1
  <2>5. \A u \in 1..s : Prefix(Extended(o, D, t), s)[u] = Extended(o, D, s)[u]
    BY <1>1, <2>2, <2>3, <2>4
  <2> QED
    BY <2>2, <2>3, <2>5, OutcomesEqual
<1> QED
  BY <1>2, <1>3

(* What decide_slots makes of slot s given the decisions f of the later     *)
(* slots.                                                                   *)
Choice(i, s, f) ==
    LET d == direct(i, s) IN IF d # "undecided" THEN d ELSE indirect(i, s, f)

(* A choice is a decision. *)
LEMMA ChoiceType ==
    ASSUME NEW i, NEW s, NEW f
    PROVE  Choice(i, s, f) \in Decision
<1>1. direct(i, s) \in Decision
  BY DEF direct, Decision
<1>2. indirect(i, s, f) \in Decision
  BY DEF indirect, Decision
<1> QED
  BY <1>1, <1>2 DEF Choice

(* Only slots after s count towards it. *)
LEMMA ChoiceLocal ==
    ASSUME NEW i, NEW X, X \subseteq Slot, NEW s \in X, NEW f, NEW g,
           DOMAIN f = X, DOMAIN g = X, \A t \in X : t > s => f[t] = g[t]
    PROVE  Choice(i, s, f) = Choice(i, s, g)
<1>1. \A t \in X : SlotRound(t) >= SlotRound(s) + 2 => f[t] = g[t]
  <2>1. SUFFICES ASSUME NEW t \in X, SlotRound(t) >= SlotRound(s) + 2 PROVE t > s
    OBVIOUS
  <2>2. /\ s \in Slot /\ t \in Slot /\ s \in Nat /\ t \in Nat
        /\ SlotRound(s) \in Nat /\ SlotRound(t) \in Nat
        /\ (t <= s => SlotRound(t) <= SlotRound(s))
    BY SlotFacts
  <2> QED
    BY <2>1, <2>2
<1>2. \A t \in X : /\ Anchors(f, s, t) <=> Anchors(g, s, t)
                   /\ Anchors(f, s, t) => f[t] = g[t]
  BY <1>1 DEF Anchors
<1>3. indirect(i, s, f) = indirect(i, s, g)
  <2> DEFINE a == \E t \in X : /\ Anchors(f, s, t) /\ f[t] = "commit"
                               /\ SlotVertex(decided[i], s) \in dag[i]
                               /\ SlotVertex(decided[i], s) \in past[SlotVertex(decided[i], t)]
             b == \E t \in X : Anchors(f, s, t) /\ f[t] = "commit"
  <2>1. indirect(i, s, f) = IF a THEN "commit" ELSE IF b THEN "skip" ELSE "undecided"
    BY Zenon DEF indirect
  <2>2. indirect(i, s, g) = IF a THEN "commit" ELSE IF b THEN "skip" ELSE "undecided"
    BY <1>2, Zenon DEF indirect
  <2> QED
    BY <2>1, <2>2
<1> QED
  BY <1>3 DEF Choice

(* The decisions decide_slots builds from the last open slot down solve its  *)
(* recursion: the least slot from which they do is the first.                *)
LEMMA DecideSlots ==
    ASSUME NEW i
    PROVE  /\ decide_slots(i) \in [OpenSlots(i) -> Decision]
           /\ \A s \in OpenSlots(i) : decide_slots(i)[s] = Choice(i, s, decide_slots(i))
<1> DEFINE X == OpenSlots(i)
           N == Slots * MaxRound + 1
           Solves(f, k) == /\ f \in [X -> Decision]
                           /\ \A s \in X : s >= k => f[s] = Choice(i, s, f)
           K == {k \in Nat : \E f \in [X -> Decision] : Solves(f, k)}
<1>0. X \subseteq Slot /\ N \in Nat /\ \A s \in X : s \in Nat /\ s >= 1 /\ s < N
  <2>1. X \subseteq Slot
    BY DEF OpenSlots
  <2>2. Slots * MaxRound \in Nat
    BY CommitRuleAssumption
  <2> QED
    BY <2>1, <2>2 DEF Slot
<1> HIDE DEF X, N
<1>1. N \in K
  <2>1. [s \in X |-> "skip"] \in [X -> Decision]
    BY DEF Decision
  <2>2. \A s \in X : ~(s >= N)
    BY <1>0
  <2> QED
    BY <1>0, <2>1, <2>2
<1>2. PICK k \in K : \A j \in K : k <= j
  <2>1. K \subseteq Nat /\ K # {}
    BY <1>1
  <2> HIDE DEF K
  <2> QED
    BY <2>1, NatLeast
<1>3. PICK f \in [X -> Decision] : Solves(f, k)
  BY <1>2
<1>4. k = 0
  <2>1. SUFFICES ASSUME k # 0 PROVE FALSE
    OBVIOUS
  <2> DEFINE g == [s \in X |-> IF s = k - 1 THEN Choice(i, s, f) ELSE f[s]]
  <2>2. k \in Nat /\ k - 1 \in Nat /\ k - 1 < k
    BY <1>2, <2>1
  <2>3. g \in [X -> Decision]
    BY <1>3, ChoiceType
  <2>4. ASSUME NEW s \in X, s >= k - 1 PROVE g[s] = Choice(i, s, g)
    <3>1. \A t \in X : t > s => f[t] = g[t]
      BY <1>0, <2>2, <2>4
    <3>2. DOMAIN f = X /\ DOMAIN g = X
      BY <1>3, <2>3
    <3>3. Choice(i, s, f) = Choice(i, s, g)
      <4> HIDE DEF g
      <4> QED
        BY <1>0, <3>1, <3>2, ChoiceLocal
    <3>4. CASE s = k - 1
      BY <3>3, <3>4
    <3>5. CASE s # k - 1
      <4>1. s >= k
        BY <1>0, <2>2, <2>4, <3>5
      <4>2. f[s] = Choice(i, s, f)
        BY <1>3, <4>1
      <4>3. g[s] = f[s]
        BY <3>5
      <4> QED
        BY <3>3, <4>2, <4>3, Zenon
    <3> QED
      BY <3>4, <3>5
  <2>5. k - 1 \in K
    <3>1. Solves(g, k - 1)
      <4> HIDE DEF g
      <4> QED
        BY <2>3, <2>4
    <3> HIDE DEF g, Solves
    <3> QED
      BY <2>2, <2>3, <3>1
  <2> HIDE DEF K
  <2> QED
    BY <1>2, <2>2, <2>5
<1> DEFINE Fixed(h) == h = [s \in X |-> Choice(i, s, h)]
<1>5. Fixed(f)
  <2>1. \A s \in X : f[s] = Choice(i, s, f)
    BY <1>0, <1>3, <1>4
  <2> QED
    BY <1>3, <2>1
<1>6. decide_slots(i) = CHOOSE h : Fixed(h)
  BY DEF decide_slots, Choice, X
<1>7. Fixed(CHOOSE h : Fixed(h))
  <2> HIDE DEF Fixed
  <2> QED
    BY <1>5, Zenon
<1>8. decide_slots(i) = [s \in X |-> Choice(i, s, decide_slots(i))]
  BY <1>6, <1>7
<1> QED
  BY <1>8, ChoiceType DEF X

(* The open slots are an interval that starts at next_slot. *)
LEMMA OpenSlotsFacts ==
    ASSUME NEW i
    PROVE  /\ OpenSlots(i) \subseteq Slot
           /\ \A s \in OpenSlots(i) : Len(decided[i]) < s
           /\ \A s \in OpenSlots(i), u \in Slot :
                  Len(decided[i]) < u /\ u <= s => u \in OpenSlots(i)
<1> DEFINE seen == {p[1] : p \in {q \in Position : q \in dag[i] \/ first[i][q] # {}}}
<1>1. OpenSlots(i) = {s \in Slot : Len(decided[i]) < s /\ \E r \in seen : SlotRound(s) < r}
  BY DEF OpenSlots
<1>2. seen \subseteq Nat
  BY CommitRuleAssumption DEF Position, Round
<1> HIDE DEF seen
<1>3. ASSUME NEW s \in OpenSlots(i), NEW u \in Slot, Len(decided[i]) < u, u <= s
      PROVE  u \in OpenSlots(i)
  <2>1. PICK r \in seen : SlotRound(s) < r
    BY <1>1
  <2>2. SlotRound(u) <= SlotRound(s) /\ SlotRound(u) \in Nat /\ SlotRound(s) \in Nat
    BY <1>1, <1>3, SlotFacts
  <2>3. SlotRound(u) < r
    BY <1>2, <2>1, <2>2
  <2> QED
    BY <1>1, <1>3, <2>3
<1> QED
  BY <1>1, <1>3

(* What the floor cuts off is a set of low rounds, below every open slot. *)
LEMMA PrunedFacts ==
    ASSUME NEW o \in Outcomes
    PROVE  /\ \A q, r \in Int : q <= r /\ Pruned(o, r) => Pruned(o, q)
           /\ \A s \in Slot, r \in Nat :
                  s > Len(o) /\ r >= SlotRound(s) => ~Pruned(o, r)
<1>0. /\ GcDepth \in Nat /\ DOMAIN o = 1..Len(o) /\ DOMAIN o \subseteq Slot /\ Len(o) \in Nat
      /\ \A s \in Slot : SlotRound(s) \in Nat /\ s \in Nat
  BY CommitRuleAssumption, OutcomesFacts, SlotFacts
<1>1. ASSUME NEW q \in Int, NEW r \in Int, q <= r, Pruned(o, r) PROVE Pruned(o, q)
  <2>1. PICK s \in DOMAIN o : o[s] # Skip /\ r + GcDepth < SlotRound(s)
    BY <1>1 DEF Pruned
  <2>2. q + GcDepth < SlotRound(s)
    BY <1>0, <1>1, <2>1
  <2> QED
    BY <2>1, <2>2 DEF Pruned
<1>2. ASSUME NEW s \in Slot, NEW r \in Nat, s > Len(o), r >= SlotRound(s), Pruned(o, r)
      PROVE  FALSE
  <2>1. PICK u \in DOMAIN o : r + GcDepth < SlotRound(u)
    BY <1>2 DEF Pruned
  <2>2. u \in Slot /\ u <= s
    BY <1>0, <1>2
  <2>3. SlotRound(u) <= SlotRound(s)
    BY <2>2, SlotFacts
  <2> QED
    BY <1>0, <1>2, <2>1, <2>2, <2>3
<1> QED
  BY <1>1, <1>2

(* The floor only rises as slots are decided. *)
LEMMA PrunedGrows ==
    ASSUME NEW o \in Outcomes, NEW e \in Outcomes, Len(o) <= Len(e),
           \A s \in 1..Len(o) : e[s] = o[s], NEW r, Pruned(o, r)
    PROVE  Pruned(e, r)
<1>1. /\ DOMAIN o = 1..Len(o) /\ DOMAIN e = 1..Len(e) /\ Len(o) \in Nat /\ Len(e) \in Nat
  BY OutcomesFacts
<1>2. \A s \in DOMAIN o : s \in DOMAIN e /\ e[s] = o[s]
  BY <1>1
<1> QED
  BY <1>2 DEF Pruned
=============================================================================
