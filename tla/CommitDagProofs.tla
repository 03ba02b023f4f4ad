-------------------------- MODULE CommitDagProofs ---------------------------
(***************************************************************************)
(* The invariants of the DAG of CommitRule, for every committee, schedule  *)
(* and bound: World of the vertices made, OwnOf and HeldBy of each         *)
(* validator.  Together with TypeOK they are inductive.  They give one     *)
(* vertex per round, and CommitProofs builds agreement on them.            *)
(***************************************************************************)
EXTENDS CommitLemmas, TLAPS

-----------------------------------------------------------------------------
(* The DAG. *)

(* All that p reaches from round k on references a quorum. *)
Solid(p, k) == \A q \in past[p] : q[1] >= k => Weight(strong[q]) >= quorum

(* q is below p and referenced from the round after it by what p reaches. *)
Below(p, q) ==
    /\ q[1] < p[1]
    /\ \E a \in Validator : <<q[1] + 1, a>> \in past[p] /\ q[2] \in strong[<<q[1] + 1, a>>]

World ==
    \A p \in made :
        /\ p[1] = 0 => strong[p] = {}
        /\ Parents(p[1], strong[p]) \subseteq made
        /\ past[p] = Reaches(p[1], p[2], strong[p])
        /\ past[p] \subseteq made
        /\ \A q \in past[p] : past[q] \subseteq past[p] /\ (q = p \/ Below(p, q))
        /\ \A k \in Round : k <= p[1] /\ Solid(p, k + 1) => \E q \in past[p] : q[1] = k

(* The last round validator i knows it proposed. *)
LastRound(i) == IF resuming[i] = NotResuming THEN round[i] ELSE resuming[i].own

OwnOf(i) ==
    /\ dag[i] \subseteq made /\ replay[i] \subseteq made
    /\ journal[i].own \subseteq made /\ journal[i].delivered \subseteq made
    /\ \A p \in Position : p[2] \in Honest /\ first[i][p] # {} =>
           p \in made /\ first[i][p] = strong[p]
    /\ \A r \in Round : <<r, i>> \in made => r <= journal[i].round /\ r <= LastRound(i)
    /\ resuming[i] # NotResuming =>
           /\ dag[i] = {} /\ first[i] = NoProposal /\ replay[i] = {}
           /\ decided[i] = <<>> /\ Len(resuming[i].base) \in Slot

(* What validator i holds is closed under references down to its floor. *)
HeldBy(i) ==
    \A p \in dag[i] :
        /\ p[1] > 0 /\ ~Pruned(decided[i], p[1] - 1) =>
               Parents(p[1], strong[p]) \subseteq dag[i] /\ Weight(strong[p]) >= quorum
        /\ \A q \in past[p] : ~Pruned(decided[i], q[1]) => q \in dag[i]

Kept == \A i \in Honest : OwnOf(i) /\ HeldBy(i)

(* A step fixes the vertices made before it. *)
Grows ==
    /\ made \subseteq made'
    /\ \A p \in made : strong'[p] = strong[p] /\ past'[p] = past[p]

DagInv == TypeOK /\ World /\ Kept

(* The types of the variables, one by one, before a step and after it. *)
LEMMA Types ==
    TypeOK <=>
    /\ made \subseteq Position
    /\ strong \in [Position -> SUBSET Validator]
    /\ past \in [Position -> SUBSET Position]
    /\ dag \in [Honest -> SUBSET Position]
    /\ first \in [Honest -> [Position -> SUBSET Validator]]
    /\ round \in [Honest -> Round \cup {-1}]
    /\ decided \in [Honest -> Outcomes]
    /\ halted \in [Honest -> BOOLEAN]
    /\ journal \in [Honest -> Journal]
    /\ replay \in [Honest -> SUBSET Position]
    /\ resuming \in [Honest -> [base : Outcomes, own : Round \cup {-1}]]
    /\ executed \in [Honest -> Outcomes]
    /\ crashes \in Nat /\ resumes \in Nat
  BY Zenon DEF TypeOK

LEMMA TypesNext ==
    TypeOK' <=>
    /\ made' \subseteq Position
    /\ strong' \in [Position -> SUBSET Validator]
    /\ past' \in [Position -> SUBSET Position]
    /\ dag' \in [Honest -> SUBSET Position]
    /\ first' \in [Honest -> [Position -> SUBSET Validator]]
    /\ round' \in [Honest -> Round \cup {-1}]
    /\ decided' \in [Honest -> Outcomes]
    /\ halted' \in [Honest -> BOOLEAN]
    /\ journal' \in [Honest -> Journal]
    /\ replay' \in [Honest -> SUBSET Position]
    /\ resuming' \in [Honest -> [base : Outcomes, own : Round \cup {-1}]]
    /\ executed' \in [Honest -> Outcomes]
    /\ crashes' \in Nat /\ resumes' \in Nat
  BY Zenon DEF TypeOK

(* A quorum has a member. *)
LEMMA QuorumNotEmpty ==
    ASSUME NEW S, Weight(S) >= quorum
    PROVE  S # {}
<1>1. Weight({}) = 0
  <2>1. SeatsOf({}) = {}
    BY DEF SeatsOf
  <2> QED
    BY <2>1, FS_EmptySet DEF Weight
<1>2. quorum \in Nat /\ quorum >= 1
  BY Thresholds
<1> QED
  BY <1>1, <1>2

(* The higher of two rounds. *)
LEMMA HigherFacts ==
    ASSUME NEW a \in Round \cup {-1}, NEW b \in Round
    PROVE  Higher(a, b) \in Round \cup {-1} /\ \A q \in Round : q <= a => q <= Higher(a, b)
<1>1. a \in Int /\ \A q \in Round : q \in Int
  BY CommitRuleAssumption DEF Round
<1> QED
  BY <1>1 DEF Higher

(* A new vertex leaves all earlier ones as they are, and reaches what the    *)
(* vertices it references reach.                                             *)
LEMMA MakeWorld ==
    ASSUME TypeOK, World, NEW r \in Round, NEW a \in Validator, <<r, a>> \notin made,
           NEW S \in SUBSET Validator, r = 0 => S = {}, Parents(r, S) \subseteq made,
           Make(r, a, S)
    PROVE  World' /\ Grows
<1> DEFINE p == <<r, a>>
<1>0. r \in Nat /\ p \in Position /\ p[1] = r /\ p[2] = a /\ p \notin made
      /\ made \subseteq Position
  BY CommitRuleAssumption, Types DEF Round, Position
<1>1. /\ made' = made \cup {p} /\ strong'[p] = S /\ past'[p] = Reaches(r, a, S)
      /\ \A q \in made : strong'[q] = strong[q] /\ past'[q] = past[q]
  <2>1. strong \in [Position -> SUBSET Validator] /\ past \in [Position -> SUBSET Position]
    BY Types
  <2> QED
    BY <1>0, <2>1 DEF Make
<1> HIDE DEF p
<1>2. Grows
  BY <1>1 DEF Grows
<1>3. \A q \in made : /\ past[q] \subseteq made
                      /\ \A x \in past[q] : past[x] \subseteq past[q] /\ (x = q \/ Below(q, x))
  BY DEF World
<1>4. ASSUME NEW q \in made
      PROVE  /\ \A k : Solid(q, k)' <=> Solid(q, k)
             /\ \A x : Below(q, x)' <=> Below(q, x)
  <2>1. past'[q] = past[q] /\ \A x \in past[q] : strong'[x] = strong[x]
    BY <1>1, <1>3
  <2>2. \A k : Solid(q, k)' <=> Solid(q, k)
    BY <2>1 DEF Solid
  <2>3. \A x : Below(q, x)' <=> Below(q, x)
    BY <2>1, Zenon DEF Below
  <2> QED
    BY <2>2, <2>3
<1>5. \A d, T : Parents(d, T) \subseteq made => \A b : Reaches(d, b, T)' = Reaches(d, b, T)
  BY <1>1 DEF Reaches
<1>6. ASSUME NEW q \in made
      PROVE  /\ q[1] = 0 => strong'[q] = {}
             /\ Parents(q[1], strong'[q]) \subseteq made'
             /\ past'[q] = Reaches(q[1], q[2], strong[q])'
             /\ past'[q] \subseteq made'
             /\ \A x \in past'[q] : past'[x] \subseteq past'[q] /\ (x = q \/ Below(q, x)')
             /\ \A k \in Round : k <= q[1] /\ Solid(q, k + 1)' => \E x \in past'[q] : x[1] = k
  <2>1. /\ q[1] = 0 => strong[q] = {}
        /\ Parents(q[1], strong[q]) \subseteq made
        /\ past[q] = Reaches(q[1], q[2], strong[q])
        /\ \A k \in Round : k <= q[1] /\ Solid(q, k + 1) => \E x \in past[q] : x[1] = k
    BY DEF World
  <2>2. strong'[q] = strong[q] /\ past'[q] = past[q] /\ made \subseteq made'
    BY <1>1
  <2>3. past'[q] = Reaches(q[1], q[2], strong[q])'
    <3>1. Reaches(q[1], q[2], strong[q])' = Reaches(q[1], q[2], strong[q])
      BY <1>1, <2>1, <2>2 DEF Reaches
    <3> QED
      BY <2>1, <2>2, <3>1, Zenon
  <2>4. \A x \in past'[q] : past'[x] \subseteq past'[q] /\ (x = q \/ Below(q, x)')
    BY <1>1, <1>3, <1>4, <2>2, Zenon
  <2>5. \A k \in Round : k <= q[1] /\ Solid(q, k + 1)' => \E x \in past'[q] : x[1] = k
    BY <1>4, <2>1, <2>2, Zenon
  <2>6. past'[q] \subseteq made'
    BY <1>3, <2>2
  <2> QED
    BY <2>1, <2>2, <2>3, <2>4, <2>5, <2>6, Zenon
<1>7. /\ p \in past'[p]
      /\ \A x \in past'[p] : x = p \/ \E b \in S : <<r - 1, b>> \in made /\ x \in past[<<r - 1, b>>]
      /\ \A b \in S : <<r - 1, b>> \in made /\ past[<<r - 1, b>>] \subseteq past'[p]
  BY <1>1 DEF Reaches, Parents, p
<1>8. /\ p[1] = 0 => strong'[p] = {}
      /\ Parents(p[1], strong'[p]) \subseteq made'
      /\ past'[p] = Reaches(p[1], p[2], strong[p])'
      /\ past'[p] \subseteq made'
      /\ \A x \in past'[p] : past'[x] \subseteq past'[p] /\ (x = p \/ Below(p, x)')
      /\ \A k \in Round : k <= p[1] /\ Solid(p, k + 1)' => \E x \in past'[p] : x[1] = k
  <2>1. (p[1] = 0 => strong'[p] = {}) /\ Parents(p[1], strong'[p]) \subseteq made'
    BY <1>0, <1>1
  <2>2. past'[p] = Reaches(p[1], p[2], strong[p])'
    BY <1>0, <1>1 DEF Reaches
  <2>3. past'[p] \subseteq made'
    BY <1>1, <1>3, <1>7, Zenon
  <2>4. ASSUME NEW x \in past'[p]
        PROVE  past'[x] \subseteq past'[p] /\ (x = p \/ Below(p, x)')
    <3>1. CASE x = p
      BY <3>1
    <3>2. CASE x # p
      <4>1. PICK b \in S : <<r - 1, b>> \in made /\ x \in past[<<r - 1, b>>]
        BY <1>7, <3>2
      <4> DEFINE u == <<r - 1, b>>
      <4>2. u \in made /\ u[1] = r - 1 /\ u[2] = b /\ past[u] \subseteq past'[p]
        BY <1>7, <4>1, Zenon
      <4> HIDE DEF u
      <4>3. x \in past[u] /\ x \in made /\ past'[x] = past[x] /\ past[x] \subseteq past[u]
        BY <1>1, <1>3, <4>1, <4>2, Zenon DEF u
      <4>4. x[1] \in Nat
        BY <1>0, <4>3, CommitRuleAssumption DEF Position, Round
      <4>5. Below(p, x)'
        <5>1. CASE x = u
          <6>1. <<x[1] + 1, a>> = p /\ x[1] < p[1] /\ x[2] = b
            <7>1. r - 1 + 1 = r /\ r - 1 < r
              BY <1>0
            <7> QED
              BY <1>0, <4>2, <5>1, <7>1 DEF p
          <6> QED
            BY <1>1, <1>7, <4>1, <6>1 DEF Below
        <5>2. CASE x # u
          <6>1. Below(u, x)
            BY <1>3, <4>2, <4>3, <5>2, Zenon
          <6>2. PICK d \in Validator : <<x[1] + 1, d>> \in past[u] /\ x[2] \in strong[<<x[1] + 1, d>>]
            BY <6>1 DEF Below
          <6>3. <<x[1] + 1, d>> \in past'[p] /\ x[2] \in strong'[<<x[1] + 1, d>>]
            BY <1>1, <1>3, <4>2, <6>2, Zenon
          <6>4. x[1] < p[1]
            BY <1>0, <4>2, <4>4, <6>1 DEF Below
          <6> QED
            BY <6>3, <6>4 DEF Below
        <5> QED
          BY <5>1, <5>2
      <4> QED
        BY <4>2, <4>3, <4>5
    <3> QED
      BY <3>1, <3>2
  <2>5. ASSUME NEW k \in Round, k <= p[1], Solid(p, k + 1)'
        PROVE  \E x \in past'[p] : x[1] = k
    <3>0. k \in Nat
      BY CommitRuleAssumption DEF Round
    <3>1. CASE k = r
      BY <1>0, <1>7, <3>1
    <3>2. CASE k # r
      <4>1. r >= k + 1 /\ r - 1 \in Nat /\ k <= r - 1
        BY <1>0, <2>5, <3>0, <3>2
      <4>2. Weight(S) >= quorum
        BY <1>0, <1>1, <1>7, <2>5, <4>1, Zenon DEF Solid
      <4>3. PICK b \in S : TRUE
        BY <4>2, QuorumNotEmpty
      <4> DEFINE u == <<r - 1, b>>
      <4>4. u \in made /\ u[1] = r - 1 /\ past[u] \subseteq past'[p]
        BY <1>7
      <4> HIDE DEF u
      <4>5. Solid(u, k + 1)
        BY <1>1, <1>3, <2>5, <4>4, Zenon DEF Solid
      <4>6. \E x \in past[u] : x[1] = k
        BY <4>1, <4>4, <4>5 DEF World
      <4> QED
        BY <4>4, <4>6
    <3> QED
      BY <3>1, <3>2
  <2> QED
    BY <2>1, <2>2, <2>3, <2>4, <2>5, Zenon
<1> QED
  BY <1>1, <1>2, <1>6, <1>8 DEF World

(* A step that makes no vertex keeps the facts about vertices. *)
LEMMA WorldSame ==
    ASSUME World, UNCHANGED global
    PROVE  World' /\ Grows
<1>1. made' = made /\ strong' = strong /\ past' = past
  BY DEF global
<1>2. /\ \A r, a, S : Reaches(r, a, S)' = Reaches(r, a, S)
      /\ \A p, k : Solid(p, k)' <=> Solid(p, k)
      /\ \A p, q : Below(p, q)' <=> Below(p, q)
  BY <1>1 DEF Reaches, Solid, Below
<1>3. World'
  BY <1>1, <1>2 DEF World
<1> QED
  BY <1>1, <1>3 DEF Grows

(* Validator j's part of the state. *)
Mine(j) == <<dag[j], first[j], round[j], decided[j], journal[j], replay[j], resuming[j]>>

(* A step of another validator. *)
LEMMA OthersKept ==
    ASSUME TypeOK, Grows, NEW j \in Honest, OwnOf(j), HeldBy(j), Mine(j)' = Mine(j),
           \A r \in Round : <<r, j>> \in made' => <<r, j>> \in made
    PROVE  OwnOf(j)' /\ HeldBy(j)'
<1>1. /\ dag'[j] = dag[j] /\ first'[j] = first[j] /\ round'[j] = round[j]
      /\ decided'[j] = decided[j] /\ journal'[j] = journal[j] /\ replay'[j] = replay[j]
      /\ resuming'[j] = resuming[j] /\ LastRound(j)' = LastRound(j)
  BY Zenon DEF Mine, LastRound
<1>2. OwnOf(j)'
  BY <1>1 DEF OwnOf, Grows
<1>3. HeldBy(j)'
  <2>1. \A p \in dag[j] : strong'[p] = strong[p] /\ past'[p] = past[p]
    BY Zenon DEF OwnOf, Grows
  <2> QED
    BY <1>1, <2>1, Zenon DEF HeldBy, Pruned
<1> QED
  BY <1>2, <1>3

(* Vertices that fit keep what a validator holds closed. *)
LEMMA AcceptHeld ==
    ASSUME TypeOK, World', made' \subseteq Position, Grows, NEW i \in Honest,
           OwnOf(i), HeldBy(i), NEW B \in SUBSET made',
           \A p \in B : p[1] > 0 /\ ~Pruned(decided[i], p[1] - 1) =>
               Parents(p[1], strong'[p]) \subseteq dag[i] /\ Weight(strong'[p]) >= quorum,
           dag'[i] = dag[i] \cup B, decided'[i] = decided[i]
    PROVE  HeldBy(i)'
<1>0. \A p \in made' : p[1] \in Nat
  BY CommitRuleAssumption DEF Position, Round
<1>1. SUFFICES ASSUME NEW p \in dag'[i]
               PROVE  /\ p[1] > 0 /\ ~Pruned(decided[i], p[1] - 1) =>
                             /\ Parents(p[1], strong'[p]) \subseteq dag'[i]
                             /\ Weight(strong'[p]) >= quorum
                      /\ \A q \in past'[p] : ~Pruned(decided[i], q[1]) => q \in dag'[i]
  BY Zenon DEF HeldBy, Pruned
<1>2. decided[i] \in Outcomes /\ dag[i] \subseteq made
  BY Types, Zenon DEF OwnOf
<1>3. CASE p \in dag[i]
  <2>1. p \in made /\ strong'[p] = strong[p] /\ past'[p] = past[p]
    BY <1>2, <1>3, Zenon DEF Grows
  <2> QED
    BY <1>3, <2>1, Zenon DEF HeldBy
<1>4. CASE p \notin dag[i]
  <2>1. p \in B /\ p \in made'
    BY <1>1, <1>4
  <2>2. p[1] > 0 /\ ~Pruned(decided[i], p[1] - 1) =>
            Parents(p[1], strong'[p]) \subseteq dag[i] /\ Weight(strong'[p]) >= quorum
    BY <2>1, Zenon
  <2>3. ASSUME NEW q \in past'[p], ~Pruned(decided[i], q[1]), q # p PROVE q \in dag[i]
    <3>1. past'[p] = Reaches(p[1], p[2], strong[p])' /\ (p[1] = 0 => strong'[p] = {})
          /\ Parents(p[1], strong'[p]) \subseteq made' /\ p = <<p[1], p[2]>>
      <4>1. p \in Position
        BY <2>1
      <4> QED
        BY <2>1, <4>1 DEF World, Position
    <3>2. PICK b \in strong'[p] : q \in past'[<<p[1] - 1, b>>]
      BY <2>3, <3>1 DEF Reaches, Parents
    <3> DEFINE u == <<p[1] - 1, b>>
    <3>3. u \in made' /\ u \in Parents(p[1], strong'[p]) /\ u[1] = p[1] - 1 /\ q \in past'[u]
      BY <3>1, <3>2 DEF Parents
    <3> HIDE DEF u
    <3>4. p[1] > 0
      BY <1>0, <2>1, <3>1, <3>2
    <3>5. past'[u] \subseteq made' /\ (q = u \/ Below(u, q)')
      BY <3>3, Zenon DEF World
    <3>6. q[1] \in Nat /\ u[1] \in Nat /\ q[1] <= u[1]
      BY <1>0, <3>3, <3>5 DEF Below
    <3>7. ~Pruned(decided[i], p[1] - 1)
      BY <1>2, <2>3, <3>3, <3>6, PrunedFacts
    <3>8. u \in dag[i]
      BY <2>2, <3>3, <3>4, <3>7, ZenonT(30)
    <3>9. q \in past[u]
      BY <1>2, <3>3, <3>8 DEF Grows
    <3> QED
      BY <2>3, <3>8, <3>9, Zenon DEF HeldBy
  <2> QED
    BY <1>1, <1>2, <2>1, <2>2, <2>3, Zenon
<1> QED
  BY <1>3, <1>4

-----------------------------------------------------------------------------
(* Every action keeps the invariants of the DAG. *)

(* A new vertex has the shape of one. *)
LEMMA MakeType ==
    ASSUME TypeOK, NEW r \in Round, NEW a \in Validator, NEW S \in SUBSET Validator,
           r = 0 => S = {}, Make(r, a, S)
    PROVE  /\ made' \subseteq Position
           /\ strong' \in [Position -> SUBSET Validator]
           /\ past' \in [Position -> SUBSET Position]
<1>1. <<r, a>> \in Position
  BY DEF Position
<1>2. Parents(r, S) \subseteq Position
  <2>1. ASSUME NEW b \in S PROVE <<r - 1, b>> \in Position
    <3>1. r - 1 \in Round
      BY <2>1, CommitRuleAssumption DEF Round
    <3> QED
      BY <3>1 DEF Position
  <2> QED
    BY <2>1 DEF Parents
<1>3. Reaches(r, a, S) \subseteq Position
  <2>1. \A p \in Parents(r, S) : past[p] \subseteq Position
    BY <1>2, Types
  <2> QED
    BY <1>1, <2>1, Zenon DEF Reaches
<1> QED
  BY <1>1, <1>3, Types, Zenon DEF Make

(* propose preserves the invariant. *)
LEMMA ProposeDag ==
    ASSUME DagInv, NEW i \in Honest, NEW r \in Round, Propose(i, r)
    PROVE  DagInv' /\ Grows
<1> DEFINE S == IF r = 0 THEN {} ELSE Authors(i, r - 1)
           p == <<r, i>>
<1>0. TypeOK /\ World /\ OwnOf(i) /\ HeldBy(i) /\ i \in Validator /\ r \in Nat
  BY CommitRuleAssumption DEF DagInv, Kept, Honest, Round
<1>1. /\ Make(r, i, S) /\ Running(i)
      /\ first' = [first EXCEPT ![i][p] = S]
      /\ round' = [round EXCEPT ![i] = r]
      /\ journal' = [journal EXCEPT ![i] =
             [own |-> @.own \cup {p}, delivered |-> @.delivered,
              base |-> @.base, round |-> r]]
      /\ UNCHANGED <<dag, decided, halted, replay, resuming, executed, counts>>
  BY DEF Propose
<1>2. S \in SUBSET Validator /\ (r = 0 => S = {}) /\ Parents(r, S) \subseteq made
  BY <1>0, Zenon DEF Authors, Parents, OwnOf
<1>3. round[i] < r /\ round[i] \in Int
  <2>1. round[i] \in Int
    BY <1>0, CommitRuleAssumption, Types DEF Round
  <2> QED
    BY <1>0, <2>1 DEF Propose, EnterAfter
<1>4. \A q \in Round : <<q, i>> \in made => q < r
  <2>1. LastRound(i) = round[i]
    BY <1>1 DEF Running, LastRound
  <2>2. \A q \in Round : q \in Int
    BY CommitRuleAssumption DEF Round
  <2>3. \A q \in Round : <<q, i>> \in made => q <= LastRound(i)
    BY <1>0, Zenon DEF OwnOf
  <2> QED
    BY <1>0, <1>3, <2>1, <2>2, <2>3
<1>5. p \notin made /\ p \in Position
  BY <1>0, <1>4 DEF Position
<1> HIDE DEF S
<1>6. World' /\ Grows
  BY <1>0, <1>1, <1>2, <1>5, MakeWorld, Zenon
<1>7. TypeOK'
  <2>1. /\ made' \subseteq Position
        /\ strong' \in [Position -> SUBSET Validator]
        /\ past' \in [Position -> SUBSET Position]
    BY <1>0, <1>1, <1>2, MakeType, Zenon
  <2>2. first' \in [Honest -> [Position -> SUBSET Validator]]
    BY <1>0, <1>1, <1>2, <1>5, Types, Zenon
  <2>3. journal' \in [Honest -> Journal]
    BY <1>0, <1>1, <1>5, Types, Zenon DEF Journal
  <2>4. round' \in [Honest -> Round \cup {-1}]
    BY <1>0, <1>1, Types, Zenon
  <2> QED
    BY <1>0, <1>1, <2>1, <2>2, <2>3, <2>4, Types, TypesNext, Zenon DEF counts
<1>8. made' = made \cup {p} /\ strong'[p] = S /\ made \subseteq Position
  BY <1>0, <1>1, <1>5, Types, Zenon DEF Make
<1>9. OwnOf(i)'
  <2>1. /\ dag'[i] = dag[i] /\ replay'[i] = replay[i] /\ resuming'[i] = NotResuming
        /\ journal'[i].own = journal[i].own \cup {p}
        /\ journal'[i].delivered = journal[i].delivered
        /\ journal'[i].round = r /\ LastRound(i)' = r
        /\ \A q \in Position : first'[i][q] = IF q = p THEN S ELSE first[i][q]
    BY <1>0, <1>1, <1>5, Types, Zenon DEF Journal, Running, LastRound
  <2>2. \A q \in Round : <<q, i>> \in made' => q <= r
    <3>1. \A q \in Round : <<q, i>> \in made' => q < r \/ q = r
      BY <1>4, <1>8
    <3>2. \A q \in Round : q \in Int
      BY CommitRuleAssumption DEF Round
    <3> QED
      BY <1>0, <3>1, <3>2
  <2>3. \A q \in Position : q[2] \in Honest /\ first'[i][q] # {} =>
                              q \in made' /\ first'[i][q] = strong'[q]
    BY <1>0, <1>6, <1>8, <2>1, Zenon DEF OwnOf, Grows
  <2>4. /\ dag'[i] \subseteq made' /\ replay'[i] \subseteq made'
        /\ journal'[i].own \subseteq made' /\ journal'[i].delivered \subseteq made'
    BY <1>0, <1>8, <2>1, Zenon DEF OwnOf
  <2> QED
    BY <2>1, <2>2, <2>3, <2>4, Zenon DEF OwnOf
<1>10. HeldBy(i)'
  <2>1. dag'[i] = dag[i] \cup {} /\ decided'[i] = decided[i] /\ made' \subseteq Position
    BY <1>1, <1>5, <1>8
  <2>2. {} \in SUBSET made'
    OBVIOUS
  <2> QED
    BY <1>0, <1>6, <2>1, <2>2, AcceptHeld, Zenon
<1>11. ASSUME NEW j \in Honest, j # i PROVE OwnOf(j)' /\ HeldBy(j)'
  <2>1. Mine(j)' = Mine(j)
    BY <1>0, <1>1, <1>11, Types DEF Mine
  <2>2. \A q \in Round : <<q, j>> \in made' => <<q, j>> \in made
    BY <1>8, <1>11
  <2> QED
    BY <1>0, <1>6, <2>1, <2>2, OthersKept, Zenon DEF DagInv, Kept
<1> QED
  BY <1>6, <1>7, <1>9, <1>10, <1>11, Zenon DEF DagInv, Kept

(* on_propose preserves the invariant. *)
LEMMA OnProposeDag ==
    ASSUME DagInv, NEW i \in Honest, NEW p \in Position, OnPropose(i, p)
    PROVE  DagInv' /\ Grows
<1>0. TypeOK /\ World /\ OwnOf(i) /\ HeldBy(i) /\ made \subseteq Position
  BY Types DEF DagInv, Kept
<1>1. PICK S \in Proposals(p) : first' = [first EXCEPT ![i][p] = S]
  BY Zenon DEF OnPropose
<1>2. UNCHANGED <<global, dag, round, decided, halted, executed, recovery>> /\ Running(i)
  BY DEF OnPropose
<1>3. /\ S \in SUBSET Validator
      /\ p[2] \in Honest => p \in made /\ S = strong[p]
  <2>1. CASE p[2] \in Byzantine
    <3>1. S \in Shown
      BY <1>1, <2>1 DEF Proposals
    <3> QED
      BY <2>1, <3>1, CommitRuleAssumption DEF Honest
  <2>2. CASE p[2] \notin Byzantine
    <3>1. S \in {strong[q] : q \in {p} \cap made}
      BY <1>1, <2>2, Zenon DEF Proposals
    <3>2. p \in made /\ S = strong[p]
      BY <3>1
    <3> QED
      BY <1>0, <3>2, Types
  <2> QED
    BY <2>1, <2>2, Zenon
<1>4. World' /\ Grows
  BY <1>0, <1>2, WorldSame
<1>5. /\ made' = made /\ strong' = strong /\ past' = past
      /\ dag' = dag /\ round' = round /\ decided' = decided /\ halted' = halted
      /\ journal' = journal /\ replay' = replay /\ resuming' = resuming
      /\ executed' = executed /\ crashes' = crashes /\ resumes' = resumes
  BY <1>2, Zenon DEF global, recovery, counts
<1>6. TypeOK'
  <2>1. first' \in [Honest -> [Position -> SUBSET Validator]]
    BY <1>0, <1>1, <1>3, Types, Zenon
  <2> QED
    BY <1>0, <1>5, <2>1, Types, TypesNext, Zenon
<1>7. OwnOf(i)'
  <2>1. /\ LastRound(i)' = LastRound(i) /\ resuming[i] = NotResuming
        /\ \A q \in Position : first'[i][q] = IF q = p THEN S ELSE first[i][q]
    BY <1>0, <1>1, <1>2, <1>5, Types, Zenon DEF Running, LastRound
  <2>2. \A q \in Position : q[2] \in Honest /\ first'[i][q] # {} =>
                              q \in made' /\ first'[i][q] = strong'[q]
    BY <1>0, <1>3, <1>5, <2>1, Zenon DEF OwnOf
  <2> QED
    BY <1>0, <1>5, <2>1, <2>2, Zenon DEF OwnOf
<1>8. HeldBy(i)'
  BY <1>0, <1>5, Zenon DEF HeldBy
<1>9. ASSUME NEW j \in Honest, j # i PROVE OwnOf(j)' /\ HeldBy(j)'
  <2>1. Mine(j)' = Mine(j)
    BY <1>0, <1>1, <1>5, <1>9, Types DEF Mine
  <2> QED
    BY <1>0, <1>4, <1>5, <2>1, OthersKept, Zenon DEF DagInv, Kept
<1> QED
  BY <1>4, <1>6, <1>7, <1>8, <1>9, Zenon DEF DagInv, Kept

(* The part of delivery that an honest and a faulty author's vertex share. *)
LEMMA AcceptDag ==
    ASSUME DagInv, World', Grows, NEW i \in Honest, NEW p \in Position,
           p \in made', made' \subseteq made \cup {p},
           strong' \in [Position -> SUBSET Validator], past' \in [Position -> SUBSET Position],
           p \in made \/ p[2] \notin Honest,
           Accept(i, p, strong'[p])
    PROVE  DagInv'
<1>0. TypeOK /\ World /\ OwnOf(i) /\ HeldBy(i) /\ made' \subseteq Position
  BY Types DEF DagInv, Kept
<1>1. /\ Running(i) /\ Fits(i, p, strong'[p])
      /\ dag' = [dag EXCEPT ![i] = @ \cup {p}]
      /\ journal' = [journal EXCEPT ![i].delivered = @ \cup {p}]
      /\ first' = first /\ round' = round /\ decided' = decided /\ halted' = halted
      /\ replay' = replay /\ resuming' = resuming /\ executed' = executed
      /\ crashes' = crashes /\ resumes' = resumes
  BY DEF Accept, counts
<1>2. TypeOK'
  <2>1. dag' \in [Honest -> SUBSET Position]
    BY <1>0, <1>1, Types
  <2>2. journal' \in [Honest -> Journal]
    <3>1. journal[i] \in Journal
      BY <1>0, Types
    <3>2. [journal[i] EXCEPT !.delivered = @ \cup {p}] \in Journal
      BY <3>1 DEF Journal
    <3> QED
      BY <1>0, <1>1, <3>2, Types, Zenon
  <2> QED
    BY <1>0, <1>1, <2>1, <2>2, Types, TypesNext, Zenon
<1>3. \A j \in Honest, r \in Round : <<r, j>> \in made' => <<r, j>> \in made
  <2>1. ASSUME NEW j \in Honest, NEW r \in Round, <<r, j>> \in made' PROVE <<r, j>> \in made
    <3>1. CASE <<r, j>> = p
      <4>1. p[2] = j
        BY <3>1
      <4> QED
        BY <3>1, <4>1
    <3>2. CASE <<r, j>> # p
      BY <2>1, <3>2, Zenon
    <3> QED
      BY <3>1, <3>2
  <2> QED
    BY <2>1
<1>4. OwnOf(i)'
  <2>1. /\ dag'[i] = dag[i] \cup {p} /\ resuming[i] = NotResuming
        /\ journal'[i].own = journal[i].own
        /\ journal'[i].delivered = journal[i].delivered \cup {p}
        /\ journal'[i].round = journal[i].round /\ LastRound(i)' = LastRound(i)
    BY <1>0, <1>1, Types DEF Journal, Running, LastRound
  <2>2. \A q \in Position : q[2] \in Honest /\ first'[i][q] # {} =>
                              q \in made' /\ first'[i][q] = strong'[q]
    BY <1>0, <1>1 DEF OwnOf, Grows
  <2>3. /\ dag'[i] \subseteq made' /\ replay'[i] \subseteq made'
        /\ journal'[i].own \subseteq made' /\ journal'[i].delivered \subseteq made'
    BY <1>0, <1>1, <2>1, Zenon DEF OwnOf, Grows
  <2>4. \A r \in Round : <<r, i>> \in made' => r <= journal'[i].round /\ r <= LastRound(i)'
    BY <1>0, <1>3, <2>1 DEF OwnOf
  <2> QED
    BY <1>1, <2>1, <2>2, <2>3, <2>4, Zenon DEF OwnOf
<1>5. HeldBy(i)'
  <2>1. dag'[i] = dag[i] \cup {p} /\ decided'[i] = decided[i] /\ {p} \in SUBSET made'
    BY <1>0, <1>1, Types
  <2>2. \A q \in {p} : q[1] > 0 /\ ~Pruned(decided[i], q[1] - 1) =>
            Parents(q[1], strong'[q]) \subseteq dag[i] /\ Weight(strong'[q]) >= quorum
    BY <1>1, Zenon DEF Fits
  <2> QED
    BY <1>0, <2>1, <2>2, AcceptHeld, Zenon
<1>6. ASSUME NEW j \in Honest, j # i PROVE OwnOf(j)' /\ HeldBy(j)'
  <2>1. Mine(j)' = Mine(j)
    BY <1>0, <1>1, <1>6, Types, Zenon DEF Mine
  <2> QED
    BY <1>0, <1>3, <2>1, OthersKept, Zenon DEF DagInv, Kept
<1> QED
  BY <1>2, <1>4, <1>5, <1>6, Zenon DEF DagInv, Kept

(* The delivery of a vertex that exists preserves the invariant. *)
LEMMA DeliverDag ==
    ASSUME DagInv, NEW i \in Honest, NEW p \in Position, Deliver(i, p)
    PROVE  DagInv' /\ Grows
<1>1. World' /\ Grows
  BY WorldSame, Zenon DEF Deliver, DagInv
<1>2. made' = made /\ strong' = strong /\ past' = past /\ p \in made
  BY Zenon DEF Deliver, global
<1>3. Accept(i, p, strong'[p])
  BY <1>2 DEF Deliver
<1>4. /\ strong' \in [Position -> SUBSET Validator] /\ past' \in [Position -> SUBSET Position]
  BY <1>2, Types, Zenon DEF DagInv
<1> QED
  BY <1>1, <1>2, <1>3, <1>4, AcceptDag, Zenon

(* The first delivery of a faulty author's vertex preserves the           *)
(* invariant.                                                             *)
LEMMA DeliverFaultyDag ==
    ASSUME DagInv, NEW i \in Honest, NEW p \in Position, DeliverFaulty(i, p)
    PROVE  DagInv' /\ Grows
<1>1. PICK S \in IF p[1] = 0 THEN {{}} ELSE Delivered :
          /\ Parents(p[1], S) \subseteq made
          /\ Make(p[1], p[2], S)
          /\ Accept(i, p, S)
  BY DEF DeliverFaulty
<1>2. /\ S \in SUBSET Validator /\ (p[1] = 0 => S = {}) /\ p \notin made
      /\ p[2] \notin Honest /\ p[1] \in Round /\ p[2] \in Validator /\ p = <<p[1], p[2]>>
  <2>1. S \in SUBSET Validator /\ (p[1] = 0 => S = {})
    BY <1>1, CommitRuleAssumption
  <2> QED
    BY <2>1 DEF DeliverFaulty, Honest, Position
<1>3. World' /\ Grows
  BY <1>1, <1>2, MakeWorld, Zenon DEF DagInv
<1>4. /\ made' \subseteq Position
      /\ strong' \in [Position -> SUBSET Validator]
      /\ past' \in [Position -> SUBSET Position]
  BY <1>1, <1>2, MakeType, Zenon DEF DagInv
<1>5. made' = made \cup {p} /\ strong'[p] = S
  BY <1>1, <1>2, Types, Zenon DEF Make, DagInv
<1> QED
  BY <1>1, <1>2, <1>3, <1>4, <1>5, AcceptDag, Zenon

(* A pass of try_commit preserves the invariant. *)
LEMMA TryCommitDag ==
    ASSUME DagInv, NEW i \in Honest, TryCommit(i, decide_slots(i))
    PROVE  DagInv' /\ Grows
<1> DEFINE D == decide_slots(i)
<1>0. TypeOK /\ World /\ OwnOf(i) /\ HeldBy(i) /\ decided[i] \in Outcomes
  BY Types DEF DagInv, Kept
<1>1. D \in [OpenSlots(i) -> Decision]
  BY DecideSlots
<1> HIDE DEF D
<1>2. PICK t \in DOMAIN D :
        LET outcomes == Extended(decided[i], D, t)
        IN  /\ decided' = [decided EXCEPT ![i] = outcomes]
            /\ halted' = [halted EXCEPT ![i] = Halts(outcomes, D[t])]
            /\ executed' = [executed EXCEPT ![i] = Longer(@, outcomes)]
            /\ dag' = [dag EXCEPT ![i] = {p \in @ : ~Pruned(outcomes, p[1])}]
            /\ first' = [first EXCEPT ![i] =
                   [p \in Position |-> IF Pruned(outcomes, p[1]) THEN {} ELSE @[p]]]
  BY Zenon DEF TryCommit, D
<1> DEFINE e == Extended(decided[i], D, t)
<1>3. t \in OpenSlots(i) /\ t \in Slot /\ t > Len(decided[i])
  <2>1. t \in OpenSlots(i)
    BY <1>1, <1>2, Zenon
  <2>2. t \in Slot /\ Len(decided[i]) < t
    BY <2>1, OpenSlotsFacts, Zenon
  <2>3. t \in Nat /\ Len(decided[i]) \in Nat
    BY <1>0, <2>2, SlotFacts, OutcomesFacts
  <2> QED
    BY <2>1, <2>2, <2>3, Zenon
<1>4. e \in Outcomes /\ Len(e) = t /\ \A s \in 1..Len(decided[i]) : e[s] = decided[i][s]
  BY <1>0, <1>3, ExtendedFacts, Zenon
<1>5. UNCHANGED <<global, round, recovery>>
  BY Zenon DEF TryCommit
<1>6. /\ decided' = [decided EXCEPT ![i] = e]
      /\ halted' = [halted EXCEPT ![i] = Halts(e, D[t])]
      /\ executed' = [executed EXCEPT ![i] = Longer(executed[i], e)]
      /\ dag' = [dag EXCEPT ![i] = {p \in dag[i] : ~Pruned(e, p[1])}]
      /\ first' = [first EXCEPT ![i] =
             [p \in Position |-> IF Pruned(e, p[1]) THEN {} ELSE first[i][p]]]
  BY <1>2, Zenon
<1> HIDE DEF e
<1>7. World' /\ Grows
  BY <1>0, <1>5, WorldSame, Zenon
<1>8. /\ made' = made /\ strong' = strong /\ past' = past /\ round' = round
      /\ journal' = journal /\ replay' = replay /\ resuming' = resuming
      /\ crashes' = crashes /\ resumes' = resumes
  BY <1>5 DEF global, recovery, counts
<1>9. resuming[i] = NotResuming
  <2>1. SUFFICES ASSUME resuming[i] # NotResuming PROVE FALSE
    OBVIOUS
  <2>2. dag[i] = {} /\ \A q \in Position : first[i][q] = {}
    BY <1>0, <2>1, Zenon DEF OwnOf, NoProposal
  <2>3. OpenSlots(i) = {}
    BY <2>2, Zenon DEF OpenSlots
  <2> QED
    BY <1>3, <2>3, Zenon
<1>10. TypeOK'
  <2>1. decided' \in [Honest -> Outcomes] /\ executed' \in [Honest -> Outcomes]
    BY <1>0, <1>4, <1>6, Types, Zenon DEF Longer
  <2>2. halted' \in [Honest -> BOOLEAN]
    <3>1. Halts(e, D[t]) \in BOOLEAN
      BY Zenon DEF Halts
    <3> QED
      BY <1>0, <1>6, <3>1, Types, Zenon
  <2>3. dag' \in [Honest -> SUBSET Position]
    BY <1>0, <1>6, Types, Zenon
  <2>4. first' \in [Honest -> [Position -> SUBSET Validator]]
    <3>1. [p \in Position |-> IF Pruned(e, p[1]) THEN {} ELSE first[i][p]]
              \in [Position -> SUBSET Validator]
      BY <1>0, Types
    <3> QED
      BY <1>0, <1>6, <3>1, Types, Zenon
  <2> QED
    BY <1>0, <1>8, <2>1, <2>2, <2>3, <2>4, Types, TypesNext, Zenon
<1>11. /\ dag'[i] = {p \in dag[i] : ~Pruned(e, p[1])} /\ decided'[i] = e
       /\ \A q \in Position : first'[i][q] = {} \/ first'[i][q] = first[i][q]
       /\ LastRound(i)' = LastRound(i)
  BY <1>0, <1>6, <1>8, Types, Zenon DEF LastRound
<1>12. OwnOf(i)'
  <2>1. \A q \in Position : q[2] \in Honest /\ first'[i][q] # {} =>
                              q \in made' /\ first'[i][q] = strong'[q]
    BY <1>0, <1>8, <1>11, Zenon DEF OwnOf
  <2>2. dag'[i] \subseteq made'
    BY <1>0, <1>8, <1>11, Zenon DEF OwnOf
  <2> QED
    BY <1>0, <1>8, <1>9, <1>11, <2>1, <2>2, Zenon DEF OwnOf
<1>13. HeldBy(i)'
  <2>1. \A r : Pruned(decided[i], r) => Pruned(e, r)
    <3>1. Len(decided[i]) <= Len(e)
      BY <1>0, <1>3, <1>4, OutcomesFacts, SlotFacts
    <3> QED
      BY <1>0, <1>4, <3>1, PrunedGrows, ZenonT(30)
  <2>2. SUFFICES ASSUME NEW p \in dag[i], ~Pruned(e, p[1])
                 PROVE  /\ p[1] > 0 /\ ~Pruned(e, p[1] - 1) =>
                               /\ Parents(p[1], strong[p]) \subseteq dag'[i]
                               /\ Weight(strong[p]) >= quorum
                        /\ \A q \in past[p] : ~Pruned(e, q[1]) => q \in dag'[i]
    BY <1>8, <1>11, Zenon DEF HeldBy, Pruned
  <2>3. \A q \in Parents(p[1], strong[p]) : q[1] = p[1] - 1
    BY DEF Parents
  <2> QED
    BY <1>0, <1>11, <2>1, <2>2, <2>3, Zenon DEF HeldBy
<1>14. ASSUME NEW j \in Honest, j # i PROVE OwnOf(j)' /\ HeldBy(j)'
  <2>1. Mine(j)' = Mine(j)
    BY <1>0, <1>6, <1>8, <1>14, Types, Zenon DEF Mine
  <2> QED
    BY <1>0, <1>7, <1>8, <2>1, OthersKept, Zenon DEF DagInv, Kept
<1> QED
  BY <1>7, <1>10, <1>12, <1>13, <1>14, Zenon DEF DagInv, Kept

(* A round replayed by recover preserves the invariant. *)
LEMMA ReplayDag ==
    ASSUME DagInv, NEW i \in Honest, NEW D, Replay(i, D)
    PROVE  DagInv' /\ Grows
<1>0. TypeOK /\ World /\ OwnOf(i) /\ HeldBy(i)
  BY DEF DagInv, Kept
<1>1. PICK r \in Round :
        LET batch == {p \in replay[i] : p[1] = r}
        IN  /\ replay' = [replay EXCEPT ![i] = @ \ batch]
            /\ dag' = [dag EXCEPT ![i] = @ \cup
                   {p \in batch : ~Pruned(decided[i], r) /\ Fits(i, p, strong[p])}]
            /\ first' = [first EXCEPT ![i] =
                   [p \in Position |-> IF p \in batch THEN strong[p] ELSE @[p]]]
  BY Zenon DEF Replay
<1> DEFINE batch == {p \in replay[i] : p[1] = r}
           B == {p \in batch : ~Pruned(decided[i], r) /\ Fits(i, p, strong[p])}
<1>2. /\ replay' = [replay EXCEPT ![i] = replay[i] \ batch]
      /\ dag' = [dag EXCEPT ![i] = dag[i] \cup B]
      /\ first' = [first EXCEPT ![i] =
             [p \in Position |-> IF p \in batch THEN strong[p] ELSE first[i][p]]]
  BY <1>1, Zenon
<1>3. batch \subseteq made /\ batch \subseteq Position /\ B \subseteq batch
      /\ replay[i] # {} /\ \A p \in B : Fits(i, p, strong[p])
  BY <1>0, Types, Zenon DEF OwnOf, Replay
<1> HIDE DEF batch, B
<1>4. UNCHANGED <<global, round, decided, halted, journal, resuming, executed, counts>>
  BY DEF Replay
<1>5. World' /\ Grows
  BY <1>0, <1>4, WorldSame, Zenon
<1>6. /\ made' = made /\ strong' = strong /\ past' = past /\ round' = round
      /\ decided' = decided /\ halted' = halted /\ journal' = journal
      /\ resuming' = resuming /\ executed' = executed /\ crashes' = crashes
      /\ resumes' = resumes
  BY <1>4, Zenon DEF global, counts
<1>7. TypeOK'
  <2>1. dag' \in [Honest -> SUBSET Position] /\ replay' \in [Honest -> SUBSET Position]
    BY <1>0, <1>2, <1>3, Types, Zenon
  <2>2. first' \in [Honest -> [Position -> SUBSET Validator]]
    <3>1. [p \in Position |-> IF p \in batch THEN strong[p] ELSE first[i][p]]
              \in [Position -> SUBSET Validator]
      BY <1>0, Types
    <3> QED
      BY <1>0, <1>2, <3>1, Types, Zenon
  <2> QED
    BY <1>0, <1>6, <2>1, <2>2, Types, TypesNext, Zenon
<1>8. /\ dag'[i] = dag[i] \cup B /\ replay'[i] = replay[i] \ batch
      /\ \A q \in Position : first'[i][q] = IF q \in batch THEN strong[q] ELSE first[i][q]
      /\ LastRound(i)' = LastRound(i) /\ resuming[i] = NotResuming
  BY <1>0, <1>2, <1>3, <1>6, Types, Zenon DEF LastRound, OwnOf
<1>9. OwnOf(i)'
  <2>1. \A q \in Position : q[2] \in Honest /\ first'[i][q] # {} =>
                              q \in made' /\ first'[i][q] = strong'[q]
    BY <1>0, <1>3, <1>6, <1>8, Zenon DEF OwnOf
  <2>2. dag'[i] \subseteq made' /\ replay'[i] \subseteq made'
    BY <1>0, <1>3, <1>6, <1>8, Zenon DEF OwnOf
  <2> QED
    <3>1. /\ journal'[i].own \subseteq made' /\ journal'[i].delivered \subseteq made'
          /\ \A q \in Round : <<q, i>> \in made' => q <= journal'[i].round /\ q <= LastRound(i)'
      BY <1>0, <1>6, <1>8, Zenon DEF OwnOf
    <3>2. resuming'[i] = NotResuming
      BY <1>6, <1>8, Zenon
    <3> QED
      BY <2>1, <2>2, <3>1, <3>2, Zenon DEF OwnOf
<1>10. HeldBy(i)'
  <2>1. B \in SUBSET made' /\ made' \subseteq Position /\ decided'[i] = decided[i]
    BY <1>0, <1>3, <1>6, Types, ZenonT(30)
  <2>2. \A q \in B : q[1] > 0 /\ ~Pruned(decided[i], q[1] - 1) =>
            Parents(q[1], strong'[q]) \subseteq dag[i] /\ Weight(strong'[q]) >= quorum
    BY <1>3, <1>6 DEF Fits
  <2> QED
    BY <1>0, <1>5, <1>8, <2>1, <2>2, AcceptHeld, Zenon
<1>11. ASSUME NEW j \in Honest, j # i PROVE OwnOf(j)' /\ HeldBy(j)'
  <2>1. Mine(j)' = Mine(j)
    BY <1>0, <1>2, <1>6, <1>11, Types, Zenon DEF Mine
  <2> QED
    BY <1>0, <1>5, <1>6, <2>1, OthersKept, ZenonT(30) DEF DagInv, Kept
<1> QED
  BY <1>5, <1>7, <1>9, <1>10, <1>11 DEF DagInv, Kept

(* A crash and the start of recover preserve the invariant. *)
LEMMA CrashRecoverDag ==
    ASSUME DagInv, NEW i \in Honest, CrashRecover(i)
    PROVE  DagInv' /\ Grows
<1> DEFINE j == journal[i]
<1>0. TypeOK /\ World /\ OwnOf(i) /\ j \in Journal
  BY Types DEF DagInv, Kept
<1>1. /\ crashes' = crashes + 1
      /\ decided' = [decided EXCEPT ![i] = j.base]
      /\ halted' = [halted EXCEPT ![i] = FALSE]
      /\ round' = [round EXCEPT ![i] = j.round]
      /\ dag' = [dag EXCEPT ![i] = {}]
      /\ first' = [first EXCEPT ![i] =
             [p \in Position |-> IF p \in j.own THEN strong[p] ELSE {}]]
      /\ replay' = [replay EXCEPT ![i] = j.delivered]
      /\ resuming' = [resuming EXCEPT ![i] = NotResuming]
      /\ UNCHANGED <<global, journal, executed, resumes>>
  BY Zenon DEF CrashRecover, RecoveredRound
<1>2. World' /\ Grows
  BY <1>0, <1>1, WorldSame, Zenon
<1>3. /\ made' = made /\ strong' = strong /\ past' = past /\ journal' = journal
      /\ executed' = executed /\ resumes' = resumes
  BY <1>1 DEF global
<1>4. /\ j.base \in Outcomes /\ j.round \in Round \cup {-1} /\ j.delivered \subseteq Position
      /\ j.own \subseteq made /\ j.delivered \subseteq made
  BY <1>0, Zenon DEF Journal, OwnOf
<1> HIDE DEF j
<1>5. TypeOK'
  <2>1. first' \in [Honest -> [Position -> SUBSET Validator]]
    <3>1. [p \in Position |-> IF p \in j.own THEN strong[p] ELSE {}]
              \in [Position -> SUBSET Validator]
      BY <1>0, Types
    <3> QED
      BY <1>0, <1>1, <3>1, Types, ZenonT(30)
  <2>2. resuming' \in [Honest -> [base : Outcomes, own : Round \cup {-1}]]
    <3>1. <<>> \in Outcomes
      <4>1. <<>> \in Seq(Outcome) /\ Len(<<>>) = 0 /\ 0 <= Slots * MaxRound
        BY CommitRuleAssumption
      <4> QED
        BY <4>1, OutcomesOfSeq, Zenon
    <3>2. NotResuming \in [base : Outcomes, own : Round \cup {-1}]
      BY <3>1 DEF NotResuming
    <3> QED
      BY <1>0, <1>1, <3>2, Types, Zenon
  <2>3. /\ decided' \in [Honest -> Outcomes] /\ halted' \in [Honest -> BOOLEAN]
        /\ round' \in [Honest -> Round \cup {-1}] /\ dag' \in [Honest -> SUBSET Position]
        /\ replay' \in [Honest -> SUBSET Position] /\ crashes' \in Nat
    <3>1. decided' \in [Honest -> Outcomes] /\ halted' \in [Honest -> BOOLEAN]
      BY <1>0, <1>1, <1>4, Types, Zenon
    <3>2. round' \in [Honest -> Round \cup {-1}]
      BY <1>0, <1>1, <1>4, Types, Zenon
    <3>3. dag' \in [Honest -> SUBSET Position] /\ replay' \in [Honest -> SUBSET Position]
      BY <1>0, <1>1, <1>4, Types, Zenon
    <3>4. crashes \in Nat /\ crashes' = crashes + 1
      BY <1>0, <1>1, Types, Zenon
    <3> QED
      BY <3>1, <3>2, <3>3, <3>4
  <2> QED
    BY <1>0, <1>3, <2>1, <2>2, <2>3, Types, TypesNext, Zenon
<1>6. /\ dag'[i] = {} /\ replay'[i] = j.delivered /\ resuming'[i] = NotResuming
      /\ LastRound(i)' = j.round
      /\ \A q \in Position : first'[i][q] = IF q \in j.own THEN strong[q] ELSE {}
  BY <1>0, <1>1, Types, Zenon DEF LastRound
<1>7. OwnOf(i)'
  <2>1. \A q \in Position : q[2] \in Honest /\ first'[i][q] # {} =>
                              q \in made' /\ first'[i][q] = strong'[q]
    BY <1>3, <1>4, <1>6, Zenon
  <2>2. journal'[i] = j
    BY <1>3, Zenon DEF j
  <2>3. \A r \in Round : <<r, i>> \in made' => r <= journal'[i].round /\ r <= LastRound(i)'
    BY <1>0, <1>3, <1>6, Zenon DEF OwnOf, j
  <2> QED
    BY <1>3, <1>4, <1>6, <2>1, <2>2, <2>3, Zenon DEF OwnOf
<1>8. HeldBy(i)'
  BY <1>6 DEF HeldBy
<1>9. ASSUME NEW k \in Honest, k # i PROVE OwnOf(k)' /\ HeldBy(k)'
  <2>1. Mine(k)' = Mine(k)
    BY <1>0, <1>1, <1>3, <1>9, Types, Zenon DEF Mine
  <2> QED
    BY <1>0, <1>2, <1>3, <2>1, OthersKept DEF DagInv, Kept
<1> QED
  BY <1>2, <1>5, <1>7, <1>8, <1>9, ZenonT(30) DEF DagInv, Kept

(* fast_forward of a core that is not resuming preserves the invariant. *)
LEMMA ResumeDag ==
    ASSUME ~Retry, DagInv, NEW i \in Honest, NEW j \in Honest, NEW s \in Slot, Resume(i, j, s)
    PROVE  DagInv' /\ Grows
<1> DEFINE base == Prefix(executed[j], s)
<1>0. TypeOK /\ World /\ OwnOf(i) /\ executed[j] \in Outcomes
  BY Types DEF DagInv, Kept
<1>1. /\ resumes' = resumes + 1
      /\ replay[i] = {} /\ resuming[i] = NotResuming
      /\ s \in Checkpoints(executed[j]) /\ s > Len(resuming[i].base)
      /\ resuming' = [resuming EXCEPT ![i] = [base |-> base, own |-> round[i]]]
      /\ round' = [round EXCEPT ![i] = -1]
      /\ decided' = [decided EXCEPT ![i] = <<>>]
      /\ halted' = [halted EXCEPT ![i] = FALSE]
      /\ dag' = [dag EXCEPT ![i] = {}]
      /\ first' = [first EXCEPT ![i] = NoProposal]
      /\ UNCHANGED <<global, journal, replay, executed, crashes>>
  BY Zenon DEF Resume, ordering_state
<1>2. World' /\ Grows
  BY <1>0, <1>1, WorldSame
<1>3. /\ made' = made /\ strong' = strong /\ past' = past /\ journal' = journal
      /\ replay' = replay /\ executed' = executed /\ crashes' = crashes
  BY <1>1, Zenon DEF global
<1>4. base \in Outcomes /\ Len(base) = s
  <2>1. s \in 0..Len(executed[j])
    <3>1. s \in DOMAIN executed[j]
      BY <1>1, Zenon DEF Checkpoints
    <3>2. Len(executed[j]) \in Nat /\ DOMAIN executed[j] = 1..Len(executed[j])
      BY <1>0, OutcomesFacts
    <3> QED
      BY <3>1, <3>2
  <2> QED
    BY <1>0, <2>1, PrefixFacts
<1> HIDE DEF base
<1>5. <<>> \in Outcomes
  <2>1. <<>> \in Seq(Outcome) /\ Len(<<>>) = 0 /\ 0 <= Slots * MaxRound
    BY CommitRuleAssumption
  <2> QED
    BY <2>1, OutcomesOfSeq, Zenon
<1>6. TypeOK'
  <2>1. resuming' \in [Honest -> [base : Outcomes, own : Round \cup {-1}]]
    <3>1. [base |-> base, own |-> round[i]] \in [base : Outcomes, own : Round \cup {-1}]
      BY <1>0, <1>4, Types
    <3> QED
      BY <1>0, <1>1, <3>1, Types, Zenon
  <2>2. first' \in [Honest -> [Position -> SUBSET Validator]]
    BY <1>0, <1>1, Types, Zenon DEF NoProposal
  <2>3. decided' \in [Honest -> Outcomes] /\ halted' \in [Honest -> BOOLEAN]
    BY <1>0, <1>1, <1>5, Types, Zenon
  <2>4. round' \in [Honest -> Round \cup {-1}]
    BY <1>0, <1>1, Types, Zenon
  <2>5. dag' \in [Honest -> SUBSET Position]
    BY <1>0, <1>1, Types, Zenon
  <2>6. resumes' \in Nat
    <3>1. resumes \in Nat
      BY <1>0, Types, Zenon
    <3>2. resumes' = resumes + 1
      BY <1>1, Zenon
    <3> QED
      BY <3>1, <3>2
  <2> QED
    BY <1>0, <1>3, <2>1, <2>2, <2>3, <2>4, <2>5, <2>6, Types, TypesNext, Zenon
<1>7. /\ dag'[i] = {} /\ first'[i] = NoProposal /\ replay'[i] = {} /\ decided'[i] = <<>>
      /\ resuming'[i].base = base /\ resuming'[i].own = round[i]
      /\ \A q \in Position : first'[i][q] = {}
  BY <1>0, <1>1, Types, Zenon DEF NoProposal
<1>8. LastRound(i)' = LastRound(i) \/ (resuming'[i] = NotResuming /\ FALSE)
  <2>1. resuming'[i] # NotResuming
    <3>1. Len(base) # Len(<<>>)
      BY <1>4, SlotFacts
    <3>2. NotResuming.base = <<>>
      BY Zenon DEF NotResuming
    <3> QED
      BY <1>7, <3>1, <3>2, Zenon
  <2> QED
    BY <1>1, <1>7, <2>1, Zenon DEF LastRound
<1>9. OwnOf(i)'
  BY <1>0, <1>3, <1>4, <1>7, <1>8 DEF OwnOf
<1>10. HeldBy(i)'
  BY <1>7, Zenon DEF HeldBy
<1>11. ASSUME NEW k \in Honest, k # i PROVE OwnOf(k)' /\ HeldBy(k)'
  <2>1. Mine(k)' = Mine(k)
    BY <1>0, <1>1, <1>3, <1>11, Types, Zenon DEF Mine
  <2> QED
    BY <1>0, <1>2, <1>3, <2>1, OthersKept DEF DagInv, Kept
<1> QED
  BY <1>2, <1>6, <1>9, <1>10, <1>11, Zenon DEF DagInv, Kept

(* install preserves the invariant. *)
LEMMA OnOrderingDag ==
    ASSUME DagInv, NEW i \in Honest, OnOrdering(i)
    PROVE  DagInv' /\ Grows
<1> DEFINE base == resuming[i].base
           anchor == SlotRound(Len(base))
           jr == [own |-> {}, delivered |-> {}, base |-> base,
                  round |-> Higher(journal[i].round, anchor)]
<1>0. TypeOK /\ World /\ OwnOf(i)
  BY DEF DagInv, Kept
<1>1. /\ resuming[i] # NotResuming
      /\ resuming' = [resuming EXCEPT ![i] = NotResuming]
      /\ decided' = [decided EXCEPT ![i] = base]
      /\ executed' = [executed EXCEPT ![i] = Longer(executed[i], base)]
      /\ round' = [round EXCEPT ![i] = Higher(resuming[i].own, anchor)]
      /\ journal' = [journal EXCEPT ![i] = jr]
      /\ UNCHANGED <<global, dag, first, halted, replay, counts>>
  BY Zenon DEF OnOrdering
<1>2. World' /\ Grows
  BY <1>0, <1>1, WorldSame, Zenon
<1>3. /\ made' = made /\ strong' = strong /\ past' = past /\ dag' = dag /\ first' = first
      /\ halted' = halted /\ replay' = replay /\ crashes' = crashes /\ resumes' = resumes
  BY <1>1 DEF global, counts
<1>4. /\ base \in Outcomes /\ anchor \in Round /\ resuming[i].own \in Round \cup {-1}
      /\ journal[i].round \in Round \cup {-1}
      /\ dag[i] = {} /\ first[i] = NoProposal /\ replay[i] = {}
  <2>1. Len(base) \in Slot
    BY <1>0, <1>1, Zenon DEF OwnOf
  <2>2. anchor \in Round
    BY <2>1, SlotFacts, Zenon
  <2>3. resuming[i] \in [base : Outcomes, own : Round \cup {-1}] /\ journal[i] \in Journal
    BY <1>0, Types
  <2> QED
    BY <1>0, <1>1, <2>2, <2>3, Zenon DEF OwnOf, Journal
<1> HIDE DEF base, anchor
<1>5. /\ Higher(resuming[i].own, anchor) \in Round \cup {-1}
      /\ Higher(journal[i].round, anchor) \in Round \cup {-1}
      /\ \A q \in Round : q <= resuming[i].own => q <= Higher(resuming[i].own, anchor)
      /\ \A q \in Round : q <= journal[i].round => q <= Higher(journal[i].round, anchor)
  BY <1>4, HigherFacts, Zenon
<1>6. TypeOK'
  <2>1. journal' \in [Honest -> Journal]
    <3>1. jr \in Journal
      BY <1>4, <1>5, Zenon DEF Journal
    <3> HIDE DEF jr
    <3> QED
      BY <1>0, <1>1, <3>1, Types, Zenon
  <2>2. resuming' \in [Honest -> [base : Outcomes, own : Round \cup {-1}]]
    <3>1. <<>> \in Outcomes
      <4>1. <<>> \in Seq(Outcome) /\ Len(<<>>) = 0 /\ 0 <= Slots * MaxRound
        BY CommitRuleAssumption
      <4> QED
        BY <4>1, OutcomesOfSeq, Zenon
    <3>2. NotResuming \in [base : Outcomes, own : Round \cup {-1}]
      BY <3>1 DEF NotResuming
    <3> QED
      BY <1>0, <1>1, <3>2, Types, Zenon
  <2>3. decided' \in [Honest -> Outcomes] /\ executed' \in [Honest -> Outcomes]
    BY <1>0, <1>1, <1>4, Types DEF Longer
  <2>4. round' \in [Honest -> Round \cup {-1}]
    BY <1>0, <1>1, <1>5, Types, Zenon
  <2> QED
    BY <1>0, <1>3, <2>1, <2>2, <2>3, <2>4, Types, TypesNext, Zenon
<1>7. /\ resuming'[i] = NotResuming
      /\ journal'[i].own = {} /\ journal'[i].delivered = {}
      /\ journal'[i].round = Higher(journal[i].round, anchor)
      /\ LastRound(i)' = Higher(resuming[i].own, anchor) /\ LastRound(i) = resuming[i].own
  BY <1>0, <1>1, Types, Zenon DEF LastRound
<1>8. OwnOf(i)'
  <2>1. \A r \in Round : <<r, i>> \in made' => r <= journal'[i].round /\ r <= LastRound(i)'
    BY <1>0, <1>3, <1>5, <1>7, Zenon DEF OwnOf
  <2>2. \A q \in Position : first'[i][q] = {}
    BY <1>3, <1>4, ZenonT(30) DEF NoProposal
  <2> QED
    BY <1>3, <1>4, <1>7, <2>1, <2>2, Zenon DEF OwnOf
<1>9. HeldBy(i)'
  BY <1>3, <1>4, Zenon DEF HeldBy
<1>10. ASSUME NEW k \in Honest, k # i PROVE OwnOf(k)' /\ HeldBy(k)'
  <2>1. Mine(k)' = Mine(k)
    BY <1>0, <1>1, <1>3, <1>10, Types, Zenon DEF Mine
  <2> QED
    BY <1>0, <1>2, <1>3, <2>1, OthersKept, Zenon DEF DagInv, Kept
<1> QED
  BY <1>2, <1>6, <1>8, <1>9, <1>10, Zenon DEF DagInv, Kept

(* The invariant holds at the start of an epoch. *)
LEMMA DagInit ==
    Init => DagInv
<1> SUFFICES ASSUME Init PROVE DagInv
  OBVIOUS
<1>1. <<>> \in Outcomes
  <2>1. <<>> \in Seq(Outcome) /\ Len(<<>>) = 0 /\ 0 <= Slots * MaxRound
    BY CommitRuleAssumption
  <2> QED
    BY <2>1, OutcomesOfSeq, Zenon
<1>2. TypeOK
  <2>1. [own |-> {}, delivered |-> {}, base |-> <<>>, round |-> -1] \in Journal
    BY <1>1 DEF Journal
  <2>2. NotResuming \in [base : Outcomes, own : Round \cup {-1}]
    BY <1>1, Zenon DEF NotResuming
  <2> QED
    BY <1>1, <2>1, <2>2, Types, ZenonT(30) DEF Init, NoProposal
<1>3. World
  BY DEF Init, World
<1>4. ASSUME NEW i \in Honest PROVE OwnOf(i) /\ HeldBy(i)
  BY Zenon DEF Init, OwnOf, HeldBy, NoProposal
<1> QED
  BY <1>2, <1>3, <1>4 DEF DagInv, Kept

(* Every step preserves the invariant and leaves the vertices made alone. *)
LEMMA DagStep ==
    ASSUME ~Retry, DagInv, [Next]_vars
    PROVE  DagInv' /\ Grows
<1>1. CASE UNCHANGED vars
  <2>1. World' /\ Grows
    BY <1>1, WorldSame, Zenon DEF vars, global, DagInv
  <2>2. TypeOK'
    BY <1>1, Types, TypesNext DEF vars, DagInv
  <2>3. ASSUME NEW j \in Honest PROVE OwnOf(j)' /\ HeldBy(j)'
    <3>1. Mine(j)' = Mine(j) /\ made' = made
      BY <1>1, Zenon DEF vars, Mine
    <3> QED
      BY <2>1, <3>1, OthersKept DEF DagInv, Kept
  <2> QED
    BY <2>1, <2>2, <2>3 DEF DagInv, Kept
<1>2. CASE Next
  <2>1. PICK i \in Honest : Step(i, decide_slots(i))
    BY <1>2 DEF Next
  <2>2. CASE TryCommit(i, decide_slots(i))
    BY <2>2, TryCommitDag
  <2>3. CASE \E r \in Round : Propose(i, r)
    BY <2>3, ProposeDag
  <2>4. CASE Replay(i, decide_slots(i))
    BY <2>4, ReplayDag
  <2>5. CASE \E p \in Position : OnPropose(i, p) \/ Deliver(i, p) \/ DeliverFaulty(i, p)
    BY <2>5, OnProposeDag, DeliverDag, DeliverFaultyDag
  <2>6. CASE CrashRecover(i)
    BY <2>6, CrashRecoverDag
  <2>7. CASE \E j \in Honest, s \in Slot : Resume(i, j, s)
    BY <2>7, ResumeDag
  <2>8. CASE OnOrdering(i)
    BY <2>8, OnOrderingDag
  <2> QED
    BY <2>1, <2>2, <2>3, <2>4, <2>5, <2>6, <2>7, <2>8, Zenon DEF Step
<1> QED
  BY <1>1, <1>2

(* Every variable of a core keeps its type, provided a core that is still    *)
(* resuming is not fast-forwarded again (fast_forward).                      *)
THEOREM TypesTheorem ==
    ASSUME ~Retry
    PROVE  Spec => []TypeOK
<1>1. DagInv /\ [Next]_vars => DagInv'
  BY DagStep
<1>2. DagInv => TypeOK
  BY DEF DagInv
<1> QED
  BY <1>1, <1>2, DagInit, PTL DEF Spec

(* An honest validator makes one vertex per round, whatever the crashes and  *)
(* fast-forwards, provided a core that is still resuming is not fast-forwarded *)
(* again: the round it last proposed is bounded by what its journal and the   *)
(* resuming core carry over (try_advance, recover, install).                  *)
THEOREM OneVertexPerRoundTheorem ==
    ASSUME ~Retry
    PROVE  Spec => OneVertexPerRound
<1>1. DagInv /\ [Next]_vars => DagInv'
  BY DagStep
<1>2. DagInv /\ [Next]_vars => [\A p \in made : strong'[p] = strong[p] /\ past'[p] = past[p]]_vars
  BY DagStep DEF Grows
<1> QED
  BY <1>1, <1>2, DagInit, PTL DEF Spec, OneVertexPerRound
=============================================================================
