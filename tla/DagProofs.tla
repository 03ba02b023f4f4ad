----------------------------- MODULE DagProofs -----------------------------
(***************************************************************************)
(* What enters the DAG, for every committee, world and number of steps.    *)
(*                                                                         *)
(* The inductive invariant says why vouching is sound: an honest author    *)
(* that reaches a vertex held it in the history of one of its own.         *)
(***************************************************************************)
EXTENDS Dag, CommitteeProofs, TLAPS

(* Every honest author of S held x in the history of a vertex it made. *)
HeldBy(S, x) ==
    \A p \in S \cap Honest : \E h \in World : source[h] = p /\ x \in past[h]

VouchInv ==
    /\ TypeOK
    /\ FirstFloor <= floor
    /\ dag \cup pending \cup expected \subseteq Agreed
    /\ \A x \in World : HeldBy(reached_by[x], x)
    /\ \A w \in work : round[w.to] >= FirstFloor => HeldBy(w.authors, w.to)

(* f + 1 seats hold an honest member: Reach's threshold. *)
LEMMA HonestVoucher ==
    ASSUME NEW S, S \subseteq Validator, Weight(S) >= validity
    PROVE  S \cap Honest # {}
<1>1. SUFFICES ASSUME S \subseteq Byzantine PROVE FALSE
  BY DEF Honest
<1>2. Weight(S) \in Nat /\ Weight(Byzantine) \in Nat /\ Weight(S) <= Weight(Byzantine)
  BY <1>1, WeightOfSubset
<1> QED
  BY <1>2, Thresholds, WorldAssumption

(* What f + 1 seats of authors reach is a vertex broadcast delivers. *)
LEMMA VouchedAgreed ==
    ASSUME NEW S, S \subseteq Validator, NEW x \in World, HeldBy(S, x), Weight(S) >= validity
    PROVE  x \in Agreed
<1>1. PICK p \in S \cap Honest : TRUE
  BY HonestVoucher
<1>2. PICK h \in World : source[h] = p /\ x \in past[h]
  BY <1>1 DEF HeldBy
<1> QED
  BY <1>1, <1>2, AuthorsAssumption

(* An honest author of x, and the authors that held x, held what x         *)
(* references: the authors accept and reach carry on.                      *)
LEMMA CarriedOn ==
    ASSUME InStep, NEW S, NEW x \in World, HeldBy(S, x),
           NEW r \in refs[x], round[r] >= FirstFloor
    PROVE  HeldBy(S, r) /\ HeldBy(S \cup {source[x]}, r)
<1>1. ASSUME NEW p \in S \cap Honest
      PROVE  \E h \in World : source[h] = p /\ r \in past[h]
  <2>1. PICK h \in World : source[h] = p /\ x \in past[h]
    BY <1>1 DEF HeldBy
  <2> QED
    BY <1>1, <2>1 DEF InStep
<1>2. ASSUME source[x] \in Honest
      PROVE  \E h \in World : source[h] = source[x] /\ r \in past[h]
  BY <1>2, AuthorsAssumption DEF InStep
<1> QED
  BY <1>1, <1>2 DEF HeldBy

(* The references Carry follows are vertices at or above the floor. *)
LEMMA CarryFacts ==
    ASSUME TypeOK, NEW v \in World, NEW S, S \subseteq Validator
    PROVE  /\ Carry(v, S) \subseteq Work
           /\ \A w \in Carry(v, S) : /\ w.to \in refs[v] /\ round[w.to] >= floor
                                     /\ w.authors = S
BY WorldAssumption DEF Carry, missing_refs, Work, TypeOK

LEMMA VouchInit == Init => VouchInv
<1> SUFFICES ASSUME Init PROVE VouchInv
  OBVIOUS
<1>1. TypeOK
  BY WorldAssumption DEF Init, TypeOK
<1>2. \A x \in World : reached_by[x] = {}
  BY DEF Init
<1>3. floor = FirstFloor /\ FirstFloor \in Nat /\ work = {}
      /\ dag = {} /\ pending = {} /\ expected = {}
  BY WorldAssumption DEF Init
<1> QED
  BY <1>1, <1>2, <1>3 DEF VouchInv, HeldBy

(* accept keeps the invariant: what v's authors held includes what v       *)
(* references.                                                             *)
LEMMA AcceptKeeps ==
    ASSUME InStep, VouchInv, NEW v \in World, v \in Agreed,
           NEW S, S \subseteq Validator, HeldBy(S, v),
           NEW rest, rest \subseteq work, accept(v, S, rest)
    PROVE  /\ pending' \subseteq Agreed /\ pending' \subseteq World
           /\ reached_by' \in [World -> SUBSET Validator]
           /\ \A x \in World : HeldBy(reached_by'[x], x)
           /\ work' \subseteq Work
           /\ \A w \in work' : round[w.to] >= FirstFloor => HeldBy(w.authors, w.to)
<1> DEFINE T == S \cup {source[v]}
<1>0. T \subseteq Validator /\ floor \in Nat /\ FirstFloor \in Nat /\ FirstFloor <= floor
  BY WorldAssumption DEF VouchInv, TypeOK
<1>1. pending' = pending \cup {v} /\ reached_by' = [reached_by EXCEPT ![v] = {}]
      /\ work' = rest \cup Carry(v, T)
  BY DEF accept
<1>2. Carry(v, T) \subseteq Work
      /\ \A w \in Carry(v, T) : w.to \in refs[v] /\ round[w.to] >= floor /\ w.authors = T
  BY <1>0, CarryFacts DEF VouchInv
<1>3. ASSUME NEW w \in Carry(v, T) PROVE HeldBy(w.authors, w.to)
  <2>1. w.to \in refs[v] /\ w.to \in World /\ round[w.to] >= floor /\ w.authors = T
        /\ round[w.to] \in Nat
    BY <1>2, <1>3, WorldAssumption
  <2>2. round[w.to] >= FirstFloor
    BY <1>0, <2>1
  <2> QED
    BY <2>1, <2>2, CarriedOn
<1>4. pending' \subseteq Agreed /\ pending' \subseteq World
  BY <1>1, WorldAssumption DEF VouchInv
<1>5. reached_by' \in [World -> SUBSET Validator] /\ \A x \in World : HeldBy(reached_by'[x], x)
  BY <1>1 DEF VouchInv, TypeOK, HeldBy
<1>6. work' \subseteq Work
  BY <1>1, <1>2 DEF VouchInv, TypeOK
<1> HIDE DEF T
<1>7. \A w \in work' : round[w.to] >= FirstFloor => HeldBy(w.authors, w.to)
  BY <1>1, <1>3 DEF VouchInv
<1> QED
  BY <1>4, <1>5, <1>6, <1>7

(* offer keeps the invariant when every digest it may accept is Agreed. *)
LEMMA OfferKeeps ==
    ASSUME InStep, VouchInv, NEW v \in World, NEW exp, exp \subseteq Agreed,
           offer(v, exp), work = {},
           dag' = dag, floor' = floor, wanted' \subseteq World, delivered' \subseteq Heard
    PROVE  VouchInv'
<1>0. TypeOK /\ exp \subseteq World /\ draining \in BOOLEAN /\ HeldBy(reached_by[v], v)
      /\ reached_by[v] \subseteq Validator
  BY WorldAssumption DEF VouchInv, TypeOK
<1>1. CASE v \in dag \/ round[v] < floor \/ v \notin exp
  <2>1. expected' = exp /\ pending' = pending /\ held' = held /\ reached_by' = reached_by
        /\ work' = work /\ draining' = draining
    BY <1>1 DEF offer
  <2>2. TypeOK'
    BY <1>0, <2>1 DEF TypeOK
  <2> QED
    BY <1>0, <2>1, <2>2 DEF VouchInv
<1>2. CASE ~(v \in dag \/ round[v] < floor \/ v \notin exp)
  <2>1. expected' = exp \ {v} /\ held' = held \ {v} /\ accept(v, reached_by[v], {})
        /\ draining' = TRUE
    BY <1>2 DEF offer
  <2>2. v \in Agreed /\ {} \subseteq work
    BY <1>2
  <2>3. /\ pending' \subseteq Agreed /\ pending' \subseteq World
        /\ reached_by' \in [World -> SUBSET Validator]
        /\ \A x \in World : HeldBy(reached_by'[x], x)
        /\ work' \subseteq Work
        /\ \A w \in work' : round[w.to] >= FirstFloor => HeldBy(w.authors, w.to)
    BY <1>0, <2>1, <2>2, AcceptKeeps
  <2>4. TypeOK'
    BY <1>0, <2>1, <2>3 DEF TypeOK
  <2> QED
    BY <2>1, <2>3, <2>4 DEF VouchInv
<1> QED
  BY <1>1, <1>2

LEMMA ReachKeeps ==
    ASSUME InStep, VouchInv, Reach
    PROVE  VouchInv'
<1>0. TypeOK /\ floor \in Nat /\ FirstFloor \in Nat /\ FirstFloor <= floor
  BY WorldAssumption DEF VouchInv, TypeOK
<1>1. PICK w \in work :
        LET r     == w.to
            rest  == work \ {w}
            added == w.authors \ reached_by[r]
            all   == w.authors \cup reached_by[r]
        IN  /\ \/ /\ round[r] < floor \/ r \in dag \cup pending \/ added = {}
                  /\ work' = rest
                  /\ UNCHANGED <<pending, expected, held, reached_by>>
               \/ /\ ~(round[r] < floor \/ r \in dag \cup pending \/ added = {})
                  /\ \/ Vouched(all) /\ Vouch(r, all, rest)
                     \/ /\ ~Vouched(all)
                        /\ reached_by' = [reached_by EXCEPT ![r] = all]
                        /\ work' = rest \cup (IF r \in held THEN Carry(r, added) ELSE {})
                        /\ UNCHANGED <<pending, expected, held>>
            /\ UNCHANGED <<dag, floor, wanted, delivered, draining>>
  BY DEF Reach
<1> DEFINE r     == w.to
           rest  == work \ {w}
           added == w.authors \ reached_by[r]
           all   == w.authors \cup reached_by[r]
<1>2. /\ r \in World /\ w.authors \subseteq Validator /\ reached_by[r] \subseteq Validator
      /\ all \subseteq Validator /\ added \subseteq all /\ round[r] \in Nat /\ rest \subseteq work
  BY <1>0, WorldAssumption DEF TypeOK, Work
<1>3. dag' = dag /\ floor' = floor /\ wanted' = wanted /\ delivered' = delivered
      /\ draining' = draining
  BY <1>1
<1>4. ASSUME round[r] >= floor PROVE HeldBy(all, r) /\ HeldBy(added, r)
  <2>1. HeldBy(w.authors, r) /\ HeldBy(reached_by[r], r)
    BY <1>0, <1>2, <1>4 DEF VouchInv
  <2> QED
    BY <2>1 DEF HeldBy
<1>5. CASE work' = rest /\ UNCHANGED <<pending, expected, held, reached_by>>
  <2>1. TypeOK'
    BY <1>0, <1>3, <1>5 DEF TypeOK
  <2> QED
    BY <1>3, <1>5, <2>1 DEF VouchInv
<1>6. CASE /\ round[r] >= floor /\ Weight(all) >= validity
           /\ held' = held \ {r} /\ expected' = expected \ {r} /\ accept(r, all, rest)
  <2>1. r \in Agreed
    BY <1>2, <1>4, <1>6, VouchedAgreed
  <2>2. /\ pending' \subseteq Agreed /\ pending' \subseteq World
        /\ reached_by' \in [World -> SUBSET Validator]
        /\ \A x \in World : HeldBy(reached_by'[x], x)
        /\ work' \subseteq Work
        /\ \A y \in work' : round[y.to] >= FirstFloor => HeldBy(y.authors, y.to)
    <3> HIDE DEF r, rest, all
    <3> QED
      BY <1>2, <1>4, <1>6, <2>1, AcceptKeeps
  <2>3. TypeOK'
    BY <1>0, <1>3, <1>6, <2>2 DEF TypeOK
  <2> QED
    BY <1>3, <1>6, <2>2, <2>3 DEF VouchInv
<1>7. CASE /\ round[r] >= floor /\ Weight(all) >= validity
           /\ expected' = expected \cup {r} /\ reached_by' = [reached_by EXCEPT ![r] = all]
           /\ work' = rest /\ UNCHANGED <<pending, held>>
  <2>1. r \in Agreed
    BY <1>2, <1>4, <1>7, VouchedAgreed
  <2>2. TypeOK'
    BY <1>0, <1>2, <1>3, <1>7 DEF TypeOK
  <2>3. \A x \in World : HeldBy(reached_by'[x], x)
    BY <1>0, <1>2, <1>4, <1>7 DEF VouchInv, TypeOK
  <2> QED
    BY <1>3, <1>7, <2>1, <2>2, <2>3 DEF VouchInv
<1>8. CASE /\ round[r] >= floor /\ reached_by' = [reached_by EXCEPT ![r] = all]
           /\ work' = rest \cup (IF r \in held THEN Carry(r, added) ELSE {})
           /\ UNCHANGED <<pending, expected, held>>
  <2>1. /\ Carry(r, added) \subseteq Work
        /\ \A y \in Carry(r, added) : y.to \in refs[r] /\ round[y.to] >= floor /\ y.authors = added
    BY <1>0, <1>2, CarryFacts
  <2>2. ASSUME NEW y \in Carry(r, added) PROVE HeldBy(y.authors, y.to)
    <3>1. y.to \in refs[r] /\ round[y.to] >= FirstFloor /\ y.authors = added
      <4>1. y.to \in refs[r] /\ round[y.to] >= floor /\ y.authors = added
        BY <2>1
      <4>2. round[y.to] \in Nat
        BY <1>2, <4>1, WorldAssumption
      <4> QED
        BY <1>0, <4>1, <4>2
    <3> HIDE DEF r, added
    <3> QED
      BY <1>2, <1>4, <1>8, <3>1, CarriedOn
  <2>3. TypeOK'
    BY <1>0, <1>2, <1>3, <1>8, <2>1 DEF TypeOK
  <2>4. \A x \in World : HeldBy(reached_by'[x], x)
    BY <1>0, <1>2, <1>4, <1>8 DEF VouchInv, TypeOK
  <2>5. \A y \in work' : round[y.to] >= FirstFloor => HeldBy(y.authors, y.to)
    <3> HIDE DEF added
    <3> QED
      BY <1>8, <2>2 DEF VouchInv
  <2> QED
    BY <1>3, <1>8, <2>3, <2>4, <2>5 DEF VouchInv
<1>9. round[r] >= floor \/ round[r] < floor
  BY <1>0, <1>2
<1> QED
  BY <1>1, <1>5, <1>6, <1>7, <1>8, <1>9 DEF Vouched, Vouch

LEMMA VouchStep ==
    ASSUME InStep, VouchInv, [Next]_vars
    PROVE  VouchInv'
<1>0. TypeOK /\ floor \in Nat /\ FirstFloor \in Nat /\ FirstFloor <= floor
  BY WorldAssumption DEF VouchInv, TypeOK
<1>1. ASSUME NEW v \in World, Deliver(v) PROVE VouchInv'
  <2> DEFINE exp == IF round[v] >= floor /\ v \notin dag THEN expected \cup {v} ELSE expected
  <2>1. /\ work = {} /\ v \in Heard /\ delivered' = delivered \cup {v}
        /\ dag' = dag /\ floor' = floor
    BY <1>1 DEF Deliver, Idle
  <2>2. exp \subseteq Agreed /\ exp \subseteq World /\ v \in Agreed
    BY <2>1, WorldAssumption DEF VouchInv
  <2>3. CASE offer(v, exp) /\ UNCHANGED wanted
    <3> HIDE DEF exp
    <3>1. wanted' \subseteq World /\ delivered' \subseteq Heard
      BY <1>0, <2>1, <2>3 DEF TypeOK
    <3> QED
      BY <2>1, <2>2, <2>3, <3>1, OfferKeeps
  <2>4. CASE /\ expected' = exp /\ wanted' = wanted \cup {v}
             /\ UNCHANGED <<pending, held, reached_by, work, draining>>
    <3> HIDE DEF exp
    <3>1. TypeOK'
      BY <1>0, <2>1, <2>2, <2>4 DEF TypeOK
    <3> QED
      BY <2>1, <2>2, <2>4, <3>1 DEF VouchInv
  <2> QED
    BY <1>1, <2>3, <2>4 DEF Deliver
<1>2. ASSUME NEW v \in World, Vertices(v) PROVE VouchInv'
  <2>1. /\ work = {} /\ wanted' = wanted \ {v} /\ wanted' \subseteq World
        /\ dag' = dag /\ floor' = floor /\ delivered' = delivered /\ delivered' \subseteq Heard
    BY <1>0, <1>2 DEF Vertices, Idle, TypeOK
  <2>2. CASE offer(v, expected)
    <3>1. expected \subseteq Agreed
      BY DEF VouchInv
    <3> QED
      BY <2>1, <2>2, <3>1, OfferKeeps
  <2>3. CASE hold(v) /\ UNCHANGED <<pending, expected, reached_by>>
    <3>1. CASE UNCHANGED <<held, work, draining>>
      <4>1. TypeOK'
        BY <1>0, <2>1, <2>3, <3>1 DEF TypeOK
      <4> QED
        BY <2>1, <2>3, <3>1, <4>1 DEF VouchInv
    <3>2. CASE /\ held' = held \cup {v} /\ draining' = TRUE
               /\ work' = IF reached_by[v] = {} THEN {} ELSE Carry(v, reached_by[v])
      <4>1. reached_by[v] \subseteq Validator /\ HeldBy(reached_by[v], v)
        BY <1>0 DEF VouchInv, TypeOK
      <4>2. /\ Carry(v, reached_by[v]) \subseteq Work
            /\ \A w \in Carry(v, reached_by[v]) :
                  w.to \in refs[v] /\ round[w.to] >= floor /\ w.authors = reached_by[v]
        BY <1>0, <4>1, CarryFacts
      <4>3. \A w \in work' : HeldBy(w.authors, w.to)
        <5> SUFFICES ASSUME NEW w \in work' PROVE HeldBy(w.authors, w.to)
          OBVIOUS
        <5>0. w \in Carry(v, reached_by[v])
          BY <3>2
        <5>1. w.to \in refs[v] /\ round[w.to] >= floor /\ w.authors = reached_by[v]
          BY <4>2, <5>0
        <5>2. round[w.to] \in Nat
          BY <5>1, WorldAssumption
        <5>3. round[w.to] >= FirstFloor
          BY <1>0, <5>1, <5>2
        <5> QED
          BY <4>1, <5>1, <5>3, CarriedOn
      <4>4. TypeOK'
        BY <1>0, <2>1, <2>3, <3>2, <4>2 DEF TypeOK
      <4> QED
        BY <2>1, <2>3, <4>3, <4>4 DEF VouchInv
    <3> QED
      BY <2>3, <3>1, <3>2 DEF hold
  <2> QED
    BY <1>2, <2>2, <2>3 DEF Vertices
<1>3. CASE Reach
  BY <1>3, ReachKeeps
<1>4. CASE Drain
  <2>1. PICK v \in pending : /\ pending' = pending \ {v}
                             /\ dag' \in {dag, dag \cup {v}} /\ wanted' \in {wanted, wanted \ {v}}
    BY <1>4 DEF Drain, Ready
  <2>2. UNCHANGED <<expected, held, reached_by, floor, delivered, work, draining>>
    BY <1>4 DEF Drain
  <2>3. TypeOK'
    BY <1>0, <2>1, <2>2 DEF TypeOK
  <2> QED
    BY <2>1, <2>2, <2>3 DEF VouchInv
<1>5. CASE Missing
  <2>1. UNCHANGED <<dag, pending, expected, held, reached_by, floor, delivered, work>>
        /\ draining' = FALSE
    BY <1>5 DEF Missing
  <2>2. wanted' \subseteq World
    BY <1>0, <1>5, WorldAssumption DEF Missing, TypeOK, missing_refs
  <2>3. TypeOK'
    BY <1>0, <2>1, <2>2 DEF TypeOK
  <2> QED
    BY <2>1, <2>3 DEF VouchInv
<1>6. ASSUME NEW f \in 0..MaxFloor, PruneBelow(f) PROVE VouchInv'
  <2>1. /\ f \in Nat /\ f > floor /\ floor' = f /\ dag' \subseteq dag /\ pending' \subseteq pending
        /\ expected' \subseteq expected /\ held' \subseteq held /\ wanted' \subseteq wanted
        /\ delivered' = delivered /\ work' = work /\ draining' = draining
    BY <1>6, WorldAssumption DEF PruneBelow
  <2>2. /\ reached_by' \in [World -> SUBSET Validator]
        /\ \A x \in World : reached_by'[x] \subseteq reached_by[x]
    BY <1>0, <1>6 DEF PruneBelow, TypeOK
  <2>3. \A x \in World : HeldBy(reached_by'[x], x)
    BY <2>2 DEF VouchInv, HeldBy
  <2>4. TypeOK'
    BY <1>0, <2>1, <2>2 DEF TypeOK
  <2>5. FirstFloor <= floor'
    BY <1>0, <2>1
  <2> QED
    BY <2>1, <2>3, <2>4, <2>5 DEF VouchInv
<1>7. CASE LaterOffer
  BY <1>7 DEF LaterOffer, VouchInv, TypeOK
<1>8. CASE UNCHANGED vars
  BY <1>8 DEF vars, VouchInv, TypeOK
<1> QED
  BY <1>1, <1>2, <1>3, <1>4, <1>5, <1>6, <1>7, <1>8 DEF Next

(***************************************************************************)
(* What enters by vouching is what reliable broadcast delivers, in every   *)
(* world in which no honest author had collected a round this validator    *)
(* still keeps: Reach's f + 1 seats are enough whatever the faulty members *)
(* reference, answer and withhold.                                         *)
(***************************************************************************)
THEOREM OnlyAgreedTheorem ==
    ASSUME InStep
    PROVE  Spec => []OnlyAgreed
<1>1. VouchInv /\ [Next]_vars => VouchInv'
  BY VouchStep
<1>2. VouchInv => OnlyAgreed
  BY DEF VouchInv, OnlyAgreed
<1> QED
  BY VouchInit, <1>1, <1>2, PTL DEF Spec

(* Growing the DAG or raising the floor leaves no more references missing. *)
LEMMA ClosedStep ==
    ASSUME floor \in Nat, CausallyClosed, [Next]_vars
    PROVE  floor' \in Nat /\ CausallyClosed'
<1>1. CASE dag' = dag /\ floor' = floor
  BY <1>1 DEF CausallyClosed, missing_refs
<1>2. CASE Drain
  <2>1. PICK v \in Ready : dag' \in {dag, dag \cup {v}}
    BY <1>2 DEF Drain
  <2>2. missing_refs(v) = {} /\ floor' = floor
    BY <1>2, <2>1 DEF Ready, Drain
  <2> QED
    BY <2>1, <2>2 DEF CausallyClosed, missing_refs
<1>3. ASSUME NEW f \in 0..MaxFloor, PruneBelow(f) PROVE floor' \in Nat /\ CausallyClosed'
  <2>1. /\ floor' = f /\ f > floor /\ f \in Nat
        /\ dag' = dag \cap {v \in World : round[v] >= f}
    BY <1>3, WorldAssumption DEF PruneBelow
  <2>2. ASSUME NEW v \in dag', NEW r \in refs[v], round[r] >= f PROVE r \in dag'
    <3>1. v \in World /\ v \in dag /\ r \in World /\ round[r] \in Nat
      BY <2>1, <2>2, WorldAssumption
    <3>2. r \in dag
      BY <2>1, <2>2, <3>1 DEF CausallyClosed, missing_refs
    <3> QED
      BY <2>1, <2>2, <3>1, <3>2
  <2> QED
    BY <2>1, <2>2 DEF CausallyClosed, missing_refs
<1>4. CASE \/ \E v \in World : Deliver(v) \/ Vertices(v)
           \/ Reach \/ Missing \/ LaterOffer \/ UNCHANGED vars
  BY <1>1, <1>4 DEF Deliver, Vertices, Reach, Missing, LaterOffer, vars
<1> QED
  BY <1>2, <1>3, <1>4 DEF Next

(***************************************************************************)
(* The DAG is causally closed above its floor whatever the members made    *)
(* and whatever peers answer: drain_pending and prune_below keep it so.    *)
(***************************************************************************)
THEOREM CausallyClosedTheorem == Spec => []CausallyClosed
<1> DEFINE Closed == floor \in Nat /\ CausallyClosed
<1>1. Init => Closed
  BY WorldAssumption DEF Init, CausallyClosed
<1>2. Closed /\ [Next]_vars => Closed'
  BY ClosedStep
<1>3. Closed => CausallyClosed
  OBVIOUS
<1> HIDE DEF Closed
<1> QED
  BY <1>1, <1>2, <1>3, PTL DEF Spec
=============================================================================
