--------------------------- MODULE BatchesProofs ---------------------------
(* Proofs about Batches, for every committee, set of followed authors,      *)
(* leaders, checkpoints and bounds.                                         *)
EXTENDS Batches, FiniteSetTheorems, WellFoundedInduction, TLAPS

(* The constants are naturals. *)
LEMMA Bounds ==
    /\ MaxSequence \in Nat /\ MaxRound \in Nat /\ HandoverAt \in Nat /\ HandoverAt > 0
    /\ MaxCrashes \in Nat /\ MaxResumes \in Nat /\ CheckpointAt \subseteq Nat
    /\ Validator \subseteq Nat /\ Author \subseteq Validator
  BY BatchesAssumption

-----------------------------------------------------------------------------
(* Least and greatest elements. *)

(* A set of naturals that is not empty has a least element. *)
LEMMA NatLeast ==
    ASSUME NEW T, T \subseteq Nat, T # {}
    PROVE  \E x \in T : \A y \in T : x <= y
<1>1. PICK x \in T : \A y \in T : <<y, x>> \notin OpToRel(<, Nat)
  BY WFMin, NatLessThanWellFounded
<1>2. \A y \in T : ~(y < x)
  BY <1>1, Zenon DEF OpToRel
<1> QED
  BY <1>2

LEMMA MinFacts ==
    ASSUME NEW T, T \subseteq Nat, T # {}
    PROVE  Min(T) \in T /\ \A y \in T : Min(T) <= y
<1>1. \E x \in T : \A y \in T : x <= y
  BY NatLeast, Zenon
<1> QED
  BY <1>1, Zenon DEF Min

(* A set of integers with an upper bound has a greatest element. *)
LEMMA MaxFacts ==
    ASSUME NEW T, T \subseteq Int, T # {}, NEW h \in Int, \A y \in T : y <= h
    PROVE  Max(T) \in T /\ \A y \in T : y <= Max(T)
<1> DEFINE U == {h - y : y \in T}
<1>1. U \subseteq Nat /\ U # {}
  <2>1. \A y \in T : h - y \in Nat
    OBVIOUS
  <2> QED
    BY <2>1, Zenon
<1>2. PICK u \in U : \A w \in U : u <= w
  BY <1>1, NatLeast, Zenon
<1>3. PICK x \in T : u = h - x
  BY <1>2, Zenon
<1>4. \A y \in T : h - x <= h - y
  BY <1>2, <1>3, Zenon
<1>5. \A y \in T : x >= y
  BY <1>4
<1>6. Max(T) \in T /\ \A y \in T : Max(T) >= y
  BY <1>5, Zenon DEF Max
<1> QED
  BY <1>6

-----------------------------------------------------------------------------
(* The recursive definitions compute what they say. *)

(* Replay applies the commits past `base' up to d one by one (recover). *)
Replays(g, i, s, cs, base, d) ==
    /\ g[base] = s
    /\ \A k \in (base + 1)..d : g[k] = Apply(i, g[k - 1], cs, k)
    /\ Replay(i, s, cs, base, d) = g[d]

LEMMA ReplayRuns ==
    ASSUME NEW i, NEW s, NEW cs, NEW base \in Nat, NEW d \in Nat, base <= d
    PROVE  \E g : Replays(g, i, s, cs, base, d)
<1> DEFINE Runs(g, e) ==
             g = [k \in base..e |-> IF k = base THEN s ELSE Apply(i, g[k - 1], cs, k)]
           Bad == {e \in Nat : base <= e /\ ~\E g : Runs(g, e)}
<1>1. ASSUME Bad # {} PROVE FALSE
  <2>1. PICK e \in Bad : \A m \in Bad : e <= m
    BY <1>1, NatLeast, Zenon
  <2>2. CASE e = base
    <3> DEFINE g == [k \in base..e |-> s]
    <3>1. Runs(g, e)
      BY <2>2
    <3> QED
      BY <2>1, <3>1
  <2>3. CASE e # base
    <3>0. e \in Nat /\ base <= e
      BY <2>1, Zenon
    <3>1. e - 1 \in Nat /\ base <= e - 1 /\ e - 1 \notin Bad
      <4> HIDE DEF Bad
      <4> QED
        BY <2>1, <2>3, <3>0
    <3>2. PICK g : Runs(g, e - 1)
      BY <3>1
    <3> DEFINE h == [k \in base..e |-> IF k = e THEN Apply(i, g[e - 1], cs, e) ELSE g[k]]
    <3>3. ASSUME NEW k \in base..e
          PROVE  h[k] = IF k = base THEN s ELSE Apply(i, h[k - 1], cs, k)
      <4>1. CASE k = e
        BY <2>3, <3>1, <4>1
      <4>2. CASE k # e
        <5>1. k \in base..(e - 1) /\ (k # base => k - 1 \in base..e /\ k - 1 # e)
          BY <3>1, <4>2
        <5>2. h[k] = g[k] /\ (k # base => h[k - 1] = g[k - 1])
          BY <4>2, <5>1
        <5>3. g[k] = IF k = base THEN s ELSE Apply(i, g[k - 1], cs, k)
          BY <3>2, <5>1
        <5> QED
          BY <5>2, <5>3
      <4> QED
        BY <4>1, <4>2
    <3>4. Runs(h, e)
      BY <3>3, Zenon
    <3> HIDE DEF h
    <3> QED
      BY <2>1, <3>4
  <2> QED
    BY <2>2, <2>3
<1>2. \E g : Runs(g, d)
  BY <1>1, Zenon
<1> DEFINE run == CHOOSE g : Runs(g, d)
<1>3. Runs(run, d)
  BY <1>2, Zenon
<1>4. Replay(i, s, cs, base, d) = run[d]
  BY DEF Replay
<1> HIDE DEF run
<1>5. run[base] = s /\ \A k \in (base + 1)..d : run[k] = Apply(i, run[k - 1], cs, k)
  BY <1>3
<1> QED
  BY <1>4, <1>5 DEF Replays

(* OrderedRounds takes the author's vertices of a commit one round at a time. *)
LEMMA RoundsRun ==
    ASSUME NEW f, NEW a, NEW commit
    PROVE  \E g : /\ g[0] = [next |-> f.next, early |-> f.early, ready |-> {}]
                  /\ \A n \in 1..(MaxRound + 1) :
                        g[n] = Taken(g[n - 1], [round |-> n - 1, carried |-> FALSE],
                                     Named(commit, a, n - 1))
                  /\ OrderedRounds(f, a, commit) = g[MaxRound + 1]
<1> DEFINE start == [next |-> f.next, early |-> f.early, ready |-> {}]
           Step(x, n) == Taken(x, [round |-> n - 1, carried |-> FALSE], Named(commit, a, n - 1))
           Runs(g, e) ==
             g = [n \in 0..e |-> IF n = 0 THEN start ELSE Step(g[n - 1], n)]
           Bad == {e \in Nat : ~\E g : Runs(g, e)}
<1>1. ASSUME Bad # {} PROVE FALSE
  <2>1. PICK e \in Bad : \A m \in Bad : e <= m
    BY <1>1, NatLeast, Zenon
  <2>2. CASE e = 0
    <3> DEFINE g == [n \in 0..e |-> start]
    <3>1. Runs(g, e)
      BY <2>2
    <3> QED
      BY <2>1, <3>1, Zenon
  <2>3. CASE e # 0
    <3>0. e \in Nat
      BY <2>1, Zenon
    <3>1. e - 1 \in Nat /\ e - 1 \notin Bad
      <4> HIDE DEF Bad
      <4> QED
        BY <2>1, <2>3, <3>0
    <3>2. PICK g : Runs(g, e - 1)
      BY <3>1
    <3> DEFINE h == [n \in 0..e |-> IF n = e THEN Step(g[e - 1], e) ELSE g[n]]
    <3>3. ASSUME NEW n \in 0..e
          PROVE  h[n] = IF n = 0 THEN start ELSE Step(h[n - 1], n)
      <4>1. CASE n = e
        BY <2>3, <3>0, <4>1
      <4>2. CASE n # e
        <5>1. n \in 0..(e - 1) /\ (n # 0 => n - 1 \in 0..e /\ n - 1 # e)
          BY <3>0, <4>2
        <5>2. h[n] = g[n] /\ (n # 0 => h[n - 1] = g[n - 1])
          BY <4>2, <5>1
        <5>3. g[n] = IF n = 0 THEN start ELSE Step(g[n - 1], n)
          BY <3>2, <5>1, Zenon
        <5> QED
          BY <5>2, <5>3
      <4> QED
        BY <4>1, <4>2
    <3>4. Runs(h, e)
      BY <3>3, Zenon
    <3> HIDE DEF h
    <3> QED
      BY <2>1, <3>4
  <2> QED
    BY <2>2, <2>3
<1>2. \E g : Runs(g, MaxRound + 1)
  <2>1. MaxRound + 1 \in Nat
    BY Bounds
  <2> QED
    BY <1>1, <2>1, Zenon
<1> DEFINE run == CHOOSE g : Runs(g, MaxRound + 1)
<1>3. Runs(run, MaxRound + 1)
  BY <1>2, Zenon
<1>4. OrderedRounds(f, a, commit) = run[MaxRound + 1]
  BY DEF OrderedRounds
<1> HIDE DEF run
<1>5. run[0] = start
  BY <1>3, Bounds
<1>6. ASSUME NEW n \in 1..(MaxRound + 1)
      PROVE  run[n] = Taken(run[n - 1], [round |-> n - 1, carried |-> FALSE],
                            Named(commit, a, n - 1))
  <2>1. n \in 0..(MaxRound + 1) /\ n # 0
    BY Bounds
  <2> QED
    BY <1>3, <2>1, Zenon
<1> QED
  BY <1>4, <1>5, <1>6, Zenon

(* FrontierAfter follows the frontiers from one commit to the next. *)
LEMMA FrontiersRun ==
    ASSUME NEW cs, Len(cs) \in Nat
    PROVE  /\ FrontierAfter(cs)[0] = EmptyFrontier
           /\ \A k \in 1..Len(cs) : FrontierAfter(cs)[k] = FrontierOf(AfterAt(cs, k))
<1> DEFINE Runs(g, e) ==
             g = [n \in 0..e |-> IF n = 0 THEN EmptyFrontier ELSE FrontierOf(After(g[n - 1], cs, n))]
           Bad == {e \in Nat : ~\E g : Runs(g, e)}
<1>1. ASSUME Bad # {} PROVE FALSE
  <2>1. PICK e \in Bad : \A m \in Bad : e <= m
    BY <1>1, NatLeast, Zenon
  <2>2. CASE e = 0
    <3> DEFINE g == [n \in 0..e |-> EmptyFrontier]
    <3>1. Runs(g, e)
      BY <2>2
    <3> QED
      BY <2>1, <3>1
  <2>3. CASE e # 0
    <3>0. e \in Nat
      BY <2>1, Zenon
    <3>1. e - 1 \in Nat /\ e - 1 \notin Bad
      <4> HIDE DEF Bad
      <4> QED
        BY <2>1, <2>3, <3>0
    <3>2. PICK g : Runs(g, e - 1)
      BY <3>1
    <3> DEFINE h == [n \in 0..e |-> IF n = e THEN FrontierOf(After(g[e - 1], cs, e)) ELSE g[n]]
    <3>3. ASSUME NEW n \in 0..e
          PROVE  h[n] = IF n = 0 THEN EmptyFrontier ELSE FrontierOf(After(h[n - 1], cs, n))
      <4>1. CASE n = e
        BY <2>3, <3>0, <4>1
      <4>2. CASE n # e
        <5>1. n \in 0..(e - 1) /\ (n # 0 => n - 1 \in 0..e /\ n - 1 # e)
          BY <3>0, <4>2
        <5>2. h[n] = g[n] /\ (n # 0 => h[n - 1] = g[n - 1])
          BY <4>2, <5>1
        <5>3. g[n] = IF n = 0 THEN EmptyFrontier ELSE FrontierOf(After(g[n - 1], cs, n))
          BY <3>2, <5>1
        <5> QED
          BY <5>2, <5>3
      <4> QED
        BY <4>1, <4>2
    <3>4. Runs(h, e)
      BY <3>3
    <3> HIDE DEF h
    <3> QED
      BY <2>1, <3>4
  <2> QED
    BY <2>2, <2>3
<1>2. \E g : Runs(g, Len(cs))
  BY <1>1
<1> DEFINE run == CHOOSE g : Runs(g, Len(cs))
<1>3. Runs(run, Len(cs))
  BY <1>2
<1>4. FrontierAfter(cs) = run
  BY Zenon DEF FrontierAfter
<1> HIDE DEF run
<1>5. run[0] = EmptyFrontier
  BY <1>3
<1>6. \A k \in 1..Len(cs) : run[k] = FrontierOf(After(run[k - 1], cs, k))
  BY <1>3
<1> QED
  BY <1>4, <1>5, <1>6, Zenon DEF AfterAt

-----------------------------------------------------------------------------
(* Availability: what a commit leaves of one author's frontier. *)

Avail == [next : 0..MaxSequence, early : Places,
          ready : SUBSET [sequence : Sequence, place : Place]]

(* An author's frontier while a commit is applied to it: it started at `lo'  *)
(* and the author sealed the sequences below `hi'.  Every batch released     *)
(* since is below `next' and was released once; those that wait are not.     *)
Sound(g, lo, hi) ==
    /\ g \in Avail
    /\ lo <= g.next /\ g.next <= hi
    /\ \A q \in DOMAIN g.early : g.next <= q /\ q < hi
    /\ \A r \in g.ready : lo <= r.sequence /\ r.sequence < g.next
    /\ \A r, s \in g.ready : r.sequence = s.sequence => r = s

LEMMA PlacesFacts ==
    ASSUME NEW e
    PROVE  e \in Places <=> DOMAIN e \subseteq Sequence /\ e \in [DOMAIN e -> Place]
  BY DEF Places

LEMMA SoundTypes ==
    ASSUME NEW g, NEW lo \in 0..MaxSequence, NEW hi \in 0..MaxSequence, Sound(g, lo, hi)
    PROVE  /\ g \in Avail /\ g.next \in Nat /\ g.next <= MaxSequence /\ g.early \in Places
           /\ DOMAIN g.early \subseteq Sequence /\ g.early \in [DOMAIN g.early -> Place]
           /\ g.ready \subseteq [sequence : Sequence, place : Place]
           /\ \A q \in DOMAIN g.early : q \in Nat /\ q < MaxSequence
           /\ MaxSequence \in Nat /\ lo \in Nat /\ hi \in Nat /\ hi <= MaxSequence
<1>0. MaxSequence \in Nat
  BY Bounds, Zenon
<1>1. g \in Avail /\ g.next \in 0..MaxSequence /\ g.early \in Places
      /\ g.ready \subseteq [sequence : Sequence, place : Place]
  BY Zenon DEF Sound, Avail
<1>2. DOMAIN g.early \subseteq Sequence /\ g.early \in [DOMAIN g.early -> Place]
  BY <1>1, PlacesFacts, Zenon
<1>3. \A q \in DOMAIN g.early : q \in Nat /\ q < MaxSequence
  BY <1>0, <1>2 DEF Sequence
<1>4. g.next \in Nat /\ g.next <= MaxSequence /\ lo \in Nat /\ hi \in Nat /\ hi <= MaxSequence
  BY <1>0, <1>1
<1> QED
  BY <1>0, <1>1, <1>2, <1>3, <1>4, Zenon

(* introduce adds sequences that are not below `next' and keeps the rest. *)
LEMMA IntroduceSound ==
    ASSUME NEW g, NEW lo \in 0..MaxSequence, NEW hi \in 0..MaxSequence, Sound(g, lo, hi),
           NEW place \in Place, NEW named, named \subseteq 0..(hi - 1)
    PROVE  Sound(Introduce(g, place, named), lo, hi)
<1>0. /\ g \in Avail /\ g.next \in Nat /\ DOMAIN g.early \subseteq Sequence
      /\ g.early \in [DOMAIN g.early -> Place] /\ g.early \in Places
      /\ MaxSequence \in Nat /\ hi \in Nat /\ hi <= MaxSequence
  BY SoundTypes, Zenon
<1> DEFINE fresh == {q \in named : q >= g.next /\ q \notin DOMAIN g.early}
           room == MaxUnreleased - Cardinality(DOMAIN g.early)
           taken == {q \in fresh : Cardinality({p \in fresh : p < q}) < room}
           early == [q \in DOMAIN g.early \cup taken |->
                        IF q \in taken THEN place ELSE g.early[q]]
           t == [g EXCEPT !.early = early]
<1>1. Introduce(g, place, named) = t
  BY Zenon DEF Introduce
<1>2. \A q \in taken : q \in named /\ q >= g.next
  BY Zenon
<1> HIDE DEF taken
<1>3. ASSUME NEW q \in taken PROVE q \in Sequence /\ g.next <= q /\ q < hi
  <2>1. q \in 0..(hi - 1) /\ q >= g.next
    BY <1>2, Zenon
  <2> QED
    BY <1>0, <2>1 DEF Sequence
<1>4. early \in [DOMAIN early -> Place] /\ DOMAIN early = DOMAIN g.early \cup taken
  BY <1>0
<1> HIDE DEF early
<1>5. early \in Places
  BY <1>0, <1>3, <1>4, PlacesFacts, Zenon
<1>6. t \in Avail /\ t.next = g.next /\ t.early = early /\ t.ready = g.ready
  BY <1>0, <1>5 DEF Avail
<1> HIDE DEF t
<1>7. \A q \in DOMAIN t.early : t.next <= q /\ q < hi
  BY <1>3, <1>4, <1>6, Zenon DEF Sound
<1>8. Sound(t, lo, hi)
  BY <1>6, <1>7, Zenon DEF Sound
<1> QED
  BY <1>1, <1>8, Zenon

(* advance stops at the first sequence that was not introduced. *)
LEMMA GapFacts ==
    ASSUME NEW g, NEW lo \in 0..MaxSequence, NEW hi \in 0..MaxSequence, Sound(g, lo, hi)
    PROVE  /\ Gap(g) \in Nat /\ g.next <= Gap(g) /\ Gap(g) <= hi
           /\ Gap(g) \notin DOMAIN g.early
           /\ \A q \in g.next..(Gap(g) - 1) : q \in DOMAIN g.early
<1>0. /\ g.next \in Nat /\ g.next <= hi /\ MaxSequence \in Nat /\ hi \in Nat /\ hi <= MaxSequence
      /\ \A q \in DOMAIN g.early : q < hi
  BY SoundTypes, Zenon DEF Sound
<1> DEFINE S == {q \in g.next..MaxSequence : q \notin DOMAIN g.early}
<1>1. hi \in g.next..MaxSequence
  BY <1>0
<1>2. ~(hi < hi)
  BY <1>0
<1>3. hi \in S
  BY <1>0, <1>1, <1>2, Zenon
<1>4. S \subseteq Nat
  BY <1>0
<1>5. Min(S) \in S /\ \A y \in S : Min(S) <= y
  BY <1>3, <1>4, MinFacts, Zenon
<1>6. Gap(g) = Min(S)
  BY Zenon DEF Gap
<1>7. /\ Gap(g) \in g.next..MaxSequence /\ Gap(g) \notin DOMAIN g.early /\ Gap(g) <= hi
      /\ \A y \in g.next..MaxSequence : y \notin DOMAIN g.early => Gap(g) <= y
  BY <1>3, <1>5, <1>6, Zenon
<1>8. \A q \in g.next..(Gap(g) - 1) : q \in g.next..MaxSequence /\ ~(Gap(g) <= q)
  BY <1>0, <1>7
<1> QED
  BY <1>0, <1>7, <1>8

(* advance releases the sequences up to the gap, and each one once. *)
LEMMA AdvanceSound ==
    ASSUME NEW g, NEW lo \in 0..MaxSequence, NEW hi \in 0..MaxSequence, Sound(g, lo, hi)
    PROVE  Sound(Advance(g), lo, hi)
<1>0. /\ g \in Avail /\ g.next \in Nat /\ DOMAIN g.early \subseteq Sequence
      /\ g.early \in [DOMAIN g.early -> Place] /\ MaxSequence \in Nat /\ lo \in Nat /\ hi \in Nat
      /\ g.ready \subseteq [sequence : Sequence, place : Place] /\ hi <= MaxSequence
      /\ \A q \in DOMAIN g.early : q \in Nat
  BY SoundTypes, Zenon
<1> DEFINE gap == Gap(g)
           kept == {q \in DOMAIN g.early : q \notin g.next..(gap - 1)}
           early == Restrict(g.early, kept)
           new == {[sequence |-> q, place |-> g.early[q]] : q \in g.next..(gap - 1)}
           t == [next |-> gap, early |-> early, ready |-> g.ready \cup new]
<1>1. Advance(g) = t
  BY Zenon DEF Advance
<1>2. /\ gap \in Nat /\ g.next <= gap /\ gap <= hi
      /\ \A q \in g.next..(gap - 1) : q \in DOMAIN g.early
  BY GapFacts, Zenon
<1> HIDE DEF gap
<1>3. early \in Places /\ DOMAIN early = kept
  <2>1. early \in [kept -> Place] /\ DOMAIN early = kept
    BY <1>0 DEF Restrict
  <2>2. kept \subseteq Sequence
    BY <1>0, Zenon
  <2> QED
    BY <2>1, <2>2, PlacesFacts, Zenon
<1> HIDE DEF early
<1>4. \A q \in kept : gap <= q /\ q < hi
  <2> SUFFICES ASSUME NEW q \in kept PROVE gap <= q /\ q < hi
    BY Zenon
  <2>1. q \in Nat /\ g.next <= q /\ q < hi /\ q \notin g.next..(gap - 1)
    BY <1>0, Zenon DEF Sound
  <2> HIDE DEF kept
  <2> QED
    BY <1>0, <1>2, <2>1
<1>5. \A r \in new : /\ r \in [sequence : Sequence, place : Place]
                     /\ g.next <= r.sequence /\ r.sequence < gap
                     /\ r.place = g.early[r.sequence]
  <2>1. ASSUME NEW q \in g.next..(gap - 1)
        PROVE  q \in Sequence /\ g.early[q] \in Place /\ g.next <= q /\ q < gap
    <3>1. q \in DOMAIN g.early
      BY <1>2, Zenon
    <3>2. q \in Sequence /\ g.early[q] \in Place
      BY <1>0, <3>1, Zenon
    <3> QED
      BY <1>0, <1>2, <3>2
  <2>2. TAKE r \in new
  <2>3. PICK q \in g.next..(gap - 1) : r = [sequence |-> q, place |-> g.early[q]]
    BY Zenon
  <2>4. r.sequence = q /\ r.place = g.early[q]
    BY <2>3, Zenon
  <2> QED
    BY <2>1, <2>3, <2>4
<1> HIDE DEF new, kept
<1>6. t \in Avail
  <2>1. gap \in 0..MaxSequence
    BY <1>0, <1>2
  <2>2. g.ready \cup new \in SUBSET [sequence : Sequence, place : Place]
    BY <1>0, <1>5, Zenon
  <2> QED
    BY <1>3, <2>1, <2>2 DEF Avail
<1>7. t.next = gap /\ t.early = early /\ t.ready = g.ready \cup new
  BY Zenon
<1> HIDE DEF t
<1>8. \A r \in g.ready : r.sequence \in Nat /\ lo <= r.sequence /\ r.sequence < g.next
  <2>1. \A r \in g.ready : r.sequence \in Sequence
    BY <1>0, Zenon
  <2>2. \A q \in Sequence : q \in Nat
    BY <1>0 DEF Sequence
  <2> QED
    BY <2>1, <2>2, Zenon DEF Sound
<1>9. ASSUME NEW r \in g.ready \cup new PROVE lo <= r.sequence /\ r.sequence < gap
  <2>1. lo <= g.next
    BY Zenon DEF Sound
  <2>2. CASE r \in g.ready
    <3>1. r.sequence \in Nat /\ lo <= r.sequence /\ r.sequence < g.next
      BY <1>8, <2>2, Zenon
    <3> QED
      BY <1>0, <1>2, <3>1
  <2>3. CASE r \in new
    <3>1. r.sequence \in Sequence /\ g.next <= r.sequence /\ r.sequence < gap
      BY <1>5, <2>3, Zenon
    <3> QED
      BY <1>0, <2>1, <3>1 DEF Sequence
  <2> QED
    BY <2>2, <2>3, Zenon
<1>10. ASSUME NEW r \in g.ready \cup new, NEW s \in g.ready \cup new, r.sequence = s.sequence
       PROVE  r = s
  <2>1. CASE r \in g.ready /\ s \in g.ready
    BY <1>10, <2>1, Zenon DEF Sound
  <2>2. CASE r \in new /\ s \in new
    <3>1. /\ r \in [sequence : Sequence, place : Place] /\ s \in [sequence : Sequence, place : Place]
          /\ r.place = g.early[r.sequence] /\ s.place = g.early[s.sequence]
      BY <1>5, <2>2, Zenon
    <3> QED
      BY <1>10, <3>1
  <2>3. \A x \in g.ready, y \in new : x.sequence # y.sequence
    <3> SUFFICES ASSUME NEW x \in g.ready, NEW y \in new PROVE x.sequence # y.sequence
      BY Zenon
    <3>1. x.sequence \in Nat /\ x.sequence < g.next /\ g.next <= y.sequence
      BY <1>5, <1>8, Zenon
    <3> QED
      BY <1>0, <3>1
  <2> QED
    BY <1>10, <2>1, <2>2, <2>3, Zenon
<1>11. lo <= gap
  <2>1. lo <= g.next
    BY Zenon DEF Sound
  <2> QED
    BY <1>0, <1>2, <2>1
<1>12. Sound(t, lo, hi)
  BY <1>2, <1>3, <1>4, <1>6, <1>7, <1>9, <1>10, <1>11, Zenon DEF Sound
<1> QED
  BY <1>1, <1>12, Zenon

(* expire_gaps moves `next' up to the first batch that waits. *)
LEMMA ExpireSound ==
    ASSUME NEW g, NEW lo \in 0..MaxSequence, NEW hi \in 0..MaxSequence, Sound(g, lo, hi),
           NEW floor
    PROVE  Sound(Expire(g, floor), lo, hi)
<1> DEFINE first == Min(DOMAIN g.early)
           m == [g EXCEPT !.next = first]
<1>0. /\ g \in Avail /\ g.next \in Nat /\ MaxSequence \in Nat /\ lo \in Nat /\ hi \in Nat
      /\ DOMAIN g.early \subseteq Sequence /\ \A q \in DOMAIN g.early : q \in Nat /\ q < MaxSequence
      /\ g.ready \subseteq [sequence : Sequence, place : Place]
      /\ g.early \in [DOMAIN g.early -> Place] /\ lo <= g.next
  BY SoundTypes, Zenon DEF Sound
<1>1. CASE g.early # NoPlaces /\ first > g.next
  <2>1. DOMAIN g.early # {}
    <3>1. DOMAIN g.early = {} => g.early = NoPlaces
      BY <1>0 DEF NoPlaces
    <3> QED
      BY <1>1, <3>1, Zenon
  <2>2. first \in DOMAIN g.early /\ \A q \in DOMAIN g.early : first <= q
    BY <1>0, <2>1, MinFacts, Zenon
  <2> HIDE DEF first
  <2>3. first \in Nat /\ first < MaxSequence /\ first < hi
    BY <1>0, <2>2, Zenon DEF Sound
  <2>4. m \in Avail /\ m.next = first /\ m.early = g.early /\ m.ready = g.ready
    <3>1. first \in 0..MaxSequence
      BY <1>0, <2>3
    <3> QED
      BY <1>0, <3>1 DEF Avail
  <2> HIDE DEF m
  <2>5. lo <= first /\ first <= hi
    BY <1>0, <1>1, <2>3
  <2>6. ASSUME NEW r \in g.ready PROVE lo <= r.sequence /\ r.sequence < first
    <3>1. r.sequence \in Sequence /\ lo <= r.sequence /\ r.sequence < g.next
      BY <1>0, Zenon DEF Sound
    <3> QED
      BY <1>0, <1>1, <2>3, <3>1 DEF Sequence
  <2>7. Sound(m, lo, hi)
    BY <2>2, <2>4, <2>5, <2>6, Zenon DEF Sound
  <2>8. Sound(Advance(m), lo, hi)
    BY <2>7, AdvanceSound, Zenon
  <2> QED
    BY <2>8, Zenon DEF Expire, m, first
<1>2. CASE ~(g.early # NoPlaces /\ first > g.next)
  BY <1>2, Zenon DEF Expire
<1> QED
  BY <1>1, <1>2, Zenon

(* One vertex of the author, or what an anchor carries of it. *)
LEMMA TakenSound ==
    ASSUME NEW g, NEW lo \in 0..MaxSequence, NEW hi \in 0..MaxSequence, Sound(g, lo, hi),
           NEW place \in Place, NEW named, named \subseteq 0..(hi - 1)
    PROVE  Sound(Taken(g, place, named), lo, hi)
<1>1. Sound(Introduce(g, place, named), lo, hi)
  BY IntroduceSound, Zenon
<1> QED
  BY <1>1, AdvanceSound, Zenon DEF Taken

(* A frontier between commits, of an author that sealed the sequences below `hi'. *)
Kept(f, hi) ==
    /\ f \in Frontier /\ f.next <= hi
    /\ \A q \in DOMAIN f.early : f.next <= q /\ q < hi

(* A commit that names of author a only what it sealed. *)
Fits(commit, a, hi) ==
    /\ commit.anchor.round \in Round
    /\ \A v \in commit.history : v.source = a => v.batches \subseteq 0..(hi - 1)
    /\ \A b \in commit.anchor.carried : b[1] = a => b[2] \in 0..(hi - 1)

(* A commit moves the author's frontier up, over what it releases once and   *)
(* what it skips.                                                            *)
LEMMA OrderedSound ==
    ASSUME NEW f, NEW a, NEW hi \in 0..MaxSequence, Kept(f, hi),
           NEW commit, Fits(commit, a, hi), NEW floor
    PROVE  Sound(Ordered(f, a, commit, floor), f.next, hi)
<1>0. MaxSequence \in Nat /\ MaxRound \in Nat /\ hi \in Nat
  BY Bounds
<1>1. f.next \in 0..MaxSequence /\ f.early \in Places
  BY Zenon DEF Kept, Frontier
<1>2. PICK g : /\ g[0] = [next |-> f.next, early |-> f.early, ready |-> {}]
               /\ \A n \in 1..(MaxRound + 1) :
                     g[n] = Taken(g[n - 1], [round |-> n - 1, carried |-> FALSE],
                                  Named(commit, a, n - 1))
               /\ OrderedRounds(f, a, commit) = g[MaxRound + 1]
  BY RoundsRun
<1>3. Sound(g[0], f.next, hi)
  <2>1. g[0] \in Avail /\ g[0].next = f.next /\ g[0].early = f.early /\ g[0].ready = {}
    BY <1>1, <1>2 DEF Avail
  <2>2. f.next <= f.next
    BY <1>0, <1>1
  <2> QED
    BY <2>1, <2>2, Zenon DEF Sound, Kept
<1>4. ASSUME NEW n \in 1..(MaxRound + 1), Sound(g[n - 1], f.next, hi)
      PROVE  Sound(g[n], f.next, hi)
  <2> DEFINE place == [round |-> n - 1, carried |-> FALSE]
             named == Named(commit, a, n - 1)
  <2>1. place \in Place
    BY <1>0 DEF Place, Round
  <2>2. named \subseteq 0..(hi - 1)
    BY Zenon DEF Fits, Named
  <2>3. g[n] = Taken(g[n - 1], place, named)
    BY <1>2, Zenon
  <2> HIDE DEF place, named
  <2> QED
    BY <1>1, <1>4, <2>1, <2>2, <2>3, TakenSound, Zenon
<1> DEFINE Bad == {n \in 0..(MaxRound + 1) : ~Sound(g[n], f.next, hi)}
<1>5. Bad = {}
  <2> SUFFICES ASSUME Bad # {} PROVE FALSE
    BY Zenon
  <2>1. Bad \subseteq Nat
    BY <1>0
  <2>2. PICK n \in Bad : \A m \in Bad : n <= m
    BY <2>1, NatLeast, Zenon
  <2>3. n \in 0..(MaxRound + 1) /\ ~Sound(g[n], f.next, hi)
    BY <2>2, Zenon
  <2>4. n # 0
    BY <1>3, <2>3, Zenon
  <2>5. n \in 1..(MaxRound + 1) /\ n - 1 \in 0..(MaxRound + 1) /\ ~(n <= n - 1)
    BY <1>0, <2>3, <2>4
  <2>6. Sound(g[n - 1], f.next, hi)
    BY <2>2, <2>5, Zenon
  <2> QED
    BY <1>4, <2>3, <2>5, <2>6, Zenon
<1>6. Sound(OrderedRounds(f, a, commit), f.next, hi)
  <2>1. MaxRound + 1 \in 0..(MaxRound + 1)
    BY <1>0
  <2> QED
    BY <1>2, <1>5, <2>1, Zenon
<1> DEFINE place == [round |-> commit.anchor.round, carried |-> TRUE]
           named == {b[2] : b \in {c \in commit.anchor.carried : c[1] = a}}
<1>7. place \in Place
  BY DEF Place, Fits
<1>8. named \subseteq 0..(hi - 1)
  BY Zenon DEF Fits
<1>9. Ordered(f, a, commit, floor) = Expire(Taken(OrderedRounds(f, a, commit), place, named), floor)
  BY Zenon DEF Ordered
<1> HIDE DEF place, named
<1>10. Sound(Taken(OrderedRounds(f, a, commit), place, named), f.next, hi)
  BY <1>1, <1>6, <1>7, <1>8, TakenSound, Zenon
<1> QED
  BY <1>1, <1>9, <1>10, ExpireSound, Zenon

-----------------------------------------------------------------------------
(* The frontiers the agreed commits lead to. *)

(* Commits that name only what their authors sealed. *)
AllFit(cs, hi) ==
    /\ Len(cs) \in Nat /\ hi \in [Author -> 0..MaxSequence]
    /\ \A k \in 1..Len(cs), a \in Author : Fits(cs[k], a, hi[a])

(* What commit k does to author a's frontier, and where it starts and ends. *)
LEMMA AfterSound ==
    ASSUME NEW cs, NEW hi, AllFit(cs, hi), NEW k \in 1..Len(cs), NEW a \in Author,
           Kept(FrontierAfter(cs)[k - 1][a], hi[a])
    PROVE  /\ Sound(AfterAt(cs, k)[a], FrontierAfter(cs)[k - 1][a].next, hi[a])
           /\ FrontierAfter(cs)[k][a] =
                  [next |-> AfterAt(cs, k)[a].next, early |-> AfterAt(cs, k)[a].early]
           /\ Kept(FrontierAfter(cs)[k][a], hi[a])
<1> DEFINE f == FrontierAfter(cs)[k - 1][a]
           t == AfterAt(cs, k)[a]
           floor == Floor(cs, k - 1)
<1>1. hi[a] \in 0..MaxSequence /\ Fits(cs[k], a, hi[a]) /\ Len(cs) \in Nat
  BY Zenon DEF AllFit
<1>2. t = Ordered(f, a, cs[k], floor)
  BY Zenon DEF AfterAt, After
<1>3. FrontierAfter(cs)[k] = FrontierOf(AfterAt(cs, k))
  BY <1>1, FrontiersRun, Zenon
<1>4. FrontierAfter(cs)[k][a] = [next |-> t.next, early |-> t.early]
  BY <1>3, Zenon DEF FrontierOf
<1>5. Sound(t, f.next, hi[a])
  <2> HIDE DEF f, t, floor
  <2> QED
    BY <1>1, <1>2, OrderedSound, Zenon DEF f
<1>6. Kept([next |-> t.next, early |-> t.early], hi[a])
  <2>1. t.next \in 0..MaxSequence /\ t.early \in Places /\ t.next <= hi[a]
    BY <1>5, Zenon DEF Sound, Avail
  <2>2. \A q \in DOMAIN t.early : t.next <= q /\ q < hi[a]
    BY <1>5, Zenon DEF Sound
  <2> HIDE DEF t
  <2> QED
    BY <2>1, <2>2 DEF Kept, Frontier
<1> QED
  BY <1>4, <1>5, <1>6, Zenon

LEMMA FrontiersKept ==
    ASSUME NEW cs, NEW hi, AllFit(cs, hi)
    PROVE  /\ \A n \in 0..Len(cs) : FrontierAfter(cs)[n] \in [Author -> Frontier]
           /\ \A n \in 0..Len(cs), a \in Author : Kept(FrontierAfter(cs)[n][a], hi[a])
<1>0. Len(cs) \in Nat /\ MaxSequence \in Nat /\ \A a \in Author : hi[a] \in 0..MaxSequence
  BY Bounds, Zenon DEF AllFit
<1> DEFINE Bad == {n \in 0..Len(cs) : \E a \in Author : ~Kept(FrontierAfter(cs)[n][a], hi[a])}
<1>1. \A a \in Author : Kept(FrontierAfter(cs)[0][a], hi[a])
  <2> SUFFICES ASSUME NEW a \in Author PROVE Kept(EmptyFrontier[a], hi[a])
    BY <1>0, FrontiersRun, Zenon
  <2>1. EmptyFrontier[a] = [next |-> 0, early |-> NoPlaces]
    BY Zenon DEF EmptyFrontier
  <2>2. DOMAIN NoPlaces = {} /\ NoPlaces \in [{} -> Place]
    BY DEF NoPlaces
  <2>3. NoPlaces \in Places
    BY <2>2, PlacesFacts, Zenon
  <2>4. 0 \in 0..MaxSequence /\ 0 <= hi[a]
    BY <1>0
  <2> QED
    BY <2>1, <2>2, <2>3, <2>4 DEF Kept, Frontier
<1>2. Bad = {}
  <2> SUFFICES ASSUME Bad # {} PROVE FALSE
    BY Zenon
  <2>1. Bad \subseteq Nat
    BY <1>0
  <2>2. PICK n \in Bad : \A m \in Bad : n <= m
    BY <2>1, NatLeast, Zenon
  <2>3. PICK a \in Author : ~Kept(FrontierAfter(cs)[n][a], hi[a])
    BY <2>2, Zenon
  <2>4. n \in 0..Len(cs) /\ n # 0
    BY <1>1, <2>2, <2>3, Zenon
  <2>5. n \in 1..Len(cs) /\ n - 1 \in 0..Len(cs) /\ ~(n <= n - 1)
    BY <1>0, <2>4
  <2>6. Kept(FrontierAfter(cs)[n - 1][a], hi[a])
    BY <2>2, <2>5, Zenon
  <2> QED
    BY <2>3, <2>5, <2>6, AfterSound, Zenon
<1>3. \A n \in 0..Len(cs), a \in Author : Kept(FrontierAfter(cs)[n][a], hi[a])
  BY <1>2, Zenon
<1>4. ASSUME NEW n \in 0..Len(cs) PROVE FrontierAfter(cs)[n] \in [Author -> Frontier]
  <2>1. \A a \in Author : FrontierAfter(cs)[n][a] \in Frontier
    BY <1>3, Zenon DEF Kept
  <2>2. FrontierAfter(cs)[n] = [a \in Author |-> FrontierAfter(cs)[n][a]]
    <3>1. CASE n = 0
      BY <1>0, <3>1, FrontiersRun, Zenon DEF EmptyFrontier
    <3>2. CASE n # 0
      <4>1. n \in 1..Len(cs)
        BY <1>0, <3>2
      <4>2. FrontierAfter(cs)[n] = FrontierOf(AfterAt(cs, n))
        BY <1>0, <4>1, FrontiersRun, Zenon
      <4> QED
        BY <4>2, Zenon DEF FrontierOf
    <3> QED
      BY <3>1, <3>2, Zenon
  <2> QED
    BY <2>1, <2>2, Zenon
<1> QED
  BY <1>3, <1>4, Zenon

(* What commit k releases of author a lies between the frontiers around it. *)
LEMMA ReleasedBetween ==
    ASSUME NEW cs, NEW hi, AllFit(cs, hi), NEW k \in 1..Len(cs), NEW a \in Author
    PROVE  /\ Sound(AfterAt(cs, k)[a], FrontierAfter(cs)[k - 1][a].next, hi[a])
           /\ FrontierAfter(cs)[k][a] =
                  [next |-> AfterAt(cs, k)[a].next, early |-> AfterAt(cs, k)[a].early]
           /\ FrontierAfter(cs)[k - 1][a].next \in 0..MaxSequence
           /\ FrontierAfter(cs)[k][a].next \in 0..MaxSequence
           /\ FrontierAfter(cs)[k - 1][a].next <= FrontierAfter(cs)[k][a].next
           /\ \A r \in AfterAt(cs, k)[a].ready :
                 /\ r.sequence \in Sequence
                 /\ FrontierAfter(cs)[k - 1][a].next <= r.sequence
                 /\ r.sequence < FrontierAfter(cs)[k][a].next
<1>0. Len(cs) \in Nat /\ k - 1 \in 0..Len(cs) /\ k \in 0..Len(cs)
  BY DEF AllFit
<1>1. /\ Kept(FrontierAfter(cs)[k - 1][a], hi[a])
      /\ FrontierAfter(cs)[k - 1][a] \in Frontier /\ FrontierAfter(cs)[k][a] \in Frontier
  BY <1>0, FrontiersKept, Zenon DEF Kept
<1>2. /\ Sound(AfterAt(cs, k)[a], FrontierAfter(cs)[k - 1][a].next, hi[a])
      /\ FrontierAfter(cs)[k][a] =
             [next |-> AfterAt(cs, k)[a].next, early |-> AfterAt(cs, k)[a].early]
  BY <1>1, AfterSound
<1>3. FrontierAfter(cs)[k][a].next = AfterAt(cs, k)[a].next
  BY <1>2
<1>4. \A r \in AfterAt(cs, k)[a].ready : r.sequence \in Sequence
  BY <1>2, Zenon DEF Sound, Avail
<1>5. /\ FrontierAfter(cs)[k - 1][a].next \in 0..MaxSequence
      /\ FrontierAfter(cs)[k][a].next \in 0..MaxSequence
  BY <1>1, Zenon DEF Frontier
<1> QED
  BY <1>2, <1>3, <1>4, <1>5, Zenon DEF Sound

(* No frontier moves back. *)
LEMMA FrontiersRise ==
    ASSUME NEW cs, NEW hi, AllFit(cs, hi), NEW a \in Author,
           NEW m \in 0..Len(cs), NEW n \in 0..Len(cs), m <= n
    PROVE  FrontierAfter(cs)[m][a].next <= FrontierAfter(cs)[n][a].next
<1> DEFINE next(k) == FrontierAfter(cs)[k][a].next
           Bad == {k \in 0..Len(cs) : m <= k /\ ~(next(m) <= next(k))}
<1>0. Len(cs) \in Nat /\ MaxSequence \in Nat
  BY Bounds, Zenon DEF AllFit
<1>1. \A k \in 0..Len(cs) : next(k) \in 0..MaxSequence
  BY FrontiersKept, Zenon DEF Kept, Frontier
<1>2. \A k \in 1..Len(cs) : next(k - 1) <= next(k)
  BY ReleasedBetween, Zenon
<1> HIDE DEF next
<1>3. Bad = {}
  <2> SUFFICES ASSUME Bad # {} PROVE FALSE
    BY Zenon
  <2>1. Bad \subseteq Nat
    BY <1>0
  <2>2. PICK k \in Bad : \A l \in Bad : k <= l
    BY <2>1, NatLeast, Zenon
  <2>3. k \in 0..Len(cs) /\ m <= k /\ ~(next(m) <= next(k))
    BY <2>2, Zenon
  <2>4. next(m) \in Nat /\ next(k) \in Nat
    BY <1>0, <1>1, <2>3
  <2>5. k # m
    BY <2>3, <2>4
  <2>6. k \in 1..Len(cs) /\ k - 1 \in 0..Len(cs) /\ m <= k - 1 /\ ~(k <= k - 1)
    BY <1>0, <2>3, <2>5
  <2>7. next(m) <= next(k - 1) /\ next(k - 1) <= next(k)
    BY <1>2, <2>2, <2>6, Zenon
  <2>8. next(k - 1) \in Nat
    BY <1>0, <1>1, <2>6
  <2> QED
    BY <2>3, <2>4, <2>7, <2>8
<1>4. next(m) <= next(n)
  BY <1>3, Zenon
<1> QED
  BY <1>4 DEF next

(* A batch below the frontier after n commits is released by none that       *)
(* follows, one at or past it by none of the first n.                       *)
LEMMA ReleasedOnOneSide ==
    ASSUME NEW cs, NEW hi, AllFit(cs, hi), NEW a \in Author, NEW q \in Nat,
           NEW n \in 0..Len(cs), NEW k \in 1..Len(cs),
           \/ q < FrontierAfter(cs)[n][a].next /\ n < k
           \/ q >= FrontierAfter(cs)[n][a].next /\ k <= n
    PROVE  \A r \in AfterAt(cs, k)[a].ready : r.sequence # q
<1> SUFFICES ASSUME NEW r \in AfterAt(cs, k)[a].ready PROVE r.sequence # q
  BY Zenon
<1> DEFINE F(l) == FrontierAfter(cs)[l][a].next
<1>0. Len(cs) \in Nat /\ MaxSequence \in Nat
  BY Bounds, Zenon DEF AllFit
<1>1. r.sequence \in Sequence /\ F(k - 1) <= r.sequence /\ r.sequence < F(k)
  BY ReleasedBetween, Zenon
<1>2. \A l \in 0..Len(cs) : F(l) \in 0..MaxSequence
  BY FrontiersKept, Zenon DEF Kept, Frontier
<1>3. \A l, m \in 0..Len(cs) : l <= m => F(l) <= F(m)
  BY FrontiersRise, Zenon
<1>4. k \in 0..Len(cs) /\ k - 1 \in 0..Len(cs) /\ (n < k => n <= k - 1)
  BY <1>0
<1>5. CASE q < F(n) /\ n < k
  <2>1. F(n) <= F(k - 1)
    BY <1>3, <1>4, <1>5, Zenon
  <2>2. F(n) \in 0..MaxSequence /\ F(k - 1) \in 0..MaxSequence
    BY <1>2, <1>4, Zenon
  <2> HIDE DEF F
  <2> QED
    BY <1>0, <1>1, <1>5, <2>1, <2>2 DEF Sequence
<1>6. CASE q >= F(n) /\ k <= n
  <2>1. F(k) <= F(n)
    BY <1>3, <1>4, <1>6, Zenon
  <2>2. F(n) \in 0..MaxSequence /\ F(k) \in 0..MaxSequence
    BY <1>2, <1>4, Zenon
  <2> HIDE DEF F
  <2> QED
    BY <1>0, <1>1, <1>6, <2>1, <2>2 DEF Sequence
<1> QED
  BY <1>5, <1>6, Zenon

(* What the first commits do does not depend on those that follow. *)
LEMMA SamePrefix ==
    ASSUME NEW cs, NEW ds, Len(cs) \in Nat, Len(ds) \in Nat, Len(cs) <= Len(ds),
           \A k \in 1..Len(cs) : ds[k] = cs[k]
    PROVE  /\ \A n \in 0..Len(cs) : FrontierAfter(ds)[n] = FrontierAfter(cs)[n]
           /\ \A k \in 1..Len(cs) : AfterAt(ds, k) = AfterAt(cs, k)
<1>1. ASSUME NEW k \in 1..Len(cs), NEW f PROVE After(f, ds, k) = After(f, cs, k)
  <2>1. \A l \in 1..(k - 1) : ds[l] = cs[l]
    <3>1. \A l \in 1..(k - 1) : l \in 1..Len(cs)
      OBVIOUS
    <3> QED
      BY <3>1, Zenon
  <2>2. {ds[l].anchor.round - GcDepth : l \in 1..(k - 1)} = {cs[l].anchor.round - GcDepth : l \in 1..(k - 1)}
    BY <2>1, Zenon
  <2>3. Floor(ds, k - 1) = Floor(cs, k - 1)
    BY <2>2, Zenon DEF Floor
  <2>4. ds[k] = cs[k]
    BY Zenon
  <2> QED
    BY <2>3, <2>4, Zenon DEF After
<1> DEFINE Bad == {n \in 0..Len(cs) : FrontierAfter(ds)[n] # FrontierAfter(cs)[n]}
<1>2. ASSUME NEW k \in 1..Len(cs), FrontierAfter(ds)[k - 1] = FrontierAfter(cs)[k - 1]
      PROVE  AfterAt(ds, k) = AfterAt(cs, k) /\ FrontierAfter(ds)[k] = FrontierAfter(cs)[k]
  <2>1. AfterAt(ds, k) = AfterAt(cs, k)
    BY <1>1, <1>2, Zenon DEF AfterAt
  <2>2. k \in 1..Len(ds)
    OBVIOUS
  <2> QED
    BY <2>1, <2>2, FrontiersRun, Zenon
<1>3. Bad = {}
  <2> SUFFICES ASSUME Bad # {} PROVE FALSE
    BY Zenon
  <2>1. Bad \subseteq Nat
    OBVIOUS
  <2>2. PICK n \in Bad : \A m \in Bad : n <= m
    BY <2>1, NatLeast, Zenon
  <2>3. n \in 0..Len(cs) /\ FrontierAfter(ds)[n] # FrontierAfter(cs)[n]
    BY <2>2, Zenon
  <2>4. n # 0
    BY <2>3, FrontiersRun, Zenon
  <2>5. n \in 1..Len(cs) /\ n - 1 \in 0..Len(cs) /\ ~(n <= n - 1)
    BY <2>3, <2>4
  <2>6. FrontierAfter(ds)[n - 1] = FrontierAfter(cs)[n - 1]
    BY <2>2, <2>5, Zenon
  <2> QED
    BY <1>2, <2>3, <2>5, <2>6, Zenon
<1>4. \A k \in 1..Len(cs) : k - 1 \in 0..Len(cs)
  OBVIOUS
<1> QED
  BY <1>2, <1>3, <1>4, Zenon

-----------------------------------------------------------------------------
(* Ordering states and blocks. *)

(* import gives back the frontiers that export wrote, though it leaves out   *)
(* what is empty.                                                            *)
LEMMA ImportExport ==
    ASSUME NEW f \in [Author -> Frontier]
    PROVE  Import(Export(f)) = f
<1> DEFINE N == {<<b, f[b].next>> : b \in {c \in Author : f[c].next > 0}}
           E == {<<b, f[b].early>> : b \in {c \in Author : f[c].early # NoPlaces}}
<1>1. Export(f) = [next |-> N, early |-> E]
  BY Zenon DEF Export
<1>2. Export(f).next = N /\ Export(f).early = E
  BY <1>1
<1>3. ASSUME NEW a \in Author PROVE Found(N, a, 0) = f[a].next
  <2>1. f[a].next \in 0..MaxSequence /\ MaxSequence \in Nat
    BY Bounds, Zenon DEF Frontier
  <2>2. \A p \in N : p[1] = a => p[2] = f[a].next
    OBVIOUS
  <2>3. CASE f[a].next > 0
    <3>1. \E p \in N : p[1] = a
      <4>1. <<a, f[a].next>> \in N
        BY <2>3, Zenon
      <4> QED
        BY <4>1, Zenon
    <3> HIDE DEF N
    <3> QED
      BY <2>2, <3>1, Zenon DEF Found
  <2>4. CASE ~(f[a].next > 0)
    <3>1. ~\E p \in N : p[1] = a
      BY <2>4
    <3>2. f[a].next = 0
      BY <2>1, <2>4
    <3> HIDE DEF N
    <3> QED
      BY <3>1, <3>2, Zenon DEF Found
  <2> QED
    BY <2>3, <2>4, Zenon
<1>4. ASSUME NEW a \in Author PROVE Found(E, a, NoPlaces) = f[a].early
  <2>2. \A p \in E : p[1] = a => p[2] = f[a].early
    OBVIOUS
  <2>3. CASE f[a].early # NoPlaces
    <3>1. \E p \in E : p[1] = a
      <4>1. <<a, f[a].early>> \in E
        BY <2>3, Zenon
      <4> QED
        BY <4>1, Zenon
    <3> HIDE DEF E
    <3> QED
      BY <2>2, <3>1, Zenon DEF Found
  <2>4. CASE f[a].early = NoPlaces
    <3>1. ~\E p \in E : p[1] = a
      BY <2>4
    <3> HIDE DEF E
    <3> QED
      BY <2>4, <3>1, Zenon DEF Found
  <2> QED
    BY <2>3, <2>4, Zenon
<1> HIDE DEF N, E
<1>5. \A a \in Author : [next |-> Found(N, a, 0), early |-> Found(E, a, NoPlaces)] = f[a]
  <2> SUFFICES ASSUME NEW a \in Author
               PROVE  [next |-> f[a].next, early |-> f[a].early] = f[a]
    BY <1>3, <1>4
  <2> QED
    BY DEF Frontier
<1>6. Import(Export(f)) = [a \in Author |-> [next |-> Found(N, a, 0), early |-> Found(E, a, NoPlaces)]]
  BY <1>2, Zenon DEF Import
<1> QED
  BY <1>5, <1>6

(* A released batch with its place. *)
Entry == [author : Author, sequence : Sequence, place : Place]

LEMMA EntryFacts ==
    ASSUME NEW x \in Entry
    PROVE  /\ x.author \in Nat /\ x.author \in Author
           /\ x.sequence \in Nat /\ x.sequence \in Sequence
           /\ x.place.round \in Nat /\ x.place.round \in Round
           /\ x.place.carried \in BOOLEAN
           /\ \A y \in Entry :
                 x.author = y.author /\ x.sequence = y.sequence
                 /\ x.place.round = y.place.round /\ x.place.carried = y.place.carried
                 => x = y
<1>1. /\ x.author \in Author /\ x.sequence \in Sequence
      /\ x.place.round \in Round /\ x.place.carried \in BOOLEAN
  BY DEF Entry, Place
<1>2. x.author \in Nat /\ x.sequence \in Nat /\ x.place.round \in Nat
  <2>1. x.author \in Nat /\ MaxSequence \in Nat /\ MaxRound \in Nat
    BY <1>1, Bounds, Zenon
  <2> QED
    BY <1>1, <2>1 DEF Sequence, Round
<1>3. ASSUME NEW y \in Entry, x.author = y.author, x.sequence = y.sequence,
             x.place.round = y.place.round, x.place.carried = y.place.carried
      PROVE  x = y
  <2>1. x.place \in Place /\ y.place \in Place
    BY DEF Entry
  <2>2. x.place = y.place
    BY <1>3, <2>1 DEF Place
  <2> QED
    BY <1>3, <2>2 DEF Entry
<1> QED
  BY <1>1, <1>2, <1>3, Zenon

(* The order of release tells any two batches apart. *)
LEMMA BeforeOrders ==
    /\ \A x \in Entry : ~Before(x, x)
    /\ \A x, y \in Entry : x # y => Before(x, y) \/ Before(y, x)
    /\ \A x, y, z \in Entry : Before(x, y) /\ Before(y, z) => Before(x, z)
<1>1. ASSUME NEW x \in Entry PROVE ~Before(x, x)
  BY EntryFacts DEF Before
<1>2. ASSUME NEW x \in Entry, NEW y \in Entry, x # y PROVE Before(x, y) \/ Before(y, x)
  <2>1. /\ x.author \in Nat /\ x.sequence \in Nat /\ x.place.round \in Nat
        /\ y.author \in Nat /\ y.sequence \in Nat /\ y.place.round \in Nat
        /\ x.place.carried \in BOOLEAN /\ y.place.carried \in BOOLEAN
    BY EntryFacts, Zenon
  <2>2. \/ x.author # y.author \/ x.sequence # y.sequence
        \/ x.place.round # y.place.round \/ x.place.carried # y.place.carried
    BY <1>2, EntryFacts, Zenon
  <2>3. CASE x.place.round # y.place.round
    BY <2>1, <2>3 DEF Before
  <2>4. CASE x.place.round = y.place.round /\ x.author # y.author
    BY <2>1, <2>4 DEF Before
  <2>5. CASE /\ x.place.round = y.place.round /\ x.author = y.author
             /\ x.place.carried # y.place.carried
    <3>1. \/ x.place.carried /\ ~y.place.carried
          \/ ~x.place.carried /\ y.place.carried
      BY <2>1, <2>5
    <3> QED
      BY <2>5, <3>1, Zenon DEF Before
  <2>6. CASE /\ x.place.round = y.place.round /\ x.author = y.author
             /\ x.place.carried = y.place.carried /\ x.sequence # y.sequence
    <3>1. x.sequence < y.sequence \/ y.sequence < x.sequence
      BY <2>1, <2>6
    <3> QED
      BY <2>6, <3>1, Zenon DEF Before
  <2> QED
    BY <2>2, <2>3, <2>4, <2>5, <2>6, Zenon
<1>3. ASSUME NEW x \in Entry, NEW y \in Entry, NEW z \in Entry, Before(x, y), Before(y, z)
      PROVE  Before(x, z)
  <2>1. /\ x.author \in Nat /\ x.sequence \in Nat /\ x.place.round \in Nat
        /\ y.author \in Nat /\ y.sequence \in Nat /\ y.place.round \in Nat
        /\ z.author \in Nat /\ z.sequence \in Nat /\ z.place.round \in Nat
    BY EntryFacts, Zenon
  <2>2. CASE x.place.round < y.place.round \/ y.place.round < z.place.round
    <3>1. x.place.round <= y.place.round /\ y.place.round <= z.place.round
      BY <1>3, <2>1 DEF Before
    <3>2. x.place.round < z.place.round
      BY <2>1, <2>2, <3>1
    <3> QED
      BY <3>2, Zenon DEF Before
  <2>3. CASE x.place.round = y.place.round /\ y.place.round = z.place.round
    <3>1. ~(x.place.round < y.place.round) /\ ~(y.place.round < z.place.round)
      BY <2>1, <2>3
    <3>2. CASE x.author < y.author \/ y.author < z.author
      <4>1. x.author <= y.author /\ y.author <= z.author
        BY <1>3, <2>1, <3>1 DEF Before
      <4>2. x.author < z.author
        BY <2>1, <3>2, <4>1
      <4> QED
        BY <2>3, <4>2 DEF Before
    <3>3. CASE ~(x.author < y.author) /\ ~(y.author < z.author)
      <4>1. /\ x.author = y.author /\ y.author = z.author
            /\ \/ ~x.place.carried /\ y.place.carried
               \/ x.place.carried = y.place.carried /\ x.sequence < y.sequence
            /\ \/ ~y.place.carried /\ z.place.carried
               \/ y.place.carried = z.place.carried /\ y.sequence < z.sequence
        BY <1>3, <3>1, <3>3, Zenon DEF Before
      <4>2. x.sequence < y.sequence /\ y.sequence < z.sequence => x.sequence < z.sequence
        BY <2>1
      <4>3. \/ ~x.place.carried /\ z.place.carried
            \/ x.place.carried = z.place.carried /\ x.sequence < z.sequence
        BY <4>1, <4>2, Zenon
      <4> QED
        BY <2>3, <4>1, <4>3, Zenon DEF Before
    <3> QED
      BY <3>2, <3>3, Zenon
  <2>4. \/ x.place.round < y.place.round \/ y.place.round < z.place.round
        \/ x.place.round = y.place.round /\ y.place.round = z.place.round
    BY <1>3, Zenon DEF Before
  <2> QED
    BY <2>2, <2>3, <2>4, Zenon
<1> QED
  BY <1>1, <1>2, <1>3, Zenon

LEMMA EntryFinite == IsFiniteSet(Entry)
<1> DEFINE P == Author \X (Sequence \X (Round \X BOOLEAN))
           f == [x \in Entry |->
                    <<x.author, <<x.sequence, <<x.place.round, x.place.carried>>>>>>]
<1>1. IsFiniteSet(Author)
  BY BatchesAssumption, FS_Subset, Zenon
<1>2. IsFiniteSet(Sequence) /\ IsFiniteSet(Round)
  <2>1. MaxSequence - 1 \in Int /\ MaxRound \in Int /\ 0 \in Int
    BY Bounds
  <2> QED
    BY <2>1, FS_Interval, Zenon DEF Sequence, Round
<1>3. IsFiniteSet(BOOLEAN)
  <2>1. IsFiniteSet({TRUE}) /\ BOOLEAN = {TRUE} \cup {FALSE}
    BY FS_Singleton, Zenon
  <2> QED
    BY <2>1, FS_AddElement, Zenon
<1>4. IsFiniteSet(P)
  BY <1>1, <1>2, <1>3, FS_Product, Zenon
<1>5. \A x \in Entry : /\ x.author \in Author /\ x.sequence \in Sequence
                       /\ x.place.round \in Round /\ x.place.carried \in BOOLEAN
  BY EntryFacts, Zenon
<1>6. f \in [Entry -> P]
  BY <1>5
<1>7. ASSUME NEW x \in Entry, NEW y \in Entry, f[x] = f[y] PROVE x = y
  <2>1. /\ x.author = y.author /\ x.sequence = y.sequence
        /\ x.place.round = y.place.round /\ x.place.carried = y.place.carried
    BY <1>7
  <2> QED
    BY <2>1, EntryFacts, Zenon
<1> HIDE DEF P, f
<1>8. f \in Injection(Entry, P)
  BY <1>6, <1>7, Zenon DEF Injection, IsInjective
<1> QED
  BY <1>4, <1>8, FS_Injection, Zenon

(* Every position of a released sequence has one batch. *)
LEMMA RankFacts ==
    ASSUME NEW R \in SUBSET Entry
    PROVE  /\ IsFiniteSet(R) /\ Cardinality(R) \in Nat
           /\ \A x \in R : Rank(x, R) \in 0..(Cardinality(R) - 1)
           /\ \A x, y \in R : Rank(x, R) = Rank(y, R) => x = y
           /\ \A n \in 1..Cardinality(R) : \E x \in R : Rank(x, R) = n - 1
<1> DEFINE B(x) == {y \in R : Before(y, x)}
           N == Cardinality(R)
           f == [x \in R |-> Rank(x, R)]
<1>1. IsFiniteSet(R) /\ N \in Nat
  BY EntryFinite, FS_Subset, FS_CardinalityType, Zenon
<1>2. ASSUME NEW x \in R
      PROVE  IsFiniteSet(B(x)) /\ Cardinality(B(x)) \in Nat /\ Cardinality(B(x)) <= N
  <2>1. B(x) \in SUBSET R
    BY Zenon
  <2> QED
    BY <1>1, <2>1, FS_Subset, FS_CardinalityType, Zenon
<1>3. ASSUME NEW x \in R PROVE Cardinality(B(x)) # N
  <2>1. B(x) \in SUBSET R
    BY Zenon
  <2>2. x \notin B(x)
    BY BeforeOrders, Zenon
  <2>3. N = Cardinality(B(x)) => R = B(x)
    BY <1>1, <2>1, FS_Subset, Zenon
  <2> QED
    BY <2>2, <2>3, Zenon
<1>4. \A x \in R : Rank(x, R) = Cardinality(B(x))
  BY Zenon DEF Rank
<1>5. ASSUME NEW x \in R PROVE Rank(x, R) \in 0..(N - 1)
  <2>1. Rank(x, R) \in Nat /\ Rank(x, R) <= N /\ Rank(x, R) # N
    BY <1>2, <1>3, <1>4, Zenon
  <2> HIDE DEF N
  <2> QED
    BY <1>1, <2>1
<1>6. ASSUME NEW x \in R, NEW y \in R, Before(x, y) PROVE Rank(x, R) # Rank(y, R)
  <2>1. B(x) \in SUBSET B(y)
    BY <1>6, BeforeOrders, Zenon
  <2>2. x \in B(y) /\ x \notin B(x)
    BY <1>6, BeforeOrders, Zenon
  <2>3. Cardinality(B(y)) = Cardinality(B(x)) => B(y) = B(x)
    BY <1>2, <2>1, FS_Subset, Zenon
  <2>4. Cardinality(B(x)) # Cardinality(B(y))
    BY <2>2, <2>3, Zenon
  <2> QED
    BY <1>4, <2>4, Zenon
<1>7. \A x, y \in R : Rank(x, R) = Rank(y, R) => x = y
  BY <1>6, BeforeOrders, Zenon
<1>8. f \in Injection(R, 0..(N - 1))
  <2>1. f \in [R -> 0..(N - 1)]
    BY <1>5, Zenon
  <2>2. \A x, y \in DOMAIN f : f[x] = f[y] => x = y
    BY <1>7, Zenon
  <2> HIDE DEF f
  <2> QED
    BY <2>1, <2>2, Zenon DEF Injection, IsInjective
<1>9. IsFiniteSet(0..(N - 1)) /\ Cardinality(0..(N - 1)) = N
  <2>1. N - 1 \in Int /\ (IF 0 > N - 1 THEN 0 ELSE (N - 1) - 0 + 1) = N
    <3> HIDE DEF N
    <3> QED
      BY <1>1
  <2>2. 0 \in Int
    OBVIOUS
  <2> HIDE DEF N
  <2> QED
    BY <2>1, <2>2, FS_Interval, Zenon
<1>10. f \in Surjection(R, 0..(N - 1))
  <2> HIDE DEF f
  <2> QED
    BY <1>8, <1>9, FS_Injection, Zenon
<1>11. \A m \in 0..(N - 1) : \E x \in R : f[x] = m
  <2> HIDE DEF f, N
  <2> QED
    BY <1>10, Zenon DEF Surjection
<1>12. ASSUME NEW n \in 1..N PROVE \E x \in R : Rank(x, R) = n - 1
  <2>1. n - 1 \in 0..(N - 1)
    <3> HIDE DEF N
    <3> QED
      BY <1>1
  <2> QED
    BY <1>11, <2>1, Zenon
<1> QED
  BY <1>1, <1>5, <1>7, <1>12, Zenon

(* The batches of a block are those released, each one in one position. *)
LEMMA ReleaseFacts ==
    ASSUME NEW R \in SUBSET Entry
    PROVE  /\ Release(R) \in Seq(Batch)
           /\ \A x \in R : \E n \in DOMAIN Release(R) : Release(R)[n] = <<x.author, x.sequence>>
           /\ \A n \in DOMAIN Release(R) : \E x \in R :
                 Rank(x, R) = n - 1 /\ Release(R)[n] = <<x.author, x.sequence>>
<1> DEFINE N == Cardinality(R)
           nth(n) == CHOOSE x \in R : Rank(x, R) = n - 1
           s == [n \in 1..N |-> <<nth(n).author, nth(n).sequence>>]
<1>1. Release(R) = s
  BY Zenon DEF Release
<1>2. N \in Nat
  BY RankFacts, Zenon
<1>3. \A n \in 1..N : nth(n) \in R /\ Rank(nth(n), R) = n - 1
  BY RankFacts, Zenon
<1> HIDE DEF nth, N
<1>4. \A n \in 1..N : s[n] = <<nth(n).author, nth(n).sequence>> /\ s[n] \in Batch
  <2>1. \A n \in 1..N : nth(n).author \in Author /\ nth(n).sequence \in Sequence
    BY <1>3, EntryFacts, Zenon
  <2> QED
    BY <2>1 DEF Batch
<1>5. s \in Seq(Batch) /\ DOMAIN s = 1..N
  BY <1>2, <1>4
<1>6. ASSUME NEW x \in R PROVE \E n \in 1..N : s[n] = <<x.author, x.sequence>>
  <2> DEFINE n == Rank(x, R) + 1
  <2>0. Rank(x, R) \in 0..(N - 1)
    BY RankFacts, Zenon DEF N
  <2>1. n \in 1..N /\ n - 1 = Rank(x, R)
    BY <1>2, <2>0
  <2>2. nth(n) \in R /\ Rank(nth(n), R) = Rank(x, R)
    BY <1>3, <2>1, Zenon
  <2>3. nth(n) = x
    BY <2>2, RankFacts, Zenon
  <2> QED
    BY <1>4, <2>1, <2>3, Zenon
<1> HIDE DEF s
<1>7. \A n \in 1..N : \E x \in R : Rank(x, R) = n - 1 /\ s[n] = <<x.author, x.sequence>>
  BY <1>3, <1>4
<1> QED
  BY <1>1, <1>5, <1>6, <1>7, Zenon

(* What commit k releases, with the author of each batch. *)
LEMMA ReleasedEntries ==
    ASSUME NEW cs, NEW hi, AllFit(cs, hi), NEW k \in 1..Len(cs)
    PROVE  LET R == ReleasedBy(AfterAt(cs, k))
           IN  /\ R \in SUBSET Entry
               /\ \A x \in R : \E r \in AfterAt(cs, k)[x.author].ready : r.sequence = x.sequence
               /\ \A a \in Author : \A r \in AfterAt(cs, k)[a].ready :
                     \E x \in R : x.author = a /\ x.sequence = r.sequence
               /\ \A x, y \in R : x.author = y.author /\ x.sequence = y.sequence => x = y
<1> DEFINE R == ReleasedBy(AfterAt(cs, k))
           ready(a) == AfterAt(cs, k)[a].ready
           entry(a, r) == [author |-> a, sequence |-> r.sequence, place |-> r.place]
<1>1. \A a \in Author : /\ ready(a) \subseteq [sequence : Sequence, place : Place]
                        /\ \A r, s \in ready(a) : r.sequence = s.sequence => r = s
  <2> SUFFICES ASSUME NEW a \in Author
               PROVE  /\ ready(a) \subseteq [sequence : Sequence, place : Place]
                      /\ \A r, s \in ready(a) : r.sequence = s.sequence => r = s
    BY Zenon
  <2>1. Sound(AfterAt(cs, k)[a], FrontierAfter(cs)[k - 1][a].next, hi[a])
    BY ReleasedBetween, Zenon
  <2>2. AfterAt(cs, k)[a] \in Avail
    BY <2>1, Zenon DEF Sound
  <2>3. \A r, s \in ready(a) : r.sequence = s.sequence => r = s
    BY <2>1, Zenon DEF Sound
  <2> QED
    BY <2>2, <2>3, Zenon DEF Avail
<1>2. R = UNION {{entry(a, r) : r \in ready(a)} : a \in Author}
  BY Zenon DEF ReleasedBy
<1>3. /\ \A x \in R : \E a \in Author : \E r \in ready(a) : x = entry(a, r)
      /\ \A a \in Author : \A r \in ready(a) : entry(a, r) \in R
  <2> HIDE DEF R, ready, entry
  <2> QED
    BY <1>2
<1> HIDE DEF R, ready
<1>4. ASSUME NEW a \in Author, NEW r \in ready(a)
      PROVE  /\ entry(a, r) \in Entry /\ entry(a, r).author = a
             /\ entry(a, r).sequence = r.sequence
  <2>1. r.sequence \in Sequence /\ r.place \in Place
    BY <1>1
  <2> QED
    BY <2>1 DEF Entry
<1> HIDE DEF entry
<1>5. ASSUME NEW x \in R
      PROVE  x \in Entry /\ \E r \in ready(x.author) : r.sequence = x.sequence
  <2>1. PICK a \in Author : \E r \in ready(a) : x = entry(a, r)
    BY <1>3, Zenon
  <2>1a. PICK r \in ready(a) : x = entry(a, r)
    BY <2>1, Zenon
  <2>2. x \in Entry /\ x.author = a /\ x.sequence = r.sequence
    BY <1>4, <2>1a
  <2> QED
    BY <2>2
<1>6. \A a \in Author : \A r \in ready(a) : \E x \in R : x.author = a /\ x.sequence = r.sequence
  BY <1>3, <1>4, Zenon
<1>7. ASSUME NEW x \in R, NEW y \in R, x.author = y.author, x.sequence = y.sequence
      PROVE  x = y
  <2>1. PICK a \in Author : \E r \in ready(a) : x = entry(a, r)
    BY <1>3, Zenon
  <2>1a. PICK r \in ready(a) : x = entry(a, r)
    BY <2>1, Zenon
  <2>2. PICK b \in Author : \E s \in ready(b) : y = entry(b, s)
    BY <1>3, Zenon
  <2>2a. PICK s \in ready(b) : y = entry(b, s)
    BY <2>2, Zenon
  <2>3. a = b /\ r.sequence = s.sequence
    BY <1>4, <1>7, <2>1a, <2>2a
  <2>4. r = s
    BY <1>1, <2>3
  <2> QED
    BY <2>1a, <2>2a, <2>3, <2>4
<1> QED
  BY <1>5, <1>6, <1>7, Zenon DEF R, ready

(* The block of commit k. *)
LEMMA BlockFacts ==
    ASSUME NEW cs, NEW hi, AllFit(cs, hi), NEW k \in 1..Len(cs)
    PROVE  LET B == BlockOf(AfterAt(cs, k))
           IN  /\ B.released \in Seq(Batch)
               /\ B.state = Export(FrontierAfter(cs)[k])
               /\ \A n \in DOMAIN B.released : \E a \in Author :
                     \E r \in AfterAt(cs, k)[a].ready : B.released[n] = <<a, r.sequence>>
               /\ \A a \in Author : \A r \in AfterAt(cs, k)[a].ready :
                     \E n \in DOMAIN B.released : B.released[n] = <<a, r.sequence>>
               /\ \A m, n \in DOMAIN B.released : B.released[m] = B.released[n] => m = n
<1> DEFINE B == BlockOf(AfterAt(cs, k))
           R == ReleasedBy(AfterAt(cs, k))
           s == B.released
           ready(a) == AfterAt(cs, k)[a].ready
<1>0. Len(cs) \in Nat
  BY Zenon DEF AllFit
<1>1. s = Release(R) /\ B.state = Export(FrontierOf(AfterAt(cs, k)))
  BY DEF BlockOf
<1>2. B.state = Export(FrontierAfter(cs)[k])
  BY <1>0, <1>1, FrontiersRun, Zenon
<1>3. /\ R \in SUBSET Entry
      /\ \A x \in R : \E r \in ready(x.author) : r.sequence = x.sequence
      /\ \A a \in Author : \A r \in ready(a) : \E x \in R : x.author = a /\ x.sequence = r.sequence
      /\ \A x, y \in R : x.author = y.author /\ x.sequence = y.sequence => x = y
  BY ReleasedEntries, Zenon
<1> HIDE DEF B, R, s, ready
<1>4. /\ s \in Seq(Batch)
      /\ \A x \in R : \E n \in DOMAIN s : s[n] = <<x.author, x.sequence>>
      /\ \A n \in DOMAIN s : \E x \in R :
            Rank(x, R) = n - 1 /\ s[n] = <<x.author, x.sequence>>
  <2>1. R \in SUBSET Entry
    BY <1>3, Zenon
  <2> QED
    BY <1>1, <2>1, ReleaseFacts, Zenon
<1>5. ASSUME NEW n \in DOMAIN s
      PROVE  \E a \in Author : \E r \in ready(a) : s[n] = <<a, r.sequence>>
  <2>1. PICK x \in R : s[n] = <<x.author, x.sequence>>
    BY <1>4, Zenon
  <2>2. PICK r \in ready(x.author) : r.sequence = x.sequence
    BY <1>3, Zenon
  <2>3. x.author \in Author
    BY <1>3, EntryFacts, Zenon
  <2> QED
    BY <2>1, <2>2, <2>3
<1>6. ASSUME NEW a \in Author, NEW r \in ready(a)
      PROVE  \E n \in DOMAIN s : s[n] = <<a, r.sequence>>
  <2>1. PICK x \in R : x.author = a /\ x.sequence = r.sequence
    BY <1>3, Zenon
  <2>2. PICK n \in DOMAIN s : s[n] = <<x.author, x.sequence>>
    BY <1>4, Zenon
  <2> QED
    BY <2>1, <2>2, Zenon
<1>7. ASSUME NEW m \in DOMAIN s, NEW n \in DOMAIN s, s[m] = s[n]
      PROVE  m = n
  <2>1. PICK x \in R : Rank(x, R) = m - 1 /\ s[m] = <<x.author, x.sequence>>
    BY <1>4, Zenon
  <2>2. PICK y \in R : Rank(y, R) = n - 1 /\ s[n] = <<y.author, y.sequence>>
    BY <1>4, Zenon
  <2>3. <<x.author, x.sequence>> = <<y.author, y.sequence>>
    BY <1>7, <2>1, <2>2, Zenon
  <2>4. x.author = y.author /\ x.sequence = y.sequence
    BY <2>3
  <2>5. m - 1 = n - 1
    BY <1>3, <2>1, <2>2, <2>4, Zenon
  <2>6. m \in Int /\ n \in Int
    <3>1. s \in Seq(Batch)
      BY <1>4, Zenon
    <3> QED
      BY <3>1
  <2> QED
    BY <2>5, <2>6
<1> QED
  BY <1>2, <1>4, <1>5, <1>6, <1>7, Zenon DEF s, B, ready

-----------------------------------------------------------------------------
(* One validator: its core, its blocks and what was handed back to it. *)

LEMMA GoneFacts ==
    ASSUME NEW cs, NEW a, NEW q
    PROVE  q \in Gone(cs, a) <=>
               \E k \in 1..Len(cs) : \E r \in AfterAt(cs, k)[a].ready : r.sequence = q
  BY DEF Gone

(* What applying a commit does to the core. *)
LEMMA MovedFields ==
    ASSUME NEW i, NEW c \in Core, NEW k \in 0..HandoverAt, NEW after,
           FrontierOf(after) \in [Author -> Frontier], NEW waiting, waiting \subseteq c.introduced,
           NEW through, through = IF i \in Author THEN after[i].next ELSE 0,
           NEW m, m = Moved(i, c, k, after, waiting)
    PROVE  /\ m.frontier = FrontierOf(after) /\ m.done = k
           /\ m.unintroduced \subseteq c.unintroduced /\ m.introduced \subseteq waiting
           /\ \A q \in m.introduced \cup m.unintroduced : q >= through
           /\ \A q \in waiting : q \in m.introduced \/ ~(q >= through)
           /\ m.payloads \subseteq c.payloads /\ m.pool \subseteq c.pool
           /\ m.next_sequence = c.next_sequence /\ m.round = c.round
           /\ m.resuming = c.resuming /\ m \in Core
<1> DEFINE Unreleased(b) == b[2] >= after[b[1]].next
           frontier == FrontierOf(after)
           payloads == {b \in c.payloads : Unreleased(b)}
           pool == {b \in c.pool : Unreleased(b)}
           unintroduced == {q \in c.unintroduced : q >= through}
           introduced == {q \in waiting : q >= through}
<1>1. m = [c EXCEPT !.frontier = frontier, !.payloads = payloads, !.pool = pool,
                    !.unintroduced = unintroduced, !.introduced = introduced, !.done = k]
  BY Zenon DEF Moved
<1>2. /\ payloads \subseteq c.payloads /\ pool \subseteq c.pool
      /\ unintroduced \subseteq c.unintroduced /\ introduced \subseteq waiting
      /\ \A q \in introduced \cup unintroduced : q >= through
      /\ \A q \in waiting : q \in introduced \/ ~(q >= through)
  BY Zenon
<1>3. c = [frontier |-> c.frontier, unintroduced |-> c.unintroduced, introduced |-> c.introduced,
           next_sequence |-> c.next_sequence, payloads |-> c.payloads, pool |-> c.pool,
           round |-> c.round, done |-> c.done, resuming |-> c.resuming]
      /\ c.unintroduced \in SUBSET Sequence /\ c.introduced \in SUBSET Sequence
      /\ c.next_sequence \in 0..MaxSequence /\ c.payloads \in SUBSET Batch
      /\ c.pool \in SUBSET Batch /\ c.round \in -1..MaxRound /\ c.resuming \in 0..HandoverAt
  BY DEF Core
<1> HIDE DEF frontier, payloads, pool, unintroduced, introduced
<1>4. m = [frontier |-> frontier, unintroduced |-> unintroduced, introduced |-> introduced,
           next_sequence |-> c.next_sequence, payloads |-> payloads, pool |-> pool,
           round |-> c.round, done |-> k, resuming |-> c.resuming]
  BY <1>1, <1>3, Zenon
<1>5. /\ m.frontier = frontier /\ m.done = k /\ m.unintroduced = unintroduced
      /\ m.introduced = introduced /\ m.payloads = payloads /\ m.pool = pool
      /\ m.next_sequence = c.next_sequence /\ m.round = c.round /\ m.resuming = c.resuming
  BY <1>4
<1>6. m \in Core
  <2>1. /\ payloads \in SUBSET Batch /\ pool \in SUBSET Batch
        /\ unintroduced \in SUBSET Sequence /\ introduced \in SUBSET Sequence
    BY <1>2, <1>3
  <2>2. frontier \in [Author -> Frontier]
    BY Zenon DEF frontier
  <2> QED
    BY <1>3, <1>4, <2>1, <2>2 DEF Core
<1> QED
  BY <1>2, <1>5, <1>6, Zenon DEF frontier

(* The batches of its own that a commit leaves waiting. *)
LEMMA WaitingFacts ==
    ASSUME NEW cs, NEW hi, AllFit(cs, hi), NEW k \in 1..Len(cs), NEW i, NEW introduced,
           NEW waiting, waiting = Unordered(i, introduced, ReleasedBy(AfterAt(cs, k)))
    PROVE  /\ waiting \subseteq introduced
           /\ \A q \in introduced : q \in waiting \/ q \in Gone(cs, i)
           /\ i \in Author => \A q \in waiting :
                 \A r \in AfterAt(cs, k)[i].ready : r.sequence # q
<1> DEFINE R == ReleasedBy(AfterAt(cs, k))
           U == {r.sequence : r \in {x \in R : x.author = i}}
           ready(a) == AfterAt(cs, k)[a].ready
<1>1. waiting = introduced \ U
  BY Zenon DEF Unordered
<1>2. /\ \A x \in R : \E r \in ready(x.author) : r.sequence = x.sequence
      /\ \A a \in Author : \A r \in ready(a) : \E x \in R : x.author = a /\ x.sequence = r.sequence
  BY ReleasedEntries
<1>3. \A q : q \in U <=> \E x \in R : x.author = i /\ x.sequence = q
  <2> HIDE DEF R
  <2> QED
    OBVIOUS
<1> HIDE DEF R, U, ready
<1>5. ASSUME NEW q \in introduced, q \notin waiting
      PROVE  q \in Gone(cs, i)
  <2>1. q \in U
    BY <1>1, <1>5, Zenon
  <2>2. PICK x \in R : x.author = i /\ x.sequence = q
    BY <1>3, <2>1, Zenon
  <2>3. PICK r \in ready(i) : r.sequence = q
    BY <1>2, <2>2, Zenon
  <2> QED
    BY <2>3, GoneFacts, Zenon DEF ready
<1>6. ASSUME i \in Author, NEW q \in waiting, NEW r \in ready(i), r.sequence = q
      PROVE  FALSE
  <2>1. PICK x \in R : x.author = i /\ x.sequence = r.sequence
    BY <1>2, <1>6, Zenon
  <2>2. q \in U
    BY <1>3, <1>6, <2>1, Zenon
  <2> QED
    BY <1>1, <1>6, <2>2, Zenon
<1> QED
  BY <1>1, <1>5, <1>6, Zenon DEF ready

(* A batch that commit k's frontier went past without releasing it never was  *)
(* nor will be released.                                                     *)
LEMMA SkippedForGood ==
    ASSUME NEW cs, NEW hi, AllFit(cs, hi), NEW k \in 1..Len(cs), NEW a \in Author, NEW q \in Nat,
           FrontierAfter(cs)[k - 1][a].next <= q, q < FrontierAfter(cs)[k][a].next,
           \A r \in AfterAt(cs, k)[a].ready : r.sequence # q
    PROVE  q < FrontierAfter(cs)[Len(cs)][a].next /\ q \notin Gone(cs, a)
<1> DEFINE next(n) == FrontierAfter(cs)[n][a].next
<1>1. Len(cs) \in Nat
  BY Zenon DEF AllFit
<1>2. k \in Nat /\ k - 1 \in 0..Len(cs) /\ k \in 0..Len(cs) /\ Len(cs) \in 0..Len(cs) /\ k <= Len(cs)
  BY <1>1
<1>3. next(k) <= next(Len(cs))
  BY <1>2, FrontiersRise, Zenon
<1>4. next(k) \in Nat /\ next(Len(cs)) \in Nat /\ next(k - 1) \in Nat
  <2>1. \A n \in 0..Len(cs) : next(n) \in 0..MaxSequence
    BY FrontiersKept, Zenon DEF Kept, Frontier
  <2>2. MaxSequence \in Nat
    BY Bounds, Zenon
  <2> HIDE DEF next
  <2> QED
    BY <1>2, <2>1, <2>2
<1>5. q < next(Len(cs)) /\ next(k - 1) <= q /\ q < next(k)
  <2>1. next(k - 1) <= q /\ q < next(k)
    BY Zenon
  <2> HIDE DEF next
  <2> QED
    BY <1>3, <1>4, <2>1
<1>6. ASSUME NEW l \in 1..Len(cs)
      PROVE  \A r \in AfterAt(cs, l)[a].ready : r.sequence # q
  <2>1. CASE l = k
    BY <2>1, Zenon
  <2>2. CASE k < l
    BY <1>2, <1>5, <2>2, ReleasedOnOneSide, Zenon
  <2>3. CASE l < k
    <3>1. l <= k - 1
      BY <1>1, <1>2, <2>3
    <3>2. q >= next(k - 1)
      <4> HIDE DEF next
      <4> QED
        BY <1>4, <1>5, Zenon
    <3> QED
      BY <1>2, <3>1, <3>2, ReleasedOnOneSide, Zenon
  <2> QED
    BY <1>1, <1>2, <2>1, <2>2, <2>3
<1>7. q \notin Gone(cs, a)
  BY <1>6, GoneFacts
<1> QED
  BY <1>5, <1>7, Zenon

(* What s and t, after the first k commits, have in common. *)
Progress(s, t, k) ==
    /\ t.core.done = k /\ t.core.next_sequence = s.core.next_sequence
    /\ t.core.resuming = s.core.resuming /\ t.core.pool \subseteq s.core.pool
    /\ DOMAIN s.blocks \subseteq DOMAIN t.blocks

(* commit keeps a validator good: the frontier moves as for everyone else,   *)
(* and its own batches stay waiting, are released or are handed back.        *)
LEMMA ApplyGood ==
    ASSUME NEW i, NEW s, NEW cs, NEW hi, AllFit(cs, hi), Len(cs) <= HandoverAt,
           NEW sealed \in SUBSET Sequence, NEW own, NEW way,
           Good(i, s, cs, sealed, own, way), s.core.done < Len(cs),
           NEW k, k = s.core.done + 1, NEW t, t = Apply(i, s, cs, k)
    PROVE  Good(i, t, cs, sealed, own, way) /\ Progress(s, t, k) /\ k \in DOMAIN t.blocks
<1> DEFINE after == AfterAt(cs, k)
           waiting == Unordered(i, s.core.introduced, ReleasedBy(after))
           c == Moved(i, s.core, k, after, waiting)
           skipped == IF i \in Author THEN Skipped(waiting, after[i].next) ELSE {}
           through == IF i \in Author THEN after[i].next ELSE 0
<1>1. /\ s.core \in Core
      /\ s.core.frontier = FrontierAfter(cs)[s.core.done]
      /\ s.core.introduced \subseteq sealed /\ s.core.unintroduced \subseteq sealed
      /\ DOMAIN s.blocks \subseteq 1..Len(cs)
      /\ \A l \in DOMAIN s.blocks : s.blocks[l] = BlockOf(AfterAt(cs, l))
      /\ s.handed \subseteq Sequence
  BY Zenon DEF Good
<1>2. /\ k \in 1..Len(cs) /\ k - 1 = s.core.done /\ k \in 0..HandoverAt
      /\ k \in 0..Len(cs) /\ s.core.done \in Nat /\ k \in Nat
  <2>1. s.core.done \in 0..HandoverAt
    BY <1>1, Zenon DEF Core
  <2>2. HandoverAt \in Nat /\ Len(cs) \in Nat
    BY Bounds, Zenon DEF AllFit
  <2> QED
    BY <2>1, <2>2
<1>3. /\ t.core = c
      /\ t.blocks = [l \in DOMAIN s.blocks \cup {k} |->
                        IF l = k THEN BlockOf(after) ELSE s.blocks[l]]
      /\ t.handed = s.handed \cup skipped
  <2>1. After(s.core.frontier, cs, k) = after
    BY <1>1, <1>2, Zenon DEF AfterAt
  <2>2. t = Applied(i, s, k, after)
    BY <2>1, Zenon DEF Apply
  <2> DEFINE b == [l \in DOMAIN s.blocks \cup {k} |->
                      IF l = k THEN BlockOf(after) ELSE s.blocks[l]]
             h == s.handed \cup skipped
  <2>3. t = [core |-> c, blocks |-> b, handed |-> h]
    <3> HIDE DEF after
    <3> QED
      BY <2>2, Zenon DEF Applied
  <2> HIDE DEF c, b, h
  <2>4. t.core = c /\ t.blocks = b /\ t.handed = h
    BY <2>3
  <2> QED
    BY <2>4, Zenon DEF b, h
<1>4. /\ FrontierOf(after) = FrontierAfter(cs)[k]
      /\ FrontierOf(after) \in [Author -> Frontier]
  <2>1. Len(cs) \in Nat
    BY Zenon DEF AllFit
  <2>2. FrontierOf(after) = FrontierAfter(cs)[k]
    BY <1>2, <2>1, FrontiersRun, Zenon
  <2>3. FrontierAfter(cs)[k] \in [Author -> Frontier]
    BY <1>2, FrontiersKept, Zenon
  <2> QED
    BY <2>2, <2>3, Zenon
<1>5. /\ waiting \subseteq s.core.introduced
      /\ \A q \in s.core.introduced : q \in waiting \/ q \in Gone(cs, i)
      /\ i \in Author => \A q \in waiting : \A r \in after[i].ready : r.sequence # q
  <2>1. waiting = Unordered(i, s.core.introduced, ReleasedBy(AfterAt(cs, k))) /\ k \in 1..Len(cs)
    BY <1>2, Zenon
  <2> HIDE DEF waiting
  <2> QED
    BY <2>1, WaitingFacts
<1> HIDE DEF after, waiting
<1>6. /\ c.frontier = FrontierOf(after) /\ c.done = k
      /\ c.unintroduced \subseteq s.core.unintroduced /\ c.introduced \subseteq waiting
      /\ \A q \in c.introduced \cup c.unintroduced : q >= through
      /\ \A q \in waiting : q \in c.introduced \/ ~(q >= through)
      /\ c.pool \subseteq s.core.pool
      /\ c.next_sequence = s.core.next_sequence
      /\ c.resuming = s.core.resuming
      /\ c \in Core
  <2>1. s.core \in Core /\ k \in 0..HandoverAt
        /\ FrontierOf(after) \in [Author -> Frontier] /\ waiting \subseteq s.core.introduced
    BY <1>1, <1>2, <1>4, <1>5, Zenon
  <2>2. c = Moved(i, s.core, k, after, waiting)
    BY Zenon
  <2>3. through = IF i \in Author THEN after[i].next ELSE 0
    BY Zenon
  <2> HIDE DEF c, through
  <2> QED
    BY <2>1, <2>2, <2>3, MovedFields
<1>7. /\ c.introduced \subseteq sealed /\ c.unintroduced \subseteq sealed
  <2> HIDE DEF c, through
  <2> QED
    BY <1>1, <1>5, <1>6, Zenon
<1>8. /\ DOMAIN t.blocks = DOMAIN s.blocks \cup {k}
      /\ DOMAIN t.blocks \subseteq 1..Len(cs)
      /\ \A l \in DOMAIN t.blocks : t.blocks[l] = BlockOf(AfterAt(cs, l))
  <2>1. DOMAIN t.blocks = DOMAIN s.blocks \cup {k}
    BY <1>3, Zenon
  <2>2. ASSUME NEW l \in DOMAIN t.blocks PROVE t.blocks[l] = BlockOf(AfterAt(cs, l))
    BY <1>1, <1>3, <2>1 DEF after
  <2> QED
    BY <1>1, <1>2, <2>1, <2>2, Zenon
<1>9. \A q \in waiting : q \in Sequence /\ q \in Nat
  <2>1. MaxSequence \in Nat
    BY Bounds, Zenon
  <2>2. \A q \in Sequence : q \in Nat
    BY <2>1 DEF Sequence
  <2> QED
    BY <1>1, <1>5, <2>2, Zenon
<1>10. skipped \subseteq waiting
  BY Zenon DEF Skipped
<1>11. t.handed \subseteq Sequence
  <2> HIDE DEF skipped
  <2> QED
    BY <1>1, <1>3, <1>9, <1>10, Zenon
<1>12. ASSUME i \in Author
       PROVE  /\ after[i].next = FrontierAfter(cs)[k][i].next /\ through = after[i].next
              /\ skipped = Skipped(waiting, after[i].next)
  <2>1. FrontierAfter(cs)[k][i] = [next |-> after[i].next, early |-> after[i].early]
    BY <1>2, <1>12, ReleasedBetween, Zenon DEF after
  <2>2. through = after[i].next /\ skipped = Skipped(waiting, after[i].next)
    BY <1>12, Zenon
  <2>3. after[i].next = FrontierAfter(cs)[k][i].next
    <3> HIDE DEF after
    <3> QED
      BY <2>1
  <2> QED
    BY <2>2, <2>3, Zenon
<1>13. ASSUME i \in Author, way # "resumed" PROVE Ahead(i, c)
  <2>1. c.frontier[i].next = through
    BY <1>4, <1>6, <1>12, <1>13, Zenon
  <2> HIDE DEF c, through
  <2> QED
    BY <1>6, <2>1, Zenon DEF Ahead
<1>14. ASSUME i \in Author, way = "ordered" PROVE Final(i, t.handed, cs)
  <2>1. Final(i, s.handed, cs) /\ Ahead(i, s.core)
    BY <1>14, Zenon DEF Good
  <2>2. ASSUME NEW q \in skipped
        PROVE  q < FrontierAfter(cs)[Len(cs)][i].next /\ q \notin Gone(cs, i)
    <3>1. q \in waiting /\ q < after[i].next
      BY <1>12, <1>14, <2>2, Zenon DEF Skipped
    <3>2. q \in Nat /\ q \in s.core.introduced
      BY <1>5, <1>9, <3>1, Zenon
    <3>3. q >= FrontierAfter(cs)[k - 1][i].next
      BY <1>1, <1>2, <2>1, <3>2, Zenon DEF Ahead
    <3>4. FrontierAfter(cs)[k - 1][i].next \in 0..MaxSequence /\ MaxSequence \in Nat
      BY <1>2, <1>14, Bounds, ReleasedBetween, Zenon
    <3>5. FrontierAfter(cs)[k - 1][i].next <= q
      BY <3>2, <3>3, <3>4
    <3>6. q < FrontierAfter(cs)[k][i].next
      BY <1>12, <1>14, <3>1, Zenon
    <3>7. \A r \in AfterAt(cs, k)[i].ready : r.sequence # q
      BY <1>5, <1>14, <3>1, Zenon DEF after
    <3> QED
      BY <1>2, <1>14, <3>2, <3>5, <3>6, <3>7, SkippedForGood, Zenon
  <2> HIDE DEF skipped
  <2> QED
    BY <1>3, <2>1, <2>2, Zenon DEF Final
<1>15. ASSUME i \in Author, NEW q \in own
       PROVE  q \in c.introduced \cup t.handed \cup Gone(cs, i)
  <2>1. q \in s.core.introduced \/ q \in s.handed \/ q \in Gone(cs, i)
    BY <1>15, Zenon DEF Good
  <2>2. CASE q \in s.core.introduced /\ q \notin Gone(cs, i)
    <3>1. q \in waiting
      BY <1>5, <1>15, <2>2, Zenon
    <3>2. q >= through \/ q < after[i].next
      <4>1. after[i].next \in 0..MaxSequence /\ MaxSequence \in Nat
        <5>1. FrontierAfter(cs)[k][i].next \in 0..MaxSequence
          BY <1>2, <1>15, ReleasedBetween, Zenon
        <5> QED
          BY <1>12, <1>15, <5>1, Bounds, Zenon
      <4>2. q \in Nat /\ through = after[i].next
        BY <1>9, <1>12, <1>15, <3>1, Zenon
      <4> HIDE DEF through
      <4> QED
        BY <4>1, <4>2
    <3>3. CASE q >= through
      <4> HIDE DEF c, through
      <4> QED
        BY <1>6, <3>1, <3>3, Zenon
    <3>4. CASE q < after[i].next
      <4>1. q \in skipped
        BY <1>12, <1>15, <3>1, <3>4, Zenon DEF Skipped
      <4> HIDE DEF skipped
      <4> QED
        BY <1>3, <4>1, Zenon
    <3> QED
      BY <3>2, <3>3, <3>4, Zenon
  <2>3. CASE q \in s.handed
    <3> HIDE DEF skipped
    <3> QED
      BY <1>3, <2>3, Zenon
  <2> QED
    BY <2>1, <2>2, <2>3, Zenon
<1>16. Good(i, t, cs, sealed, own, way)
  <2>1. c.done <= Len(cs) /\ c.frontier = FrontierAfter(cs)[c.done]
    <3>1. c.frontier = FrontierAfter(cs)[c.done]
      BY <1>4, <1>6, Zenon
    <3>2. Len(cs) \in Nat
      BY Zenon DEF AllFit
    <3>3. k <= Len(cs)
      BY <1>2, <3>2
    <3> QED
      BY <1>6, <3>1, <3>3, Zenon
  <2> HIDE DEF c
  <2> QED
    BY <1>3, <1>6, <1>7, <1>8, <1>11, <1>13, <1>14, <1>15, <2>1, Zenon DEF Good
<1> HIDE DEF c
<1> QED
  BY <1>3, <1>6, <1>8, <1>16, Zenon DEF Progress

(* recover: the replay of the commits the journal leads to keeps it good. *)
LEMMA ReplayGood ==
    ASSUME NEW i, NEW s, NEW cs, NEW hi, AllFit(cs, hi), Len(cs) <= HandoverAt,
           NEW sealed \in SUBSET Sequence, NEW own, NEW way,
           NEW base \in Nat, NEW d \in Nat, base <= d, d <= Len(cs),
           Good(i, s, cs, sealed, own, way), s.core.done = base,
           NEW t, t = Replay(i, s, cs, base, d)
    PROVE  Good(i, t, cs, sealed, own, way) /\ Progress(s, t, d)
<1>0. PICK g : Replays(g, i, s, cs, base, d)
  BY ReplayRuns, Zenon
<1>1. /\ g[base] = s
      /\ \A k \in (base + 1)..d : g[k] = Apply(i, g[k - 1], cs, k)
      /\ Replay(i, s, cs, base, d) = g[d]
  BY <1>0, Zenon DEF Replays
<1> DEFINE P(k) == Good(i, g[k], cs, sealed, own, way) /\ Progress(s, g[k], k)
           Bad == {k \in base..d : ~P(k)}
<1>2. Len(cs) \in Nat
  BY Zenon DEF AllFit
<1>3. P(base)
  BY <1>1, Zenon DEF Progress
<1>4. ASSUME NEW k \in (base + 1)..d, P(k - 1) PROVE P(k)
  <2> DEFINE u == g[k - 1]
             w == g[k]
  <2>1. k - 1 < Len(cs) /\ (k - 1) + 1 = k
    BY <1>2
  <2>2. Good(i, u, cs, sealed, own, way) /\ Progress(s, u, k - 1)
    BY <1>4, Zenon
  <2>3. w = Apply(i, u, cs, k)
    BY <1>1, Zenon
  <2> HIDE DEF u, w
  <2>4. u.core.done < Len(cs) /\ k = u.core.done + 1
    BY <2>1, <2>2, Zenon DEF Progress
  <2>5. Good(i, w, cs, sealed, own, way) /\ Progress(u, w, k)
    BY <2>2, <2>3, <2>4, ApplyGood
  <2>6. Progress(s, w, k)
    BY <2>2, <2>5, Zenon DEF Progress
  <2> QED
    BY <2>5, <2>6, Zenon DEF w
<1> HIDE DEF P
<1>5. ASSUME Bad # {} PROVE FALSE
  <2>1. Bad \subseteq Nat
    OBVIOUS
  <2>2. PICK k \in Bad : \A l \in Bad : k <= l
    BY <1>5, <2>1, NatLeast, Zenon
  <2>3. k \in base..d /\ ~P(k)
    BY <2>2, Zenon
  <2>4. k # base
    BY <1>3, <2>3, Zenon
  <2>5. k \in (base + 1)..d /\ k - 1 \in base..d /\ ~(k <= k - 1)
    BY <2>3, <2>4
  <2>6. k - 1 \notin Bad
    BY <2>2, <2>5, Zenon
  <2>7. P(k - 1)
    BY <2>5, <2>6, Zenon
  <2> QED
    BY <1>4, <2>3, <2>5, <2>7, Zenon
<1>6. d \in base..d
  OBVIOUS
<1>7. P(d)
  BY <1>5, <1>6, Zenon
<1> QED
  BY <1>1, <1>7, Zenon DEF P

(* A new commit leaves good the validators that did not apply it yet. *)
LEMMA MoreCommits ==
    ASSUME NEW i, NEW s, NEW cs, NEW ds, NEW hi, AllFit(ds, hi), Len(cs) \in Nat,
           Len(cs) < HandoverAt, Len(ds) = Len(cs) + 1, \A k \in 1..Len(cs) : ds[k] = cs[k],
           NEW sealed, NEW own, NEW way,
           Good(i, s, cs, sealed, own, way)
    PROVE  Good(i, s, ds, sealed, own, way)
<1>1. /\ s.core \in Core /\ s.core.done <= Len(cs)
      /\ s.core.frontier = FrontierAfter(cs)[s.core.done]
      /\ s.core.introduced \subseteq sealed /\ s.core.unintroduced \subseteq sealed
      /\ DOMAIN s.blocks \subseteq 1..Len(cs)
      /\ \A k \in DOMAIN s.blocks : s.blocks[k] = BlockOf(AfterAt(cs, k))
      /\ s.handed \subseteq Sequence
  BY Zenon DEF Good
<1>2. /\ Len(ds) \in Nat /\ Len(cs) <= Len(ds) /\ Len(cs) < Len(ds) /\ Len(cs) # HandoverAt
      /\ Len(cs) \in 0..Len(cs) /\ Len(cs) \in 0..Len(ds) /\ Len(ds) \in 0..Len(ds)
      /\ \A k \in 1..Len(cs) : k \in 1..Len(ds)
      /\ \A k \in 1..Len(ds) : k \in 1..Len(cs) \/ Len(cs) < k
  <2>1. HandoverAt \in Nat
    BY Bounds, Zenon
  <2> QED
    BY <2>1
<1>3. /\ \A n \in 0..Len(cs) : FrontierAfter(ds)[n] = FrontierAfter(cs)[n]
      /\ \A k \in 1..Len(cs) : AfterAt(ds, k) = AfterAt(cs, k)
  BY <1>2, SamePrefix, Zenon
<1>4. s.core.done \in 0..Len(cs) /\ s.core.done <= Len(ds)
  <2>1. s.core.done \in 0..HandoverAt /\ HandoverAt \in Nat
    BY <1>1, Bounds, Zenon DEF Core
  <2> QED
    BY <1>1, <1>2, <2>1
<1>5. s.core.frontier = FrontierAfter(ds)[s.core.done]
  BY <1>1, <1>3, <1>4, Zenon
<1>6. DOMAIN s.blocks \subseteq 1..Len(ds)
      /\ \A k \in DOMAIN s.blocks : s.blocks[k] = BlockOf(AfterAt(ds, k))
  BY <1>1, <1>2, <1>3, Zenon
<1>7. ASSUME NEW q \in Gone(cs, i) PROVE q \in Gone(ds, i)
  <2>1. PICK k \in 1..Len(cs) : \E r \in AfterAt(cs, k)[i].ready : r.sequence = q
    BY GoneFacts
  <2>2. \E r \in AfterAt(ds, k)[i].ready : r.sequence = q
    BY <1>3, <2>1, Zenon
  <2> QED
    BY <1>2, <2>2, GoneFacts, Zenon
<1>8. ASSUME i \in Author, NEW q \in s.handed, Final(i, s.handed, cs)
      PROVE  q < FrontierAfter(ds)[Len(ds)][i].next /\ q \notin Gone(ds, i)
  <2>1. q < FrontierAfter(cs)[Len(cs)][i].next /\ q \notin Gone(cs, i)
    BY <1>2, <1>8, Zenon DEF Final
  <2>2. q < FrontierAfter(ds)[Len(cs)][i].next
    BY <1>2, <1>3, <2>1, Zenon
  <2>3. FrontierAfter(ds)[Len(cs)][i].next <= FrontierAfter(ds)[Len(ds)][i].next
    BY <1>2, <1>8, FrontiersRise, Zenon
  <2>4. q \in Nat /\ FrontierAfter(ds)[Len(cs)][i].next \in Nat
        /\ FrontierAfter(ds)[Len(ds)][i].next \in Nat
    <3>1. MaxSequence \in Nat /\ q \in Sequence
      BY <1>1, <1>8, Bounds, Zenon
    <3>2. \A n \in 0..Len(ds) : FrontierAfter(ds)[n][i].next \in 0..MaxSequence
      BY <1>8, FrontiersKept, Zenon DEF Kept, Frontier
    <3>3. FrontierAfter(ds)[Len(cs)][i].next \in 0..MaxSequence
          /\ FrontierAfter(ds)[Len(ds)][i].next \in 0..MaxSequence
      BY <1>2, <3>2, Zenon
    <3> QED
      BY <3>1, <3>3 DEF Sequence
  <2>5. q < FrontierAfter(ds)[Len(ds)][i].next
    BY <2>2, <2>3, <2>4
  <2>6. ASSUME NEW k \in 1..Len(ds), NEW r \in AfterAt(ds, k)[i].ready, r.sequence = q
        PROVE  FALSE
    <3>1. CASE k \in 1..Len(cs)
      BY <1>3, <2>1, <2>6, <3>1, GoneFacts, Zenon
    <3>2. CASE Len(cs) < k
      BY <1>2, <1>8, <2>2, <2>4, <2>6, <3>2, ReleasedOnOneSide, Zenon
    <3> QED
      BY <1>2, <3>1, <3>2, Zenon
  <2>7. q \notin Gone(ds, i)
    BY <2>6, GoneFacts
  <2> QED
    BY <2>5, <2>7, Zenon
<1>9. (i \in Author /\ way # "resumed") => Ahead(i, s.core)
  BY Zenon DEF Good
<1>10. (i \in Author /\ way = "ordered") => Final(i, s.handed, ds)
  BY <1>8, Zenon DEF Good, Final
<1>11. (i \in Author) => (own \subseteq s.core.introduced \cup s.handed \cup Gone(ds, i))
  BY <1>7, Zenon DEF Good
<1> QED
  BY <1>1, <1>4, <1>5, <1>6, <1>9, <1>10, <1>11, Zenon DEF Good

-----------------------------------------------------------------------------
(* The steps of the system. *)

Decision == [anchor : Vertex, history : SUBSET Vertex]

(* Commits of vertices that name sealed batches only. *)
LEMMA FitCommits ==
    ASSUME NEW cs \in Seq(Decision), NEW vs \in SUBSET Vertex,
           \A c \in Range(cs) : c.anchor \in c.history /\ c.history \subseteq vs,
           NEW hi \in [Author -> 0..MaxSequence],
           \A v \in vs : v.source \in Author => v.batches \subseteq 0..(hi[v.source] - 1),
           \A v \in vs : \A b \in v.carried : b[2] \in 0..(hi[b[1]] - 1)
    PROVE  AllFit(cs, hi)
<1>1. Len(cs) \in Nat /\ DOMAIN cs = 1..Len(cs) /\ \A k \in 1..Len(cs) : cs[k] \in Decision
  <2> HIDE DEF Decision
  <2> QED
    OBVIOUS
<1>2. ASSUME NEW k \in 1..Len(cs), NEW a \in Author PROVE Fits(cs[k], a, hi[a])
  <2> DEFINE c == cs[k]
  <2>1. c \in Decision /\ c \in Range(cs)
    BY <1>1, Zenon DEF Range
  <2> HIDE DEF c
  <2>2. c.anchor \in c.history /\ c.history \subseteq vs /\ c.anchor \in Vertex
    BY <2>1, Zenon DEF Decision
  <2>3. c.anchor.round \in Round
    BY <2>2, Zenon DEF Vertex
  <2>4. \A v \in c.history : v.source = a => v.batches \subseteq 0..(hi[a] - 1)
    BY <2>2, Zenon
  <2>5. \A b \in c.anchor.carried : b[1] = a => b[2] \in 0..(hi[a] - 1)
    BY <2>2, Zenon
  <2>6. Fits(c, a, hi[a])
    BY <2>3, <2>4, <2>5, Zenon DEF Fits
  <2> QED
    BY <2>6, Zenon DEF c
<1> QED
  BY <1>1, <1>2, Zenon DEF AllFit

Sealing == [a \in Author |-> core[a].next_sequence]

LEMMA SealedTypes ==
    ASSUME TypeOK, SealedFirst
    PROVE  /\ Sealing \in [Author -> 0..MaxSequence]
           /\ \A v \in vertices : v.source \in Author => v.batches \subseteq 0..(Sealing[v.source] - 1)
           /\ \A v \in vertices : \A b \in v.carried : b[2] \in 0..(Sealing[b[1]] - 1)
<1>1. core \in [Validator -> Core] /\ Author \subseteq Validator /\ vertices \subseteq Vertex
  BY Bounds, Zenon DEF TypeOK
<1>2. \A a \in Author : core[a].next_sequence \in 0..MaxSequence
  BY <1>1, Zenon DEF Core
<1>3. Sealing \in [Author -> 0..MaxSequence]
  BY <1>2, Zenon DEF Sealing
<1>4. \A a \in Author : disk[a].sealed = 0..(Sealing[a] - 1)
  BY <1>1, Zenon DEF SealedFirst, Sealing
<1>5. \A v \in vertices : \A b \in v.carried : b[2] \in disk[b[1]].sealed /\ b[1] \in Author
  <2>1. \A v \in vertices : v.carried \subseteq Batch
    BY <1>1, Zenon DEF Vertex
  <2>2. \A b \in Batch : b[1] \in Author
    BY DEF Batch
  <2> QED
    BY <2>1, <2>2, Zenon DEF SealedFirst
<1>6. \A v \in vertices : v.batches \subseteq disk[v.source].sealed
  BY Zenon DEF SealedFirst
<1> QED
  BY <1>3, <1>4, <1>5, <1>6, Zenon

LEMMA InvFits ==
    ASSUME BatchInv
    PROVE  AllFit(commits, Sealing)
<1>1. TypeOK /\ SealedFirst
  BY Zenon DEF BatchInv
<1>2. /\ commits \in Seq(Decision) /\ vertices \in SUBSET Vertex
      /\ \A c \in Range(commits) : c.anchor \in c.history /\ c.history \subseteq vertices
  BY <1>1, Zenon DEF TypeOK, Decision
<1> QED
  BY <1>1, <1>2, SealedTypes, FitCommits, Zenon

(* What the journal of i and the others' say of core c, journal d and pool. *)
Seals(i, c, d) ==
    /\ d.sealed = 0..(c.next_sequence - 1) /\ disk[i].sealed \subseteq d.sealed
    /\ i \notin Author => c.next_sequence = 0
    /\ \A x \in c.pool : x[2] \in disk[x[1]].sealed

(* A step of validator i to core c, journal d, blocks b, batches h handed     *)
(* back and completion m.                                                    *)
StepTo(i, c, d, b, h, m) ==
    /\ core' = [core EXCEPT ![i] = c] /\ disk' = [disk EXCEPT ![i] = d]
    /\ handed' = [handed EXCEPT ![i] = h] /\ complete' = [complete EXCEPT ![i] = m]
    /\ DOMAIN blocks' = Validator /\ blocks'[i] = b
    /\ \A j \in Validator \ {i} : blocks'[j] = blocks[j]
    /\ crashes' \in 0..MaxCrashes /\ resumes' \in 0..MaxResumes

(* A step by one validator that stands, with the others standing, keeps the   *)
(* invariant.                                                                *)
LEMMA StepInv ==
    ASSUME BatchInv, NEW i \in Validator, NEW c \in Core, NEW d \in Disk, NEW b, NEW h, NEW m,
           m \in {"no", "halted", "adopted"}, StepTo(i, c, d, b, h, m), Seals(i, c, d),
           vertices \subseteq vertices',
           \A v \in vertices' \ vertices :
              /\ v \in Vertex /\ v.source = i /\ v.batches \subseteq d.sealed
              /\ \A x \in v.carried : x[2] \in disk[x[1]].sealed,
           d.own \subseteq {v \in vertices' : v.source = i},
           commits' \in Seq(Decision), Len(commits') <= HandoverAt,
           \A e \in Range(commits') : e.anchor \in e.history /\ e.history \subseteq vertices',
           AllFit(commits', Sealing),
           DOMAIN blocks[i] \subseteq DOMAIN b,
           \A k \in 1..Len(commits') : k \in DOMAIN b \/ \E j \in Validator : k \in DOMAIN blocks[j],
           Stands(i, c, d, b, h, m, commits'),
           \A j \in Validator \ {i} :
              Stands(j, core[j], disk[j], blocks[j], handed[j], complete[j], commits')
    PROVE  BatchInv'
<1>1. /\ TypeOK /\ SealedFirst
      /\ \A j \in Validator : Stands(j, core[j], disk[j], blocks[j], handed[j], complete[j], commits)
  BY Zenon DEF BatchInv
<1>2. /\ vertices \subseteq Vertex /\ core \in [Validator -> Core] /\ disk \in [Validator -> Disk]
      /\ DOMAIN blocks = Validator /\ handed \in [Validator -> SUBSET Sequence]
      /\ complete \in [Validator -> {"no", "halted", "adopted"}]
  BY <1>1, Zenon DEF TypeOK
<1>3. h \in SUBSET Sequence
  BY Zenon DEF Stands, Good
<1>4. /\ core' \in [Validator -> Core] /\ disk' \in [Validator -> Disk]
      /\ DOMAIN blocks' = Validator /\ handed' \in [Validator -> SUBSET Sequence]
      /\ complete' \in [Validator -> {"no", "halted", "adopted"}]
      /\ crashes' \in 0..MaxCrashes /\ resumes' \in 0..MaxResumes
  BY <1>2, <1>3, Zenon DEF StepTo
<1>5. /\ core'[i] = c /\ disk'[i] = d /\ blocks'[i] = b /\ handed'[i] = h /\ complete'[i] = m
      /\ \A j \in Validator \ {i} :
            /\ core'[j] = core[j] /\ disk'[j] = disk[j] /\ blocks'[j] = blocks[j]
            /\ handed'[j] = handed[j] /\ complete'[j] = complete[j]
  BY <1>2, Zenon DEF StepTo
<1>6. \A j \in Validator :
         Stands(j, core'[j], disk'[j], blocks'[j], handed'[j], complete'[j], commits')
  <2> SUFFICES ASSUME NEW j \in Validator
               PROVE  Stands(j, core'[j], disk'[j], blocks'[j], handed'[j], complete'[j], commits')
    BY Zenon
  <2>1. CASE j = i
    BY <1>5, <2>1, Zenon
  <2>2. CASE j # i
    BY <1>5, <2>2
  <2> QED
    BY <2>1, <2>2, Zenon
<1>7. \A j \in Validator : disk[j].sealed \subseteq disk'[j].sealed
  BY <1>5, Zenon DEF Seals
<1>8. ASSUME NEW x, x[1] \in Validator, x[2] \in disk[x[1]].sealed
      PROVE  x[2] \in disk'[x[1]].sealed
  BY <1>7, <1>8, Zenon
<1>9. \A x \in Batch : x[1] \in Validator
  <2>1. Author \subseteq Validator
    BY Bounds, Zenon
  <2> QED
    BY <2>1 DEF Batch
<1>10. vertices' \subseteq Vertex
  BY <1>2, Zenon
<1>11. ASSUME NEW v \in vertices'
       PROVE  /\ v.batches \subseteq disk'[v.source].sealed
              /\ \A x \in v.carried : x[2] \in disk'[x[1]].sealed
  <2>1. v.carried \subseteq Batch /\ v.source \in Validator
    BY <1>10, Zenon DEF Vertex
  <2>2. \A x \in v.carried : x[2] \in disk[x[1]].sealed
    BY <1>1, Zenon DEF SealedFirst
  <2>3. \A x \in v.carried : x[2] \in disk'[x[1]].sealed
    BY <1>8, <1>9, <2>1, <2>2, Zenon
  <2>4. CASE v \in vertices
    <3>1. v.batches \subseteq disk[v.source].sealed
      BY <1>1, <2>4, Zenon DEF SealedFirst
    <3> QED
      BY <1>7, <2>1, <2>3, <3>1, Zenon
  <2>5. CASE v \notin vertices
    BY <1>5, <2>3, <2>5, Zenon
  <2> QED
    BY <2>4, <2>5, Zenon
<1>12. ASSUME NEW j \in Validator
       PROVE  /\ disk'[j].sealed = 0..(core'[j].next_sequence - 1)
              /\ j \notin Author => core'[j].next_sequence = 0
              /\ core'[j].introduced \cup core'[j].unintroduced \subseteq disk'[j].sealed
              /\ disk'[j].own \subseteq {v \in vertices' : v.source = j}
              /\ \A x \in core'[j].pool : x[2] \in disk'[x[1]].sealed
  <2>1. core'[j].introduced \cup core'[j].unintroduced \subseteq disk'[j].sealed
    <3>1. Good(j, [core |-> core'[j], blocks |-> blocks'[j], handed |-> handed'[j]], commits',
               disk'[j].sealed, Own(core'[j], disk'[j]), Way(disk'[j], complete'[j]))
      BY <1>6, Zenon DEF Stands
    <3> QED
      BY <3>1, Zenon DEF Good
  <2>2. core'[j].pool \subseteq Batch
    BY <1>4, Zenon DEF Core
  <2>3. CASE j = i
    <3>1. \A x \in c.pool : x[2] \in disk[x[1]].sealed
      BY Zenon DEF Seals
    <3>2. \A x \in core'[j].pool : x[2] \in disk'[x[1]].sealed
      BY <1>5, <1>8, <1>9, <2>2, <2>3, <3>1, Zenon
    <3>3. /\ d.sealed = 0..(c.next_sequence - 1)
          /\ i \notin Author => c.next_sequence = 0
      BY Zenon DEF Seals
    <3> QED
      BY <1>5, <2>1, <2>3, <3>2, <3>3, Zenon
  <2>4. CASE j # i
    <3>1. /\ disk[j].sealed = 0..(core[j].next_sequence - 1)
          /\ j \notin Author => core[j].next_sequence = 0
          /\ disk[j].own \subseteq {v \in vertices : v.source = j}
          /\ \A x \in core[j].pool : x[2] \in disk[x[1]].sealed
      BY <1>1, Zenon DEF SealedFirst
    <3>2. core'[j] = core[j] /\ disk'[j] = disk[j]
      BY <1>5, <2>4, Zenon
    <3>3. \A x \in core'[j].pool : x[2] \in disk'[x[1]].sealed
      BY <1>8, <1>9, <2>2, <3>1, <3>2, Zenon
    <3> QED
      BY <2>1, <3>1, <3>2, <3>3, Zenon
  <2> QED
    BY <2>3, <2>4, Zenon
<1>13. SealedFirst'
  BY <1>11, <1>12, Zenon DEF SealedFirst
<1>14. ASSUME NEW j \in Validator
       PROVE  /\ DOMAIN blocks'[j] \subseteq 1..Len(commits')
              /\ \A k \in DOMAIN blocks'[j] : blocks'[j][k].released \in Seq(Batch)
  <2>1. Good(j, [core |-> core'[j], blocks |-> blocks'[j], handed |-> handed'[j]], commits',
             disk'[j].sealed, Own(core'[j], disk'[j]), Way(disk'[j], complete'[j]))
    BY <1>6, Zenon DEF Stands
  <2>2. /\ DOMAIN blocks'[j] \subseteq 1..Len(commits')
        /\ \A k \in DOMAIN blocks'[j] : blocks'[j][k] = BlockOf(AfterAt(commits', k))
    BY <2>1, Zenon DEF Good
  <2>3. \A k \in 1..Len(commits') : BlockOf(AfterAt(commits', k)).released \in Seq(Batch)
    BY BlockFacts, Zenon
  <2> QED
    BY <2>2, <2>3, Zenon
<1>15. TypeOK'
  BY <1>4, <1>10, <1>14, Zenon DEF TypeOK, Decision
<1>16. \A k \in 1..Len(commits') : \E j \in Validator : k \in DOMAIN blocks'[j]
  BY <1>5, Zenon
<1> QED
  BY <1>6, <1>13, <1>15, <1>16, Zenon DEF BatchInv

(* The same for a step that neither proposes nor commits. *)
LEMMA LocalStep ==
    ASSUME BatchInv, NEW i \in Validator, NEW c \in Core, NEW d \in Disk, NEW b, NEW h, NEW m,
           m \in {"no", "halted", "adopted"}, StepTo(i, c, d, b, h, m), Seals(i, c, d),
           vertices' = vertices, commits' = commits,
           d.own \subseteq disk[i].own, DOMAIN blocks[i] \subseteq DOMAIN b,
           Stands(i, c, d, b, h, m, commits)
    PROVE  BatchInv'
<1>1. /\ TypeOK /\ SealedFirst /\ Len(commits) <= HandoverAt
      /\ \A k \in 1..Len(commits) : \E j \in Validator : k \in DOMAIN blocks[j]
      /\ \A j \in Validator : Stands(j, core[j], disk[j], blocks[j], handed[j], complete[j], commits)
  BY Zenon DEF BatchInv
<1>2. /\ commits \in Seq(Decision)
      /\ \A e \in Range(commits) : e.anchor \in e.history /\ e.history \subseteq vertices
  BY <1>1, Zenon DEF TypeOK, Decision
<1>3. d.own \subseteq {v \in vertices : v.source = i}
  BY <1>1, Zenon DEF SealedFirst
<1>4. AllFit(commits, Sealing)
  BY InvFits, Zenon
<1>5. /\ vertices \subseteq vertices' /\ vertices' \ vertices = {}
      /\ d.own \subseteq {v \in vertices' : v.source = i}
      /\ commits' \in Seq(Decision) /\ Len(commits') <= HandoverAt
      /\ \A e \in Range(commits') : e.anchor \in e.history /\ e.history \subseteq vertices'
      /\ AllFit(commits', Sealing)
      /\ \A k \in 1..Len(commits') : k \in DOMAIN b \/ \E j \in Validator : k \in DOMAIN blocks[j]
      /\ Stands(i, c, d, b, h, m, commits')
      /\ \A j \in Validator \ {i} :
            Stands(j, core[j], disk[j], blocks[j], handed[j], complete[j], commits')
  BY <1>1, <1>2, <1>3, <1>4, Zenon
<1> QED
  BY <1>5, StepInv, Zenon

(* What the invariant says of one validator. *)
LEMMA Here ==
    ASSUME BatchInv, NEW i \in Validator
    PROVE  /\ core[i] \in Core /\ disk[i] \in Disk /\ handed[i] \in SUBSET Sequence
           /\ complete[i] \in {"no", "halted", "adopted"}
           /\ Seals(i, core[i], disk[i])
           /\ core[i].resuming <= Len(commits)
           /\ disk[i].base <= disk[i].done /\ disk[i].done <= Len(commits)
           /\ Good(i, Local(i), commits, disk[i].sealed, Own(core[i], disk[i]),
                   Way(disk[i], complete[i]))
           /\ Len(commits) \in Nat /\ Len(commits) <= HandoverAt
<1>1. TypeOK /\ SealedFirst /\ Len(commits) <= HandoverAt
      /\ Stands(i, core[i], disk[i], blocks[i], handed[i], complete[i], commits)
  BY Zenon DEF BatchInv
<1>2. /\ core[i] \in Core /\ disk[i] \in Disk /\ handed[i] \in SUBSET Sequence
      /\ complete[i] \in {"no", "halted", "adopted"}
  BY <1>1, Zenon DEF TypeOK
<1>3. Seals(i, core[i], disk[i])
  BY <1>1, Zenon DEF SealedFirst, Seals
<1>4. Len(commits) \in Nat
  BY InvFits, Zenon DEF AllFit
<1> QED
  BY <1>1, <1>2, <1>3, <1>4, Zenon DEF Stands, Local

(* What a step that leaves a variable alone assigns to it. *)
LEMMA SameAt ==
    ASSUME NEW S, NEW T, NEW f \in [S -> T], NEW i \in S
    PROVE  f = [f EXCEPT ![i] = f[i]]
  OBVIOUS

LEMMA Unmoved ==
    ASSUME BatchInv, NEW i \in Validator
    PROVE  /\ core = [core EXCEPT ![i] = core[i]] /\ disk = [disk EXCEPT ![i] = disk[i]]
           /\ handed = [handed EXCEPT ![i] = handed[i]]
           /\ complete = [complete EXCEPT ![i] = complete[i]]
           /\ crashes \in 0..MaxCrashes /\ resumes \in 0..MaxResumes
           /\ DOMAIN blocks = Validator
<1>1. /\ core \in [Validator -> Core] /\ disk \in [Validator -> Disk]
      /\ handed \in [Validator -> SUBSET Sequence]
      /\ complete \in [Validator -> {"no", "halted", "adopted"}]
      /\ crashes \in 0..MaxCrashes /\ resumes \in 0..MaxResumes
      /\ DOMAIN blocks = Validator
  BY Zenon DEF BatchInv, TypeOK
<1> QED
  BY <1>1, SameAt, Zenon

(* A core that changes neither its frontier nor its own batches stays good. *)
LEMMA SameGood ==
    ASSUME NEW i, NEW s, NEW cs, NEW sealed, NEW own, NEW way, Good(i, s, cs, sealed, own, way),
           NEW c \in Core, c.frontier = s.core.frontier, c.done = s.core.done,
           c.introduced = s.core.introduced, c.unintroduced = s.core.unintroduced,
           NEW t, t = [core |-> c, blocks |-> s.blocks, handed |-> s.handed]
    PROVE  Good(i, t, cs, sealed, own, way)
<1>1. t.core = c /\ t.blocks = s.blocks /\ t.handed = s.handed
  OBVIOUS
<1>2. Ahead(i, s.core) => Ahead(i, t.core)
  BY <1>1, Zenon DEF Ahead
<1> QED
  BY <1>1, <1>2, Zenon DEF Good

(* A step that changes the payloads and the pool of a core only. *)
LEMMA PoolStep ==
    ASSUME BatchInv, NEW i \in Validator, NEW c \in Core,
           c.frontier = core[i].frontier, c.done = core[i].done,
           c.introduced = core[i].introduced, c.unintroduced = core[i].unintroduced,
           c.resuming = core[i].resuming, c.next_sequence = core[i].next_sequence,
           \A x \in c.pool : x[2] \in disk[x[1]].sealed,
           core' = [core EXCEPT ![i] = c],
           UNCHANGED <<vertices, commits, disk, blocks, handed, complete, crashes, resumes>>
    PROVE  BatchInv'
<1>1. StepTo(i, c, disk[i], blocks[i], handed[i], complete[i])
  BY Unmoved, Zenon DEF StepTo
<1>2. Seals(i, c, disk[i])
  <2>1. Seals(i, core[i], disk[i])
    BY Here, Zenon
  <2> QED
    BY <2>1, Zenon DEF Seals
<1>3. Stands(i, c, disk[i], blocks[i], handed[i], complete[i], commits)
  <2>1. Own(c, disk[i]) = Own(core[i], disk[i])
    BY Zenon DEF Own
  <2>2. Local(i).core = core[i] /\ Local(i).blocks = blocks[i] /\ Local(i).handed = handed[i]
    BY Zenon DEF Local
  <2>3. Good(i, [core |-> c, blocks |-> blocks[i], handed |-> handed[i]], commits,
             disk[i].sealed, Own(core[i], disk[i]), Way(disk[i], complete[i]))
    BY <2>2, Here, SameGood, Zenon
  <2> QED
    BY <2>1, <2>3, Here, Zenon DEF Stands
<1>4. disk[i] \in Disk /\ complete[i] \in {"no", "halted", "adopted"}
  BY Here, Zenon
<1> QED
  BY <1>1, <1>2, <1>3, <1>4, LocalStep, Zenon

LEMMA OnBatchInv ==
    ASSUME BatchInv, NEW i \in Validator, NEW a \in Author, NEW q \in Sequence, OnBatch(i, a, q)
    PROVE  BatchInv'
<1> DEFINE x == <<a, q>>
           c == [core[i] EXCEPT !.payloads = @ \cup {x}, !.pool = @ \cup {x}]
<1>1. core[i] \in Core /\ x \in Batch /\ q \in disk[a].sealed
  BY Here, Zenon DEF OnBatch, Batch
<1>2. /\ c \in Core /\ c.frontier = core[i].frontier /\ c.done = core[i].done
      /\ c.introduced = core[i].introduced /\ c.unintroduced = core[i].unintroduced
      /\ c.resuming = core[i].resuming /\ c.next_sequence = core[i].next_sequence
      /\ c.pool = core[i].pool \cup {x}
  <2> HIDE DEF x
  <2> QED
    BY <1>1, Zenon DEF Core
<1>3. core' = [core EXCEPT ![i] = c]
  BY Zenon DEF OnBatch
<1>4. x[1] = a /\ x[2] = q
  OBVIOUS
<1> HIDE DEF c, x
<1>5. \A y \in c.pool : y[2] \in disk[y[1]].sealed
  BY <1>1, <1>2, <1>4, Here, Zenon DEF Seals
<1> QED
  BY <1>2, <1>3, <1>5, PoolStep, Zenon DEF OnBatch

LEMMA OfferInv ==
    ASSUME BatchInv, NEW i \in Validator, NEW v, Offer(i, v)
    PROVE  BatchInv'
<1> DEFINE X == {v.source} \X v.batches
           c == [core[i] EXCEPT !.pool = @ \ X]
<1>1. core[i] \in Core
  BY Here, Zenon
<1>2. /\ c \in Core /\ c.frontier = core[i].frontier /\ c.done = core[i].done
      /\ c.introduced = core[i].introduced /\ c.unintroduced = core[i].unintroduced
      /\ c.resuming = core[i].resuming /\ c.next_sequence = core[i].next_sequence
      /\ c.pool = core[i].pool \ X
  <2> HIDE DEF X
  <2> QED
    BY <1>1 DEF Core
<1>3. core' = [core EXCEPT ![i] = c]
  BY DEF Offer
<1> HIDE DEF c, X
<1>4. \A y \in c.pool : y[2] \in disk[y[1]].sealed
  BY <1>2, Here, Zenon DEF Seals
<1> QED
  BY <1>2, <1>3, <1>4, PoolStep, Zenon DEF Offer

(* The frontier a validator holds is kept below what its author sealed. *)
LEMMA HereFrontier ==
    ASSUME BatchInv, NEW i \in Validator
    PROVE  /\ core[i].done \in 0..Len(commits)
           /\ core[i].frontier = FrontierAfter(commits)[core[i].done]
           /\ \A a \in Author : /\ Kept(core[i].frontier[a], core[a].next_sequence)
                                /\ core[i].frontier[a].next \in Nat
<1>1. core[i] \in Core /\ Len(commits) \in Nat /\ HandoverAt \in Nat /\ MaxSequence \in Nat
  BY Here, Bounds, Zenon
<1>2. core[i].done <= Len(commits) /\ core[i].frontier = FrontierAfter(commits)[core[i].done]
  <2>1. Good(i, Local(i), commits, disk[i].sealed, Own(core[i], disk[i]), Way(disk[i], complete[i]))
    BY Here, Zenon
  <2> QED
    BY <2>1, Zenon DEF Good, Local
<1>3. core[i].done \in 0..Len(commits)
  <2>1. core[i].done \in 0..HandoverAt
    BY <1>1, Zenon DEF Core
  <2> QED
    BY <1>1, <1>2, <2>1
<1>4. ASSUME NEW a \in Author
      PROVE  Kept(core[i].frontier[a], core[a].next_sequence)
  <2>1. Kept(core[i].frontier[a], Sealing[a])
    BY <1>2, <1>3, InvFits, FrontiersKept, Zenon
  <2> QED
    BY <2>1, Zenon DEF Sealing
<1>5. \A a \in Author : core[i].frontier[a].next \in 0..MaxSequence
  BY <1>4, Zenon DEF Kept, Frontier
<1> QED
  BY <1>1, <1>2, <1>3, <1>4, <1>5

(* What Good says of validator i as it is. *)
LEMMA HereGood ==
    ASSUME BatchInv, NEW i \in Validator
    PROVE  /\ core[i].introduced \subseteq disk[i].sealed
           /\ core[i].unintroduced \subseteq disk[i].sealed
           /\ DOMAIN blocks[i] \subseteq 1..Len(commits)
           /\ \A k \in DOMAIN blocks[i] : blocks[i][k] = BlockOf(AfterAt(commits, k))
           /\ (i \in Author /\ Way(disk[i], complete[i]) # "resumed") => Ahead(i, core[i])
           /\ (i \in Author /\ Way(disk[i], complete[i]) = "ordered") => Final(i, handed[i], commits)
           /\ (i \in Author) => (Own(core[i], disk[i]) \subseteq
                                    core[i].introduced \cup handed[i] \cup Gone(commits, i))
<1>1. Good(i, Local(i), commits, disk[i].sealed, Own(core[i], disk[i]), Way(disk[i], complete[i]))
  BY Here, Zenon
<1>2. Local(i).core = core[i] /\ Local(i).blocks = blocks[i] /\ Local(i).handed = handed[i]
  BY DEF Local
<1> QED
  BY <1>1, <1>2, Zenon DEF Good

(* To stand, from what is known of each part. *)
LEMMA StandsNow ==
    ASSUME NEW i, NEW c \in Core, NEW d, NEW b, NEW h, NEW m, NEW cs,
           c.resuming <= Len(cs), d.base <= d.done, d.done <= Len(cs), c.done <= Len(cs),
           c.frontier = FrontierAfter(cs)[c.done],
           c.introduced \subseteq d.sealed, c.unintroduced \subseteq d.sealed,
           DOMAIN b \subseteq 1..Len(cs), \A k \in DOMAIN b : b[k] = BlockOf(AfterAt(cs, k)),
           h \subseteq Sequence,
           (i \in Author /\ Way(d, m) # "resumed") => Ahead(i, c),
           (i \in Author /\ Way(d, m) = "ordered") => Final(i, h, cs),
           (i \in Author) => (Own(c, d) \subseteq c.introduced \cup h \cup Gone(cs, i))
    PROVE  Stands(i, c, d, b, h, m, cs)
<1> DEFINE s == [core |-> c, blocks |-> b, handed |-> h]
<1>1. s.core = c /\ s.blocks = b /\ s.handed = h
  OBVIOUS
<1> HIDE DEF s
<1>2. Good(i, s, cs, d.sealed, Own(c, d), Way(d, m))
  BY <1>1, Zenon DEF Good
<1> QED
  BY <1>2, Zenon DEF Stands, s

LEMMA SubmitInv ==
    ASSUME BatchInv, NEW i \in Validator, Submit(i)
    PROVE  BatchInv'
<1> DEFINE n == core[i].next_sequence
           c == [core[i] EXCEPT !.unintroduced = @ \cup {n}, !.next_sequence = @ + 1]
           d == [disk[i] EXCEPT !.sealed = @ \cup {n}]
<1>1. /\ core[i] \in Core /\ disk[i] \in Disk /\ handed[i] \in SUBSET Sequence
      /\ complete[i] \in {"no", "halted", "adopted"} /\ Seals(i, core[i], disk[i])
      /\ core[i].resuming <= Len(commits)
      /\ disk[i].base <= disk[i].done /\ disk[i].done <= Len(commits)
  BY Here, Zenon
<1>2. i \in Author /\ n < MaxSequence
  BY Zenon DEF Submit
<1>3. n \in Nat /\ n \in Sequence /\ n + 1 \in 0..MaxSequence /\ n + 1 - 1 = n
  <2>1. MaxSequence \in Nat /\ n \in 0..MaxSequence
    BY <1>1, Bounds, Zenon DEF Core
  <2> HIDE DEF n
  <2> QED
    BY <1>2, <2>1 DEF Sequence
<1>4. disk[i].sealed \cup {n} = 0..n
  <2>1. disk[i].sealed = 0..(n - 1)
    BY <1>1, Zenon DEF Seals
  <2> HIDE DEF n
  <2> QED
    BY <1>3, <2>1
<1>5. /\ c \in Core /\ c.frontier = core[i].frontier /\ c.done = core[i].done
      /\ c.introduced = core[i].introduced /\ c.unintroduced = core[i].unintroduced \cup {n}
      /\ c.resuming = core[i].resuming /\ c.next_sequence = n + 1
      /\ c.pool = core[i].pool
  BY <1>1, <1>3, Zenon DEF Core
<1>6. /\ d \in Disk /\ d.sealed = disk[i].sealed \cup {n} /\ d.own = disk[i].own
      /\ d.base = disk[i].base /\ d.done = disk[i].done
  BY <1>1, <1>3, Zenon DEF Disk
<1>7. core' = [core EXCEPT ![i] = c] /\ disk' = [disk EXCEPT ![i] = d]
  BY Zenon DEF Submit
<1> HIDE DEF c, d, n
<1>8. StepTo(i, c, d, blocks[i], handed[i], complete[i])
  BY <1>7, Unmoved, Zenon DEF StepTo, Submit
<1>9. Seals(i, c, d)
  <2>1. \A x \in c.pool : x[2] \in disk[x[1]].sealed
    BY <1>1, <1>5, Zenon DEF Seals
  <2>2. d.sealed = 0..(c.next_sequence - 1) /\ disk[i].sealed \subseteq d.sealed
    <3>1. c.next_sequence - 1 = n
      BY <1>3, <1>5
    <3> QED
      BY <1>4, <1>6, <3>1, Zenon
  <2> QED
    BY <1>2, <2>1, <2>2, Zenon DEF Seals
<1>10. ASSUME Ahead(i, core[i]) PROVE Ahead(i, c)
  <2>1. core[i].frontier[i].next <= n /\ core[i].frontier[i].next \in Nat
    BY <1>2, HereFrontier, Zenon DEF Kept, n
  <2>2. n >= c.frontier[i].next
    <3>1. n >= core[i].frontier[i].next
      BY <1>3, <2>1
    <3> QED
      BY <1>5, <3>1, Zenon
  <2> QED
    BY <1>5, <1>10, <2>2, Zenon DEF Ahead
<1>11. Stands(i, c, d, blocks[i], handed[i], complete[i], commits)
  <2>1. Own(c, d) = Own(core[i], disk[i]) /\ Way(d, complete[i]) = Way(disk[i], complete[i])
    BY <1>5, <1>6, Zenon DEF Own, Way
  <2>2. /\ c.resuming <= Len(commits) /\ d.base <= d.done /\ d.done <= Len(commits)
        /\ c.introduced \subseteq d.sealed /\ c.unintroduced \subseteq d.sealed
    BY <1>1, <1>5, <1>6, HereGood, Zenon
  <2>3. c.done <= Len(commits) /\ c.frontier = FrontierAfter(commits)[c.done]
    <3>1. Len(commits) \in Nat /\ core[i].done \in 0..Len(commits)
          /\ core[i].frontier = FrontierAfter(commits)[core[i].done]
      BY Here, HereFrontier, Zenon
    <3>2. core[i].done <= Len(commits)
      BY <3>1
    <3> QED
      BY <1>5, <3>1, <3>2, Zenon
  <2>4. /\ DOMAIN blocks[i] \subseteq 1..Len(commits)
        /\ \A k \in DOMAIN blocks[i] : blocks[i][k] = BlockOf(AfterAt(commits, k))
        /\ handed[i] \subseteq Sequence
    BY <1>1, HereGood, Zenon
  <2>5. /\ (i \in Author /\ Way(d, complete[i]) # "resumed") => Ahead(i, c)
        /\ (i \in Author /\ Way(d, complete[i]) = "ordered") => Final(i, handed[i], commits)
        /\ (i \in Author) => (Own(c, d) \subseteq c.introduced \cup handed[i] \cup Gone(commits, i))
    BY <1>5, <1>10, <2>1, HereGood, Zenon
  <2> QED
    BY <1>5, <2>2, <2>3, <2>4, <2>5, StandsNow, Zenon
<1>12. vertices' = vertices /\ commits' = commits /\ d.own \subseteq disk[i].own
  BY <1>6, Zenon DEF Submit
<1> QED
  BY <1>1, <1>5, <1>6, <1>8, <1>9, <1>11, <1>12, LocalStep, ZenonT(30)

LEMMA ProposeInv ==
    ASSUME BatchInv, NEW i \in Validator, NEW r \in Round, Propose(i, r)
    PROVE  BatchInv'
<1> DEFINE leads == ~halted(i) /\ <<r, i>> \in Leads
           B == IF halted(i) THEN {} ELSE core[i].unintroduced
           C == IF leads THEN core[i].pool ELSE {}
           v == [round |-> r, source |-> i, batches |-> B, carried |-> C]
           c == [core[i] EXCEPT !.round = r, !.unintroduced = @ \ B,
                                !.introduced = @ \cup B, !.pool = @ \ C]
           d == [disk[i] EXCEPT !.own = @ \cup {v}]
<1>1. /\ core[i] \in Core /\ disk[i] \in Disk /\ handed[i] \in SUBSET Sequence
      /\ complete[i] \in {"no", "halted", "adopted"} /\ Seals(i, core[i], disk[i])
      /\ core[i].resuming <= Len(commits)
      /\ disk[i].base <= disk[i].done /\ disk[i].done <= Len(commits)
  BY Here, Zenon
<1>2. /\ core[i].unintroduced \in SUBSET Sequence /\ core[i].introduced \in SUBSET Sequence
      /\ core[i].pool \in SUBSET Batch /\ r \in -1..MaxRound
  <2>1. MaxRound \in Nat
    BY Bounds, Zenon
  <2>2. r \in -1..MaxRound
    BY <2>1 DEF Round
  <2> QED
    BY <1>1, <2>2, Zenon DEF Core
<1>3. B \subseteq core[i].unintroduced /\ C \subseteq core[i].pool
  BY Zenon
<1>4. /\ v.round = r /\ v.source = i /\ v.batches = B /\ v.carried = C
      /\ core[i].resuming = 0
      /\ vertices' = vertices \cup {v}
      /\ core' = [core EXCEPT ![i] = c] /\ disk' = [disk EXCEPT ![i] = d]
  BY Zenon DEF Propose
<1> HIDE DEF B, C
<1>5. v \in Vertex
  BY <1>2, <1>3 DEF Vertex
<1> HIDE DEF v
<1>6. /\ c \in Core /\ c.frontier = core[i].frontier /\ c.done = core[i].done
      /\ c.introduced = core[i].introduced \cup B /\ c.unintroduced = core[i].unintroduced \ B
      /\ c.resuming = core[i].resuming /\ c.next_sequence = core[i].next_sequence
      /\ c.pool = core[i].pool \ C
  BY <1>1, <1>2, <1>3, Zenon DEF Core
<1>7. /\ d \in Disk /\ d.sealed = disk[i].sealed /\ d.own = disk[i].own \cup {v}
      /\ d.base = disk[i].base /\ d.done = disk[i].done
  BY <1>1, <1>5 DEF Disk
<1> HIDE DEF c, d
<1>8. StepTo(i, c, d, blocks[i], handed[i], complete[i])
  BY <1>4, Unmoved, Zenon DEF StepTo, Propose
<1>9. Seals(i, c, d)
  BY <1>1, <1>6, <1>7, Zenon DEF Seals
<1>10. Way(d, complete[i]) = Way(disk[i], complete[i])
  BY <1>7, Zenon DEF Way
<1>11. ASSUME NEW q \in Own(c, d) PROVE q \in Own(core[i], disk[i]) \/ q \in B
  <2>1. Own(c, d) = UNION {w.batches : w \in d.own}
        /\ Own(core[i], disk[i]) = UNION {w.batches : w \in disk[i].own}
    BY <1>4, <1>6, Zenon DEF Own
  <2>2. PICK w \in d.own : q \in w.batches
    BY <1>11, <2>1
  <2>3. CASE w = v
    BY <1>4, <2>2, <2>3, Zenon
  <2>4. CASE w \in disk[i].own
    BY <2>1, <2>2, <2>4, Zenon
  <2> QED
    BY <1>7, <2>2, <2>3, <2>4, Zenon
<1>12. Stands(i, c, d, blocks[i], handed[i], complete[i], commits)
  <2>1. /\ c.resuming <= Len(commits) /\ d.base <= d.done /\ d.done <= Len(commits)
    BY <1>1, <1>6, <1>7, Zenon
  <2>2. /\ c.introduced \subseteq d.sealed /\ c.unintroduced \subseteq d.sealed
    BY <1>3, <1>6, <1>7, HereGood, Zenon
  <2>3. c.done <= Len(commits) /\ c.frontier = FrontierAfter(commits)[c.done]
    <3>1. Len(commits) \in Nat /\ core[i].done \in 0..Len(commits)
          /\ core[i].frontier = FrontierAfter(commits)[core[i].done]
      BY Here, HereFrontier, Zenon
    <3>2. core[i].done <= Len(commits)
      BY <3>1
    <3> QED
      BY <1>6, <3>1, <3>2, Zenon
  <2>4. /\ DOMAIN blocks[i] \subseteq 1..Len(commits)
        /\ \A k \in DOMAIN blocks[i] : blocks[i][k] = BlockOf(AfterAt(commits, k))
        /\ handed[i] \subseteq Sequence
    BY <1>1, HereGood, Zenon
  <2>5. Ahead(i, core[i]) => Ahead(i, c)
    BY <1>3, <1>6, Zenon DEF Ahead
  <2>6. (i \in Author) => (Own(c, d) \subseteq c.introduced \cup handed[i] \cup Gone(commits, i))
    BY <1>6, <1>11, HereGood, Zenon
  <2>7. /\ (i \in Author /\ Way(d, complete[i]) # "resumed") => Ahead(i, c)
        /\ (i \in Author /\ Way(d, complete[i]) = "ordered") => Final(i, handed[i], commits)
    BY <1>10, <2>5, HereGood, Zenon
  <2> QED
    BY <1>6, <2>1, <2>2, <2>3, <2>4, <2>6, <2>7, StandsNow, Zenon
<1>13. /\ TypeOK /\ SealedFirst /\ Len(commits) <= HandoverAt
       /\ \A k \in 1..Len(commits) : \E j \in Validator : k \in DOMAIN blocks[j]
       /\ \A j \in Validator : Stands(j, core[j], disk[j], blocks[j], handed[j], complete[j], commits)
       /\ commits' = commits /\ AllFit(commits, Sealing)
  BY InvFits, Zenon DEF BatchInv, Propose
<1>14. /\ commits \in Seq(Decision)
       /\ \A e \in Range(commits) : e.anchor \in e.history /\ e.history \subseteq vertices'
  BY <1>4, <1>13, Zenon DEF TypeOK, Decision
<1>15. d.own \subseteq {w \in vertices' : w.source = i}
  BY <1>4, <1>7, <1>13, Zenon DEF SealedFirst
<1>16. ASSUME NEW w \in vertices' \ vertices
       PROVE  /\ w \in Vertex /\ w.source = i /\ w.batches \subseteq d.sealed
              /\ \A x \in w.carried : x[2] \in disk[x[1]].sealed
  <2>1. w = v
    BY <1>4, Zenon
  <2>2. B \subseteq d.sealed
    BY <1>3, <1>7, HereGood, Zenon
  <2>3. \A x \in C : x[2] \in disk[x[1]].sealed
    BY <1>1, <1>3, Zenon DEF Seals
  <2> QED
    BY <1>4, <1>5, <2>1, <2>2, <2>3, Zenon
<1> QED
  <2>1. /\ vertices \subseteq vertices' /\ commits' \in Seq(Decision) /\ Len(commits') <= HandoverAt
        /\ \A e \in Range(commits') : e.anchor \in e.history /\ e.history \subseteq vertices'
        /\ AllFit(commits', Sealing)
        /\ \A k \in 1..Len(commits') :
              k \in DOMAIN blocks[i] \/ \E j \in Validator : k \in DOMAIN blocks[j]
        /\ Stands(i, c, d, blocks[i], handed[i], complete[i], commits')
        /\ \A j \in Validator \ {i} :
              Stands(j, core[j], disk[j], blocks[j], handed[j], complete[j], commits')
    BY <1>4, <1>12, <1>13, <1>14, Zenon
  <2>2. c \in Core /\ d \in Disk /\ complete[i] \in {"no", "halted", "adopted"}
    BY <1>1, <1>6, <1>7, Zenon
  <2> QED
    BY <1>8, <1>9, <1>15, <1>16, <2>1, <2>2, StepInv, Zenon

LEMMA CompleteEpochInv ==
    ASSUME BatchInv, NEW i \in Validator, CompleteEpoch(i)
    PROVE  BatchInv'
<1> DEFINE c == [core[i] EXCEPT !.introduced = {}, !.unintroduced = {}]
           h == handed[i] \cup core[i].introduced \cup core[i].unintroduced
           m == IF halted(i) THEN "halted" ELSE "adopted"
           d == disk[i]
<1>1. /\ core[i] \in Core /\ d \in Disk /\ handed[i] \in SUBSET Sequence
      /\ Seals(i, core[i], d)
      /\ core[i].resuming <= Len(commits) /\ d.base <= d.done /\ d.done <= Len(commits)
      /\ Len(commits) \in Nat /\ Len(commits) <= HandoverAt
  BY Here, Zenon
<1>2. /\ core' = [core EXCEPT ![i] = c] /\ handed' = [handed EXCEPT ![i] = h]
      /\ complete' = [complete EXCEPT ![i] = m] /\ complete[i] = "no"
  BY Zenon DEF CompleteEpoch
<1>3. /\ c \in Core /\ c.frontier = core[i].frontier /\ c.done = core[i].done
      /\ c.introduced = {} /\ c.unintroduced = {} /\ c.pool = core[i].pool
      /\ c.resuming = core[i].resuming /\ c.next_sequence = core[i].next_sequence
  BY <1>1, Zenon DEF Core
<1>4. h \subseteq Sequence /\ core[i].introduced \subseteq Sequence /\ core[i].unintroduced \subseteq Sequence
  BY <1>1 DEF Core
<1>5. m \in {"no", "halted", "adopted"}
  BY Zenon
<1> HIDE DEF c, d
<1>6. core[i].done \in 0..Len(commits) /\ core[i].done <= Len(commits)
      /\ core[i].frontier = FrontierAfter(commits)[core[i].done]
  <2>1. core[i].done \in 0..Len(commits) /\ core[i].frontier = FrontierAfter(commits)[core[i].done]
    BY HereFrontier, Zenon
  <2> QED
    BY <1>1, <2>1
<1>7. ASSUME i \in Author, Way(d, m) = "ordered" PROVE Final(i, h, commits)
  <2>1. m = "halted" /\ d.base = 0
    BY <1>7, Zenon DEF Way
  <2>2. Way(d, complete[i]) = "ordered"
    BY <1>2, <2>1, Zenon DEF Way
  <2>3. Ahead(i, core[i]) /\ Final(i, handed[i], commits)
    BY <1>7, <2>2, HereGood, Zenon DEF d
  <2>4. Len(commits) = HandoverAt /\ core[i].done = Len(commits)
    <3>1. core[i].done = HandoverAt
      BY <2>1 DEF halted
    <3>2. HandoverAt \in Nat /\ Len(commits) \in Nat
          /\ core[i].done <= Len(commits) /\ Len(commits) <= HandoverAt
      BY <1>1, <1>6, Bounds, Zenon
    <3> QED
      BY <3>1, <3>2
  <2>5. ASSUME NEW q \in core[i].introduced \cup core[i].unintroduced
        PROVE  q \notin Gone(commits, i)
    <3>1. q >= FrontierAfter(commits)[Len(commits)][i].next
      BY <1>6, <2>3, <2>4, <2>5, Zenon DEF Ahead
    <3>2. q \in Nat /\ Len(commits) \in 0..Len(commits)
          /\ \A k \in 1..Len(commits) : k <= Len(commits)
      <4>1. MaxSequence \in Nat /\ q \in Sequence
        BY <1>4, Bounds, Zenon
      <4> QED
        BY <1>1, <4>1 DEF Sequence
    <3>3. \A k \in 1..Len(commits) : \A r \in AfterAt(commits, k)[i].ready : r.sequence # q
      BY <1>7, <3>1, <3>2, InvFits, ReleasedOnOneSide, Zenon
    <3> QED
      BY <3>3, GoneFacts
  <2> QED
    BY <2>3, <2>4, <2>5, Zenon DEF Final
<1>8. ASSUME i \in Author, NEW q \in Own(c, d) PROVE q \in h \/ q \in Gone(commits, i)
  <2>1. Own(c, d) = Own(core[i], disk[i])
    BY <1>3, Zenon DEF Own, d
  <2> QED
    BY <1>8, <2>1, HereGood, Zenon
<1>9. Ahead(i, c)
  BY <1>3, Zenon DEF Ahead
<1> HIDE DEF h, m
<1>10. Stands(i, c, d, blocks[i], h, m, commits)
  <2>1. /\ c.resuming <= Len(commits) /\ c.done <= Len(commits)
        /\ c.frontier = FrontierAfter(commits)[c.done]
        /\ c.introduced \subseteq d.sealed /\ c.unintroduced \subseteq d.sealed
    BY <1>1, <1>3, <1>6, Zenon
  <2>2. /\ DOMAIN blocks[i] \subseteq 1..Len(commits)
        /\ \A k \in DOMAIN blocks[i] : blocks[i][k] = BlockOf(AfterAt(commits, k))
    BY HereGood, Zenon
  <2> QED
    BY <1>1, <1>3, <1>4, <1>7, <1>8, <1>9, <2>1, <2>2, StandsNow, Zenon
<1>11. StepTo(i, c, d, blocks[i], h, m)
  BY <1>2, Unmoved, Zenon DEF StepTo, CompleteEpoch, d
<1>12. Seals(i, c, d)
  BY <1>1, <1>3, Zenon DEF Seals
<1>13. vertices' = vertices /\ commits' = commits /\ d.own \subseteq disk[i].own
  BY Zenon DEF CompleteEpoch, d
<1> QED
  BY <1>1, <1>3, <1>5, <1>10, <1>11, <1>12, <1>13, LocalStep, Zenon

(* An empty core stands at the epoch's start. *)
LEMMA NewCoreFacts ==
    ASSUME BatchInv
    PROVE  /\ NewCore \in Core /\ EmptyFrontier \in [Author -> Frontier]
           /\ EmptyFrontier = FrontierAfter(commits)[0]
           /\ \A a \in Author : EmptyFrontier[a].next = 0
<1>1. Len(commits) \in Nat /\ AllFit(commits, Sealing)
  BY InvFits, Zenon DEF AllFit
<1>2. EmptyFrontier = FrontierAfter(commits)[0] /\ 0 \in 0..Len(commits)
  BY <1>1, FrontiersRun
<1>3. EmptyFrontier \in [Author -> Frontier]
  BY <1>1, <1>2, FrontiersKept, Zenon
<1>4. NewCore \in Core
  <2>1. MaxSequence \in Nat /\ MaxRound \in Nat /\ HandoverAt \in Nat
    BY Bounds, Zenon
  <2>2. 0 \in 0..MaxSequence /\ -1 \in -1..MaxRound /\ 0 \in 0..HandoverAt
    BY <2>1
  <2> QED
    BY <1>3, <2>2 DEF NewCore, Core
<1>5. \A a \in Author : EmptyFrontier[a].next = 0
  BY DEF EmptyFrontier
<1> QED
  BY <1>2, <1>3, <1>4, <1>5, Zenon

LEMMA FastForwardInv ==
    ASSUME BatchInv, NEW i \in Validator, NEW k \in CheckpointAt, FastForward(i, k)
    PROVE  BatchInv'
<1> DEFINE c == [NewCore EXCEPT !.next_sequence = core[i].next_sequence,
                                !.round = core[i].round, !.resuming = k]
           d == disk[i]
           h == handed[i]
           m == complete[i]
<1>1. /\ core[i] \in Core /\ d \in Disk /\ h \in SUBSET Sequence
      /\ m \in {"no", "halted", "adopted"} /\ Seals(i, core[i], d)
      /\ d.base <= d.done /\ d.done <= Len(commits)
      /\ Len(commits) \in Nat /\ Len(commits) <= HandoverAt
  BY Here, Zenon
<1>2. /\ core' = [core EXCEPT ![i] = c] /\ resumes < MaxResumes /\ resumes' = resumes + 1
      /\ core[i].done < k /\ \E j \in Validator : core[j].done >= k
  BY Zenon DEF FastForward
<1>3. k \in 1..Len(commits) /\ k \in 0..HandoverAt /\ k # 0 /\ k <= Len(commits) /\ 0 <= Len(commits)
  <2>1. k \in Nat /\ HandoverAt \in Nat
    BY Bounds, Zenon
  <2>2. PICK j \in Validator : core[j].done >= k
    BY <1>2, Zenon
  <2>3. core[j].done \in 0..Len(commits) /\ core[i].done \in 0..Len(commits)
    BY HereFrontier, Zenon
  <2> QED
    BY <1>1, <1>2, <2>1, <2>2, <2>3
<1>4. /\ c \in Core /\ c.frontier = EmptyFrontier /\ c.done = 0
      /\ c.introduced = {} /\ c.unintroduced = {} /\ c.pool = {}
      /\ c.resuming = k /\ c.next_sequence = core[i].next_sequence
  <2>1. EmptyFrontier \in [Author -> Frontier] /\ NewCore \in Core
    BY NewCoreFacts, Zenon
  <2>2. core[i].next_sequence \in 0..MaxSequence /\ core[i].round \in -1..MaxRound
    BY <1>1, Zenon DEF Core
  <2>3. c \in Core
    BY <1>3, <2>1, <2>2, Zenon DEF Core
  <2> QED
    BY <2>3 DEF NewCore
<1>5. resumes' \in 0..MaxResumes
  <2>1. resumes \in 0..MaxResumes /\ MaxResumes \in Nat
    BY Unmoved, Bounds, Zenon
  <2> QED
    BY <1>2, <2>1
<1> HIDE DEF c
<1>6. Own(c, d) = {} /\ Ahead(i, c)
  BY <1>3, <1>4, Zenon DEF Own, Ahead
<1>7. Stands(i, c, d, blocks[i], h, m, commits)
  <2>1. /\ c.resuming <= Len(commits) /\ c.done <= Len(commits)
        /\ c.frontier = FrontierAfter(commits)[c.done]
        /\ c.introduced \subseteq d.sealed /\ c.unintroduced \subseteq d.sealed
    BY <1>3, <1>4, NewCoreFacts, Zenon
  <2>2. /\ DOMAIN blocks[i] \subseteq 1..Len(commits)
        /\ \A l \in DOMAIN blocks[i] : blocks[i][l] = BlockOf(AfterAt(commits, l))
        /\ (i \in Author /\ Way(d, m) = "ordered") => Final(i, h, commits)
    BY HereGood, Zenon
  <2> HIDE DEF d, h, m
  <2> QED
    BY <1>1, <1>4, <1>6, <2>1, <2>2, StandsNow, Zenon
<1>8. StepTo(i, c, d, blocks[i], h, m)
  BY <1>2, <1>5, Unmoved, Zenon DEF StepTo, FastForward
<1>9. Seals(i, c, d)
  BY <1>1, <1>4, Zenon DEF Seals
<1>10. vertices' = vertices /\ commits' = commits /\ d.own \subseteq disk[i].own
  BY Zenon DEF FastForward
<1> QED
  BY <1>1, <1>4, <1>7, <1>8, <1>9, <1>10, LocalStep, Zenon

LEMMA MaxOfTwo ==
    ASSUME NEW x \in Int, NEW y \in Int
    PROVE  Max({x, y}) \in {x, y} /\ x <= Max({x, y}) /\ y <= Max({x, y})
<1>1. PICK z \in {x, y} : \A w \in {x, y} : w <= z
  <2>1. CASE x <= y
    BY <2>1
  <2>2. CASE y <= x
    BY <2>2
  <2> QED
    BY <2>1, <2>2
<1>2. {x, y} \subseteq Int /\ {x, y} # {} /\ z \in Int
  BY <1>1
<1> QED
  BY <1>1, <1>2, MaxFacts, Zenon

(* A validator applies one more commit of cs. *)
LEMMA CommitStands ==
    ASSUME BatchInv, NEW i \in Validator, NEW cs, AllFit(cs, Sealing), Len(cs) <= HandoverAt,
           core[i].done < Len(cs), Len(commits) <= Len(cs), Commit(i, cs),
           Good(i, Local(i), cs, disk[i].sealed, Own(core[i], disk[i]), Way(disk[i], complete[i])),
           NEW k, k = core[i].done + 1, NEW t, t = Apply(i, Local(i), cs, k),
           NEW d, d = [disk[i] EXCEPT !.done = Max({@, k})]
    PROVE  /\ t.core \in Core /\ d \in Disk /\ d.own = disk[i].own
           /\ StepTo(i, t.core, d, t.blocks, t.handed, complete[i])
           /\ Seals(i, t.core, d)
           /\ DOMAIN blocks[i] \subseteq DOMAIN t.blocks /\ k \in DOMAIN t.blocks
           /\ Stands(i, t.core, d, t.blocks, t.handed, complete[i], cs)
<1>1. /\ core[i] \in Core /\ disk[i] \in Disk /\ Seals(i, core[i], disk[i])
      /\ disk[i].base <= disk[i].done /\ disk[i].done <= Len(commits)
      /\ Len(commits) \in Nat
  BY Here, Zenon
<1>2. Local(i).core = core[i] /\ Local(i).blocks = blocks[i] /\ Local(i).handed = handed[i]
  BY DEF Local
<1>3. disk[i].sealed \in SUBSET Sequence
  BY <1>1, Zenon DEF Disk
<1>4. /\ Good(i, t, cs, disk[i].sealed, Own(core[i], disk[i]), Way(disk[i], complete[i]))
      /\ Progress(Local(i), t, k) /\ k \in DOMAIN t.blocks
  BY <1>2, <1>3, ApplyGood
<1>5. /\ t.core.done = k /\ t.core.next_sequence = core[i].next_sequence
      /\ t.core.resuming = core[i].resuming /\ t.core.pool \subseteq core[i].pool
      /\ DOMAIN blocks[i] \subseteq DOMAIN t.blocks
  BY <1>2, <1>4, Zenon DEF Progress
<1>6. /\ disk[i].done \in 0..HandoverAt /\ disk[i].base \in 0..HandoverAt
      /\ core[i].done \in 0..HandoverAt /\ HandoverAt \in Nat /\ Len(cs) \in Nat
  BY <1>1, Bounds, Zenon DEF Disk, Core, AllFit
<1>7. /\ Max({disk[i].done, k}) \in 0..HandoverAt /\ Max({disk[i].done, k}) <= Len(cs)
      /\ disk[i].base <= Max({disk[i].done, k})
  <2>1. disk[i].done \in Int /\ k \in Int
    BY <1>6
  <2>2. Max({disk[i].done, k}) \in {disk[i].done, k} /\ disk[i].done <= Max({disk[i].done, k})
    BY <2>1, MaxOfTwo, Zenon
  <2> DEFINE M == Max({disk[i].done, k})
  <2>3. /\ M = disk[i].done \/ M = k
        /\ disk[i].done <= M
    BY <2>2, Zenon
  <2> HIDE DEF M
  <2>4. M \in 0..HandoverAt /\ M <= Len(cs) /\ disk[i].base <= M
    BY <1>1, <1>6, <2>3
  <2> QED
    BY <2>4, Zenon DEF M
<1>8. /\ d \in Disk /\ d.sealed = disk[i].sealed /\ d.own = disk[i].own /\ d.base = disk[i].base
      /\ d.done = Max({disk[i].done, k})
  BY <1>1, <1>7 DEF Disk
<1>9. /\ core' = [core EXCEPT ![i] = t.core] /\ disk' = [disk EXCEPT ![i] = d]
      /\ blocks' = [blocks EXCEPT ![i] = t.blocks] /\ handed' = [handed EXCEPT ![i] = t.handed]
      /\ complete' = complete /\ crashes' = crashes /\ resumes' = resumes
  BY Zenon DEF Commit
<1>10. StepTo(i, t.core, d, t.blocks, t.handed, complete[i])
  BY <1>9, Unmoved, Zenon DEF StepTo
<1>11. Seals(i, t.core, d)
  BY <1>1, <1>5, <1>8, Zenon DEF Seals
<1>12. t.core \in Core
  BY <1>4, Zenon DEF Good
<1>13. Stands(i, t.core, d, t.blocks, t.handed, complete[i], cs)
  <2>1. Own(t.core, d) = Own(core[i], disk[i]) /\ Way(d, complete[i]) = Way(disk[i], complete[i])
    BY <1>5, <1>8, Zenon DEF Own, Way
  <2>2. t.core.resuming <= Len(cs)
    <3>1. core[i].resuming \in 0..HandoverAt /\ core[i].resuming <= Len(commits)
      BY <1>1, Here, Zenon DEF Core
    <3>2. core[i].resuming <= Len(cs)
      BY <1>1, <1>6, <3>1
    <3> QED
      BY <1>5, <3>2, Zenon
  <2>3. /\ t.core.done <= Len(cs) /\ t.core.frontier = FrontierAfter(cs)[t.core.done]
        /\ t.core.introduced \subseteq d.sealed /\ t.core.unintroduced \subseteq d.sealed
        /\ DOMAIN t.blocks \subseteq 1..Len(cs)
        /\ \A l \in DOMAIN t.blocks : t.blocks[l] = BlockOf(AfterAt(cs, l))
        /\ t.handed \subseteq Sequence
        /\ (i \in Author /\ Way(d, complete[i]) # "resumed") => Ahead(i, t.core)
        /\ (i \in Author /\ Way(d, complete[i]) = "ordered") => Final(i, t.handed, cs)
        /\ (i \in Author) => (Own(t.core, d) \subseteq t.core.introduced \cup t.handed \cup Gone(cs, i))
    BY <1>4, <1>8, <2>1, Zenon DEF Good
  <2>4. d.base <= d.done /\ d.done <= Len(cs)
    BY <1>7, <1>8, Zenon
  <2> QED
    BY <1>12, <2>2, <2>3, <2>4, StandsNow, Zenon
<1> QED
  BY <1>4, <1>5, <1>8, <1>10, <1>11, <1>12, <1>13, Zenon

LEMMA FollowInv ==
    ASSUME BatchInv, NEW i \in Validator, Follow(i)
    PROVE  BatchInv'
<1> DEFINE k == core[i].done + 1
           t == Apply(i, Local(i), commits, k)
           d == [disk[i] EXCEPT !.done = Max({@, k})]
<1>1. /\ core[i].done < Len(commits) /\ Commit(i, commits) /\ commits' = commits
  BY Zenon DEF Follow
<1>2. vertices' = vertices
  BY <1>1, Zenon DEF Commit
<1>3. /\ AllFit(commits, Sealing) /\ Len(commits) <= HandoverAt /\ Len(commits) \in Nat
      /\ Good(i, Local(i), commits, disk[i].sealed, Own(core[i], disk[i]), Way(disk[i], complete[i]))
      /\ complete[i] \in {"no", "halted", "adopted"}
  BY InvFits, Here, Zenon
<1>4. Len(commits) <= Len(commits)
  BY <1>3
<1> HIDE DEF k, t, d
<1>5. /\ t.core \in Core /\ d \in Disk /\ d.own = disk[i].own
      /\ StepTo(i, t.core, d, t.blocks, t.handed, complete[i])
      /\ Seals(i, t.core, d)
      /\ DOMAIN blocks[i] \subseteq DOMAIN t.blocks
      /\ Stands(i, t.core, d, t.blocks, t.handed, complete[i], commits)
  <2>1. k = core[i].done + 1 /\ t = Apply(i, Local(i), commits, k)
        /\ d = [disk[i] EXCEPT !.done = Max({@, k})]
    BY Zenon DEF k, t, d
  <2> QED
    BY <1>1, <1>3, <1>4, <2>1, CommitStands, Zenon
<1> QED
  BY <1>1, <1>2, <1>3, <1>5, LocalStep, Zenon

(* A decided commit and the sequence it ends. *)
LEMMA DecidedCommits ==
    ASSUME BatchInv, NEW anchor \in vertices, NEW history \in SUBSET Orderable(anchor),
           NEW cs, cs = Append(commits, [anchor |-> anchor, history |-> history \cup {anchor}])
    PROVE  /\ cs \in Seq(Decision) /\ Len(cs) = Len(commits) + 1
           /\ \A l \in 1..Len(commits) : cs[l] = commits[l]
           /\ \A e \in Range(cs) : e.anchor \in e.history /\ e.history \subseteq vertices
           /\ AllFit(cs, Sealing)
<1> DEFINE e == [anchor |-> anchor, history |-> history \cup {anchor}]
<1>1. /\ TypeOK /\ SealedFirst /\ commits \in Seq(Decision) /\ vertices \in SUBSET Vertex
      /\ \A f \in Range(commits) : f.anchor \in f.history /\ f.history \subseteq vertices
  BY Zenon DEF BatchInv, TypeOK, Decision
<1>2. history \subseteq vertices
  BY Zenon DEF Orderable
<1>3. e.anchor \in e.history /\ e.history \subseteq vertices /\ e \in Decision
  <2>1. e.anchor = anchor /\ e.history = history \cup {anchor}
    OBVIOUS
  <2>2. anchor \in Vertex /\ history \cup {anchor} \in SUBSET Vertex
    BY <1>1, <1>2, Zenon
  <2>3. e \in Decision
    BY <2>2 DEF Decision
  <2> QED
    BY <1>2, <2>1, <2>3, Zenon
<1> HIDE DEF e
<1>4. cs = Append(commits, e)
  BY Zenon DEF e
<1>5. /\ cs \in Seq(Decision) /\ Len(cs) = Len(commits) + 1 /\ Len(commits) \in Nat
      /\ \A l \in 1..Len(commits) : cs[l] = commits[l]
      /\ cs[Len(commits) + 1] = e
      /\ DOMAIN cs = 1..Len(cs) /\ DOMAIN commits = 1..Len(commits)
  <2> HIDE DEF Decision
  <2> QED
    BY <1>1, <1>3, <1>4
<1>6. ASSUME NEW f \in Range(cs) PROVE f.anchor \in f.history /\ f.history \subseteq vertices
  <2>1. PICK l \in DOMAIN cs : f = cs[l]
    BY Zenon DEF Range
  <2>2. CASE l \in 1..Len(commits)
    <3>1. f = commits[l] /\ l \in DOMAIN commits
      BY <1>5, <2>1, <2>2, Zenon
    <3>2. f \in Range(commits)
      BY <3>1, Zenon DEF Range
    <3> QED
      BY <1>1, <3>2, Zenon
  <2>3. CASE l = Len(commits) + 1
    BY <1>3, <1>5, <2>1, <2>3, Zenon
  <2>4. l \in 1..Len(commits) \/ l = Len(commits) + 1
    <3>1. l \in 1..(Len(commits) + 1) /\ Len(commits) \in Nat
      BY <1>5, <2>1, Zenon
    <3> QED
      BY <3>1
  <2> QED
    BY <2>2, <2>3, <2>4, Zenon
<1>7. AllFit(cs, Sealing)
  BY <1>1, <1>5, <1>6, SealedTypes, FitCommits, Zenon
<1> QED
  BY <1>5, <1>6, <1>7, Zenon

(* A new commit cs that fits, applied first by i. *)
Decides(i, b, cs) ==
    /\ cs \in Seq(Decision) /\ Len(cs) <= HandoverAt /\ AllFit(cs, Sealing)
    /\ \A e \in Range(cs) : e.anchor \in e.history /\ e.history \subseteq vertices
    /\ \A l \in 1..Len(cs) : l \in DOMAIN b \/ \E j \in Validator : l \in DOMAIN blocks[j]
    /\ \A j \in Validator \ {i} :
          Stands(j, core[j], disk[j], blocks[j], handed[j], complete[j], cs)

LEMMA DecideStep ==
    ASSUME BatchInv, NEW i \in Validator, NEW c \in Core, NEW d \in Disk, NEW b, NEW h, NEW m,
           m \in {"no", "halted", "adopted"}, StepTo(i, c, d, b, h, m), Seals(i, c, d),
           vertices' = vertices, d.own = disk[i].own, DOMAIN blocks[i] \subseteq DOMAIN b,
           NEW cs, commits' = cs, Decides(i, b, cs), Stands(i, c, d, b, h, m, cs)
    PROVE  BatchInv'
<1>1. /\ commits' \in Seq(Decision) /\ Len(commits') <= HandoverAt /\ AllFit(commits', Sealing)
      /\ \A e \in Range(commits') : e.anchor \in e.history /\ e.history \subseteq vertices'
      /\ \A l \in 1..Len(commits') : l \in DOMAIN b \/ \E j \in Validator : l \in DOMAIN blocks[j]
      /\ \A j \in Validator \ {i} :
            Stands(j, core[j], disk[j], blocks[j], handed[j], complete[j], commits')
      /\ Stands(i, c, d, b, h, m, commits')
  BY Zenon DEF Decides
<1>2. disk[i].own \subseteq {v \in vertices : v.source = i}
  BY Zenon DEF BatchInv, SealedFirst
<1>3. /\ vertices \subseteq vertices' /\ d.own \subseteq {v \in vertices' : v.source = i}
      /\ \A v \in vertices' \ vertices :
            /\ v \in Vertex /\ v.source = i /\ v.batches \subseteq d.sealed
            /\ \A x \in v.carried : x[2] \in disk[x[1]].sealed
  BY <1>2, Zenon
<1> QED
  BY <1>1, <1>3, StepInv, ZenonT(30)

LEMMA DecideInv ==
    ASSUME BatchInv, NEW i \in Validator, Decide(i)
    PROVE  BatchInv'
<1> DEFINE cs == commits'
           k == core[i].done + 1
           t == Apply(i, Local(i), cs, k)
           d == [disk[i] EXCEPT !.done = Max({@, k})]
<1>1. core[i].done = Len(commits) /\ Commit(i, cs)
  BY Zenon DEF Decide
<1>2a. PICK anchor \in vertices : \E history \in SUBSET Orderable(anchor) :
         cs = Append(commits, [anchor |-> anchor, history |-> history \cup {anchor}])
  BY Zenon DEF Decide
<1>2. PICK history \in SUBSET Orderable(anchor) :
         cs = Append(commits, [anchor |-> anchor, history |-> history \cup {anchor}])
  BY <1>2a, Zenon
<1>3. /\ cs \in Seq(Decision) /\ Len(cs) = Len(commits) + 1
      /\ \A l \in 1..Len(commits) : cs[l] = commits[l]
      /\ \A e \in Range(cs) : e.anchor \in e.history /\ e.history \subseteq vertices
      /\ AllFit(cs, Sealing)
  BY <1>2, DecidedCommits, Zenon
<1>4. /\ Len(commits) \in Nat /\ Len(commits) <= HandoverAt /\ HandoverAt \in Nat
      /\ complete[i] \in {"no", "halted", "adopted"}
  BY Here, Bounds, Zenon
<1>5. ~halted(i) /\ vertices' = vertices
  BY <1>1, Zenon DEF Commit
<1>6. /\ Len(commits) < HandoverAt /\ Len(cs) <= HandoverAt /\ Len(commits) <= Len(cs)
      /\ core[i].done < Len(cs) /\ Len(cs) \in Nat
      /\ \A l \in 1..Len(cs) : l \in 1..Len(commits) \/ l = k
  <2>1. core[i].done # HandoverAt
    BY <1>5, Zenon DEF halted
  <2>2. core[i].done = Len(commits) /\ Len(cs) = Len(commits) + 1 /\ k = core[i].done + 1
        /\ Len(commits) \in Nat /\ Len(commits) <= HandoverAt /\ HandoverAt \in Nat
    BY <1>1, <1>3, <1>4, Zenon
  <2> HIDE DEF cs, k
  <2> QED
    BY <2>1, <2>2
<1> HIDE DEF cs
<1>7. ASSUME NEW j \in Validator
      PROVE  Good(j, Local(j), cs, disk[j].sealed, Own(core[j], disk[j]), Way(disk[j], complete[j]))
  BY <1>3, <1>4, <1>6, Here, MoreCommits, Zenon
<1>8. ASSUME NEW j \in Validator
      PROVE  Stands(j, core[j], disk[j], blocks[j], handed[j], complete[j], cs)
  <2>1. core[j].resuming <= Len(cs) /\ disk[j].base <= disk[j].done /\ disk[j].done <= Len(cs)
    <3>1. /\ core[j].resuming <= Len(commits) /\ disk[j].base <= disk[j].done
          /\ disk[j].done <= Len(commits) /\ core[j] \in Core /\ disk[j] \in Disk
      BY Here, Zenon
    <3>2. core[j].resuming \in 0..HandoverAt /\ disk[j].done \in 0..HandoverAt
      BY <3>1, Zenon DEF Core, Disk
    <3> QED
      BY <1>3, <1>4, <3>1, <3>2
  <2> QED
    BY <1>7, <2>1, Zenon DEF Stands, Local
<1>9. /\ t.core \in Core /\ d \in Disk /\ d.own = disk[i].own
      /\ StepTo(i, t.core, d, t.blocks, t.handed, complete[i])
      /\ Seals(i, t.core, d)
      /\ DOMAIN blocks[i] \subseteq DOMAIN t.blocks /\ k \in DOMAIN t.blocks
      /\ Stands(i, t.core, d, t.blocks, t.handed, complete[i], cs)
  <2>1. k = core[i].done + 1 /\ t = Apply(i, Local(i), cs, k)
        /\ d = [disk[i] EXCEPT !.done = Max({@, k})]
    BY Zenon
  <2> HIDE DEF k, t, d
  <2> QED
    BY <1>1, <1>3, <1>6, <1>7, <2>1, CommitStands, Zenon
<1> HIDE DEF k, t, d
<1>10. \A l \in 1..Len(commits) : \E j \in Validator : l \in DOMAIN blocks[j]
  BY Zenon DEF BatchInv
<1>11. Decides(i, t.blocks, cs)
  <2>1. \A l \in 1..Len(cs) : l \in DOMAIN t.blocks \/ \E j \in Validator : l \in DOMAIN blocks[j]
    BY <1>6, <1>9, <1>10, Zenon
  <2>2. \A j \in Validator \ {i} :
          Stands(j, core[j], disk[j], blocks[j], handed[j], complete[j], cs)
    BY <1>8, Zenon
  <2> QED
    BY <1>3, <1>6, <2>1, <2>2, Zenon DEF Decides
<1>12. commits' = cs
  BY Zenon DEF cs
<1> QED
  BY <1>4, <1>5, <1>9, <1>11, <1>12, DecideStep, Zenon

(* The certified state of checkpoint k is the one its commit leads to. *)
LEMMA CertifiedState ==
    ASSUME BatchInv, NEW k \in 1..Len(commits)
    PROVE  Import(Certified(k)) = FrontierAfter(commits)[k]
<1> DEFINE S == {blocks[j][k].state : j \in {v \in Validator : k \in DOMAIN blocks[v]}}
           state == Export(FrontierAfter(commits)[k])
<1>1. PICK i \in Validator : k \in DOMAIN blocks[i]
  BY Zenon DEF BatchInv
<1>2. ASSUME NEW j \in Validator, k \in DOMAIN blocks[j] PROVE blocks[j][k].state = state
  <2>1. blocks[j][k] = BlockOf(AfterAt(commits, k))
    BY <1>2, HereGood, Zenon
  <2>2. BlockOf(AfterAt(commits, k)).state = state
    BY InvFits, BlockFacts, Zenon
  <2> QED
    BY <2>1, <2>2, Zenon
<1> HIDE DEF state
<1>3. state \in S /\ \A x \in S : x = state
  BY <1>1, <1>2
<1>4. Certified(k) = CHOOSE x \in S : TRUE
  BY Zenon DEF Certified
<1> HIDE DEF S
<1>5. Certified(k) = state
  BY <1>3, <1>4, Zenon
<1>6. FrontierAfter(commits)[k] \in [Author -> Frontier]
  <2>1. Len(commits) \in Nat /\ AllFit(commits, Sealing)
    BY InvFits, Zenon DEF AllFit
  <2>2. k \in 0..Len(commits)
    BY <2>1
  <2> QED
    BY <2>1, <2>2, FrontiersKept, Zenon
<1> QED
  BY <1>5, <1>6, ImportExport, Zenon DEF state

(* The sequence after those the state of a checkpoint knows of. *)
LEMMA OwnNext ==
    ASSUME NEW f, NEW hi \in 0..MaxSequence, Kept(f, hi)
    PROVE  Max({f.next} \cup {q + 1 : q \in DOMAIN f.early}) \in 0..hi
<1> DEFINE T == {f.next} \cup {q + 1 : q \in DOMAIN f.early}
<1>1. /\ MaxSequence \in Nat /\ f.next \in 0..MaxSequence /\ f.next <= hi
      /\ f.early \in Places /\ \A q \in DOMAIN f.early : q < hi
  BY Bounds, Zenon DEF Kept, Frontier
<1>2. \A q \in DOMAIN f.early : q \in Sequence
  BY <1>1, PlacesFacts, Zenon
<1>3. \A q \in DOMAIN f.early : q + 1 \in 0..hi
  BY <1>1, <1>2 DEF Sequence
<1>4. f.next \in 0..hi /\ hi \in Int
  BY <1>1
<1>5. T \subseteq 0..hi /\ T # {}
  BY <1>3, <1>4, Zenon
<1> HIDE DEF T
<1>6. T \subseteq Int /\ \A y \in T : y <= hi
  BY <1>4, <1>5
<1>7. Max(T) \in T
  BY <1>4, <1>5, <1>6, MaxFacts, Zenon
<1> QED
  BY <1>5, <1>7, Zenon DEF T

(* install takes on the certified state and no sequence that was not sealed. *)
LEMMA InstalledFacts ==
    ASSUME BatchInv, NEW i \in Validator, NEW k \in 1..Len(commits), NEW own_round \in -1..MaxRound,
           NEW c \in Core, c.next_sequence <= core[i].next_sequence,
           NEW t, t = Installed(i, c, k, own_round)
    PROVE  /\ t \in Core /\ t.frontier = FrontierAfter(commits)[k] /\ t.done = k
           /\ t.introduced = c.introduced /\ t.unintroduced = c.unintroduced
           /\ t.pool = c.pool /\ t.resuming = 0
           /\ c.next_sequence <= t.next_sequence /\ t.next_sequence <= core[i].next_sequence
<1> DEFINE f == Import(Certified(k))
           own_next == IF i \in Author
                       THEN Max({f[i].next} \cup {q + 1 : q \in DOMAIN f[i].early})
                       ELSE 0
           next == Max({c.next_sequence, own_next})
           round == Max({own_round, commits[k].anchor.round})
<1>1. /\ MaxSequence \in Nat /\ MaxRound \in Nat /\ HandoverAt \in Nat
      /\ c.next_sequence \in 0..MaxSequence /\ core[i].next_sequence \in 0..MaxSequence
      /\ Len(commits) \in Nat /\ Len(commits) <= HandoverAt
  <2>1. core[i] \in Core /\ Len(commits) \in Nat /\ Len(commits) <= HandoverAt
    BY Here, Zenon
  <2> QED
    BY <2>1, Bounds, Zenon DEF Core
<1>2. f = FrontierAfter(commits)[k]
  BY CertifiedState, Zenon
<1>3. k \in 0..Len(commits) /\ k \in 0..HandoverAt /\ 0 \in 0..HandoverAt
  BY <1>1
<1>4. f \in [Author -> Frontier] /\ \A a \in Author : Kept(f[a], core[a].next_sequence)
  <2>1. AllFit(commits, Sealing)
    BY InvFits, Zenon
  <2>2. \A a \in Author : Kept(f[a], Sealing[a])
    BY <1>2, <1>3, <2>1, FrontiersKept, Zenon
  <2> QED
    BY <1>2, <1>3, <2>1, <2>2, FrontiersKept, Zenon DEF Sealing
<1> HIDE DEF f
<1>5. own_next \in 0..core[i].next_sequence
  <2>1. CASE i \in Author
    BY <1>1, <1>4, <2>1, OwnNext, Zenon
  <2>2. CASE i \notin Author
    BY <1>1, <2>2
  <2> QED
    BY <2>1, <2>2, Zenon
<1> HIDE DEF own_next
<1>6. next \in 0..MaxSequence /\ c.next_sequence <= next /\ next <= core[i].next_sequence
  <2>1. c.next_sequence \in Int /\ own_next \in Int
    BY <1>1, <1>5
  <2>2. next \in {c.next_sequence, own_next} /\ c.next_sequence <= next
    BY <2>1, MaxOfTwo, Zenon
  <2> HIDE DEF next
  <2> QED
    BY <1>1, <1>5, <2>2
<1>7. round \in -1..MaxRound
  <2>1. commits[k].anchor.round \in Round
    <3>1. commits \in Seq(Decision)
      BY Zenon DEF BatchInv, TypeOK, Decision
    <3>2. commits[k] \in Decision
      <4> HIDE DEF Decision
      <4> QED
        BY <3>1
    <3> QED
      BY <3>2, Zenon DEF Decision, Vertex
  <2>2. own_round \in Int /\ commits[k].anchor.round \in Int
        /\ commits[k].anchor.round \in -1..MaxRound
    BY <1>1, <2>1 DEF Round
  <2>3. round \in {own_round, commits[k].anchor.round}
    BY <2>2, MaxOfTwo, Zenon
  <2> HIDE DEF round
  <2> QED
    BY <2>2, <2>3, Zenon
<1>8. t = [c EXCEPT !.frontier = f, !.next_sequence = next, !.round = round, !.done = k,
                    !.resuming = 0]
  BY DEF Installed, f, own_next
<1> HIDE DEF next, round
<1>9. t \in Core /\ t.frontier = f /\ t.done = k /\ t.introduced = c.introduced
      /\ t.unintroduced = c.unintroduced /\ t.pool = c.pool /\ t.resuming = 0
      /\ t.next_sequence = next
  BY <1>3, <1>4, <1>6, <1>7, <1>8, Zenon DEF Core
<1> QED
  BY <1>2, <1>6, <1>9, Zenon

(* The last round of a journal: one it remembers or one of its vertices'. *)
LEMMA LastRound ==
    ASSUME NEW r \in -1..MaxRound, NEW own \in SUBSET Vertex
    PROVE  Max({r} \cup {v.round : v \in own}) \in -1..MaxRound
<1> DEFINE T == {r} \cup {v.round : v \in own}
<1>1. MaxRound \in Nat
  BY Bounds, Zenon
<1>2. \A v \in own : v.round \in Round
  BY Zenon DEF Vertex
<1>3. \A v \in own : v.round \in -1..MaxRound
  BY <1>1, <1>2 DEF Round
<1>4. T \subseteq -1..MaxRound /\ T # {}
  BY <1>3, Zenon
<1> HIDE DEF T
<1>5. T \subseteq Int /\ MaxRound \in Int /\ \A y \in T : y <= MaxRound
  BY <1>1, <1>4
<1>6. Max(T) \in T
  BY <1>4, <1>5, MaxFacts, Zenon
<1> QED
  BY <1>4, <1>6, Zenon DEF T

LEMMA InstallInv ==
    ASSUME BatchInv, NEW i \in Validator, Install(i)
    PROVE  BatchInv'
<1> DEFINE k == core[i].resuming
           c == Installed(i, core[i], k, core[i].round)
           round == Max({disk[i].round} \cup {v.round : v \in disk[i].own})
           d == [disk[i] EXCEPT !.own = {}, !.base = k, !.done = k, !.round = round]
           h == handed[i]
           m == complete[i]
<1>1. /\ core[i] \in Core /\ disk[i] \in Disk /\ h \in SUBSET Sequence
      /\ m \in {"no", "halted", "adopted"} /\ Seals(i, core[i], disk[i])
      /\ k <= Len(commits) /\ Len(commits) \in Nat /\ Len(commits) <= HandoverAt
  BY Here, Zenon
<1>2. /\ core[i].round \in -1..MaxRound /\ disk[i].round \in -1..MaxRound
      /\ disk[i].own \in SUBSET Vertex /\ k \in 0..HandoverAt /\ k # 0
      /\ core[i].next_sequence \in 0..MaxSequence
      /\ HandoverAt \in Nat /\ MaxSequence \in Nat
  BY <1>1, Bounds, Zenon DEF Core, Disk, Install
<1>3. k \in 1..Len(commits) /\ core[i].next_sequence <= core[i].next_sequence /\ k <= k
      /\ 0 <= Len(commits)
  BY <1>1, <1>2
<1>4. /\ core' = [core EXCEPT ![i] = c] /\ disk' = [disk EXCEPT ![i] = d]
  BY Zenon DEF Install
<1>5. round \in -1..MaxRound
  BY <1>2, LastRound, Zenon
<1> HIDE DEF round, k
<1>6. /\ d \in Disk /\ d.sealed = disk[i].sealed /\ d.own = {} /\ d.base = k /\ d.done = k
  BY <1>1, <1>2, <1>5, Zenon DEF Disk
<1> HIDE DEF d
<1>7. /\ c \in Core /\ c.frontier = FrontierAfter(commits)[k] /\ c.done = k
      /\ c.introduced = core[i].introduced /\ c.unintroduced = core[i].unintroduced
      /\ c.pool = core[i].pool /\ c.resuming = 0
      /\ core[i].next_sequence <= c.next_sequence /\ c.next_sequence <= core[i].next_sequence
  <2>1. c = Installed(i, core[i], k, core[i].round)
    BY Zenon
  <2>2. core[i] \in Core /\ k \in 1..Len(commits) /\ core[i].round \in -1..MaxRound
        /\ core[i].next_sequence <= core[i].next_sequence
    BY <1>1, <1>2, <1>3, Zenon
  <2> HIDE DEF c
  <2> QED
    BY <2>1, <2>2, InstalledFacts, SMTT(30)
<1> HIDE DEF c
<1>8. c.next_sequence = core[i].next_sequence
  <2>1. c.next_sequence \in 0..MaxSequence
    BY <1>7, Zenon DEF Core
  <2> QED
    BY <1>2, <1>7, <2>1
<1>9. Own(c, d) = {} /\ Way(d, m) = "resumed"
  <2>1. Way(d, m) = "resumed"
    BY <1>2, <1>6, Zenon DEF Way
  <2>2. Own(c, d) = UNION {v.batches : v \in {}}
    BY <1>6, <1>7, Zenon DEF Own
  <2> QED
    BY <2>1, <2>2, Zenon
<1>10. Stands(i, c, d, blocks[i], h, m, commits)
  <2>1. /\ c.resuming <= Len(commits) /\ c.done <= Len(commits)
        /\ c.frontier = FrontierAfter(commits)[c.done]
        /\ d.base <= d.done /\ d.done <= Len(commits)
    BY <1>1, <1>3, <1>6, <1>7, Zenon
  <2>2. c.introduced \subseteq d.sealed /\ c.unintroduced \subseteq d.sealed
    BY <1>6, <1>7, HereGood, Zenon
  <2>3. /\ DOMAIN blocks[i] \subseteq 1..Len(commits)
        /\ \A l \in DOMAIN blocks[i] : blocks[i][l] = BlockOf(AfterAt(commits, l))
    BY HereGood, Zenon
  <2>4. Way(d, m) # "ordered"
    BY <1>9
  <2>5. /\ (i \in Author /\ Way(d, m) # "resumed") => Ahead(i, c)
        /\ (i \in Author /\ Way(d, m) = "ordered") => Final(i, h, commits)
        /\ (i \in Author) => (Own(c, d) \subseteq c.introduced \cup h \cup Gone(commits, i))
    BY <1>9, <2>4, Zenon
  <2> HIDE DEF h, m
  <2> QED
    BY <1>1, <1>7, <2>1, <2>2, <2>3, <2>5, StandsNow, Zenon
<1>11. StepTo(i, c, d, blocks[i], h, m)
  BY <1>4, Unmoved, Zenon DEF StepTo, Install
<1>12. Seals(i, c, d)
  BY <1>1, <1>6, <1>7, <1>8, Zenon DEF Seals
<1>13. vertices' = vertices /\ commits' = commits /\ d.own \subseteq disk[i].own
  BY <1>6, Zenon DEF Install
<1> QED
  BY <1>1, <1>6, <1>7, <1>10, <1>11, <1>12, <1>13, LocalStep, Zenon

(* The journal's batches give back the sequence the next one takes. *)
LEMMA NextSequenceBack ==
    ASSUME NEW n \in Nat, NEW floor \in 0..n
    PROVE  NextSequence(floor, 0..(n - 1)) = n
<1> DEFINE T == {floor} \cup {q + 1 : q \in 0..(n - 1)}
<1>1. T \subseteq Int /\ T # {} /\ \A y \in T : y <= n
  OBVIOUS
<1>2. n \in T
  <2>1. CASE n = 0
    BY <2>1
  <2>2. CASE n # 0
    <3>1. n - 1 \in 0..(n - 1) /\ (n - 1) + 1 = n
      BY <2>2
    <3> QED
      BY <3>1
  <2> QED
    BY <2>1, <2>2, Zenon
<1>3. NextSequence(floor, 0..(n - 1)) = Max(T)
  BY Zenon DEF NextSequence
<1> HIDE DEF T
<1>4. n \in Int
  OBVIOUS
<1>5. Max(T) \in T /\ \A y \in T : y <= Max(T)
  BY <1>1, <1>4, MaxFacts, Zenon
<1>6. Max(T) \in Int /\ Max(T) <= n /\ n <= Max(T)
  BY <1>1, <1>2, <1>5, Zenon
<1> QED
  BY <1>3, <1>6

(* recover: the core rebuilt from the journal is good at the commit its       *)
(* journal starts from.                                                      *)
LEMMA RecoveredFacts ==
    ASSUME BatchInv, NEW i \in Validator, NEW t, t = Recovered(i)
    PROVE  /\ t \in Core /\ t.done = disk[i].base /\ t.resuming = 0 /\ t.pool = {}
           /\ t.frontier = FrontierAfter(commits)[disk[i].base]
           /\ t.next_sequence = core[i].next_sequence
           /\ t.introduced = UNION {v.batches : v \in disk[i].own}
           /\ t.introduced \subseteq disk[i].sealed /\ t.unintroduced \subseteq disk[i].sealed
<1> DEFINE base == disk[i].base
           start == IF base = 0 THEN NewCore ELSE Installed(i, NewCore, base, disk[i].round)
           introduced == UNION {v.batches : v \in disk[i].own}
           unintroduced == disk[i].sealed \ introduced
           next == NextSequence(start.next_sequence, disk[i].sealed)
           round == Max({start.round} \cup {v.round : v \in disk[i].own})
<1>1. /\ core[i] \in Core /\ disk[i] \in Disk /\ Seals(i, core[i], disk[i])
      /\ Len(commits) \in Nat /\ base <= disk[i].done /\ disk[i].done <= Len(commits)
  BY Here, Zenon
<1>2. /\ base \in 0..HandoverAt /\ disk[i].done \in 0..HandoverAt /\ HandoverAt \in Nat
      /\ disk[i].round \in -1..MaxRound /\ disk[i].own \in SUBSET Vertex
      /\ disk[i].sealed \in SUBSET Sequence
      /\ core[i].next_sequence \in 0..MaxSequence /\ MaxSequence \in Nat
  BY <1>1, Bounds, Zenon DEF Disk, Core
<1>3. NewCore \in Core /\ EmptyFrontier = FrontierAfter(commits)[0]
  BY NewCoreFacts, Zenon
<1>4. /\ NewCore.next_sequence = 0 /\ NewCore.done = 0 /\ NewCore.resuming = 0
      /\ NewCore.pool = {} /\ NewCore.frontier = EmptyFrontier
  BY Zenon DEF NewCore
<1>5. 0 <= core[i].next_sequence /\ core[i].next_sequence \in Nat
  BY <1>2
<1>6. /\ start \in Core /\ start.done = base /\ start.resuming = 0 /\ start.pool = {}
      /\ start.frontier = FrontierAfter(commits)[base]
      /\ start.next_sequence <= core[i].next_sequence
  <2>1. CASE base = 0
    BY <1>3, <1>4, <1>5, <2>1, Zenon
  <2>2. CASE base # 0
    <3>1. base \in 1..Len(commits)
      BY <1>1, <1>2, <2>2
    <3>2. start = Installed(i, NewCore, base, disk[i].round)
      BY <2>2, Zenon
    <3>3. NewCore.next_sequence <= core[i].next_sequence
      BY <1>4, <1>5, Zenon
    <3>4. disk[i].round \in -1..MaxRound
      BY <1>2, Zenon
    <3> HIDE DEF start
    <3>5. /\ start \in Core /\ start.done = base /\ start.resuming = 0 /\ start.pool = NewCore.pool
          /\ start.frontier = FrontierAfter(commits)[base]
          /\ start.next_sequence <= core[i].next_sequence
      BY <1>3, <3>1, <3>2, <3>3, <3>4, InstalledFacts, SMTT(30)
    <3> QED
      BY <1>4, <3>5, Zenon
  <2> QED
    BY <2>1, <2>2, Zenon
<1>7. t = [start EXCEPT !.next_sequence = next, !.introduced = introduced,
                        !.unintroduced = unintroduced, !.round = round]
  BY DEF Recovered
<1> HIDE DEF start
<1>8. next = core[i].next_sequence
  <2>1. start.next_sequence \in 0..MaxSequence
    BY <1>6, Zenon DEF Core
  <2>2. start.next_sequence \in 0..core[i].next_sequence
    BY <1>2, <1>6, <2>1
  <2>3. disk[i].sealed = 0..(core[i].next_sequence - 1)
    BY <1>1, Zenon DEF Seals
  <2> QED
    BY <1>5, <2>2, <2>3, NextSequenceBack, Zenon
<1>9. round \in -1..MaxRound
  <2>1. start.round \in -1..MaxRound
    BY <1>6, Zenon DEF Core
  <2> QED
    BY <1>2, <2>1, LastRound, Zenon
<1>10. introduced \subseteq disk[i].sealed
  <2>1. ASSUME NEW v \in disk[i].own PROVE v.batches \subseteq disk[i].sealed
    <3>1. v \in vertices /\ v.source = i
      BY Zenon DEF BatchInv, SealedFirst
    <3> QED
      BY <3>1, Zenon DEF BatchInv, SealedFirst
  <2> QED
    BY <2>1
<1> HIDE DEF introduced, next, round
<1>11. introduced \in SUBSET Sequence /\ unintroduced \in SUBSET Sequence
       /\ unintroduced \subseteq disk[i].sealed
  BY <1>2, <1>10
<1> HIDE DEF unintroduced
<1>12. /\ t \in Core /\ t.done = start.done /\ t.resuming = start.resuming /\ t.pool = start.pool
       /\ t.frontier = start.frontier /\ t.next_sequence = next
       /\ t.introduced = introduced /\ t.unintroduced = unintroduced
  <2>1. next \in 0..MaxSequence
    BY <1>2, <1>8, Zenon
  <2> QED
    BY <1>6, <1>7, <1>9, <1>11, <2>1, Zenon DEF Core
<1> QED
  BY <1>6, <1>8, <1>10, <1>11, <1>12, Zenon DEF introduced

LEMMA CrashInv ==
    ASSUME BatchInv, NEW i \in Validator, NEW e \in disk[i].base..disk[i].done, Crash(i, e)
    PROVE  BatchInv'
<1> DEFINE base == disk[i].base
           c == Recovered(i)
           s == [core |-> c, blocks |-> blocks[i], handed |-> handed[i]]
           t == Replay(i, s, commits, base, e)
           d == disk[i]
           m == complete[i]
           own == UNION {v.batches : v \in d.own}
<1>1. /\ d \in Disk /\ m \in {"no", "halted", "adopted"} /\ Seals(i, core[i], d)
      /\ handed[i] \in SUBSET Sequence
      /\ Len(commits) \in Nat /\ Len(commits) <= HandoverAt
      /\ base <= d.done /\ d.done <= Len(commits)
  BY Here, Zenon
<1>2. /\ base \in 0..HandoverAt /\ d.done \in 0..HandoverAt /\ HandoverAt \in Nat
      /\ d.sealed \in SUBSET Sequence
  BY <1>1, Bounds, Zenon DEF Disk
<1>3. base \in Nat /\ e \in Nat /\ base <= e /\ e <= Len(commits) /\ base <= Len(commits)
      /\ 0 <= Len(commits)
  BY <1>1, <1>2
<1>4. /\ core' = [core EXCEPT ![i] = t.core] /\ blocks' = [blocks EXCEPT ![i] = t.blocks]
      /\ handed' = [handed EXCEPT ![i] = t.handed]
      /\ crashes < MaxCrashes /\ crashes' = crashes + 1
  <2>1. [Local(i) EXCEPT !.core = Recovered(i)] = s
    BY DEF Local
  <2> HIDE DEF s
  <2> QED
    BY <2>1, Zenon DEF Crash
<1>5. crashes' \in 0..MaxCrashes
  <2>1. crashes \in 0..MaxCrashes /\ MaxCrashes \in Nat
    BY Unmoved, Bounds, Zenon
  <2> QED
    BY <1>4, <2>1
<1>6. s.core = c /\ s.blocks = blocks[i] /\ s.handed = handed[i]
  OBVIOUS
<1>7. /\ c \in Core /\ c.done = base /\ c.resuming = 0 /\ c.pool = {}
      /\ c.frontier = FrontierAfter(commits)[base]
      /\ c.next_sequence = core[i].next_sequence /\ c.introduced = own
      /\ c.introduced \subseteq d.sealed /\ c.unintroduced \subseteq d.sealed
  <2>1. c = Recovered(i)
    BY Zenon
  <2> HIDE DEF c
  <2> QED
    BY <2>1, RecoveredFacts, Zenon
<1> HIDE DEF c, s, t
<1>8. ASSUME i \in Author, Way(d, m) # "resumed" PROVE Ahead(i, c)
  <2>1. base = 0
    BY <1>8, Zenon DEF Way
  <2>2. c.frontier[i].next = 0
    <3>1. c.frontier = FrontierAfter(commits)[0]
      BY <1>7, <2>1, Zenon
    <3>2. EmptyFrontier = FrontierAfter(commits)[0] /\ EmptyFrontier[i].next = 0
      BY <1>8, NewCoreFacts, Zenon
    <3> QED
      BY <3>1, <3>2, Zenon
  <2>3. \A q \in c.introduced \cup c.unintroduced : q \in Sequence
    BY <1>2, <1>7, Zenon
  <2>4. MaxSequence \in Nat
    BY Bounds, Zenon
  <2>5. \A q \in Sequence : q >= 0
    BY <2>4 DEF Sequence
  <2> QED
    BY <2>2, <2>3, <2>5, Zenon DEF Ahead
<1>9. Good(i, s, commits, d.sealed, own, Way(d, m))
  <2>1. /\ DOMAIN blocks[i] \subseteq 1..Len(commits)
        /\ \A l \in DOMAIN blocks[i] : blocks[i][l] = BlockOf(AfterAt(commits, l))
        /\ (i \in Author /\ Way(d, m) = "ordered") => Final(i, handed[i], commits)
    BY HereGood, Zenon
  <2> HIDE DEF own, d, m
  <2> QED
    BY <1>1, <1>3, <1>6, <1>7, <1>8, <2>1, Zenon DEF Good
<1>10. Good(i, t, commits, d.sealed, own, Way(d, m)) /\ Progress(s, t, e)
  <2>1. AllFit(commits, Sealing) /\ t = Replay(i, s, commits, base, e) /\ s.core.done = base
    BY <1>6, <1>7, InvFits, Zenon DEF t
  <2>2. d.sealed \in SUBSET Sequence /\ Len(commits) <= HandoverAt
    BY <1>1, <1>2, Zenon
  <2> HIDE DEF own, d, m, base
  <2> QED
    BY <1>3, <1>9, <2>1, <2>2, ReplayGood, Zenon
<1>11. /\ t.core.resuming = 0 /\ t.core.next_sequence = core[i].next_sequence
       /\ t.core.pool = {} /\ DOMAIN blocks[i] \subseteq DOMAIN t.blocks
  BY <1>6, <1>7, <1>10, Zenon DEF Progress
<1>12. t.core \in Core
  BY <1>10, Zenon DEF Good
<1>13. Stands(i, t.core, d, t.blocks, t.handed, m, commits)
  <2>1. Own(t.core, d) = own
    BY <1>11, Zenon DEF Own
  <2>2. /\ t.core.done <= Len(commits) /\ t.core.frontier = FrontierAfter(commits)[t.core.done]
        /\ t.core.introduced \subseteq d.sealed /\ t.core.unintroduced \subseteq d.sealed
        /\ DOMAIN t.blocks \subseteq 1..Len(commits)
        /\ \A l \in DOMAIN t.blocks : t.blocks[l] = BlockOf(AfterAt(commits, l))
        /\ t.handed \subseteq Sequence
        /\ (i \in Author /\ Way(d, m) # "resumed") => Ahead(i, t.core)
        /\ (i \in Author /\ Way(d, m) = "ordered") => Final(i, t.handed, commits)
        /\ (i \in Author) =>
              (Own(t.core, d) \subseteq t.core.introduced \cup t.handed \cup Gone(commits, i))
    BY <1>10, <2>1, Zenon DEF Good
  <2>3. t.core.resuming <= Len(commits)
    BY <1>3, <1>11, Zenon
  <2>4. d.base <= d.done /\ d.done <= Len(commits)
    BY <1>1, Zenon
  <2> HIDE DEF d, m
  <2> QED
    BY <1>12, <2>2, <2>3, <2>4, StandsNow, Zenon
<1>14. StepTo(i, t.core, d, t.blocks, t.handed, m)
  BY <1>4, <1>5, Unmoved, Zenon DEF StepTo, Crash
<1>15. Seals(i, t.core, d)
  BY <1>1, <1>11, Zenon DEF Seals
<1>16. vertices' = vertices /\ commits' = commits
  BY Zenon DEF Crash
<1> QED
  BY <1>1, <1>11, <1>12, <1>13, <1>14, <1>15, <1>16, LocalStep, Zenon

LEMMA NewCoreTyped == NewCore \in Core /\ FrontierAfter(<<>>)[0] = EmptyFrontier
<1> DEFINE hi == [a \in Author |-> 0]
<1>1. MaxSequence \in Nat /\ MaxRound \in Nat /\ HandoverAt \in Nat
  BY Bounds, Zenon
<1>2. Len(<<>>) = 0 /\ 0 \in Nat /\ 0 \in 0..0 /\ 1..0 = {}
  OBVIOUS
<1>3. 0 \in 0..MaxSequence /\ -1 \in -1..MaxRound /\ 0 \in 0..HandoverAt
  BY <1>1
<1>4. hi \in [Author -> 0..MaxSequence]
  BY <1>3, Zenon
<1> HIDE DEF hi
<1>5. AllFit(<<>>, hi)
  BY <1>2, <1>4 DEF AllFit
<1>6. FrontierAfter(<<>>)[0] = EmptyFrontier
  BY <1>2, FrontiersRun, Zenon
<1>7. EmptyFrontier \in [Author -> Frontier]
  <2>1. \A n \in 0..Len(<<>>) : FrontierAfter(<<>>)[n] \in [Author -> Frontier]
    BY <1>5, FrontiersKept, Zenon
  <2> QED
    BY <1>2, <1>6, <2>1, Zenon
<1>8. NewCore \in Core
  BY <1>3, <1>7, Zenon DEF NewCore, Core
<1> QED
  BY <1>6, <1>8, Zenon

LEMMA InitInv == Init => BatchInv
<1> SUFFICES ASSUME Init PROVE BatchInv
  OBVIOUS
<1> DEFINE d == [sealed |-> {}, own |-> {}, round |-> -1, base |-> 0, done |-> 0]
<1>1. /\ MaxSequence \in Nat /\ MaxRound \in Nat /\ HandoverAt \in Nat
      /\ MaxCrashes \in Nat /\ MaxResumes \in Nat
  BY Bounds, Zenon
<1>2. /\ -1 \in -1..MaxRound /\ 0 \in 0..HandoverAt /\ 0 \in 0..MaxCrashes
      /\ 0 \in 0..MaxResumes /\ 0 <= HandoverAt /\ 0 <= 0 /\ 1..0 = {} /\ 0..(0 - 1) = {}
  <2>1. 0 \in 0..HandoverAt /\ 0 \in 0..MaxCrashes /\ 0 \in 0..MaxResumes /\ 0 <= HandoverAt
    BY <1>1
  <2>2. -1 \in -1..MaxRound
    BY <1>1
  <2>3. 0 <= 0 /\ 1..0 = {} /\ 0..(0 - 1) = {}
    OBVIOUS
  <2> QED
    BY <2>1, <2>2, <2>3, Zenon
<1>3. d \in Disk /\ d.sealed = {} /\ d.own = {} /\ d.base = 0 /\ d.done = 0
  BY <1>2 DEF Disk
<1>4. NewCore \in Core /\ FrontierAfter(<<>>)[0] = EmptyFrontier
  BY NewCoreTyped, Zenon
<1>5. /\ NewCore.next_sequence = 0 /\ NewCore.done = 0 /\ NewCore.resuming = 0
      /\ NewCore.pool = {} /\ NewCore.frontier = EmptyFrontier
      /\ NewCore.introduced = {} /\ NewCore.unintroduced = {}
  BY DEF NewCore
<1>6. DOMAIN NoBlocks = {}
  BY Zenon DEF NoBlocks
<1>7. commits = <<>> /\ Len(commits) = 0 /\ Range(commits) = {} /\ commits \in Seq(Decision)
  BY DEF Init, Range
<1>8. /\ vertices = {} /\ core = [i \in Validator |-> NewCore] /\ disk = [i \in Validator |-> d]
      /\ blocks = [i \in Validator |-> NoBlocks] /\ handed = [i \in Validator |-> {}]
      /\ complete = [i \in Validator |-> "no"] /\ crashes = 0 /\ resumes = 0
  BY Zenon DEF Init
<1> HIDE DEF d
<1>9. \A i \in Validator : /\ core[i] = NewCore /\ disk[i] = d /\ blocks[i] = NoBlocks
                           /\ handed[i] = {} /\ complete[i] = "no"
  BY <1>8, Zenon
<1>10. TypeOK
  <2>1. /\ core \in [Validator -> Core] /\ disk \in [Validator -> Disk]
        /\ DOMAIN blocks = Validator /\ handed \in [Validator -> SUBSET Sequence]
        /\ complete \in [Validator -> {"no", "halted", "adopted"}]
    BY <1>3, <1>4, <1>8, Zenon
  <2>2. \A i \in Validator :
          /\ DOMAIN blocks[i] \subseteq 1..Len(commits)
          /\ \A k \in DOMAIN blocks[i] : blocks[i][k].released \in Seq(Batch)
    BY <1>6, <1>9, Zenon
  <2>3. vertices \subseteq Vertex /\ crashes \in 0..MaxCrashes /\ resumes \in 0..MaxResumes
    BY <1>2, <1>8, Zenon
  <2>4. \A c \in Range(commits) : c.anchor \in c.history /\ c.history \subseteq vertices
    BY <1>7, Zenon
  <2> QED
    BY <1>7, <2>1, <2>2, <2>3, <2>4, Zenon DEF TypeOK, Decision
<1>11. SealedFirst
  <2>1. ASSUME NEW i \in Validator
        PROVE  /\ disk[i].sealed = 0..(core[i].next_sequence - 1)
               /\ i \notin Author => core[i].next_sequence = 0
               /\ core[i].introduced \cup core[i].unintroduced \subseteq disk[i].sealed
               /\ disk[i].own \subseteq {v \in vertices : v.source = i}
               /\ \A b \in core[i].pool : b[2] \in disk[b[1]].sealed
    <3>1. /\ core[i].next_sequence = 0 /\ core[i].introduced = {} /\ core[i].unintroduced = {}
          /\ core[i].pool = {} /\ disk[i].sealed = {} /\ disk[i].own = {}
      BY <1>3, <1>5, <1>9, Zenon
    <3> QED
      BY <1>2, <3>1
  <2>2. \A v \in vertices : /\ v.batches \subseteq disk[v.source].sealed
                            /\ \A b \in v.carried : b[2] \in disk[b[1]].sealed
    BY <1>8, Zenon
  <2> QED
    BY <2>1, <2>2, Zenon DEF SealedFirst
<1>12. ASSUME NEW i \in Validator
       PROVE  Stands(i, core[i], disk[i], blocks[i], handed[i], complete[i], commits)
  <2>1. Own(NewCore, d) = {}
    <3>1. Own(NewCore, d) = UNION {v.batches : v \in {}}
      BY <1>3, <1>5, Zenon DEF Own
    <3> QED
      BY <3>1
  <2>2. /\ NewCore.resuming <= Len(commits) /\ d.base <= d.done /\ d.done <= Len(commits)
        /\ NewCore.done <= Len(commits) /\ NewCore.frontier = FrontierAfter(commits)[NewCore.done]
        /\ NewCore.introduced \subseteq d.sealed /\ NewCore.unintroduced \subseteq d.sealed
        /\ DOMAIN NoBlocks \subseteq 1..Len(commits)
        /\ \A k \in DOMAIN NoBlocks : NoBlocks[k] = BlockOf(AfterAt(commits, k))
        /\ {} \subseteq Sequence
    BY <1>2, <1>3, <1>4, <1>5, <1>6, <1>7, Zenon
  <2>3. Ahead(i, NewCore) /\ Final(i, {}, commits)
    BY <1>5, Zenon DEF Ahead, Final
  <2>4. Own(NewCore, d) \subseteq NewCore.introduced \cup {} \cup Gone(commits, i)
    BY <2>1
  <2>5. Stands(i, NewCore, d, NoBlocks, {}, "no", commits)
    BY <1>4, <2>2, <2>3, <2>4, StandsNow, Zenon
  <2> QED
    BY <1>9, <2>5, Zenon
<1>13. Len(commits) <= HandoverAt
       /\ \A k \in 1..Len(commits) : \E i \in Validator : k \in DOMAIN blocks[i]
  BY <1>2, <1>7, Zenon
<1> QED
  BY <1>10, <1>11, <1>12, <1>13, Zenon DEF BatchInv

LEMMA NextInv == BatchInv /\ [Next]_vars => BatchInv'
<1> SUFFICES ASSUME BatchInv, [Next]_vars PROVE BatchInv'
  OBVIOUS
<1>1. CASE Next
  <2>1. PICK i \in Validator :
           \/ Submit(i)
           \/ \E a \in Author, q \in Sequence : OnBatch(i, a, q)
           \/ \E r \in Round : Propose(i, r)
           \/ \E v \in vertices : Offer(i, v)
           \/ Decide(i)
           \/ Follow(i)
           \/ \E k \in CheckpointAt : FastForward(i, k)
           \/ Install(i)
           \/ \E d \in disk[i].base..disk[i].done : Crash(i, d)
           \/ CompleteEpoch(i)
    BY <1>1, Zenon DEF Next
  <2>2. CASE Submit(i)
    BY <2>2, SubmitInv, Zenon
  <2>3. CASE \E a \in Author, q \in Sequence : OnBatch(i, a, q)
    BY <2>3, OnBatchInv, Zenon
  <2>4. CASE \E r \in Round : Propose(i, r)
    BY <2>4, ProposeInv, Zenon
  <2>5. CASE \E v \in vertices : Offer(i, v)
    BY <2>5, OfferInv, Zenon
  <2>6. CASE Decide(i)
    BY <2>6, DecideInv, Zenon
  <2>7. CASE Follow(i)
    BY <2>7, FollowInv, Zenon
  <2>8. CASE \E k \in CheckpointAt : FastForward(i, k)
    BY <2>8, FastForwardInv, Zenon
  <2>9. CASE Install(i)
    BY <2>9, InstallInv, Zenon
  <2>10. CASE \E d \in disk[i].base..disk[i].done : Crash(i, d)
    BY <2>10, CrashInv, Zenon
  <2>11. CASE CompleteEpoch(i)
    BY <2>11, CompleteEpochInv, Zenon
  <2> QED
    BY <2>1, <2>2, <2>3, <2>4, <2>5, <2>6, <2>7, <2>8, <2>9, <2>10, <2>11, Zenon
<1>2. CASE UNCHANGED vars
  <2>1. /\ vertices' = vertices /\ commits' = commits /\ core' = core /\ disk' = disk
        /\ blocks' = blocks /\ handed' = handed /\ complete' = complete
        /\ crashes' = crashes /\ resumes' = resumes
    BY <1>2, Zenon DEF vars
  <2>2. TypeOK'
    BY <2>1, Zenon DEF BatchInv, TypeOK
  <2>3. SealedFirst'
    BY <2>1, Zenon DEF BatchInv, SealedFirst
  <2> QED
    BY <2>1, <2>2, <2>3, Zenon DEF BatchInv
<1> QED
  BY <1>1, <1>2, Zenon

LEMMA BlockEntries ==
    ASSUME NEW cs, NEW hi, AllFit(cs, hi), NEW k \in 1..Len(cs),
           NEW b, b = BlockOf(AfterAt(cs, k))
    PROVE  /\ \A n \in DOMAIN b.released : \E a \in Author :
                 \E r \in AfterAt(cs, k)[a].ready : b.released[n] = <<a, r.sequence>>
           /\ \A a \in Author : \A r \in AfterAt(cs, k)[a].ready :
                 \E n \in DOMAIN b.released : b.released[n] = <<a, r.sequence>>
           /\ \A m, n \in DOMAIN b.released : b.released[m] = b.released[n] => m = n
<1> DEFINE B == BlockOf(AfterAt(cs, k))
<1>1. /\ \A n \in DOMAIN B.released : \E a \in Author :
            \E r \in AfterAt(cs, k)[a].ready : B.released[n] = <<a, r.sequence>>
      /\ \A a \in Author : \A r \in AfterAt(cs, k)[a].ready :
            \E n \in DOMAIN B.released : B.released[n] = <<a, r.sequence>>
      /\ \A m, n \in DOMAIN B.released : B.released[m] = B.released[n] => m = n
  BY BlockFacts, Zenon
<1>2. b = B
  BY Zenon
<1> HIDE DEF B
<1> QED
  BY <1>1, <1>2

(* Two commits release no batch in common, and one commit none twice. *)
LEMMA ReleasedApart ==
    ASSUME NEW cs, NEW hi, AllFit(cs, hi), NEW k \in 1..Len(cs), NEW l \in 1..Len(cs), k < l,
           NEW m \in DOMAIN BlockOf(AfterAt(cs, k)).released,
           NEW n \in DOMAIN BlockOf(AfterAt(cs, l)).released
    PROVE  BlockOf(AfterAt(cs, k)).released[m] # BlockOf(AfterAt(cs, l)).released[n]
<1> DEFINE x == BlockOf(AfterAt(cs, k)).released[m]
           y == BlockOf(AfterAt(cs, l)).released[n]
<1>1. PICK a \in Author : \E r \in AfterAt(cs, k)[a].ready : x = <<a, r.sequence>>
  BY BlockFacts, Zenon
<1>2. PICK r \in AfterAt(cs, k)[a].ready : x = <<a, r.sequence>>
  BY <1>1, Zenon
<1>3. PICK b \in Author : \E s \in AfterAt(cs, l)[b].ready : y = <<b, s.sequence>>
  BY BlockFacts, Zenon
<1>4. PICK s \in AfterAt(cs, l)[b].ready : y = <<b, s.sequence>>
  BY <1>3, Zenon
<1>5. r.sequence \in Sequence /\ r.sequence < FrontierAfter(cs)[k][a].next
  BY ReleasedBetween, Zenon
<1>6. r.sequence \in Nat /\ k \in 0..Len(cs)
  <2>1. MaxSequence \in Nat /\ Len(cs) \in Nat
    BY Bounds, Zenon DEF AllFit
  <2> QED
    BY <1>5, <2>1 DEF Sequence
<1>7. \A z \in AfterAt(cs, l)[a].ready : z.sequence # r.sequence
  BY <1>5, <1>6, ReleasedOnOneSide, Zenon
<1> HIDE DEF x, y
<1>8. ASSUME x = y PROVE FALSE
  <2>1. a = b /\ r.sequence = s.sequence
    BY <1>2, <1>4, <1>8
  <2> QED
    BY <1>7, <2>1, Zenon
<1> QED
  BY <1>8, Zenon DEF x, y

(* A validator's blocks are what the agreed commits give. *)
LEMMA BlocksAgreed ==
    ASSUME BatchInv, NEW i \in Validator, NEW k \in DOMAIN blocks[i]
    PROVE  k \in 1..Len(commits) /\ blocks[i][k] = BlockOf(AfterAt(commits, k))
  BY HereGood, Zenon

LEMMA BlocksRelease ==
    ASSUME BatchInv, NEW i \in Validator, NEW k \in DOMAIN blocks[i]
    PROVE  /\ \A n \in DOMAIN blocks[i][k].released : \E a \in Author :
                 \E r \in AfterAt(commits, k)[a].ready : blocks[i][k].released[n] = <<a, r.sequence>>
           /\ \A a \in Author : \A r \in AfterAt(commits, k)[a].ready :
                 \E n \in DOMAIN blocks[i][k].released : blocks[i][k].released[n] = <<a, r.sequence>>
           /\ \A m, n \in DOMAIN blocks[i][k].released :
                 blocks[i][k].released[m] = blocks[i][k].released[n] => m = n
<1> DEFINE b == blocks[i][k]
<1>1. k \in 1..Len(commits) /\ b = BlockOf(AfterAt(commits, k))
  BY BlocksAgreed, Zenon
<1> HIDE DEF b
<1>2. /\ \A n \in DOMAIN b.released : \E a \in Author :
            \E r \in AfterAt(commits, k)[a].ready : b.released[n] = <<a, r.sequence>>
      /\ \A a \in Author : \A r \in AfterAt(commits, k)[a].ready :
            \E n \in DOMAIN b.released : b.released[n] = <<a, r.sequence>>
      /\ \A m, n \in DOMAIN b.released : b.released[m] = b.released[n] => m = n
  BY <1>1, InvFits, BlockEntries
<1> QED
  BY <1>2, Zenon DEF b

(* What was released of author a is what the agreed commits released of it. *)
LEMMA ReleasedIsGone ==
    ASSUME BatchInv, NEW a \in Author, NEW q
    PROVE  q \in OwnReleased(a) <=> q \in Gone(commits, a)
<1>1. AllFit(commits, Sealing)
  BY InvFits, Zenon
<1>2. ASSUME q \in OwnReleased(a) PROVE q \in Gone(commits, a)
  <2>1. PICK j \in Validator : \E k \in DOMAIN blocks[j] :
           \E n \in DOMAIN blocks[j][k].released :
              blocks[j][k].released[n][1] = a /\ blocks[j][k].released[n][2] = q
    BY <1>2 DEF OwnReleased, Released, Range
  <2>2. PICK k \in DOMAIN blocks[j] : \E n \in DOMAIN blocks[j][k].released :
              blocks[j][k].released[n][1] = a /\ blocks[j][k].released[n][2] = q
    BY <2>1, Zenon
  <2>3. PICK n \in DOMAIN blocks[j][k].released :
              blocks[j][k].released[n][1] = a /\ blocks[j][k].released[n][2] = q
    BY <2>2, Zenon
  <2>4. k \in 1..Len(commits) /\ blocks[j][k] = BlockOf(AfterAt(commits, k))
    BY BlocksAgreed, Zenon
  <2>5. PICK b \in Author : \E r \in AfterAt(commits, k)[b].ready :
              blocks[j][k].released[n] = <<b, r.sequence>>
    BY <2>3, BlocksRelease, Zenon
  <2>6. PICK r \in AfterAt(commits, k)[b].ready : blocks[j][k].released[n] = <<b, r.sequence>>
    BY <2>5, Zenon
  <2>7. b = a /\ r.sequence = q
    BY <2>3, <2>6
  <2> QED
    BY <2>4, <2>6, <2>7, GoneFacts, Zenon
<1>3. ASSUME q \in Gone(commits, a) PROVE q \in OwnReleased(a)
  <2>1. PICK k \in 1..Len(commits) : \E r \in AfterAt(commits, k)[a].ready : r.sequence = q
    BY <1>3, GoneFacts
  <2>2. PICK r \in AfterAt(commits, k)[a].ready : r.sequence = q
    BY <2>1, Zenon
  <2>3. PICK j \in Validator : k \in DOMAIN blocks[j]
    BY Zenon DEF BatchInv
  <2>4. \A s \in AfterAt(commits, k)[a].ready : \E n \in DOMAIN blocks[j][k].released :
              blocks[j][k].released[n] = <<a, s.sequence>>
    BY <2>3, BlocksRelease
  <2>5. PICK n \in DOMAIN blocks[j][k].released : blocks[j][k].released[n] = <<a, r.sequence>>
    BY <2>4, Zenon
  <2> DEFINE x == blocks[j][k].released[n]
  <2>6. x \in Released(j)
    BY <2>3, <2>5 DEF Released, Range
  <2>7. x[1] = a /\ x[2] = q
    BY <2>2, <2>5
  <2> HIDE DEF x
  <2> QED
    BY <2>6, <2>7, Zenon DEF OwnReleased
<1> QED
  BY <1>2, <1>3, Zenon

LEMMA InvSameBlocks == BatchInv => SameBlocks
  BY BlocksAgreed, Zenon DEF SameBlocks

LEMMA InvReleasedOnce == BatchInv => ReleasedOnce
<1> SUFFICES ASSUME BatchInv, NEW i \in Validator,
                    NEW k \in DOMAIN blocks[i], NEW l \in DOMAIN blocks[i],
                    NEW m \in DOMAIN blocks[i][k].released, NEW n \in DOMAIN blocks[i][l].released,
                    blocks[i][k].released[m] = blocks[i][l].released[n]
             PROVE  k = l /\ m = n
  BY Zenon DEF ReleasedOnce
<1>1. AllFit(commits, Sealing) /\ Len(commits) \in Nat
  BY InvFits, Zenon DEF AllFit
<1>2. /\ k \in 1..Len(commits) /\ blocks[i][k] = BlockOf(AfterAt(commits, k))
      /\ l \in 1..Len(commits) /\ blocks[i][l] = BlockOf(AfterAt(commits, l))
  BY BlocksAgreed, Zenon
<1>3. CASE k < l
  BY <1>1, <1>2, <1>3, ReleasedApart, Zenon
<1>4. CASE l < k
  BY <1>1, <1>2, <1>4, ReleasedApart, Zenon
<1>5. CASE k = l
  BY <1>5, BlocksRelease, Zenon
<1>6. k < l \/ l < k \/ k = l
  BY <1>1, <1>2
<1> QED
  BY <1>3, <1>4, <1>5, <1>6, Zenon

LEMMA InvAccounted == BatchInv => IntroducedAccounted
<1> SUFFICES ASSUME BatchInv, NEW i \in Author, core[i].resuming = 0,
                    NEW v \in disk[i].own, NEW q \in v.batches
             PROVE  q \in core[i].introduced \cup handed[i] \cup OwnReleased(i)
  BY Zenon DEF IntroducedAccounted
<1>1. i \in Validator
  BY Bounds, Zenon
<1>2. Own(core[i], disk[i]) \subseteq core[i].introduced \cup handed[i] \cup Gone(commits, i)
  BY <1>1, HereGood, Zenon
<1>3. q \in Own(core[i], disk[i])
  BY DEF Own
<1> QED
  BY <1>2, <1>3, ReleasedIsGone, Zenon

LEMMA InvReturned == BatchInv => ReturnedNotOrdered
<1> SUFFICES ASSUME BatchInv, NEW i \in Author, complete[i] # "adopted", disk[i].base = 0
             PROVE  handed[i] \cap OwnReleased(i) = {}
  BY Zenon DEF ReturnedNotOrdered
<1>1. i \in Validator /\ Way(disk[i], complete[i]) = "ordered"
  BY Bounds, Zenon DEF Way
<1>2. \A q \in handed[i] : q \notin Gone(commits, i)
  BY <1>1, HereGood, Zenon DEF Final
<1> QED
  BY <1>2, ReleasedIsGone, Zenon

-----------------------------------------------------------------------------
(* Every validator stands where the agreed commits lead to, for any number of *)
(* validators, authors, commits and batches: what it applied by following,    *)
(* replaying after a crash or resuming from an exported ordering state        *)
(* (batch.rs on_ordered, release, export, import; core.rs commit, recover).   *)
THEOREM BatchInvariant == Spec => []BatchInv
<1>1. BatchInv /\ [Next]_vars => BatchInv'
  BY NextInv, Zenon
<1> QED
  BY InitInv, <1>1, PTL DEF Spec

(* The cores, journals, blocks and commits keep their types: the sequences a  *)
(* recovered core takes stay within those sealed, and every block is a        *)
(* sequence of sealed batches (core.rs Core, journal.rs Record).              *)
THEOREM TypeCorrect == Spec => []TypeOK
<1>1. BatchInv => TypeOK
  BY Zenon DEF BatchInv
<1> QED
  BY BatchInvariant, <1>1, PTL

(* All validators that apply a commit release the same batches in the same    *)
(* order and are left with the same ordering state (batch.rs release).        *)
THEOREM SameBlocksTheorem == Spec => []SameBlocks
  BY BatchInvariant, InvSameBlocks, PTL

(* No batch is released twice, however often it is introduced or carried      *)
(* (batch.rs introduce, advance, expire_gaps).                                *)
THEOREM ReleasedOnceTheorem == Spec => []ReleasedOnce
  BY BatchInvariant, InvReleasedOnce, PTL

(* A batch its author introduced stays counted, was released, or was handed   *)
(* back (core.rs commit, recover and complete_epoch).                         *)
THEOREM IntroducedAccountedTheorem == Spec => []IntroducedAccounted
  BY BatchInvariant, InvAccounted, PTL

(* A batch handed back is not ordered as well, unless its author resumed past *)
(* commits or adopted the handover (core.rs commit and complete_epoch).       *)
THEOREM ReturnedNotOrderedTheorem == Spec => []ReturnedNotOrdered
  BY BatchInvariant, InvReturned, PTL
====
