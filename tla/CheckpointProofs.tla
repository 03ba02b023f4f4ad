-------------------------- MODULE CheckpointProofs ---------------------------
(***************************************************************************)
(* Proofs about CheckpointVotes, for every committee, every set of         *)
(* checkpoints and every window.                                           *)
(***************************************************************************)
EXTENDS CheckpointVotes, CommitteeProofs

(* The high-water mark of one validator, its signatures S included. *)
Kept(h, S) ==
    /\ h \in HighWater
    /\ \A c, d \in h.signed : SameIndex(c, d) => c = d
    /\ h.mark # None => h.mark \in h.signed
    /\ \A c \in S : /\ h.mark # None
                    /\ index[c] <= index[h.mark]
                    /\ index[h.mark] - index[c] < Window => c \in h.signed
    /\ \A c, d \in S : SameIndex(c, d) => c = d

(* Indices are numbers (Checkpoint::index). *)
LEMMA IndexType == \A c \in Checkpoint \cup {None} : index[c] \in Nat
  BY CheckpointAssumption

(* A checkpoint past the mark moves it (Record::Mark). *)
LEMMA MarkKeeps ==
    ASSUME NEW h, NEW S \in SUBSET Checkpoint, Kept(h, S),
           NEW c \in Checkpoint, Ahead(h, c)
    PROVE  Kept(Marked(h, c), S \cup {c})
<1> DEFINE g == Marked(h, c)
<1> SUFFICES Kept(g, S \cup {c})
  OBVIOUS
<1>0. h.mark \in Checkpoint \cup {None} /\ h.signed \subseteq Checkpoint
  BY DEF Kept, HighWater, Maybe
<1>1. g.mark = c /\ g.signed = {d \in Put(h, c) : index[d] # index[c] - Window}
  BY DEF Marked
<1>2. g \in HighWater
  BY <1>0 DEF Marked, Put, HighWater, Maybe
<1>3. \A d, e \in g.signed : SameIndex(d, e) => d = e
  BY <1>1 DEF Put, At, Kept, SameIndex
<1>4. c \in g.signed
  BY <1>1, IndexType, CheckpointAssumption DEF Put
<1>5. ASSUME NEW d \in S
      PROVE  /\ h.mark # None /\ index[d] < index[c]
             /\ index[c] - index[d] < Window => d \in g.signed
  <2>1. /\ h.mark # None /\ index[d] <= index[h.mark]
        /\ index[h.mark] - index[d] < Window => d \in h.signed
    BY DEF Kept
  <2>2. index[h.mark] < index[c]
    BY <2>1 DEF Ahead
  <2>3. index[d] \in Nat /\ index[c] \in Nat /\ index[h.mark] \in Nat /\ Window \in Nat
    BY <1>0, IndexType, CheckpointAssumption
  <2>4. index[d] < index[c]
    BY <2>1, <2>2, <2>3
  <2>5. ASSUME index[c] - index[d] < Window
        PROVE  d \in g.signed
    <3>1. d \in h.signed
      BY <2>1, <2>2, <2>3, <2>5
    <3>2. index[d] # index[c] /\ index[d] # index[c] - Window
      BY <2>3, <2>4, <2>5
    <3> QED
      BY <3>1, <3>2, <1>1 DEF Put, At
  <2> QED
    BY <2>1, <2>4, <2>5
<1>6. \A d \in S \cup {c} :
        /\ g.mark # None /\ index[d] <= index[g.mark]
        /\ index[g.mark] - index[d] < Window => d \in g.signed
  BY <1>1, <1>4, <1>5, IndexType, CheckpointAssumption
<1>7. \A d, e \in S \cup {c} : SameIndex(d, e) => d = e
  <2>1. \A d \in S : index[d] # index[c]
    BY <1>5, IndexType
  <2> QED
    BY <2>1 DEF Kept, SameIndex
<1> HIDE DEF g
<1> QED
  BY <1>1, <1>2, <1>3, <1>4, <1>6, <1>7, CheckpointAssumption DEF Kept

(* One behind it is added where nothing was signed (Record::Behind). *)
LEMMA BehindKeeps ==
    ASSUME NEW h, NEW S \in SUBSET Checkpoint, Kept(h, S),
           NEW c \in Checkpoint, Behind(h, c)
    PROVE  Kept([h EXCEPT !.signed = Put(h, c)], S \cup {c})
<1> DEFINE g == [h EXCEPT !.signed = Put(h, c)]
<1> SUFFICES Kept(g, S \cup {c})
  OBVIOUS
<1>0. /\ h \in HighWater
      /\ h.mark \in Checkpoint \cup {None} /\ h.signed \subseteq Checkpoint
  BY DEF Kept, HighWater, Maybe
<1>1. g.mark = h.mark /\ g.signed = h.signed \cup {c}
  BY <1>0 DEF Behind, Put, HighWater
<1>2. g \in HighWater
  BY <1>0, <1>1 DEF HighWater
<1>3. At(h, index[c]) = {} /\ h.mark # None /\ index[c] < index[h.mark]
      /\ index[h.mark] - index[c] < Window
  BY DEF Behind, InWindow
<1>4. \A d \in h.signed : index[d] # index[c]
  BY <1>3 DEF At
<1>5. \A d \in S : index[d] # index[c]
  <2> SUFFICES ASSUME NEW d \in S, index[d] = index[c] PROVE FALSE
    OBVIOUS
  <2> QED
    BY <1>3, <1>4 DEF Kept
<1>6. /\ \A d, e \in g.signed : SameIndex(d, e) => d = e
      /\ g.mark # None => g.mark \in g.signed
      /\ \A d, e \in S \cup {c} : SameIndex(d, e) => d = e
  BY <1>1, <1>4, <1>5 DEF Kept, SameIndex
<1>7. ASSUME NEW d \in S \cup {c}
      PROVE  /\ g.mark # None /\ index[d] <= index[g.mark]
             /\ index[g.mark] - index[d] < Window => d \in g.signed
  <2> HIDE DEF g
  <2>1. CASE d \in S
    BY <2>1, <1>1 DEF Kept
  <2>2. CASE d = c
    BY <2>2, <1>0, <1>1, <1>3, IndexType
  <2> QED
    BY <2>1, <2>2
<1> HIDE DEF g
<1> QED
  BY <1>2, <1>6, <1>7 DEF Kept

(* What was recorded may be signed again (Record::Again). *)
LEMMA AgainKeeps ==
    ASSUME NEW h, NEW S \in SUBSET Checkpoint, Kept(h, S),
           NEW c \in Checkpoint, Again(h, c)
    PROVE  Kept(h, S \cup {c})
<1>0. h.mark \in Checkpoint \cup {None} /\ h.mark # None /\ c \in h.signed
  BY CheckpointAssumption DEF Again, InWindow, Kept, HighWater, Maybe
<1>1. index[c] <= index[h.mark] /\ index[h.mark] - index[c] < Window
  BY <1>0, IndexType, CheckpointAssumption DEF Again, InWindow
<1>2. \A d \in S : SameIndex(c, d) => c = d
  <2> SUFFICES ASSUME NEW d \in S, index[d] = index[c] PROVE d = c
    BY DEF SameIndex
  <2>1. d \in h.signed
    BY <1>1 DEF Kept
  <2> QED
    BY <1>0, <2>1 DEF Kept, SameIndex
<1> QED
  BY <1>0, <1>1, <1>2, Zenon DEF Kept, SameIndex

-----------------------------------------------------------------------------
(* The collector. *)

(* Pruning only forgets (VoteCollector::prune_below). *)
LEMMA PruneKeeps ==
    ASSUME NEW k \in Core, NEW x \in Int
    PROVE  /\ prune_below(k, x) \in Core
           /\ prune_below(k, x).votes \subseteq k.votes
           /\ prune_below(k, x).certificates = k.certificates
<1>1. k.floor \in Nat
  BY DEF Core
<1>2. CASE x <= k.floor
  BY <1>2 DEF prune_below
<1>3. CASE ~(x <= k.floor)
  <2>1. x \in Nat
    BY <1>1, <1>3
  <2>2. prune_below(k, x) = [k EXCEPT !.floor = x,
                   !.votes = {w \in @ : index[w[2]] >= x},
                   !.certified = {y \in @ : y >= x}]
    BY <1>3 DEF prune_below
  <2> QED
    BY Zenon, <2>1, <2>2 DEF Core
<1> QED
  BY <1>2, <1>3

(* A certificate is added, and others may be dropped (Core::on_certified). *)
LEMMA CertifiedKeeps ==
    ASSUME NEW k \in Core, NEW t \in Certificate
    PROVE  /\ on_certified(k, t) \in Core
           /\ on_certified(k, t).votes \subseteq k.votes
           /\ on_certified(k, t).certificates \subseteq k.certificates \cup {t}
<1> DEFINE x == index[t.checkpoint]
           j == [k EXCEPT !.certificates = Latest(@ \cup {t})]
<1>1. CASE Held(k, x) # {}
  BY <1>1 DEF on_certified
<1>2. CASE Held(k, x) = {}
  <2>1. on_certified(k, t) = prune_below(j, x - PruneLag)
    BY <1>2 DEF on_certified
  <2>2. x - PruneLag \in Int
    BY IndexType, CheckpointAssumption DEF Certificate
  <2>3. Latest(k.certificates \cup {t}) \subseteq k.certificates \cup {t}
    BY DEF Latest
  <2>4. /\ j \in Core /\ j.votes = k.votes
        /\ j.certificates = Latest(k.certificates \cup {t})
    BY <2>3 DEF Core
  <2> HIDE DEF j, x
  <2> QED
    BY <2>1, <2>2, <2>3, <2>4, PruneKeeps
<1> QED
  BY <1>1, <1>2

(* A vote is added, and it may form a certificate of the votes held          *)
(* (VoteCollector::add).                                                     *)
LEMMA AddKeeps ==
    ASSUME NEW k \in Core, NEW j \in Validator, NEW c \in Checkpoint
    PROVE  /\ add(k, j, c) \in Core
           /\ add(k, j, c).votes \subseteq k.votes \cup {<<j, c>>}
           /\ \A t \in add(k, j, c).certificates \ k.certificates :
                 /\ t.checkpoint = c
                 /\ Weight(t.signers) >= quorum
                 /\ \A v \in t.signers : <<v, c>> \in k.votes \cup {<<j, c>>}
<1> DEFINE voted == [k EXCEPT !.votes = @ \cup {<<j, c>>}]
           t     == [checkpoint |-> c, signers |-> Signers(voted, c)]
           m     == [voted EXCEPT !.certified = @ \cup {index[c]}]
<1>1. /\ voted \in Core /\ voted.votes = k.votes \cup {<<j, c>>}
      /\ voted.certificates = k.certificates
  BY DEF Core
<1>2. /\ m \in Core /\ m.votes = voted.votes /\ m.certificates = voted.certificates
  BY Zenon, <1>1, IndexType DEF Core
<1>3. /\ t \in Certificate /\ t.checkpoint = c
      /\ \A v \in t.signers : <<v, c>> \in voted.votes
  BY DEF Certificate, Signers
<1>4. \/ add(k, j, c) = k
      \/ add(k, j, c) = voted
      \/ ~(Weight(t.signers) < quorum) /\ add(k, j, c) = on_certified(m, t)
  BY DEF add
<1> HIDE DEF voted, t, m
<1>5. CASE add(k, j, c) = k
  BY <1>5
<1>6. CASE add(k, j, c) = voted
  BY <1>1, <1>6, Zenon
<1>7. CASE ~(Weight(t.signers) < quorum) /\ add(k, j, c) = on_certified(m, t)
  <2>1. Weight(t.signers) >= quorum
    BY <1>7, WeightOfSubset, Thresholds
  <2> QED
    BY <1>1, <1>2, <1>3, <1>7, <2>1, CertifiedKeeps
<1> QED
  BY <1>4, <1>5, <1>6, <1>7

-----------------------------------------------------------------------------
(* The invariant. *)

(* Inv, with what concerns the high-water marks put together. *)
MarksKept == \A i \in Honest : Kept(disk[i], signed[i])

(* Inv is the conjunction of what the actions preserve. *)
LEMMA InvParts == Inv <=> TypeOK /\ MarksKept /\ VotesMade /\ EvidenceSound
<1>1. TypeOK => \A i \in Honest : disk[i] \in HighWater
  BY DEF TypeOK
<1> QED
  BY <1>1 DEF Inv, MarksKept, Kept, KeysSound, SignaturesKept, NoDoubleSign

(* A certificate that verifies keeps verifying as signatures are added. *)
LEMMA VerifiesGrows ==
    ASSUME NEW t, Verifies(t), \A v \in Honest : signed[v] \subseteq signed'[v]
    PROVE  Verifies(t)'
  BY Zenon DEF Verifies, Weight, SeatsOf

(* A new core holds the certificates it is given and no vote. *)
LEMMA NewCoreType ==
    ASSUME NEW c \in Maybe(Checkpoint), NEW C \in SUBSET Certificate
    PROVE  /\ NewCore(c, C) \in Core
           /\ NewCore(c, C).votes = {} /\ NewCore(c, C).certificates = C
<1>1. index[c] + 1 \in Nat
  BY IndexType DEF Maybe
<1> QED
  BY <1>1 DEF NewCore, Core

(* The invariant holds before anything happens (Core::new). *)
LEMMA InitInv == Init => Inv
<1> SUFFICES ASSUME Init PROVE TypeOK /\ MarksKept /\ VotesMade /\ EvidenceSound
  BY InvParts
<1>1. NewCore(None, {}) \in Core
  BY NewCoreType DEF Maybe
<1>2. TypeOK
  BY <1>1, Zenon DEF Init, TypeOK, HighWater, Maybe
<1>3. MarksKept
  BY DEF Init, MarksKept, Kept, HighWater, Maybe
<1>4. VotesMade /\ EvidenceSound
  BY DEF Init, VotesMade, EvidenceSound, NewCore
<1> QED
  BY <1>2, <1>3, <1>4

(* A vote that its signer made may be counted (count_vote). *)
LEMMA CountKeeps ==
    ASSUME TypeOK, MarksKept, VotesMade, EvidenceSound,
           NEW i \in Honest, NEW j \in Validator, NEW c \in Checkpoint,
           j \in Honest => c \in signed[j],
           Count(i, j, c), UNCHANGED <<journal, signed>>
    PROVE  /\ core' \in [Honest -> Core]
           /\ accused' \in [Honest -> SUBSET Validator]
           /\ EvidenceSound'
           /\ \A q \in Honest :
                 /\ \A v \in Honest, d \in Checkpoint :
                       <<v, d>> \in core'[q].votes => d \in signed'[v]
                 /\ \A t \in core'[q].certificates \cup journal'[q] : Verifies(t)'
<1> DEFINE k == core[i]
<1>1. k \in Core /\ core' = [core EXCEPT ![i] = add(k, j, c)]
  BY DEF TypeOK, Count
<1>2. /\ add(k, j, c) \in Core
      /\ add(k, j, c).votes \subseteq k.votes \cup {<<j, c>>}
      /\ \A t \in add(k, j, c).certificates \ k.certificates :
            /\ t.checkpoint = c
            /\ Weight(t.signers) >= quorum
            /\ \A v \in t.signers : <<v, c>> \in k.votes \cup {<<j, c>>}
  <2> HIDE DEF k
  <2> QED
    BY <1>1, AddKeeps, Zenon
<1>3. core' \in [Honest -> Core]
  BY <1>1, <1>2, Zenon DEF TypeOK
<1>4. ASSUME j \in Honest, NEW d \in Checkpoint, <<j, d>> \in k.votes,
             index[d] = index[c]
      PROVE  d = c
  BY <1>4 DEF VotesMade, MarksKept, Kept, SameIndex
<1>5. Equivocator(k, j, c) \subseteq {j} /\ (j \in Honest => Equivocator(k, j, c) = {})
  BY Zenon, <1>4 DEF Equivocator, Earlier
<1>6. /\ accused' \in [Honest -> SUBSET Validator]
      /\ EvidenceSound'
  <2>1. accused' = [accused EXCEPT ![i] = @ \cup Equivocator(k, j, c)]
    BY DEF Count
  <2>2. Equivocator(k, j, c) \subseteq Byzantine \cap Validator
    BY <1>5, Zenon DEF Honest
  <2> QED
    BY <2>1, <2>2 DEF TypeOK, EvidenceSound
<1>7. \A t : Verifies(t) => Verifies(t)'
  BY VerifiesGrows
<1>8. ASSUME NEW v \in Honest, NEW d \in Checkpoint, <<v, d>> \in k.votes \cup {<<j, c>>}
      PROVE  d \in signed[v]
  BY <1>8 DEF VotesMade
<1>9. ASSUME NEW q \in Honest
      PROVE  /\ \A v \in Honest, d \in Checkpoint :
                   <<v, d>> \in core'[q].votes => d \in signed'[v]
             /\ \A t \in core'[q].certificates \cup journal'[q] : Verifies(t)'
  <2>1. CASE q # i
    <3>1. core'[q] = core[q]
      BY <1>1, <2>1 DEF TypeOK
    <3> QED
      BY <3>1, <1>7, Zenon DEF VotesMade
  <2>2. CASE q = i
    <3>1. core'[q] = add(k, j, c)
      BY <1>1, <2>2, Zenon DEF TypeOK
    <3>2. \A v \in Honest, d \in Checkpoint :
                   <<v, d>> \in core'[q].votes => d \in signed'[v]
      BY <3>1, <1>2, <1>8
    <3>3. ASSUME NEW t \in core'[q].certificates \cup journal'[q]
          PROVE  Verifies(t)
      <4>1. CASE t \in core[q].certificates \cup journal[q]
        BY <4>1 DEF VotesMade
      <4>2. CASE t \notin core[q].certificates \cup journal[q]
        <5>1. /\ t.checkpoint = c /\ Weight(t.signers) >= quorum
              /\ \A v \in t.signers : <<v, c>> \in k.votes \cup {<<j, c>>}
          BY <1>2, <2>2, <3>1, <4>2
        <5> QED
          BY Zenon, <5>1, <1>8 DEF Verifies
      <4> QED
        BY <4>1, <4>2, Zenon
    <3> QED
      BY <3>2, <3>3, <1>7
  <2> QED
    BY <2>1, <2>2, Zenon
<1> QED
  BY <1>3, <1>6, <1>9

(* Replacing one core by another that shows nothing new. *)
LEMMA CoreKeeps ==
    ASSUME TypeOK, VotesMade, NEW i \in Honest, NEW k \in Core,
           core' = [core EXCEPT ![i] = k], UNCHANGED <<ready, sent, signed>>,
           journal' \in [Honest -> SUBSET Certificate],
           \A v \in Honest, d \in Checkpoint : <<v, d>> \in k.votes => d \in signed[v],
           \A t \in k.certificates : Verifies(t),
           \A q \in Honest : \A t \in journal'[q] : Verifies(t)
    PROVE  core' \in [Honest -> Core] /\ VotesMade'
<1>1. core' \in [Honest -> Core]
  BY DEF TypeOK
<1>2. \A t : Verifies(t) => Verifies(t)'
  BY VerifiesGrows
<1>3. ASSUME NEW q \in Honest
      PROVE  /\ \A v \in Honest, d \in Checkpoint :
                   <<v, d>> \in core'[q].votes => d \in signed[v]
             /\ \A t \in core'[q].certificates \cup journal'[q] : Verifies(t)
  <2>1. CASE q = i
    BY <2>1, Zenon DEF TypeOK
  <2>2. CASE q # i
    BY <2>2, Zenon DEF TypeOK, VotesMade
  <2> QED
    BY <2>1, <2>2, Zenon
<1>4. VotesMade'
  BY <1>2, <1>3 DEF VotesMade
<1> QED
  BY <1>1, <1>4, Zenon

(* Every step preserves the invariant, one case per action of Next. *)
LEMMA NextInv == Inv /\ [Next]_vars => Inv'
<1> SUFFICES ASSUME TypeOK, MarksKept, VotesMade, EvidenceSound, [Next]_vars
             PROVE  TypeOK' /\ MarksKept' /\ VotesMade' /\ EvidenceSound'
  <2>1. Inv' <=> TypeOK' /\ MarksKept' /\ VotesMade' /\ EvidenceSound'
    BY InvParts, PTL
  <2> QED
    BY <2>1, InvParts
<1>1. ASSUME NEW i \in Honest, Decide(i)
      PROVE  TypeOK' /\ MarksKept' /\ VotesMade' /\ EvidenceSound'
  <2> DEFINE k == [core[i] EXCEPT !.next_checkpoint_index = @ + 1]
  <2>1. /\ core[i] \in Core /\ k \in Core
        /\ k.votes = core[i].votes /\ k.certificates = core[i].certificates
    <3>1. core[i] \in Core
      BY Zenon DEF TypeOK
    <3>2. core[i].next_checkpoint_index + 1 \in Nat
      BY <3>1 DEF Core
    <3> QED
      BY <3>1, <3>2, Zenon DEF Core
  <2>2. core' = [core EXCEPT ![i] = k]
    BY <1>1 DEF Decide
  <2> HIDE DEF k
  <2>3. core' \in [Honest -> Core] /\ VotesMade'
    <3>1. \A q \in Honest : \A t \in journal'[q] : Verifies(t)
      BY <1>1, Zenon DEF Decide, VotesMade
    <3>2. /\ \A v \in Honest, d \in Checkpoint : <<v, d>> \in k.votes => d \in signed[v]
          /\ \A t \in k.certificates : Verifies(t)
      BY <2>1 DEF VotesMade
    <3>3. journal' \in [Honest -> SUBSET Certificate] /\ UNCHANGED <<ready, sent, signed>>
      BY <1>1, Zenon DEF Decide, TypeOK
    <3> QED
      BY Zenon, <2>1, <2>2, <3>1, <3>2, <3>3, CoreKeeps
  <2> QED
    BY <1>1, <2>3 DEF Decide, TypeOK, MarksKept, EvidenceSound
<1>2. ASSUME NEW i \in Honest, NEW c \in Checkpoint, Build(i, c)
      PROVE  TypeOK' /\ MarksKept' /\ VotesMade' /\ EvidenceSound'
  <2> DEFINE k == [core[i] EXCEPT !.built = c]
  <2>1. /\ core[i] \in Core /\ k \in Core
        /\ k.votes = core[i].votes /\ k.certificates = core[i].certificates
    BY Zenon DEF TypeOK, Core, Maybe
  <2>2. core' = [core EXCEPT ![i] = k]
    BY <1>2 DEF Build
  <2> HIDE DEF k
  <2>3. core' \in [Honest -> Core] /\ VotesMade'
    <3>1. \A q \in Honest : \A t \in journal'[q] : Verifies(t)
      BY <1>2 DEF Build, VotesMade
    <3>2. /\ \A v \in Honest, d \in Checkpoint : <<v, d>> \in k.votes => d \in signed[v]
          /\ \A t \in k.certificates : Verifies(t)
      BY <2>1 DEF VotesMade
    <3>3. journal' \in [Honest -> SUBSET Certificate] /\ UNCHANGED <<ready, sent, signed>>
      BY <1>2 DEF Build, TypeOK
    <3> QED
      BY Zenon, <2>1, <2>2, <3>1, <3>2, <3>3, CoreKeeps
  <2> QED
    BY <1>2, <2>3 DEF Build, TypeOK, MarksKept, EvidenceSound
<1>3. ASSUME NEW i \in Honest, NEW c \in Checkpoint, Sign(i, c)
      PROVE  TypeOK' /\ MarksKept' /\ VotesMade' /\ EvidenceSound'
  <2> DEFINE h == disk[i]
             granted == IF Again(h, c) \/ Behind(h, c) \/ Ahead(h, c) THEN {c} ELSE {}
  <2>1. Kept(h, signed[i]) /\ signed[i] \in SUBSET Checkpoint
    BY Zenon DEF MarksKept, TypeOK
  <2>2. Kept(Recorded(h, c), signed[i] \cup granted)
    <3> HIDE DEF h
    <3>1. CASE Ahead(h, c)
      BY <2>1, <3>1, MarkKeeps DEF Recorded
    <3>2. CASE ~Ahead(h, c) /\ Behind(h, c)
      BY <2>1, <3>2, BehindKeeps DEF Recorded
    <3>3. CASE ~Ahead(h, c) /\ ~Behind(h, c) /\ Again(h, c)
      BY <2>1, <3>3, AgainKeeps DEF Recorded
    <3>4. CASE ~Ahead(h, c) /\ ~Behind(h, c) /\ ~Again(h, c)
      BY <2>1, <3>4 DEF Recorded
    <3> QED
      BY <3>1, <3>2, <3>3, <3>4, Zenon
  <2>3. granted \subseteq Checkpoint
    BY Zenon
  <2>4. /\ disk' = [disk EXCEPT ![i] = Recorded(h, c)]
        /\ ready' = [ready EXCEPT ![i] = @ \cup granted]
        /\ signed' = [signed EXCEPT ![i] = @ \cup granted]
        /\ asked' = [asked EXCEPT ![i] = @ \ {c}]
        /\ UNCHANGED <<journal, sent, core, accused, restarts>>
    BY <1>3 DEF Sign
  <2> HIDE DEF h, granted
  <2>5. MarksKept'
    BY <2>2, <2>4, Zenon DEF MarksKept, TypeOK
  <2>6. TypeOK'
    <3>1. Recorded(h, c) \in HighWater
      BY <2>2 DEF Kept
    <3> QED
      BY <2>3, <2>4, <3>1, Zenon DEF TypeOK
  <2>7. \A v \in Honest : signed[v] \subseteq signed'[v]
    BY <2>4, Zenon DEF TypeOK
  <2>8. VotesMade'
    <3>1. \A t : Verifies(t) => Verifies(t)'
      BY <2>7, VerifiesGrows, Zenon
    <3>2. \A q \in Honest : ready'[q] \subseteq signed'[q] /\ sent'[q] \subseteq signed'[q]
      BY <2>4, Zenon DEF TypeOK, VotesMade
    <3> QED
      BY <2>4, <2>7, <3>1, <3>2, Zenon DEF VotesMade
  <2> QED
    BY <2>4, <2>5, <2>6, <2>8, Zenon DEF EvidenceSound
<1>4. ASSUME NEW i \in Honest, NEW c \in Checkpoint, OwnVote(i, c)
      PROVE  TypeOK' /\ MarksKept' /\ VotesMade' /\ EvidenceSound'
  <2>1. c \in signed[i] /\ i \in Validator
    BY <1>4 DEF OwnVote, VotesMade, Honest
  <2>2. Count(i, i, c) /\ UNCHANGED <<disk, journal, asked, signed, restarts>>
    BY <1>4, Zenon DEF OwnVote
  <2>3. /\ core' \in [Honest -> Core] /\ accused' \in [Honest -> SUBSET Validator]
        /\ EvidenceSound'
        /\ \A q \in Honest :
              /\ \A v \in Honest, d \in Checkpoint :
                    <<v, d>> \in core'[q].votes => d \in signed'[v]
              /\ \A t \in core'[q].certificates \cup journal'[q] : Verifies(t)'
    BY <2>1, <2>2, CountKeeps, Zenon
  <2>4. /\ ready' \in [Honest -> SUBSET Checkpoint] /\ sent' \in [Honest -> SUBSET Checkpoint]
        /\ \A q \in Honest : ready'[q] \subseteq signed'[q] /\ sent'[q] \subseteq signed'[q]
    BY <1>4, <2>1, <2>2, Zenon DEF OwnVote, TypeOK, VotesMade
  <2> QED
    BY <2>2, <2>3, <2>4, Zenon DEF TypeOK, MarksKept, VotesMade
<1>5. ASSUME NEW i \in Honest, NEW j \in Validator, NEW c \in Checkpoint, OnVote(i, j, c)
      PROVE  TypeOK' /\ MarksKept' /\ VotesMade' /\ EvidenceSound'
  <2>1. j \in Honest => c \in signed[j]
    BY <1>5 DEF OnVote, VotesMade
  <2>2. Count(i, j, c) /\ UNCHANGED <<disk, journal, asked, ready, signed, sent, restarts>>
    BY <1>5, Zenon DEF OnVote
  <2>3. /\ core' \in [Honest -> Core] /\ accused' \in [Honest -> SUBSET Validator]
        /\ EvidenceSound'
        /\ \A q \in Honest :
              /\ \A v \in Honest, d \in Checkpoint :
                    <<v, d>> \in core'[q].votes => d \in signed'[v]
              /\ \A t \in core'[q].certificates \cup journal'[q] : Verifies(t)'
    BY <2>1, <2>2, CountKeeps, Zenon
  <2> QED
    BY <2>2, <2>3, Zenon DEF TypeOK, MarksKept, VotesMade
<1>6. ASSUME NEW i \in Honest, NEW t \in Certificate, OnCertificate(i, t)
      PROVE  TypeOK' /\ MarksKept' /\ VotesMade' /\ EvidenceSound'
  <2> DEFINE k == on_certified(core[i], t)
             blamed == UNION {u.signers \cap t.signers :
                          u \in {u \in Held(core[i], index[t.checkpoint]) :
                                     u.checkpoint # t.checkpoint}}
  <2>1. core[i] \in Core /\ Verifies(t)
    BY <1>6, Zenon DEF TypeOK, OnCertificate
  <2>2. /\ k \in Core /\ k.votes \subseteq core[i].votes
        /\ k.certificates \subseteq core[i].certificates \cup {t}
    BY <2>1, CertifiedKeeps, Zenon
  <2>3. /\ core' = [core EXCEPT ![i] = k]
        /\ accused' = [accused EXCEPT ![i] = @ \cup blamed]
        /\ UNCHANGED <<disk, journal, asked, ready, signed, sent, restarts>>
    BY <1>6, Zenon DEF OnCertificate
  <2>4. blamed \subseteq Byzantine
    <3> SUFFICES ASSUME NEW u \in core[i].certificates,
                        index[u.checkpoint] = index[t.checkpoint],
                        u.checkpoint # t.checkpoint,
                        NEW v \in u.signers \cap t.signers, v \in Honest
                 PROVE  FALSE
      BY Zenon DEF Held, Honest, Certificate
    <3>1. u.checkpoint \in signed[v] /\ t.checkpoint \in signed[v]
      BY <2>1 DEF VotesMade, Verifies
    <3> QED
      BY <3>1 DEF MarksKept, Kept, SameIndex
  <2> HIDE DEF k, blamed
  <2>5. core' \in [Honest -> Core] /\ VotesMade'
    <3>1. \A q \in Honest : \A u \in journal'[q] : Verifies(u)
      BY <2>3, Zenon DEF VotesMade
    <3>2. /\ \A v \in Honest, d \in Checkpoint : <<v, d>> \in k.votes => d \in signed[v]
          /\ \A u \in k.certificates : Verifies(u)
      BY <2>1, <2>2, Zenon DEF VotesMade
    <3>3. journal' \in [Honest -> SUBSET Certificate] /\ UNCHANGED <<ready, sent, signed>>
      BY <2>3, Zenon DEF TypeOK
    <3> QED
      BY Zenon, <2>2, <2>3, <3>1, <3>2, <3>3, CoreKeeps
  <2>6. accused' \in [Honest -> SUBSET Validator] /\ EvidenceSound'
    BY <2>3, <2>4, CheckpointAssumption, Zenon DEF TypeOK, EvidenceSound
  <2> QED
    BY <2>3, <2>5, <2>6, Zenon DEF TypeOK, MarksKept
<1>7. ASSUME NEW i \in Honest, NEW t \in Certificate, FastForward(i, t)
      PROVE  TypeOK' /\ MarksKept' /\ VotesMade' /\ EvidenceSound'
  <2> DEFINE k == NewCore(t.checkpoint, {t})
  <2>1. k \in Core /\ k.votes = {} /\ k.certificates = {t} /\ Verifies(t)
    <3>1. t.checkpoint \in Maybe(Checkpoint)
      BY Zenon DEF Certificate, Maybe
    <3> QED
      BY <1>7, <3>1, NewCoreType DEF FastForward
  <2>2. /\ core' = [core EXCEPT ![i] = k]
        /\ journal' = [journal EXCEPT ![i] = {t}]
        /\ restarts' = restarts + 1
        /\ UNCHANGED <<disk, asked, ready, signed, sent, accused>>
    BY <1>7 DEF FastForward
  <2> HIDE DEF k
  <2>3. core' \in [Honest -> Core] /\ VotesMade'
    <3>1. \A q \in Honest : \A u \in journal'[q] : Verifies(u)
      BY <2>1, <2>2, Zenon DEF VotesMade, TypeOK
    <3>2. journal' \in [Honest -> SUBSET Certificate] /\ UNCHANGED <<ready, sent, signed>>
      BY <2>2, Zenon DEF TypeOK
    <3> QED
      BY Zenon, <2>1, <2>2, <3>1, <3>2, CoreKeeps
  <2> QED
    BY <2>2, <2>3 DEF TypeOK, MarksKept, EvidenceSound
<1>8. ASSUME NEW i \in Honest, CrashRecover(i)
      PROVE  TypeOK' /\ MarksKept' /\ VotesMade' /\ EvidenceSound'
  <2> DEFINE k == IF journal[i] = {} THEN NewCore(None, {})
                  ELSE NewCore((CHOOSE t \in journal[i] : TRUE).checkpoint, journal[i])
  <2>1. k \in Core /\ k.votes = {} /\ k.certificates = journal[i]
    <3>1. journal[i] \subseteq Certificate
      BY Zenon DEF TypeOK
    <3>2. CASE journal[i] = {}
      BY <3>2, NewCoreType, Zenon DEF Maybe
    <3>3. CASE journal[i] # {}
      <4>1. PICK t \in journal[i] : k = NewCore(t.checkpoint, journal[i])
        BY Zenon, <3>3
      <4>2. t.checkpoint \in Maybe(Checkpoint)
        BY <3>1, Zenon DEF Certificate, Maybe
      <4> DEFINE c == t.checkpoint
                 n == NewCore(c, journal[i])
      <4>3. n \in Core /\ n.votes = {} /\ n.certificates = journal[i]
        <5> HIDE DEF c, k
        <5> QED
          BY <3>1, <4>2, NewCoreType, Zenon DEF c
      <4> HIDE DEF n, k
      <4> QED
        BY <4>1, <4>3 DEF n
    <3> QED
      BY <3>2, <3>3, Zenon
  <2>2. /\ core' = [core EXCEPT ![i] = k]
        /\ asked' = [asked EXCEPT ![i] = {}]
        /\ ready' = [ready EXCEPT ![i] = {}]
        /\ restarts' = restarts + 1
        /\ UNCHANGED <<disk, journal, signed, sent, accused>>
    BY <1>8, Zenon DEF CrashRecover
  <2> HIDE DEF k
  <2>3. core' \in [Honest -> Core]
    BY <2>1, <2>2, Zenon DEF TypeOK
  <2>4. VotesMade'
    <3>1. \A t : Verifies(t) => Verifies(t)'
      BY <2>2, VerifiesGrows, Zenon
    <3>2. ASSUME NEW q \in Honest
          PROVE  /\ core'[q].votes \subseteq core[q].votes
                 /\ core'[q].certificates \subseteq core[q].certificates \cup journal[q]
                 /\ ready'[q] \subseteq ready[q]
      BY <2>1, <2>2, Zenon DEF TypeOK
    <3> QED
      BY <2>2, <3>1, <3>2, Zenon DEF VotesMade
  <2> QED
    BY <2>2, <2>3, <2>4 DEF TypeOK, MarksKept, EvidenceSound
<1>9. ASSUME UNCHANGED vars
      PROVE  TypeOK' /\ MarksKept' /\ VotesMade' /\ EvidenceSound'
  <2>1. \A t : Verifies(t) => Verifies(t)'
    BY <1>9, VerifiesGrows, Zenon DEF vars
  <2> QED
    BY <1>9, <2>1, Zenon DEF vars, TypeOK, MarksKept, VotesMade, EvidenceSound
<1>10. \A c \in Checkpoint, S \in SUBSET Validator :
          [checkpoint |-> c, signers |-> S] \in Certificate
  BY DEF Certificate
<1> QED
  BY Zenon, <1>1, <1>2, <1>3, <1>4, <1>5, <1>6, <1>7, <1>8, <1>9, <1>10 DEF Next

-----------------------------------------------------------------------------
(* The theorems. *)

(***************************************************************************)
(* The inductive invariant: the keys kept with the mark account for every  *)
(* signature within the window, and votes and certificates show only       *)
(* signatures that were made.                                              *)
(***************************************************************************)
THEOREM Invariance == Spec => []Inv
<1> QED
  BY InitInv, NextInv, PTL DEF Spec

(***************************************************************************)
(* No honest validator signs two checkpoints of one index, whatever its    *)
(* cores build and however signing tasks, crashes and fast-forwards        *)
(* interleave.                                                             *)
(***************************************************************************)
THEOREM NoDoubleSignTheorem == Spec => []NoDoubleSign
<1>1. Inv => NoDoubleSign
  BY DEF Inv
<1> QED
  BY <1>1, Invariance, PTL

(* Equivocation evidence never names an honest validator. *)
THEOREM EvidenceSoundTheorem == Spec => []EvidenceSound
<1>1. Inv => EvidenceSound
  BY DEF Inv
<1> QED
  BY <1>1, Invariance, PTL

(* Conflicting certificates convict more than max_faulty seats. *)
LEMMA InvAccountability == Inv => Accountability
<1> SUFFICES ASSUME Inv, NEW i \in Honest, NEW j \in Honest,
                    NEW t \in core[i].certificates, NEW u \in core[j].certificates,
                    SameIndex(t.checkpoint, u.checkpoint), t.checkpoint # u.checkpoint
             PROVE  /\ t.signers \cap u.signers \subseteq Byzantine
                    /\ Weight(t.signers \cap u.signers) >= validity
  BY Zenon DEF Accountability
<1>1. Verifies(t) /\ Verifies(u)
  BY Zenon DEF Inv, VotesMade
<1>2. Weight(t.signers \cap u.signers) >= validity
  BY <1>1, QuorumOverlap, Zenon DEF Verifies
<1>3. t.signers \subseteq Validator
  BY DEF Inv, TypeOK, Core, Certificate
<1>4. ASSUME NEW v \in t.signers \cap u.signers, v \in Honest PROVE FALSE
  BY <1>1, <1>4, Zenon DEF Verifies, Inv, NoDoubleSign
<1> QED
  BY <1>2, <1>3, <1>4, Zenon DEF Honest

(***************************************************************************)
(* However many members are faulty, two conflicting certificates at honest *)
(* validators convict faulty members of more than max_faulty seats.        *)
(***************************************************************************)
THEOREM AccountabilityTheorem == Spec => []Accountability
<1> QED
  BY InvAccountability, Invariance, PTL

(***************************************************************************)
(* With at most max_faulty faulty seats, certificates of one index agree.  *)
(***************************************************************************)
THEOREM CertificateAgreementTheorem == Spec => []CertificateAgreement
<1>1. Inv => CertificateAgreement
  <2> SUFFICES ASSUME Inv, Weight(Byzantine) <= max_faulty,
                      NEW i \in Honest, NEW j \in Honest,
                      NEW t \in core[i].certificates, NEW u \in core[j].certificates,
                      SameIndex(t.checkpoint, u.checkpoint),
                      t.checkpoint # u.checkpoint
               PROVE  FALSE
    BY ZenonT(30) DEF CertificateAgreement
  <2>1. /\ t.signers \cap u.signers \subseteq Byzantine
        /\ Weight(t.signers \cap u.signers) >= validity
    BY InvAccountability, Zenon DEF Accountability
  <2>2. /\ Weight(t.signers \cap u.signers) \in Nat /\ Weight(Byzantine) \in Nat
        /\ Weight(t.signers \cap u.signers) <= Weight(Byzantine)
    BY <2>1, WeightOfSubset, Zenon
  <2> QED
    BY <2>1, <2>2, Thresholds
<1> QED
  BY <1>1, Invariance, PTL

-----------------------------------------------------------------------------
(* What bounds the votes a core holds. *)

(* A core that went on from k: it decided no less, and its latest            *)
(* certificates are of no lower index.                                       *)
Advances(k, m) ==
    /\ k.next_checkpoint_index <= m.next_checkpoint_index
    /\ \A t \in k.certificates : \E u \in m.certificates :
          index[u.checkpoint] >= index[t.checkpoint]

(* The votes of one core are within its reach and not pruned. *)
Bounded(k) ==
    \A w \in k.votes : InReach(k, index[w[2]]) /\ index[w[2]] >= k.floor

(* The highest certificate is never the one the bound drops. *)
LEMMA LatestKeepsHighest ==
    ASSUME NEW C \in SUBSET Certificate, IsFiniteSet(C), NEW t \in C
    PROVE  /\ IsFiniteSet(Latest(C))
           /\ \E u \in Latest(C) : index[u.checkpoint] >= index[t.checkpoint]
<1> DEFINE above(v) == {u \in C : index[u.checkpoint] > index[v.checkpoint]}
           U == {v \in C : index[v.checkpoint] >= index[t.checkpoint]}
           T == {Cardinality(above(v)) : v \in U}
<1>1. \A v \in C : index[v.checkpoint] \in Nat
  BY IndexType DEF Certificate
<1>2. \A v \in C : IsFiniteSet(above(v)) /\ Cardinality(above(v)) \in Nat
  <2> SUFFICES ASSUME NEW v \in C
               PROVE  IsFiniteSet(above(v)) /\ Cardinality(above(v)) \in Nat
    OBVIOUS
  <2>1. above(v) \subseteq C
    OBVIOUS
  <2> HIDE DEF above
  <2> QED
    BY <2>1, FS_Subset, FS_CardinalityType, Zenon
<1>3. t \in U
  BY <1>1
<1>4. PICK v \in U : \A w \in U : Cardinality(above(v)) <= Cardinality(above(w))
  <2>1. T \subseteq Nat /\ T # {}
    BY <1>2, <1>3, Zenon
  <2>2. PICK x \in T : \A y \in T : x <= y
    <3> HIDE DEF T
    <3> QED
      BY <2>1, NatLeast, Zenon
  <2> HIDE DEF above, U
  <2>3. PICK v \in U : x = Cardinality(above(v))
    BY <2>2, Zenon
  <2> QED
    BY <2>2, <2>3, Zenon
<1>5. above(v) = {}
  <2> SUFFICES ASSUME NEW w \in above(v) PROVE FALSE
    OBVIOUS
  <2>1. w \in C /\ index[w.checkpoint] > index[v.checkpoint]
    OBVIOUS
  <2>2. w \in U
    BY <1>1, <2>1
  <2>3. above(w) \subseteq above(v) /\ w \notin above(w) /\ w \in above(v)
    BY <1>1, <2>1
  <2>4. above(w) # above(v)
    BY <2>3
  <2>5. IsFiniteSet(above(v)) /\ Cardinality(above(v)) \in Nat
        /\ Cardinality(above(w)) \in Nat
    BY <1>2, <2>1, Zenon
  <2>6. Cardinality(above(v)) <= Cardinality(above(w))
    BY <1>4, <2>2, Zenon
  <2> HIDE DEF above
  <2>7. Cardinality(above(w)) < Cardinality(above(v))
    BY <2>3, <2>4, <2>5, FS_Subset
  <2> QED
    BY <2>5, <2>6, <2>7
<1>6. Cardinality(above(v)) = 0
  <2> HIDE DEF above
  <2> QED
    BY <1>5, FS_EmptySet, Zenon
<1>7. v \in Latest(C)
  BY <1>6, CheckpointAssumption DEF Latest
<1>8. IsFiniteSet(Latest(C))
  <2>1. Latest(C) \subseteq C
    BY Zenon DEF Latest
  <2> QED
    BY <2>1, FS_Subset, Zenon
<1> QED
  BY <1>7, <1>8, Zenon

(* What is in reach of a core stays in reach as it goes on. *)
LEMMA ReachGrows ==
    ASSUME NEW k \in Core, NEW m \in Core, Advances(k, m), NEW x \in Nat, InReach(k, x)
    PROVE  InReach(m, x)
<1>0. /\ k.next_checkpoint_index \in Nat /\ m.next_checkpoint_index \in Nat
      /\ k.next_checkpoint_index <= m.next_checkpoint_index
      /\ Window \in Nat
  BY CheckpointAssumption, Zenon DEF Core, Advances
<1>1. CASE x <= k.next_checkpoint_index + Window
  BY <1>0, <1>1 DEF InReach
<1>2. CASE \E t \in k.certificates : x <= index[t.checkpoint] + 1 + Window
  <2>1. PICK t \in k.certificates : x <= index[t.checkpoint] + 1 + Window
    BY <1>2, Zenon
  <2>2. PICK u \in m.certificates : index[u.checkpoint] >= index[t.checkpoint]
    BY Zenon DEF Advances
  <2>3. index[t.checkpoint] \in Nat /\ index[u.checkpoint] \in Nat
    BY IndexType, Zenon DEF Core, Certificate
  <2>4. x <= index[u.checkpoint] + 1 + Window
    BY <1>0, <2>1, <2>2, <2>3
  <2> QED
    BY <2>4 DEF InReach
<1> QED
  BY <1>1, <1>2, Zenon DEF InReach

(* Pruning drops the votes below the new floor (VoteCollector::prune_below). *)
LEMMA PruneBounds ==
    ASSUME NEW k \in Core, NEW x \in Int,
           \A w \in k.votes : index[w[2]] >= k.floor
    PROVE  /\ prune_below(k, x).next_checkpoint_index = k.next_checkpoint_index
           /\ \A w \in prune_below(k, x).votes : index[w[2]] >= prune_below(k, x).floor
<1>1. CASE x <= k.floor
  BY <1>1, Zenon DEF prune_below
<1>2. CASE ~(x <= k.floor)
  <2> DEFINE m == [k EXCEPT !.floor = x,
                   !.votes = {w \in @ : index[w[2]] >= x},
                   !.certified = {y \in @ : y >= x}]
  <2>1. prune_below(k, x) = m
    BY <1>2 DEF prune_below
  <2>2. /\ m.next_checkpoint_index = k.next_checkpoint_index /\ m.floor = x
        /\ m.votes = {w \in k.votes : index[w[2]] >= x}
    BY DEF Core
  <2> HIDE DEF m
  <2> QED
    BY <2>1, <2>2
<1> QED
  BY <1>1, <1>2, Zenon

(* A core is itself one that went on from it. *)
LEMMA AdvancesReflexive ==
    ASSUME NEW k \in Core
    PROVE  Advances(k, k)
<1>1. /\ k.next_checkpoint_index \in Nat
      /\ \A t \in k.certificates : index[t.checkpoint] \in Nat
  BY IndexType, Zenon DEF Core, Certificate
<1> QED
  BY <1>1 DEF Advances

(* A certificate moves the reach and the floor of a core up only             *)
(* (Core::on_certified).                                                     *)
LEMMA CertifiedAdvances ==
    ASSUME NEW k \in Core, NEW t \in Certificate, IsFiniteSet(k.certificates)
    PROVE  /\ Advances(k, on_certified(k, t))
           /\ IsFiniteSet(on_certified(k, t).certificates)
           /\ Bounded(k) => Bounded(on_certified(k, t))
<1> DEFINE x == index[t.checkpoint]
           C == k.certificates \cup {t}
           j == [k EXCEPT !.certificates = Latest(@ \cup {t})]
           n == on_certified(k, t)
<1>0. n \in Core /\ n.votes \subseteq k.votes
  BY CertifiedKeeps, Zenon
<1>1. CASE Held(k, x) # {}
  <2>1. n = k
    BY <1>1, Zenon DEF on_certified
  <2> HIDE DEF n
  <2> QED
    BY <2>1, AdvancesReflexive DEF n
<1>2. CASE Held(k, x) = {}
  <2>1. n = prune_below(j, x - PruneLag)
    BY <1>2, Zenon DEF on_certified
  <2>2. x - PruneLag \in Int
    BY IndexType, CheckpointAssumption DEF Certificate
  <2>3. C \in SUBSET Certificate /\ IsFiniteSet(C)
    BY FS_AddElement DEF Core
  <2>4. /\ j \in Core /\ j.votes = k.votes /\ j.floor = k.floor
        /\ j.certificates = Latest(C)
        /\ j.next_checkpoint_index = k.next_checkpoint_index
    <3>1. Latest(C) \in SUBSET Certificate
      BY <2>3, Zenon DEF Latest
    <3> QED
      BY <3>1, Zenon DEF Core
  <2> HIDE DEF j, x, C, n
  <2>5. n.certificates = Latest(C)
    BY <2>1, <2>2, <2>4, PruneKeeps, Zenon
  <2>6. t \in C /\ k.certificates \subseteq C
    BY Zenon DEF C
  <2>7. IsFiniteSet(n.certificates)
    BY <2>3, <2>5, <2>6, LatestKeepsHighest, Zenon
  <2>8. /\ n.next_checkpoint_index = k.next_checkpoint_index
    <3>1. CASE x - PruneLag <= j.floor
      BY <3>1, <2>1, <2>4 DEF prune_below
    <3>2. CASE ~(x - PruneLag <= j.floor)
      BY <3>2, <2>1, <2>4, Zenon DEF prune_below, Core
    <3> QED
      BY <3>1, <3>2, Zenon
  <2>9. Advances(k, n)
    <3>1. k.next_checkpoint_index <= n.next_checkpoint_index
      BY <2>8 DEF Core
    <3>2. \A u \in k.certificates : \E w \in n.certificates :
             index[w.checkpoint] >= index[u.checkpoint]
      BY <2>3, <2>5, <2>6, LatestKeepsHighest, Zenon
    <3> QED
      BY <3>1, <3>2 DEF Advances
  <2>10. ASSUME Bounded(k) PROVE Bounded(n)
    <3>1. \A w \in j.votes : index[w[2]] >= j.floor
      BY <2>4, <2>10, Zenon DEF Bounded
    <3>2. \A w \in n.votes : index[w[2]] >= n.floor
      BY <2>1, <2>2, <2>4, <3>1, PruneBounds, Zenon
    <3>3. ASSUME NEW w \in n.votes PROVE InReach(n, index[w[2]])
      <4>1. w \in k.votes /\ n \in Core
        BY <1>0, Zenon DEF n
      <4>2. index[w[2]] \in Nat
        BY <4>1, IndexType, Zenon DEF Core
      <4>3. InReach(k, index[w[2]])
        BY <4>1, <2>10, Zenon DEF Bounded
      <4> QED
        BY <2>9, <4>1, <4>2, <4>3, ReachGrows, Zenon
    <3> QED
      BY <3>2, <3>3, Zenon DEF Bounded
  <2> QED
    BY <2>7, <2>9, <2>10, Zenon DEF n
<1> QED
  BY <1>1, <1>2, Zenon

(* So does a vote in reach of it (VoteCollector::add). *)
LEMMA AddAdvances ==
    ASSUME NEW k \in Core, NEW j \in Validator, NEW c \in Checkpoint,
           IsFiniteSet(k.certificates)
    PROVE  /\ Advances(k, add(k, j, c))
           /\ IsFiniteSet(add(k, j, c).certificates)
           /\ Bounded(k) /\ InReach(k, index[c]) => Bounded(add(k, j, c))
<1> DEFINE voted == [k EXCEPT !.votes = @ \cup {<<j, c>>}]
           t     == [checkpoint |-> c, signers |-> Signers(voted, c)]
           m     == [voted EXCEPT !.certified = @ \cup {index[c]}]
           n     == add(k, j, c)
<1>1. /\ voted \in Core /\ voted.votes = k.votes \cup {<<j, c>>}
      /\ voted.certificates = k.certificates /\ voted.floor = k.floor
      /\ voted.next_checkpoint_index = k.next_checkpoint_index
  BY DEF Core
<1>2. /\ m \in Core /\ m.votes = voted.votes /\ m.certificates = voted.certificates
      /\ m.floor = voted.floor
      /\ m.next_checkpoint_index = voted.next_checkpoint_index
  BY Zenon, <1>1, IndexType DEF Core
<1>3. t \in Certificate
  BY DEF Certificate, Signers
<1>4. \/ n = k
      \/ ~(index[c] < k.floor) /\ n = voted
      \/ ~(index[c] < k.floor) /\ n = on_certified(m, t)
  BY DEF add
<1> HIDE DEF voted, t, m, n
<1>5. CASE n = k
  BY <1>5, AdvancesReflexive DEF n
<1>6. CASE ~(index[c] < k.floor)
  <2>1. Advances(k, k)
    BY AdvancesReflexive, Zenon
  <2>2. Advances(k, voted) /\ Advances(k, m)
    BY <1>1, <1>2, <2>1, Zenon DEF Advances
  <2>3. index[c] >= k.floor
    BY <1>6, IndexType DEF Core
  <2>4. ASSUME Bounded(k), InReach(k, index[c])
        PROVE  Bounded(voted) /\ Bounded(m)
    <3> SUFFICES ASSUME NEW w \in voted.votes
                 PROVE  /\ InReach(voted, index[w[2]]) /\ InReach(m, index[w[2]])
                        /\ index[w[2]] >= k.floor
      BY <1>1, <1>2 DEF Bounded
    <3>1. w \in k.votes \/ w[2] = c
      BY <1>1
    <3>2. InReach(k, index[w[2]]) /\ index[w[2]] >= k.floor
      BY <2>3, <2>4, <3>1 DEF Bounded
    <3>3. index[w[2]] \in Nat
      BY <1>1, IndexType DEF Core
    <3>4. InReach(voted, index[w[2]])
      BY <1>1, <2>2, <3>2, <3>3, ReachGrows, Zenon
    <3>5. InReach(m, index[w[2]])
      BY <1>2, <2>2, <3>2, <3>3, ReachGrows, Zenon
    <3> QED
      BY <3>2, <3>4, <3>5, Zenon
  <2>5. CASE n = voted
    BY <1>1, <2>2, <2>4, <2>5 DEF n
  <2>6. CASE n = on_certified(m, t)
    <3>1. IsFiniteSet(m.certificates)
      BY <1>1, <1>2, Zenon
    <3>2. Advances(m, n) /\ IsFiniteSet(n.certificates) /\ (Bounded(m) => Bounded(n))
      BY <1>2, <1>3, <2>6, <3>1, CertifiedAdvances, Zenon
    <3>3. Advances(k, n)
      BY <1>1, <1>2, <3>2, Zenon DEF Advances
    <3> QED
      BY <2>4, <3>2, <3>3, Zenon DEF n
  <2> QED
    BY <1>4, <1>5, <1>6, <2>5, <2>6, Zenon
<1> QED
  BY <1>4, <1>5, <1>6

(* A step that replaces one core, and the tasks and the journal beside it. *)
LEMMA CoreBounds ==
    ASSUME TypeOK, BoundInv, NEW i \in Honest, NEW m \in Core,
           core' = [core EXCEPT ![i] = m],
           \A q \in Honest \ {i} : /\ asked'[q] = asked[q] /\ ready'[q] = ready[q]
                                   /\ journal'[q] = journal[q],
           \A c \in asked'[i] \cup ready'[i] : index[c] < m.next_checkpoint_index,
           IsFiniteSet(m.certificates), IsFiniteSet(journal'[i]), Bounded(m),
           restarts' = restarts => Advances(core[i], m)
    PROVE  /\ BoundInv'
           /\ restarts' = restarts => \A q \in Honest : Advances(core[q], core'[q])
<1>1. core'[i] = m
  BY Zenon DEF TypeOK
<1>2. \A q \in Honest \ {i} : core'[q] = core[q]
  BY Zenon DEF TypeOK
<1>3. \A q \in Honest : core[q] \in Core
  BY Zenon DEF TypeOK
<1>4. TasksDecided'
  BY <1>1, <1>2, Zenon DEF TasksDecided, BoundInv
<1>5. CertificatesFinite'
  BY <1>1, <1>2, Zenon DEF CertificatesFinite, BoundInv
<1>6. VotesBounded'
  <2> SUFFICES ASSUME NEW q \in Honest, NEW w \in core'[q].votes
               PROVE  InReach(core'[q], index[w[2]]) /\ index[w[2]] >= core'[q].floor
    BY Zenon DEF VotesBounded, InReach
  <2>1. CASE q = i
    BY <1>1, <2>1, Zenon DEF Bounded
  <2>2. CASE q # i
    BY <1>2, <2>2, Zenon DEF BoundInv, VotesBounded
  <2> QED
    BY <2>1, <2>2, Zenon
<1>7. restarts' = restarts => \A q \in Honest : Advances(core[q], core'[q])
  BY <1>1, <1>2, <1>3, AdvancesReflexive, Zenon
<1> QED
  BY <1>4, <1>5, <1>6, <1>7, Zenon DEF BoundInv

(* A new core has decided the checkpoint it starts from and holds no vote. *)
LEMMA NewCoreBounded ==
    ASSUME NEW c \in Maybe(Checkpoint), NEW C \in SUBSET Certificate
    PROVE  /\ Bounded(NewCore(c, C))
           /\ NewCore(c, C).next_checkpoint_index = index[c] + 1
  BY Zenon DEF NewCore, Bounded

(* Every step preserves the bound, one case per action of Next, and takes    *)
(* the core that lives on further only.                                      *)
LEMMA NextBound ==
    ASSUME Inv, BoundInv, [Next]_vars
    PROVE  /\ BoundInv'
           /\ restarts' = restarts => \A i \in Honest : Advances(core[i], core'[i])
<1> DEFINE Goal == /\ BoundInv'
                   /\ restarts' = restarts =>
                          \A i \in Honest : Advances(core[i], core'[i])
<1> SUFFICES Goal
  OBVIOUS
<1>0. TypeOK
  BY Zenon DEF Inv
<1>a. ASSUME NEW i \in Honest
      PROVE  /\ core[i] \in Core /\ Bounded(core[i]) /\ Advances(core[i], core[i])
             /\ IsFiniteSet(core[i].certificates) /\ IsFiniteSet(journal[i])
             /\ \A c \in asked[i] \cup ready[i] :
                   c \in Checkpoint /\ index[c] < core[i].next_checkpoint_index
             /\ core[i].next_checkpoint_index \in Nat
  <2>1. core[i] \in Core
    BY <1>0, Zenon DEF TypeOK
  <2>2. core[i].next_checkpoint_index \in Nat
    BY <2>1, Zenon DEF Core
  <2>3. \A c \in asked[i] \cup ready[i] : c \in Checkpoint
    BY <1>0, Zenon DEF TypeOK
  <2> QED
    BY <2>1, <2>2, <2>3, AdvancesReflexive, Zenon
       DEF BoundInv, VotesBounded, Bounded, CertificatesFinite, TasksDecided
<1>1. ASSUME NEW i \in Honest, Decide(i) PROVE Goal
  <2> DEFINE m == [core[i] EXCEPT !.next_checkpoint_index = @ + 1]
  <2>1. /\ m \in Core /\ m.votes = core[i].votes /\ m.floor = core[i].floor
        /\ m.certificates = core[i].certificates
        /\ m.next_checkpoint_index = core[i].next_checkpoint_index + 1
    BY <1>a DEF Core
  <2>2. core' = [core EXCEPT ![i] = m] /\ UNCHANGED <<journal, asked, ready>>
    BY <1>1 DEF Decide
  <2> HIDE DEF m, Goal
  <2>3. Advances(core[i], m)
    BY <1>a, <2>1 DEF Advances
  <2>4. Bounded(m)
    <3> SUFFICES ASSUME NEW w \in m.votes
                 PROVE  InReach(m, index[w[2]]) /\ index[w[2]] >= m.floor
      BY Zenon DEF Bounded
    <3>1. InReach(core[i], index[w[2]]) /\ index[w[2]] >= m.floor
      BY <1>a, <2>1, Zenon DEF Bounded
    <3>2. index[w[2]] \in Nat
      BY <2>1, IndexType, Zenon DEF Core
    <3> QED
      BY <1>a, <2>1, <2>3, <3>1, <3>2, ReachGrows, Zenon
  <2>5. \A c \in asked'[i] \cup ready'[i] : index[c] < m.next_checkpoint_index
    BY <1>a, <2>1, <2>2, IndexType
  <2>6. IsFiniteSet(m.certificates) /\ IsFiniteSet(journal'[i])
    BY <1>a, <2>1, <2>2, Zenon
  <2> QED
    BY <1>0, <2>1, <2>2, <2>3, <2>4, <2>5, <2>6, CoreBounds, Zenon DEF Goal
<1>2. ASSUME NEW i \in Honest, NEW c \in Checkpoint, Build(i, c) PROVE Goal
  <2> DEFINE m == [core[i] EXCEPT !.built = c]
  <2>1. /\ m \in Core /\ m.votes = core[i].votes /\ m.floor = core[i].floor
        /\ m.certificates = core[i].certificates
        /\ m.next_checkpoint_index = core[i].next_checkpoint_index
    BY <1>a, Zenon DEF Core, Maybe
  <2>2. /\ core' = [core EXCEPT ![i] = m] /\ UNCHANGED <<journal, ready>>
        /\ asked' = [asked EXCEPT ![i] = @ \cup {c}]
        /\ index[c] < core[i].next_checkpoint_index
    BY <1>2 DEF Build
  <2> HIDE DEF m, Goal
  <2>3. Advances(core[i], m) /\ Bounded(m)
    BY <1>a, <2>1 DEF Advances, Bounded, InReach
  <2>4. asked'[i] = asked[i] \cup {c} /\ \A q \in Honest \ {i} : asked'[q] = asked[q]
    BY <1>0, <2>2, Zenon DEF TypeOK
  <2>5. \A d \in asked'[i] \cup ready'[i] : index[d] < m.next_checkpoint_index
    BY <1>a, <2>1, <2>2, <2>4, Zenon
  <2>6. IsFiniteSet(m.certificates) /\ IsFiniteSet(journal'[i])
    BY <1>a, <2>1, <2>2, Zenon
  <2> QED
    BY <1>0, <2>1, <2>2, <2>3, <2>4, <2>5, <2>6, CoreBounds, Zenon DEF Goal
<1>3. ASSUME NEW i \in Honest, NEW c \in Checkpoint, Sign(i, c) PROVE Goal
  <2>1. /\ UNCHANGED <<journal, core, restarts>> /\ c \in asked[i]
        /\ asked' = [asked EXCEPT ![i] = @ \ {c}]
        /\ \E g \in SUBSET {c} : ready' = [ready EXCEPT ![i] = @ \cup g]
    BY <1>3, Zenon DEF Sign
  <2>2. \A q \in Honest : asked'[q] \cup ready'[q] \subseteq asked[q] \cup ready[q]
    BY <1>0, <2>1 DEF TypeOK
  <2>3. TasksDecided'
    BY <2>1, <2>2 DEF BoundInv, TasksDecided
  <2>4. CertificatesFinite' /\ VotesBounded'
    BY <2>1, Zenon DEF BoundInv, CertificatesFinite, VotesBounded, InReach
  <2> QED
    BY <1>a, <2>1, <2>3, <2>4, Zenon DEF BoundInv
<1>4. ASSUME NEW i \in Honest, NEW j \in Validator, NEW c \in Checkpoint,
             InReach(core[i], index[c]), Count(i, j, c),
             UNCHANGED <<journal, asked>>,
             \A q \in Honest : ready'[q] \subseteq ready[q],
             \A q \in Honest \ {i} : ready'[q] = ready[q]
      PROVE  Goal
  <2> DEFINE m == add(core[i], j, c)
  <2>1. m \in Core
    BY <1>a, AddKeeps, Zenon
  <2>2. /\ Advances(core[i], m) /\ IsFiniteSet(m.certificates) /\ Bounded(m)
    BY <1>a, <1>4, AddAdvances, Zenon
  <2>3. core' = [core EXCEPT ![i] = m]
    BY <1>4, Zenon DEF Count
  <2> HIDE DEF m, Goal
  <2>4. m.next_checkpoint_index \in Nat
        /\ core[i].next_checkpoint_index <= m.next_checkpoint_index
    BY <2>1, <2>2, Zenon DEF Core, Advances
  <2>5. ASSUME NEW d \in asked'[i] \cup ready'[i]
        PROVE  index[d] < m.next_checkpoint_index
    <3>1. d \in asked[i] \cup ready[i]
      BY <1>4, Zenon
    <3>2. index[d] \in Nat /\ index[d] < core[i].next_checkpoint_index
      BY <1>a, <3>1, IndexType, Zenon
    <3> QED
      BY <1>a, <2>4, <3>2
  <2>6. IsFiniteSet(journal'[i])
    BY <1>a, <1>4, Zenon
  <2> QED
    BY <1>0, <1>4, <2>1, <2>2, <2>3, <2>5, <2>6, CoreBounds, Zenon DEF Goal
<1>5. ASSUME NEW i \in Honest, NEW c \in Checkpoint, OwnVote(i, c) PROVE Goal
  <2>1. /\ c \in ready[i] /\ ready' = [ready EXCEPT ![i] = @ \ {c}]
        /\ Count(i, i, c) /\ UNCHANGED <<journal, asked>> /\ i \in Validator
    BY <1>5, Zenon DEF OwnVote, Honest
  <2>2. InReach(core[i], index[c])
    <3>1. /\ index[c] \in Nat /\ core[i].next_checkpoint_index \in Nat /\ Window \in Nat
          /\ index[c] < core[i].next_checkpoint_index
      BY <1>a, <2>1, IndexType, CheckpointAssumption, Zenon
    <3> QED
      BY <3>1 DEF InReach
  <2>3. /\ \A q \in Honest : ready'[q] \subseteq ready[q]
        /\ \A q \in Honest \ {i} : ready'[q] = ready[q]
    BY <1>0, <2>1, Zenon DEF TypeOK
  <2> HIDE DEF Goal
  <2> QED
    BY <1>4, <2>1, <2>2, <2>3, Zenon
<1>6. ASSUME NEW i \in Honest, NEW j \in Validator, NEW c \in Checkpoint, OnVote(i, j, c)
      PROVE  Goal
  <2>1. /\ InReach(core[i], index[c]) /\ Count(i, j, c)
        /\ UNCHANGED <<journal, asked, ready>>
    BY <1>6, Zenon DEF OnVote
  <2> HIDE DEF Goal
  <2> QED
    BY <1>4, <2>1, Zenon
<1>7. ASSUME NEW i \in Honest, NEW t \in Certificate, OnCertificate(i, t) PROVE Goal
  <2> DEFINE m == on_certified(core[i], t)
  <2>1. m \in Core
    BY <1>a, CertifiedKeeps, Zenon
  <2>2. Advances(core[i], m) /\ IsFiniteSet(m.certificates) /\ Bounded(m)
    BY <1>a, CertifiedAdvances, Zenon
  <2>3. core' = [core EXCEPT ![i] = m] /\ UNCHANGED <<journal, asked, ready>>
    BY <1>7, Zenon DEF OnCertificate
  <2> HIDE DEF m, Goal
  <2>4. m.next_checkpoint_index \in Nat
        /\ core[i].next_checkpoint_index <= m.next_checkpoint_index
    BY <2>1, <2>2, Zenon DEF Core, Advances
  <2>5. \A d \in asked'[i] \cup ready'[i] : index[d] < m.next_checkpoint_index
    BY <1>a, <2>3, <2>4, IndexType
  <2>6. IsFiniteSet(journal'[i])
    BY <1>a, <2>3, Zenon
  <2> QED
    BY <1>0, <2>1, <2>2, <2>3, <2>5, <2>6, CoreBounds, Zenon DEF Goal
<1>8. ASSUME NEW i \in Honest, NEW t \in Certificate, FastForward(i, t) PROVE Goal
  <2> DEFINE m == NewCore(t.checkpoint, {t})
  <2>1. t.checkpoint \in Checkpoint /\ index[t.checkpoint] \in Nat
    BY IndexType, Zenon DEF Certificate
  <2>2. /\ m \in Core /\ m.certificates = {t} /\ Bounded(m)
        /\ m.next_checkpoint_index = index[t.checkpoint] + 1
    BY <2>1, NewCoreType, NewCoreBounded DEF Maybe
  <2>3. /\ core' = [core EXCEPT ![i] = m] /\ UNCHANGED <<asked, ready>>
        /\ journal' = [journal EXCEPT ![i] = {t}]
        /\ restarts' = restarts + 1
        /\ index[t.checkpoint] >= core[i].next_checkpoint_index
    BY <1>8, Zenon DEF FastForward
  <2> HIDE DEF m, Goal
  <2>4. \A d \in asked'[i] \cup ready'[i] : index[d] < m.next_checkpoint_index
    BY <1>a, <2>1, <2>2, <2>3, IndexType
  <2>5. /\ journal'[i] = {t} /\ \A q \in Honest \ {i} : journal'[q] = journal[q]
        /\ restarts' # restarts
    BY <1>0, <2>3 DEF TypeOK
  <2>6. IsFiniteSet(m.certificates) /\ IsFiniteSet(journal'[i])
    BY <2>2, <2>5, FS_Singleton, Zenon
  <2> QED
    BY <1>0, <2>2, <2>3, <2>4, <2>5, <2>6, CoreBounds, Zenon DEF Goal
<1>9. ASSUME NEW i \in Honest, CrashRecover(i) PROVE Goal
  <2>1. PICK c \in Maybe(Checkpoint) : core' = [core EXCEPT ![i] = NewCore(c, journal[i])]
    <3>1. journal[i] \in SUBSET Certificate
      BY <1>0, Zenon DEF TypeOK
    <3>2. CASE journal[i] = {}
      <4>1. core' = [core EXCEPT ![i] = NewCore(None, journal[i])]
        BY <1>9, <3>2 DEF CrashRecover
      <4> QED
        BY <4>1, Zenon DEF Maybe
    <3>3. CASE journal[i] # {}
      <4> DEFINE t == CHOOSE t \in journal[i] : TRUE
      <4>1. t \in journal[i]
        BY <3>3
      <4>2. core' = [core EXCEPT ![i] = NewCore(t.checkpoint, journal[i])]
        BY <1>9, <3>3, Zenon DEF CrashRecover
      <4> HIDE DEF t, Goal
      <4>3. t.checkpoint \in Maybe(Checkpoint)
        BY <3>1, <4>1 DEF Certificate, Maybe
      <4> QED
        BY <4>2, <4>3, Zenon
    <3> QED
      BY <3>2, <3>3, Zenon
  <2> DEFINE m == NewCore(c, journal[i])
  <2>2. m \in Core /\ m.certificates = journal[i] /\ Bounded(m)
    BY <1>0, NewCoreType, NewCoreBounded, Zenon DEF TypeOK
  <2>3. /\ core' = [core EXCEPT ![i] = m] /\ UNCHANGED journal
        /\ asked' = [asked EXCEPT ![i] = {}] /\ ready' = [ready EXCEPT ![i] = {}]
        /\ restarts' = restarts + 1
    BY <1>9, <2>1, Zenon DEF CrashRecover
  <2> HIDE DEF m, Goal
  <2>4. /\ asked'[i] = {} /\ ready'[i] = {} /\ restarts' # restarts
        /\ \A q \in Honest \ {i} : asked'[q] = asked[q] /\ ready'[q] = ready[q]
    BY <1>0, <2>3 DEF TypeOK
  <2>5. IsFiniteSet(m.certificates) /\ IsFiniteSet(journal'[i])
    BY <1>a, <2>2, <2>3
  <2> QED
    BY <1>0, <2>2, <2>3, <2>4, <2>5, CoreBounds, Zenon DEF Goal
<1>10. ASSUME UNCHANGED vars PROVE Goal
  <2>1. UNCHANGED <<core, asked, ready, journal>>
    BY <1>10, Zenon DEF vars
  <2> QED
    BY <1>a, <2>1, Zenon
       DEF BoundInv, TasksDecided, CertificatesFinite, VotesBounded, InReach
<1>11. \A c \in Checkpoint, S \in SUBSET Validator :
          [checkpoint |-> c, signers |-> S] \in Certificate
  BY DEF Certificate
<1> HIDE DEF Goal
<1> QED
  BY Zenon, <1>1, <1>2, <1>3, <1>5, <1>6, <1>7, <1>8, <1>9, <1>10, <1>11 DEF Next

(* Every variable keeps the shape of the field it stands for. *)
THEOREM TypeCorrect == Spec => []TypeOK
<1>1. Inv => TypeOK
  BY DEF Inv
<1> QED
  BY <1>1, Invariance, PTL

(* The bound is inductive together with Inv. *)
LEMMA BoundInvariance == Spec => []BoundInv
<1>1. Init => BoundInv
  <2> SUFFICES ASSUME Init PROVE BoundInv
    BY Zenon
  <2>1. ASSUME NEW i \in Honest
        PROVE  /\ asked[i] = {} /\ ready[i] = {} /\ journal[i] = {}
               /\ core[i].certificates = {} /\ core[i].votes = {}
    BY Zenon DEF Init, NewCore
  <2>2. TasksDecided /\ VotesBounded
    BY <2>1, Zenon DEF TasksDecided, VotesBounded
  <2>3. CertificatesFinite
    BY <2>1, FS_EmptySet, Zenon DEF CertificatesFinite
  <2> QED
    BY <2>2, <2>3 DEF BoundInv
<1>2. Inv /\ BoundInv /\ [Next]_vars => BoundInv'
  BY NextBound, Zenon
<1> QED
  BY <1>1, <1>2, Invariance, PTL DEF Spec

(***************************************************************************)
(* A core never holds a vote out of its reach or below its floor: its own  *)
(* votes come of tasks for checkpoints it decided, the others pass the     *)
(* check of on_vote, and neither a certificate nor a restart moves the     *)
(* reach below what it holds.                                              *)
(***************************************************************************)
THEOREM VotesBoundedTheorem == Spec => []VotesBounded
<1>1. BoundInv => VotesBounded
  BY DEF BoundInv
<1> QED
  BY <1>1, BoundInvariance, PTL

(***************************************************************************)
(* The latest certified index of a core never falls while it lives,        *)
(* whatever KeptCertificates is: on_certified drops the lowest.            *)
(***************************************************************************)
THEOREM LatestNeverFallsTheorem == Spec => LatestNeverFalls
<1>1. Inv /\ BoundInv /\ [Next]_vars =>
         [restarts' = restarts =>
            \A i \in Honest : \A t \in core[i].certificates :
              \E u \in core'[i].certificates :
                  index[u.checkpoint] >= index[t.checkpoint]]_vars
  BY NextBound DEF Advances
<1> QED
  BY <1>1, Invariance, BoundInvariance, PTL DEF Spec, LatestNeverFalls
=============================================================================
