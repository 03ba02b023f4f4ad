--------------------------- MODULE CheckpointVotes ---------------------------
(***************************************************************************)
(* Checkpoint signing and certification.  Every honest validator signs the *)
(* checkpoints its core builds through a persisted high-water mark         *)
(* (crates/tenzro-consensus/src/checkpoint.rs, record and sign_checkpoint) *)
(* and collects votes into certificates (VoteCollector; core.rs on_vote,   *)
(* on_certificate, on_certified).  Signing runs on a blocking thread per   *)
(* checkpoint (consensus_driver.rs, Event::Sign), so checkpoints are       *)
(* signed in any order, several may be under way, and a signature may      *)
(* return to another core than the one that asked for it.                  *)
(*                                                                         *)
(* Which checkpoint a core builds at an index is left open.  Two cores of  *)
(* one validator, before and after a restart, may build different ones:    *)
(* what is claimed of the votes rests on the mark and not on the ordering  *)
(* and the execution being repeated exactly.                               *)
(*                                                                         *)
(* An index is counted across epochs (next_epoch_start), so the order of   *)
(* (epoch, index) pairs is the order of indices; one epoch's committee is  *)
(* modelled.  Votes stay receivable once sent: on_frontier re-sends them.  *)
(* A failed storage write refuses the signature, as a task not run does.   *)
(***************************************************************************)
EXTENDS Committee

CONSTANTS Byzantine,        \* the faulty members
          Checkpoint,       \* the checkpoints anyone could build
          index, prev,      \* their index and the one they follow
          None,             \* no checkpoint; also the one the epoch starts from
          Window,           \* SIGNED_VOTE_WINDOW
          KeptCertificates, \* the latest certificates a core holds
          PruneLag,         \* votes are dropped this far behind a certificate
          MaxRestarts       \* bound on the new cores of all validators

Honest == Validator \ Byzantine

ASSUME CheckpointAssumption ==
    /\ Byzantine \subseteq Validator
    /\ None \notin Checkpoint
    /\ index \in [Checkpoint \cup {None} -> Nat]
    /\ prev \in [Checkpoint -> Checkpoint \cup {None}]
    /\ Window \in Nat \ {0}
    /\ KeptCertificates \in Nat \ {0}
    /\ PruneLag \in Nat
    /\ MaxRestarts \in Nat

VARIABLES
    disk,       \* disk[i]: HighWaterMark and the Signed keys, persisted
    journal,    \* journal[i]: the last Record::Resumed, persisted
    asked,      \* asked[i]: checkpoints with a signing task that has not run
    ready,      \* ready[i]: signed, not yet taken by the core (Input::Vote)
    signed,     \* signed[i]: every checkpoint i ever put its signature under
    sent,       \* sent[i]: the votes i ever sent
    core,       \* core[i]: the vote-collecting part of i's Core
    accused,    \* accused[i]: whom i ever reported (Event::Equivocation)
    restarts

vars == <<disk, journal, asked, ready, signed, sent, core, accused, restarts>>

Maybe(S) == S \cup {None}

(* Certificates are named by the checkpoint and by who signed it. *)
Certificate == [checkpoint : Checkpoint, signers : SUBSET Validator]

(* by_signer as a set of votes; built is prev_checkpoint. *)
Core == [next_checkpoint_index : Nat,
         built        : Maybe(Checkpoint),
         votes        : SUBSET (Validator \X Checkpoint),
         certified    : SUBSET Nat,
         floor        : Nat,
         certificates : SUBSET Certificate]

HighWater == [mark : Maybe(Checkpoint), signed : SUBSET Checkpoint]

(* Every variable keeps the shape of the field it stands for. *)
TypeOK ==
    /\ disk \in [Honest -> HighWater]
    /\ journal \in [Honest -> SUBSET Certificate]
    /\ asked \in [Honest -> SUBSET Checkpoint]
    /\ ready \in [Honest -> SUBSET Checkpoint]
    /\ signed \in [Honest -> SUBSET Checkpoint]
    /\ sent \in [Honest -> SUBSET Checkpoint]
    /\ core \in [Honest -> Core]
    /\ accused \in [Honest -> SUBSET Validator]
    /\ restarts \in Nat

-----------------------------------------------------------------------------
(* The high-water mark: check_high_water and record. *)

At(h, x) == {d \in h.signed : index[d] = x}

InWindow(h, c) ==
    /\ h.mark # None
    /\ index[c] < index[h.mark]
    /\ index[h.mark] - index[c] < Window

Again(h, c) == h.mark = c \/ (InWindow(h, c) /\ c \in h.signed)

(* Mutant: what was signed for the index is not looked at. *)
BehindOverwriting(h, c) ==
    /\ InWindow(h, c)
    /\ \E n \in At(h, index[c] + 1) : prev[n] = c

Behind(h, c) ==
    /\ InWindow(h, c)
    /\ At(h, index[c]) = {}
    /\ \E n \in At(h, index[c] + 1) : prev[n] = c

Ahead(h, c) == h.mark = None \/ index[h.mark] < index[c]

(* The put of the signed key, and with the mark the delete of one old key. *)
Put(h, c) == (h.signed \ At(h, index[c])) \cup {c}
Marked(h, c) == [mark   |-> c,
                 signed |-> {d \in Put(h, c) : index[d] # index[c] - Window}]

Recorded(h, c) ==
    IF Ahead(h, c) THEN Marked(h, c)
    ELSE IF Behind(h, c) THEN [h EXCEPT !.signed = Put(h, c)]
    ELSE h

-----------------------------------------------------------------------------
(* The vote collector and the certificates of a core. *)

Signers(k, c) == {v \in Validator : <<v, c>> \in k.votes}

Held(k, x) == {t \in k.certificates : index[t.checkpoint] = x}

(* Mutant: the highest is dropped first. *)
Oldest(C) ==
    {t \in C : Cardinality({u \in C : index[u.checkpoint] < index[t.checkpoint]})
                   < KeptCertificates}

Latest(C) ==
    {t \in C : Cardinality({u \in C : index[u.checkpoint] > index[t.checkpoint]})
                   < KeptCertificates}

(* Mutant: the floor may fall. *)
prune_unguarded(k, x) ==
    [k EXCEPT !.floor = x,
              !.votes = {w \in @ : index[w[2]] >= x},
              !.certified = {y \in @ : y >= x}]

prune_below(k, x) ==
    IF x <= k.floor THEN k
    ELSE [k EXCEPT !.floor = x,
                   !.votes = {w \in @ : index[w[2]] >= x},
                   !.certified = {y \in @ : y >= x}]

on_certified(k, t) ==
    LET x == index[t.checkpoint]
    IN  IF Held(k, x) # {} THEN k
        ELSE prune_below([k EXCEPT !.certificates = Latest(@ \cup {t})],
                         x - PruneLag)

(* The vote of j already held for the index of c. *)
Earlier(k, j, c) ==
    {d \in Checkpoint : <<j, d>> \in k.votes /\ index[d] = index[c]}

(* Mutant: one seat less than a quorum certifies. *)
add_below_quorum(k, j, c) ==
    LET voted == [k EXCEPT !.votes = @ \cup {<<j, c>>}]
        t     == [checkpoint |-> c, signers |-> Signers(voted, c)]
    IN  IF index[c] < k.floor \/ Earlier(k, j, c) # {} THEN k
        ELSE IF index[c] \in k.certified \/ Weight(t.signers) < quorum - 1 THEN voted
        ELSE on_certified([voted EXCEPT !.certified = @ \cup {index[c]}], t)

(* VoteCollector::add and what count_vote does with its outcome. *)
add(k, j, c) ==
    LET voted == [k EXCEPT !.votes = @ \cup {<<j, c>>}]
        t     == [checkpoint |-> c, signers |-> Signers(voted, c)]
    IN  IF index[c] < k.floor \/ Earlier(k, j, c) # {} THEN k
        ELSE IF index[c] \in k.certified \/ Weight(t.signers) < quorum THEN voted
        ELSE on_certified([voted EXCEPT !.certified = @ \cup {index[c]}], t)

Equivocator(k, j, c) ==
    IF index[c] >= k.floor /\ Earlier(k, j, c) \ {c} # {} THEN {j} ELSE {}

(* A core that starts from checkpoint c, holding the certificates C. *)
NewCore(c, C) == [next_checkpoint_index |-> index[c] + 1,
                  built        |-> c,
                  votes        |-> {},
                  certified    |-> {},
                  floor        |-> 0,
                  certificates |-> C]

Init ==
    /\ disk = [i \in Honest |-> [mark |-> None, signed |-> {}]]
    /\ journal = [i \in Honest |-> {}]
    /\ asked = [i \in Honest |-> {}]
    /\ ready = [i \in Honest |-> {}]
    /\ signed = [i \in Honest |-> {}]
    /\ sent = [i \in Honest |-> {}]
    /\ core = [i \in Honest |-> NewCore(None, {})]
    /\ accused = [i \in Honest |-> {}]
    /\ restarts = 0

-----------------------------------------------------------------------------
(* Actions. *)

(* The next checkpoint is decided; no core decides past the last index. *)
Decide(i) ==
    /\ \E c \in Checkpoint : index[c] = core[i].next_checkpoint_index
    /\ core' = [core EXCEPT ![i].next_checkpoint_index = @ + 1]
    /\ UNCHANGED <<disk, journal, asked, ready, signed, sent, accused, restarts>>

(* build_checkpoints for one decided checkpoint whose blocks are executed, *)
(* and the task Event::Sign starts.                                        *)
Build(i, c) ==
    /\ prev[c] = core[i].built
    /\ index[c] = index[core[i].built] + 1
    /\ index[c] < core[i].next_checkpoint_index
    /\ core' = [core EXCEPT ![i].built = c]
    /\ asked' = [asked EXCEPT ![i] = @ \cup {c}]
    /\ UNCHANGED <<disk, journal, ready, signed, sent, accused, restarts>>

(* A signing task runs: the mark is written, then the signature is made and *)
(* queued as an input; or the mark refuses and nothing is signed.           *)
Sign(i, c) ==
    LET h == disk[i]
        granted == IF Again(h, c) \/ Behind(h, c) \/ Ahead(h, c) THEN {c} ELSE {}
    IN  /\ c \in asked[i]
        /\ asked' = [asked EXCEPT ![i] = @ \ {c}]
        /\ disk' = [disk EXCEPT ![i] = Recorded(h, c)]
        /\ ready' = [ready EXCEPT ![i] = @ \cup granted]
        /\ signed' = [signed EXCEPT ![i] = @ \cup granted]
        /\ UNCHANGED <<journal, sent, core, accused, restarts>>

Count(i, j, c) ==
    /\ core' = [core EXCEPT ![i] = add(@, j, c)]
    /\ accused' = [accused EXCEPT ![i] = @ \cup Equivocator(core[i], j, c)]

(* on_own_vote: the vote is sent and counted. *)
OwnVote(i, c) ==
    /\ c \in ready[i]
    /\ ready' = [ready EXCEPT ![i] = @ \ {c}]
    /\ sent' = [sent EXCEPT ![i] = @ \cup {c}]
    /\ Count(i, i, c)
    /\ UNCHANGED <<disk, journal, asked, signed, restarts>>

(* The highest index next to one this core decided or holds a certificate of. *)
InReach(k, x) ==
    \/ x <= k.next_checkpoint_index + Window
    \/ \E t \in k.certificates : x <= index[t.checkpoint] + 1 + Window

(* Mutant: votes of any index are held. *)
OnVoteUnbounded(i, j, c) ==
    /\ j \in Honest => c \in sent[j]
    /\ Count(i, j, c)
    /\ UNCHANGED <<disk, journal, asked, ready, signed, sent, restarts>>

(* on_vote: a vote of j arrives and is within reach. *)
OnVote(i, j, c) ==
    /\ j \in Honest => c \in sent[j]
    /\ InReach(core[i], index[c])
    /\ Count(i, j, c)
    /\ UNCHANGED <<disk, journal, asked, ready, signed, sent, restarts>>

(* Certificate::verify: distinct members with a quorum of seats, each with a *)
(* valid signature, which only the member itself can make.                   *)
Verifies(t) ==
    /\ Weight(t.signers) >= quorum
    /\ \A v \in t.signers \cap Honest : t.checkpoint \in signed[v]

(* Mutant: the signers of either certificate are reported. *)
OnCertificateBlaming(i, t) ==
    LET x == index[t.checkpoint]
        conflicting == {u \in Held(core[i], x) : u.checkpoint # t.checkpoint}
    IN  /\ Verifies(t)
        /\ core' = [core EXCEPT ![i] = on_certified(@, t)]
        /\ accused' = [accused EXCEPT
               ![i] = @ \cup UNION {u.signers \cup t.signers : u \in conflicting}]
        /\ UNCHANGED <<disk, journal, asked, ready, signed, sent, restarts>>

(* on_certificate: a verified certificate, whoever put it together. *)
OnCertificate(i, t) ==
    LET x == index[t.checkpoint]
        conflicting == {u \in Held(core[i], x) : u.checkpoint # t.checkpoint}
    IN  /\ Verifies(t)
        /\ core' = [core EXCEPT ![i] = on_certified(@, t)]
        /\ accused' = [accused EXCEPT
               ![i] = @ \cup UNION {u.signers \cap t.signers : u \in conflicting}]
        /\ UNCHANGED <<disk, journal, asked, ready, signed, sent, restarts>>

(***************************************************************************)
(* fast_forward: a core that orders on from a certified checkpoint past    *)
(* its own takes over (resume) and adopts its ordering state (install).    *)
(* In between it takes no message.  The process, its signing tasks and the *)
(* signatures on their way to the core live on.                            *)
(***************************************************************************)
FastForward(i, t) ==
    /\ restarts < MaxRestarts
    /\ Verifies(t)
    /\ index[t.checkpoint] >= core[i].next_checkpoint_index
    /\ restarts' = restarts + 1
    /\ core' = [core EXCEPT ![i] = NewCore(t.checkpoint, {t})]
    /\ journal' = [journal EXCEPT ![i] = {t}]
    /\ UNCHANGED <<disk, asked, ready, signed, sent, accused>>

(* The process stops and recovers from the last checkpoint it resumed from,  *)
(* or from the start of the epoch: the tasks and the queued inputs are gone. *)
CrashRecover(i) ==
    /\ restarts < MaxRestarts
    /\ restarts' = restarts + 1
    /\ core' = [core EXCEPT ![i] =
           IF journal[i] = {} THEN NewCore(None, {})
           ELSE NewCore((CHOOSE t \in journal[i] : TRUE).checkpoint, journal[i])]
    /\ asked' = [asked EXCEPT ![i] = {}]
    /\ ready' = [ready EXCEPT ![i] = {}]
    /\ UNCHANGED <<disk, journal, signed, sent, accused>>

Next ==
    \E i \in Honest :
        \/ Decide(i)
        \/ CrashRecover(i)
        \/ \E c \in Checkpoint :
              \/ Build(i, c)
              \/ Sign(i, c)
              \/ OwnVote(i, c)
              \/ \E j \in Validator \ {i} : OnVote(i, j, c)
              \/ \E S \in SUBSET Validator :
                    LET t == [checkpoint |-> c, signers |-> S]
                    IN  OnCertificate(i, t) \/ FastForward(i, t)

Spec == Init /\ [][Next]_vars

-----------------------------------------------------------------------------
(* Properties. *)

SameIndex(c, d) == index[c] = index[d]

(***************************************************************************)
(* An honest validator never signs two checkpoints of one index, whatever  *)
(* its cores build, in whatever order its signing tasks run, and over      *)
(* restarts and windows (sign_checkpoint through KvVoteHighWater::record). *)
(***************************************************************************)
NoDoubleSign ==
    \A i \in Honest : \A c, d \in signed[i] : SameIndex(c, d) => c = d

(***************************************************************************)
(* The equivocation events of count_vote and on_certificate never name an  *)
(* honest validator.                                                       *)
(***************************************************************************)
EvidenceSound == \A i \in Honest : accused[i] \subseteq Byzantine

(***************************************************************************)
(* If two honest validators hold certificates of different checkpoints of  *)
(* one index, the evidence from_conflicting_certificates makes of them     *)
(* names faulty members only, and more seats of them than the committee    *)
(* tolerates -- however many members are faulty.                           *)
(***************************************************************************)
Accountability ==
    \A i, j \in Honest : \A t \in core[i].certificates, u \in core[j].certificates :
        SameIndex(t.checkpoint, u.checkpoint) /\ t.checkpoint # u.checkpoint
            => /\ t.signers \cap u.signers \subseteq Byzantine
               /\ Weight(t.signers \cap u.signers) >= validity

(***************************************************************************)
(* With at most f faulty seats no two honest validators hold certificates  *)
(* of different checkpoints of one index.                                  *)
(***************************************************************************)
CertificateAgreement ==
    Weight(Byzantine) <= max_faulty =>
        \A i, j \in Honest :
            \A t \in core[i].certificates, u \in core[j].certificates :
                SameIndex(t.checkpoint, u.checkpoint)
                    => t.checkpoint = u.checkpoint

(***************************************************************************)
(* A core holds votes only for indices within the signing window of the    *)
(* next checkpoint it decides or of its latest certificate, and for none   *)
(* that it pruned, so the faulty cannot make it hold any number of them.   *)
(***************************************************************************)
VotesBounded ==
    \A i \in Honest : \A w \in core[i].votes :
        InReach(core[i], index[w[2]]) /\ index[w[2]] >= core[i].floor

(***************************************************************************)
(* The latest index a core holds a certificate of never falls while the    *)
(* core lives, in whatever order certificates and votes arrive: an old     *)
(* certificate that comes late is the one the bound drops (on_certified).  *)
(***************************************************************************)
LatestNeverFalls ==
    [][restarts' = restarts =>
          \A i \in Honest : \A t \in core[i].certificates :
              \E u \in core'[i].certificates :
                  index[u.checkpoint] >= index[t.checkpoint]]_vars

-----------------------------------------------------------------------------
(* The inductive invariant behind NoDoubleSign, EvidenceSound and           *)
(* Accountability.                                                          *)

(* One signed key per index, the mark's among them. *)
KeysSound ==
    \A i \in Honest :
        /\ \A c, d \in disk[i].signed : SameIndex(c, d) => c = d
        /\ disk[i].mark # None => disk[i].mark \in disk[i].signed

(* A signature made is behind the mark, and within the window it has a key. *)
SignaturesKept ==
    \A i \in Honest : \A c \in signed[i] :
        /\ disk[i].mark # None
        /\ index[c] <= index[disk[i].mark]
        /\ index[disk[i].mark] - index[c] < Window => c \in disk[i].signed

(* Votes and certificates show only signatures that were made. *)
VotesMade ==
    \A i \in Honest :
        /\ ready[i] \subseteq signed[i]
        /\ sent[i] \subseteq signed[i]
        /\ \A v \in Honest, c \in Checkpoint :
               <<v, c>> \in core[i].votes => c \in signed[v]
        /\ \A t \in core[i].certificates \cup journal[i] : Verifies(t)

Inv ==
    /\ TypeOK
    /\ KeysSound
    /\ SignaturesKept
    /\ NoDoubleSign
    /\ VotesMade
    /\ EvidenceSound

(***************************************************************************)
(* What VotesBounded needs besides: the tasks and signatures on their way  *)
(* to a core are of checkpoints it decided itself, as own votes are        *)
(* counted without the check on_vote makes.                                *)
(***************************************************************************)
TasksDecided ==
    \A i \in Honest : \A c \in asked[i] \cup ready[i] :
        index[c] < core[i].next_checkpoint_index

CertificatesFinite ==
    \A i \in Honest :
        IsFiniteSet(core[i].certificates) /\ IsFiniteSet(journal[i])

BoundInv == TasksDecided /\ CertificatesFinite /\ VotesBounded
=============================================================================
