----------------------------- MODULE CommitRule -----------------------------
(***************************************************************************)
(* The DAG of one epoch and the rule that turns it into a sequence of      *)
(* decided leader slots (crates/tenzro-consensus/src/core.rs, dag.rs,      *)
(* schedule.rs), with restarts from the journal and from a certified       *)
(* checkpoint.                                                             *)
(*                                                                         *)
(* Reliable broadcast (module Rbc) fixes one vertex per round and author,  *)
(* so a vertex is named by its position <<round, author>> and its strong   *)
(* references by their authors.  A faulty author still shows whom it likes *)
(* a first proposal that differs from the vertex delivered later.  Slots   *)
(* are numbered from 1: slot s is leader slot (s - 1) % Slots of round     *)
(* (s - 1) \div Slots.                                                     *)
(***************************************************************************)
EXTENDS Committee, Sequences

CONSTANTS Byzantine,       \* the faulty members
          Skip,            \* the outcome of a skipped slot
          Slots,           \* leader slots per round (Schedule::slots)
          Draw(_, _, _),   \* Draw(o, r, k): the leader of slot k of round r drawn
                           \* from the outcomes o up to a checkpoint
          Lookahead,       \* rounds from a checkpoint's anchor to its draw
          Closes(_),       \* the commit of the last of these outcomes decides a
                           \* checkpoint
          Ends(_),         \* and it is the handover checkpoint
          GcDepth,         \* cfg.gc_depth
          MaxAhead,        \* cfg.max_rounds_ahead
          Retry,           \* whether a core still resuming is fast-forwarded again
          Shown,           \* bound: references faulty first proposals show
          Delivered,       \* bound: references faulty vertices carry
          FaultyRound,     \* bound: rounds faulty members take part in
          MaxRound,        \* bound: last round proposed
          Restarting,      \* bound: the validators that crash or fall behind
          MaxCrashes,      \* bound: crashes
          MaxResumes       \* bound: fast-forwards

Honest == Validator \ Byzantine
Round == 0..MaxRound
Slot == 1..(Slots * MaxRound)
Position == Round \X Validator
Decision == {"commit", "skip", "undecided"}
Outcome == Validator \cup {Skip}

(* The outcomes of the first slots: the leader committed, or Skip. *)
Outcomes == UNION {[1..n -> Outcome] : n \in 0..(Slots * MaxRound)}

ASSUME CommitRuleAssumption ==
    /\ Byzantine \subseteq Validator
    /\ Weight(Byzantine) <= max_faulty
    /\ Skip \notin Validator
    /\ Slots \in Nat \ {0}
    /\ \A o \in Outcomes, r \in Round, k \in 0..(Slots - 1) : Draw(o, r, k) \in Validator
    /\ Lookahead \in Nat \ {0}
    /\ GcDepth \in Nat
    /\ MaxAhead \in Nat
    /\ Retry \in BOOLEAN
    /\ Shown \subseteq SUBSET Validator
    /\ Delivered \subseteq SUBSET Validator
    /\ MaxRound \in Nat

VARIABLES
    made,       \* positions whose author proposed or had a vertex delivered
    strong,     \* authors of the previous round a vertex references strongly
    past,       \* positions a vertex reaches through strong references
    dag,        \* Core::dag, the positions each validator holds above its floor
    first,      \* Core::first_proposals, {} where none is held
    round,      \* Core::round, the last round proposed, -1 for None
    decided,    \* outcomes of the slots before Core::next_slot
    halted,     \* Core::halted
    journal,    \* the records since the last Record::Resumed, and its state
    replay,     \* Record::Delivered still to be replayed by recover
    resuming,   \* Core::resuming, its base empty for None
    executed,   \* the longest sequence of outcomes ever acted upon
    crashes, resumes

vars == <<made, strong, past, dag, first, round, decided, halted, journal,
          replay, resuming, executed, crashes, resumes>>

counts == <<crashes, resumes>>
global == <<made, strong, past>>
recovery == <<journal, replay, resuming, counts>>

Journal == [own : SUBSET Position, delivered : SUBSET Position,
            base : Outcomes, round : Round \cup {-1}]

(* Every variable keeps the shape of the field it stands for. *)
TypeOK ==
    /\ made \subseteq Position
    /\ strong \in [Position -> SUBSET Validator]
    /\ past \in [Position -> SUBSET Position]
    /\ dag \in [Honest -> SUBSET Position]
    /\ first \in [Honest -> [Position -> SUBSET Validator]]
    /\ round \in [Honest -> Round \cup {-1}]
    /\ decided \in [Honest -> Outcomes]
    /\ halted \in [Honest -> BOOLEAN]
    /\ journal \in [Honest -> Journal]
    /\ replay \in [Honest -> SUBSET Position]
    /\ resuming \in [Honest -> [base : Outcomes, own : Round \cup {-1}]]
    /\ executed \in [Honest -> Outcomes]
    /\ crashes \in Nat /\ resumes \in Nat

NoProposal == [p \in Position |-> {}]
NotResuming == [base |-> <<>>, own |-> -1]

Init ==
    /\ made = {}
    /\ strong = [p \in Position |-> {}]
    /\ past = [p \in Position |-> {}]
    /\ dag = [i \in Honest |-> {}]
    /\ first = [i \in Honest |-> NoProposal]
    /\ round = [i \in Honest |-> -1]
    /\ decided = [i \in Honest |-> <<>>]
    /\ halted = [i \in Honest |-> FALSE]
    /\ journal = [i \in Honest |->
                     [own |-> {}, delivered |-> {}, base |-> <<>>, round |-> -1]]
    /\ replay = [i \in Honest |-> {}]
    /\ resuming = [i \in Honest |-> NotResuming]
    /\ executed = [i \in Honest |-> <<>>]
    /\ crashes = 0 /\ resumes = 0

-----------------------------------------------------------------------------
(* The leader schedule: a function of the slots decided so far. *)

SlotRound(s) == (s - 1) \div Slots
SlotIndex(s) == (s - 1) % Slots

Prefix(outcomes, n) == SubSeq(outcomes, 1, n)

(* Slots whose commit decided a checkpoint. *)
Checkpoints(outcomes) ==
    {s \in DOMAIN outcomes : outcomes[s] # Skip /\ Closes(Prefix(outcomes, s))}

(* advance: the outcomes up to the latest checkpoint whose anchor is more    *)
(* than Lookahead rounds below round r.                                      *)
Released(outcomes, r) ==
    [s \in {u \in DOMAIN outcomes :
               \E c \in Checkpoints(outcomes) : u <= c /\ SlotRound(c) + Lookahead < r}
        |-> outcomes[s]]

Leader(outcomes, r, k) == Draw(Released(outcomes, r), r, k)

Leads(outcomes, r, v) == \E k \in 0..(Slots - 1) : Leader(outcomes, r, k) = v

(* The position of the vertex that fills slot s. *)
SlotVertex(outcomes, s) ==
    <<SlotRound(s), Leader(outcomes, SlotRound(s), SlotIndex(s))>>

-----------------------------------------------------------------------------
(* The DAG. *)

(* collect_garbage after every commit: rounds more than GcDepth below a     *)
(* committed anchor are below the floor.                                    *)
Pruned(outcomes, r) ==
    \E s \in DOMAIN outcomes : outcomes[s] # Skip /\ r + GcDepth < SlotRound(s)

Parents(r, S) == {<<r - 1, a>> : a \in S}

(* Mutant: the vertex itself is entered a round early. *)
ReachesLate(r, a, S) == {<<r - 1, a>>} \cup UNION {past[p] : p \in Parents(r, S)}
Reaches(r, a, S) == {<<r, a>>} \cup UNION {past[p] : p \in Parents(r, S)}

(* Authors of the vertices validator i holds of round r (Dag::round). *)
Authors(i, r) == {a \in Validator : <<r, a>> \in dag[i]}

(* A vertex enters the world: its references are fixed from now on. *)
Make(r, a, S) ==
    /\ made' = made \cup {<<r, a>>}
    /\ strong' = [strong EXCEPT ![<<r, a>>] = S]
    /\ past' = [past EXCEPT ![<<r, a>>] = Reaches(r, a, S)]

-----------------------------------------------------------------------------
(* The commit rule. *)

(* Authors whose next-round vertex, or first proposal while the vertex is   *)
(* not delivered, references the leader.                                    *)
Supporters(i, r, leader) ==
    {a \in Validator : leader \in IF <<r + 1, a>> \in dag[i]
                                  THEN strong[<<r + 1, a>>]
                                  ELSE first[i][<<r + 1, a>>]}

Blamers(i, r, leader) == {a \in Authors(i, r + 1) : leader \notin strong[<<r + 1, a>>]}

(* Mutant: f + 1 seats of support commit. *)
directOnFew(i, s) ==
    LET slot == SlotVertex(decided[i], s)
    IN  IF Weight(Supporters(i, slot[1], slot[2])) >= validity
        THEN IF slot \in dag[i] THEN "commit" ELSE "undecided"
        ELSE IF Weight(Blamers(i, slot[1], slot[2])) >= total_seats
             THEN "skip"
             ELSE "undecided"
direct(i, s) ==
    LET slot == SlotVertex(decided[i], s)
    IN  IF Weight(Supporters(i, slot[1], slot[2])) >= quorum
        THEN IF slot \in dag[i] THEN "commit" ELSE "undecided"
        ELSE IF Weight(Blamers(i, slot[1], slot[2])) >= total_seats
             THEN "skip"
             ELSE "undecided"

(* Slot t is the first at least two rounds after s that D does not skip. *)
Anchors(D, s, t) ==
    /\ SlotRound(t) >= SlotRound(s) + 2
    /\ D[t] # "skip"
    /\ \A u \in DOMAIN D : u < t /\ SlotRound(u) >= SlotRound(s) + 2 => D[u] = "skip"

indirect(i, s, D) ==
    LET slot == SlotVertex(decided[i], s)
        anchored(t) == Anchors(D, s, t) /\ D[t] = "commit"
    IN  IF \E t \in DOMAIN D :
               anchored(t) /\ slot \in dag[i] /\ slot \in past[SlotVertex(decided[i], t)]
        THEN "commit"
        ELSE IF \E t \in DOMAIN D : anchored(t) THEN "skip" ELSE "undecided"

(* The undecided slots with a next round to decide by. *)
OpenSlots(i) ==
    LET seen == {p[1] : p \in {q \in Position : q \in dag[i] \/ first[i][q] # {}}}
    IN  {s \in Slot : Len(decided[i]) < s /\ \E r \in seen : SlotRound(s) < r}

(* The decisions of the open slots: each the direct one, or failing that    *)
(* the one its anchor among the others makes.                               *)
decide_slots(i) ==
    LET D[s \in OpenSlots(i)] ==
            LET d == direct(i, s) IN IF d # "undecided" THEN d ELSE indirect(i, s, D)
    IN  D

(* The outcomes once the decisions up to slot t are taken. *)
Extended(outcomes, D, t) ==
    LET Result(s) == IF D[s] = "commit" THEN SlotVertex(outcomes, s)[2] ELSE Skip
    IN  outcomes \o [n \in 1..(t - Len(outcomes)) |-> Result(Len(outcomes) + n)]

(* The pass takes slot t: all slots up to it are decided, and none before it *)
(* decided a checkpoint, after which the leaders are drawn anew.             *)
Taken(outcomes, D, t) ==
    \A s \in DOMAIN D :
        /\ s <= t => D[s] # "undecided"
        /\ s < t => ~(D[s] = "commit" /\ Closes(Extended(outcomes, D, s)))

(* Nothing is left for try_commit's loop to decide. *)
AtRest(i, D) ==
    ~halted[i] /\ Len(decided[i]) + 1 \in DOMAIN D => D[Len(decided[i]) + 1] = "undecided"

(* The longer of what was acted upon before and now. *)
Longer(o, p) == IF Len(o) >= Len(p) THEN o ELSE p

(* Mutant: the handover checkpoint does not halt the core. *)
HaltsNever(outcomes, d) == FALSE
Halts(outcomes, d) == d = "commit" /\ Closes(outcomes) /\ Ends(outcomes)

(* One pass of try_commit's loop, D the decisions it starts with: it ends    *)
(* before the first undecided slot or after a checkpoint.                    *)
TryCommit(i, D) ==
    /\ ~halted[i]
    /\ \E t \in DOMAIN D :
        /\ Taken(decided[i], D, t)
        /\ t + 1 \in DOMAIN D => ~Taken(decided[i], D, t + 1)
        /\ LET outcomes == Extended(decided[i], D, t)
           IN  /\ decided' = [decided EXCEPT ![i] = outcomes]
               /\ halted' = [halted EXCEPT ![i] = Halts(outcomes, D[t])]
               /\ executed' = [executed EXCEPT ![i] = Longer(@, outcomes)]
               /\ dag' = [dag EXCEPT ![i] = {p \in @ : ~Pruned(outcomes, p[1])}]
               /\ first' = [first EXCEPT ![i] =
                      [p \in Position |-> IF Pruned(outcomes, p[1]) THEN {} ELSE @[p]]]
    /\ UNCHANGED <<global, round, recovery>>

-----------------------------------------------------------------------------
(* The handlers of one validator. *)

Running(i) == replay[i] = {} /\ resuming[i] = NotResuming

(* The highest round past its own that i holds a quorum of. *)
IsTop(i, r) ==
    /\ r > round[i]
    /\ Weight(Authors(i, r)) >= quorum
    /\ \A q \in Round : q > r => Weight(Authors(i, q)) < quorum

(* try_advance enters the round after its own, or jumps to the top round,   *)
(* first into it if this validator leads it.  A jump leaves no round it     *)
(* leads without its own vertex.                                            *)
EnterAfter(i, r) ==
    /\ r >= round[i]
    /\ Weight(Authors(i, r)) >= quorum
    /\ \/ r = round[i]
       \/ /\ IsTop(i, r) \/ (IsTop(i, r + 1) /\ Leads(decided[i], r + 1, i))
          /\ Leads(decided[i], r, i) => <<r, i>> \in dag[i]

(* try_start, try_advance and propose. *)
Propose(i, r) ==
    /\ Running(i)
    /\ IF r = 0 THEN round[i] = -1 ELSE round[i] # -1 /\ EnterAfter(i, r - 1)
    /\ LET S == IF r = 0 THEN {} ELSE Authors(i, r - 1)
       IN  /\ Make(r, i, S)
           /\ first' = [first EXCEPT ![i][<<r, i>>] = S]
    /\ round' = [round EXCEPT ![i] = r]
    /\ journal' = [journal EXCEPT ![i] =
           [own |-> @.own \cup {<<r, i>>}, delivered |-> @.delivered,
            base |-> @.base, round |-> r]]
    /\ UNCHANGED <<dag, decided, halted, replay, resuming, executed, counts>>

(* What author p[2] may show as its proposal for round p[1]: an honest one   *)
(* its vertex, a faulty one any references carrying a quorum.                *)
Proposals(p) ==
    IF p[2] \in Byzantine
    THEN {S \in Shown : p[1] \in FaultyRound /\ Weight(S) >= quorum}
    ELSE {strong[q] : q \in {p} \cap made}

(* on_propose: the author's first proposal is kept.  One that names batches  *)
(* as what they are not is not echoed, and a later one takes its place.      *)
OnPropose(i, p) ==
    /\ Running(i)
    /\ p[2] # i /\ p[1] > 0
    /\ p[2] \in Honest => first[i][p] = {}
    /\ ~Pruned(decided[i], p[1])
    /\ p[1] <= (IF round[i] = -1 THEN 0 ELSE round[i]) + MaxAhead
    /\ \E S \in Proposals(p) : first' = [first EXCEPT ![i][p] = S]
    /\ UNCHANGED <<global, dag, round, decided, halted, executed, recovery>>

(* A vertex enters the DAG once all it references above the floor is held    *)
(* (missing_refs, drain_pending).                                            *)
Fits(i, p, S) ==
    ~Pruned(decided[i], p[1] - 1) /\ p[1] > 0 =>
        Parents(p[1], S) \subseteq dag[i] /\ Weight(S) >= quorum

Accept(i, p, S) ==
    /\ Running(i)
    /\ ~Pruned(decided[i], p[1])
    /\ Fits(i, p, S)
    /\ dag' = [dag EXCEPT ![i] = @ \cup {p}]
    /\ journal' = [journal EXCEPT ![i].delivered = @ \cup {p}]
    /\ UNCHANGED <<first, round, decided, halted, replay, resuming, executed, counts>>

Deliver(i, p) ==
    /\ p \in made \ dag[i]
    /\ Accept(i, p, strong[p])
    /\ UNCHANGED global

(* The first delivery of a faulty author's vertex fixes its references.      *)
(* They carry a quorum, but below the floor nobody looks whether the         *)
(* vertices they name exist: S holds the authors of those that do.           *)
DeliverFaulty(i, p) ==
    /\ p[2] \in Byzantine /\ p \notin made /\ p[1] \in FaultyRound
    /\ \E S \in IF p[1] = 0 THEN {{}} ELSE Delivered :
        /\ Parents(p[1], S) \subseteq made
        /\ Make(p[1], p[2], S)
        /\ Accept(i, p, S)

-----------------------------------------------------------------------------
(* Restarts. *)

(* Mutant: recover forgets its own rounds before the Resumed record. *)
RecoveredRoundSince(i, j) == IF j.own = {} THEN -1 ELSE j.round
RecoveredRound(i, j) == j.round

(* A crash loses what was not journaled; recover starts from the state the  *)
(* last Resumed record holds and this validator's own vertices.             *)
CrashRecover(i) ==
    LET j == journal[i]
    IN  /\ i \in Restarting /\ crashes < MaxCrashes
        /\ crashes' = crashes + 1
        /\ decided' = [decided EXCEPT ![i] = j.base]
        /\ halted' = [halted EXCEPT ![i] = FALSE]
        /\ round' = [round EXCEPT ![i] = RecoveredRound(i, j)]
        /\ dag' = [dag EXCEPT ![i] = {}]
        /\ first' = [first EXCEPT ![i] =
               [p \in Position |-> IF p \in j.own THEN strong[p] ELSE {}]]
        /\ replay' = [replay EXCEPT ![i] = j.delivered]
        /\ resuming' = [resuming EXCEPT ![i] = NotResuming]
        /\ UNCHANGED <<global, journal, executed, resumes>>

(* recover offers the delivered vertices again, a round at a time, and runs *)
(* try_commit after each.                                                   *)
Replay(i, D) ==
    /\ replay[i] # {} /\ AtRest(i, D)
    /\ \E r \in Round :
        LET batch == {p \in replay[i] : p[1] = r}
        IN  /\ batch # {}
            /\ \A p \in replay[i] : r <= p[1]
            /\ replay' = [replay EXCEPT ![i] = @ \ batch]
            /\ dag' = [dag EXCEPT ![i] = @ \cup
                   {p \in batch : ~Pruned(decided[i], r) /\ Fits(i, p, strong[p])}]
            /\ first' = [first EXCEPT ![i] =
                   [p \in Position |-> IF p \in batch THEN strong[p] ELSE @[p]]]
    /\ UNCHANGED <<global, round, decided, halted, journal, resuming, executed, counts>>

(* Mutant: the state is taken before the slot's outcome is recorded. *)
ordering_state_early(outcomes, s) == Append(Prefix(outcomes, s - 1), Skip)

(* What a checkpoint decided at slot s commits to. *)
ordering_state(outcomes, s) == Prefix(outcomes, s)

(* fast_forward replaces the core by one that waits for the ordering state   *)
(* of slot s, the anchor of a checkpoint an honest validator decided.  A     *)
(* core still waiting moves on to a later checkpoint.                        *)
Resume(i, j, s) ==
    /\ i \in Restarting /\ resumes < MaxResumes
    /\ resumes' = resumes + 1
    /\ replay[i] = {}
    /\ resuming[i] # NotResuming => Retry
    /\ s \in Checkpoints(executed[j])
    /\ s > Len(resuming[i].base)
    /\ resuming' = [resuming EXCEPT ![i] = [base |-> ordering_state(executed[j], s), own |-> round[i]]]
    /\ round' = [round EXCEPT ![i] = -1]
    /\ decided' = [decided EXCEPT ![i] = <<>>]
    /\ halted' = [halted EXCEPT ![i] = FALSE]
    /\ dag' = [dag EXCEPT ![i] = {}]
    /\ first' = [first EXCEPT ![i] = NoProposal]
    /\ UNCHANGED <<global, journal, replay, executed, crashes>>

Higher(q, r) == IF q >= r THEN q ELSE r

(* on_ordering and install: the core goes on from the checkpoint's state. *)
OnOrdering(i) ==
    LET base == resuming[i].base
        anchor == SlotRound(Len(base))
    IN  /\ resuming[i] # NotResuming
        /\ resuming' = [resuming EXCEPT ![i] = NotResuming]
        /\ decided' = [decided EXCEPT ![i] = base]
        /\ executed' = [executed EXCEPT ![i] = Longer(@, base)]
        /\ round' = [round EXCEPT ![i] = Higher(resuming[i].own, anchor)]
        /\ journal' = [journal EXCEPT ![i] =
               [own |-> {}, delivered |-> {}, base |-> base,
                round |-> Higher(@.round, anchor)]]
        /\ UNCHANGED <<global, dag, first, halted, replay, counts>>

(* The messages of a frame are handled before progress runs try_commit and   *)
(* then try_advance.                                                         *)
Step(i, D) ==
    \/ TryCommit(i, D)
    \/ AtRest(i, D) /\ \E r \in Round : Propose(i, r)
    \/ Replay(i, D)
    \/ \E p \in Position : OnPropose(i, p) \/ Deliver(i, p) \/ DeliverFaulty(i, p)
    \/ CrashRecover(i)
    \/ \E j \in Honest, s \in Slot : Resume(i, j, s)
    \/ OnOrdering(i)

Next == \E i \in Honest : Step(i, decide_slots(i))

Spec == Init /\ [][Next]_vars

-----------------------------------------------------------------------------
(* Properties. *)

Agree(x, y) == \A s \in DOMAIN x \cap DOMAIN y : x[s] = y[s]

(* Two validators, and one validator before and after it restarts, decide   *)
(* every slot alike, whatever each held of the DAG, whichever faulty first  *)
(* proposals it counted and however often the leaders were redrawn          *)
(* (try_commit).                                                            *)
SlotAgreement ==
    \A i, j \in Honest : Agree(decided[i], executed[j]) /\ Agree(executed[i], executed[j])

(* An honest validator makes one vertex per round: no restart, jump or      *)
(* fast-forward makes it propose a round again (try_advance, enter_after).  *)
OneVertexPerRound ==
    [][\A p \in made : strong'[p] = strong[p] /\ past'[p] = past[p]]_vars

(* No slot is acted upon after the commit that decided the handover          *)
(* checkpoint: the epoch ends at one place for every validator               *)
(* (decide_checkpoint).                                                      *)
NothingPastHandover ==
    \A i \in Honest : \A s \in DOMAIN executed[i] :
        s < Len(executed[i]) /\ s \in Checkpoints(executed[i]) => ~Ends(Prefix(executed[i], s))
=============================================================================
