------------------------------ MODULE Batches ------------------------------
(***************************************************************************)
(* The transaction batches of one epoch: sealed and pushed by their author, *)
(* introduced by its vertices or carried by a leader's, released in the     *)
(* order the committed history gives them, and handed back when they will   *)
(* not be ordered.  The commits themselves are agreed (CommitRule): here    *)
(* they are one shared sequence that each validator applies at its own      *)
(* pace, with crashes and fast-forwards in between.                         *)
(***************************************************************************)
EXTENDS Integers, FiniteSets, Sequences, FiniteSetsExt, Functions

CONSTANTS Validator,      \* validator indices
          Author,         \* the validators whose batches are followed
          Leads,          \* <<round, validator>> pairs of leader slots
          CheckpointAt,   \* commits that decide a checkpoint
          CloseAt,        \* the commit that closes the epoch
          HandoverAt,     \* the commit that decides the handover checkpoint
          GcDepth,        \* cfg.gc_depth
          MaxUnreleased,  \* MAX_UNRELEASED_PER_AUTHOR
          MaxAhead,       \* MAX_AHEAD_PER_AUTHOR
          MaxUnordered,   \* MAX_UNORDERED_OWN_BATCHES
          Restarting,     \* bound: the validators that crash or fall behind
          MaxSequence,    \* bound: batches an author seals
          MaxRound,       \* bound: last round proposed
          MaxCrashes,     \* bound: crashes
          MaxResumes      \* bound: fast-forwards

Round == 0..MaxRound
Sequence == 0..(MaxSequence - 1)
Batch == Author \X Sequence

ASSUME BatchesAssumption ==
    /\ IsFiniteSet(Validator) /\ Validator \subseteq Nat /\ Author \subseteq Validator
    /\ Leads \subseteq Round \X Validator
    /\ CheckpointAt \subseteq Nat
    /\ 0 < CloseAt /\ CloseAt <= HandoverAt
    /\ {CloseAt, HandoverAt, GcDepth, MaxUnreleased, MaxAhead, MaxUnordered, MaxSequence,
        MaxRound, MaxCrashes, MaxResumes} \subseteq Nat

VARIABLES
    vertices,   \* every vertex proposed, as its author broadcast it
    commits,    \* the agreed commits: an anchor and the vertices it orders
    core,       \* per validator, the volatile state of its Core
    disk,       \* per validator, what its journal of the epoch holds
    blocks,     \* per validator and commit it applied, the batches released
                \* and the ordering state right after it
    handed,     \* per validator, its batches handed back by Event::Unordered
    complete,   \* per validator, how complete_epoch was reached, if it was
    crashes, resumes

vars == <<vertices, commits, core, disk, blocks, handed, complete, crashes, resumes>>

Vertex == [round : Round, source : Validator, batches : SUBSET Sequence,
           carried : SUBSET Batch]

(* Where a batch was introduced: the vertex's round, and whether it carried it. *)
Place == [round : Round, carried : BOOLEAN]
Places == UNION {[S -> Place] : S \in SUBSET Sequence}
NoPlaces == [q \in {} |-> [round |-> 0, carried |-> FALSE]]

(* Availability of one author's batches. *)
Frontier == [next : 0..MaxSequence, early : Places]

EmptyFrontier == [a \in Author |-> [next |-> 0, early |-> NoPlaces]]

Core == [frontier : [Author -> Frontier],
         unintroduced : SUBSET Sequence,    \* own_unintroduced
         introduced : SUBSET Sequence,      \* own_introduced
         next_sequence : 0..MaxSequence,    \* next_batch_sequence
         payloads : SUBSET Batch,           \* others' unreleased batches held
         pool : SUBSET Batch,               \* carry_pool
         round : -1..MaxRound,
         done : 0..HandoverAt,              \* commits applied
         resuming : 0..HandoverAt]          \* the checkpoint waited for, 0 for None

Disk == [sealed : SUBSET Sequence,   \* Record::Batch
         own : SUBSET Vertex,        \* Record::Own since the last Record::Resumed
         round : -1..MaxRound,       \* the last round of those before it
         base : 0..HandoverAt,       \* the checkpoint it resumed from, 0 for none
         done : 0..HandoverAt]       \* commits the Record::Delivered since lead to

NoBlocks == [k \in {} |-> [released |-> <<>>, state |-> <<>>]]

NewCore == [frontier |-> EmptyFrontier, unintroduced |-> {}, introduced |-> {},
            next_sequence |-> 0, payloads |-> {}, pool |-> {}, round |-> -1,
            done |-> 0, resuming |-> 0]

TypeOK ==
    /\ vertices \subseteq Vertex
    /\ commits \in Seq([anchor : Vertex, history : SUBSET Vertex])
    /\ \A c \in Range(commits) : c.anchor \in c.history /\ c.history \subseteq vertices
    /\ core \in [Validator -> Core]
    /\ disk \in [Validator -> Disk]
    /\ DOMAIN blocks = Validator
    /\ \A i \in Validator :
          /\ DOMAIN blocks[i] \subseteq 1..Len(commits)
          /\ \A k \in DOMAIN blocks[i] : blocks[i][k].released \in Seq(Batch)
    /\ handed \in [Validator -> SUBSET Sequence]
    /\ complete \in [Validator -> {"no", "halted", "adopted"}]
    /\ crashes \in 0..MaxCrashes /\ resumes \in 0..MaxResumes

Init ==
    /\ vertices = {}
    /\ commits = <<>>
    /\ core = [i \in Validator |-> NewCore]
    /\ disk = [i \in Validator |->
                  [sealed |-> {}, own |-> {}, round |-> -1, base |-> 0, done |-> 0]]
    /\ blocks = [i \in Validator |-> NoBlocks]
    /\ handed = [i \in Validator |-> {}]
    /\ complete = [i \in Validator |-> "no"]
    /\ crashes = 0 /\ resumes = 0

halted(i) == core[i].done = HandoverAt

-----------------------------------------------------------------------------
(* Availability, one author at a time.  `ready' collects what was released.  *)

(* introduce, for the batches a vertex names in sequence order: those below  *)
(* `next' and those past MaxUnreleased are ignored, the first place stays.   *)
Introduce(f, place, named) ==
    LET fresh == {q \in named : q >= f.next /\ q \notin DOMAIN f.early}
        room == MaxUnreleased - Cardinality(DOMAIN f.early)
        taken == {q \in fresh : Cardinality({p \in fresh : p < q}) < room}
    IN  [f EXCEPT !.early = [q \in DOMAIN f.early \cup taken |->
                                IF q \in taken THEN place ELSE f.early[q]]]

(* The sequence up to which `early' goes on from `next' without a gap. *)
Gap(f) == Min({q \in f.next..MaxSequence : q \notin DOMAIN f.early})

(* Mutant: advance releases but leaves `next' where it was. *)
AdvanceStays(f) ==
    [f EXCEPT !.early = Restrict(@, {q \in DOMAIN @ : q > Gap(f)}),
              !.ready = @ \cup {[sequence |-> q, place |-> f.early[q]]
                                    : q \in f.next..(Gap(f) - 1)}]

(* advance: releases the consecutive sequences from `next' on. *)
Advance(f) ==
    LET next == Gap(f)
    IN  [next |-> next,
         early |-> Restrict(f.early, {q \in DOMAIN f.early : q \notin f.next..(next - 1)}),
         ready |-> f.ready \cup {[sequence |-> q, place |-> f.early[q]]
                                    : q \in f.next..(next - 1)}]

(* The batches one vertex names of one author, introduced and released. *)
Taken(f, place, named) == Advance(Introduce(f, place, named))

(* expire_gaps: the gap before the first early batch, once it was introduced *)
(* at or below the floor.                                                    *)
Expire(f, floor) ==
    LET first == Min(DOMAIN f.early)
    IN  IF f.early # NoPlaces /\ first > f.next /\ f.early[first].round <= floor
        THEN Advance([f EXCEPT !.next = first])
        ELSE f

(* The DAG floor collect_garbage leaves after the first n commits of cs. *)
Floor(cs, n) == Max({0} \cup {cs[k].anchor.round - GcDepth : k \in 1..n})

(* The batches that the vertex of author a in round r introduces, if it is    *)
(* among those a commit orders.                                              *)
Named(commit, a, r) ==
    UNION {v.batches : v \in {w \in commit.history : w.source = a /\ w.round = r}}

(* on_ordered for the author's vertices of a commit, by round. *)
OrderedRounds(f, a, commit) ==
    LET below[n \in 0..(MaxRound + 1)] ==
            IF n = 0 THEN [next |-> f.next, early |-> f.early, ready |-> {}]
            ELSE Taken(below[n - 1], [round |-> n - 1, carried |-> FALSE],
                       Named(commit, a, n - 1))
    IN  below[MaxRound + 1]

(* commit, the part about the batches of author a: on_ordered for its        *)
(* vertices by round, on_carried for the anchor, then expire_gaps.           *)
Ordered(f, a, commit, floor) ==
    LET carried == {b[2] : b \in {c \in commit.anchor.carried : c[1] = a}}
    IN  Expire(Taken(OrderedRounds(f, a, commit),
                     [round |-> commit.anchor.round, carried |-> TRUE], carried),
               floor)

(* release: by round, author and position; a carried batch comes after the   *)
(* introduced ones of its round.                                             *)
Before(x, y) ==
    \/ x.place.round < y.place.round
    \/ x.place.round = y.place.round /\ x.author < y.author
    \/ /\ x.place.round = y.place.round /\ x.author = y.author
       /\ \/ ~x.place.carried /\ y.place.carried
          \/ x.place.carried = y.place.carried /\ x.sequence < y.sequence

Rank(x, ready) == Cardinality({y \in ready : Before(y, x)})

Release(ready) ==
    LET nth(n) == CHOOSE x \in ready : Rank(x, ready) = n - 1
    IN  [n \in 1..Cardinality(ready) |-> <<nth(n).author, nth(n).sequence>>]

(* export: only what is not empty is written. *)
Export(frontier) ==
    [next |-> {<<a, frontier[a].next>> : a \in {b \in Author : frontier[b].next > 0}},
     early |-> {<<a, frontier[a].early>> : a \in {b \in Author : frontier[b].early # NoPlaces}}]

-----------------------------------------------------------------------------
(* Committing. *)

(* Mutant: released batches stay counted as introduced. *)
UnorderedKept(i, introduced, released) == introduced

(* own_introduced without the batches released. *)
Unordered(i, introduced, released) ==
    introduced \ {r.sequence : r \in {x \in released : x.author = i}}

(* Mutant: the batches of a skipped gap are forgotten. *)
SkippedForgotten(waiting, through) == {}

(* Own introduced batches below the frontier, in a gap that was skipped. *)
Skipped(waiting, through) == {q \in waiting : q < through}

(* What commit k of cs does to every author's frontier. *)
After(frontier, cs, k) ==
    [a \in Author |-> Ordered(frontier[a], a, cs[k], Floor(cs, k - 1))]

FrontierOf(after) ==
    [a \in Author |-> [next |-> after[a].next, early |-> after[a].early]]

ReleasedBy(after) ==
    UNION {{[author |-> a, sequence |-> r.sequence, place |-> r.place] : r \in after[a].ready}
               : a \in Author}

(* The batches a commit releases in order, and the ordering state it leaves. *)
BlockOf(after) ==
    [released |-> Release(ReleasedBy(after)), state |-> Export(FrontierOf(after))]

(* The core after commit k, when `waiting' are its introduced batches that   *)
(* the commit did not release.                                               *)
Moved(i, c, k, after, waiting) ==
    LET through == IF i \in Author THEN after[i].next ELSE 0
        Unreleased(b) == b[2] >= after[b[1]].next
    IN  [c EXCEPT !.frontier = FrontierOf(after),
                  !.payloads = {b \in @ : Unreleased(b)},
                  !.pool = {b \in @ : Unreleased(b)},
                  !.unintroduced = {q \in @ : q >= through},
                  !.introduced = {q \in waiting : q >= through},
                  !.done = k]

(* commit, as validator i applies commit k of cs to s: its core, its blocks  *)
(* and the batches handed back to it.                                        *)
Applied(i, s, k, after) ==
    LET waiting == Unordered(i, s.core.introduced, ReleasedBy(after))
    IN  [core |-> Moved(i, s.core, k, after, waiting),
         blocks |-> [l \in DOMAIN s.blocks \cup {k} |->
                        IF l = k THEN BlockOf(after) ELSE s.blocks[l]],
         handed |-> s.handed \cup
                    (IF i \in Author THEN Skipped(waiting, after[i].next) ELSE {})]

Apply(i, s, cs, k) == Applied(i, s, k, After(s.core.frontier, cs, k))

(* The commits past `base' up to d applied one after the other, as recover   *)
(* replays them.                                                             *)
Replay(i, s, cs, base, d) ==
    LET run[k \in base..d] == IF k = base THEN s ELSE Apply(i, run[k - 1], cs, k)
    IN  run[d]

(* What a commit changes of validator i. *)
Local(i) == [core |-> core[i], blocks |-> blocks[i], handed |-> handed[i]]

(* One more commit applied by i. *)
Commit(i, cs) ==
    /\ ~halted(i) /\ core[i].resuming = 0
    /\ \E k \in {core[i].done + 1} : \E next \in {Apply(i, Local(i), cs, k)} :
          /\ core' = [core EXCEPT ![i] = next.core]
          /\ disk' = [disk EXCEPT ![i].done = Max({@, k})]
          /\ blocks' = [blocks EXCEPT ![i] = next.blocks]
          /\ handed' = [handed EXCEPT ![i] = next.handed]
    /\ UNCHANGED <<vertices, complete, crashes, resumes>>

(* check_structure: the batches a vertex introduces are consecutive. *)
Consecutive(S) == \A p, q \in S : p..q \subseteq S

(* What a new anchor can order besides itself: vertices that peers accepted,  *)
(* not ordered yet and not below the floor.  Those that introduce nothing     *)
(* change nothing and are left out.                                          *)
Orderable(anchor) ==
    {v \in vertices :
        /\ Consecutive(v.batches) /\ v.batches # {}
        /\ v.round >= Floor(commits, Len(commits)) /\ v.round < anchor.round
        /\ \A c \in Range(commits) : v \notin c.history}

(* try_commit decides the next slot that commits: its anchor and history are  *)
(* left open, since which references a vertex holds depends on the network.  *)
Decide(i) ==
    /\ core[i].done = Len(commits)
    /\ \E anchor \in vertices :
          /\ <<anchor.round, anchor.source>> \in Leads
          /\ Consecutive(anchor.batches)
          /\ \A c \in Range(commits) : anchor.round >= c.anchor.round /\ anchor # c.anchor
          /\ \E history \in SUBSET Orderable(anchor) :
                /\ commits' = Append(commits, [anchor |-> anchor, history |-> history \cup {anchor}])
                /\ Commit(i, commits')

(* try_commit at a validator that reaches a commit another one made first. *)
Follow(i) ==
    /\ core[i].done < Len(commits)
    /\ Commit(i, commits)
    /\ UNCHANGED commits

-----------------------------------------------------------------------------
(* Sealing, pushing and introducing. *)

(* cut_batch stops while too many own batches are not ordered. *)
MayCut(i) ==
    /\ ~halted(i)
    /\ Cardinality(core[i].unintroduced) + Cardinality(core[i].introduced) < MaxUnordered

(* submit_part.  A part that is too large comes straight back and no state   *)
(* changes.                                                                  *)
Submit(i) ==
    /\ i \in Author /\ MayCut(i)
    /\ core[i].next_sequence < MaxSequence
    /\ core' = [core EXCEPT ![i].unintroduced = @ \cup {core[i].next_sequence},
                            ![i].next_sequence = @ + 1]
    /\ disk' = [disk EXCEPT ![i].sealed = @ \cup {core[i].next_sequence}]
    /\ UNCHANGED <<vertices, commits, blocks, handed, complete, crashes, resumes>>

(* on_batch: an unreleased batch within the window joins the carry pool. *)
OnBatch(i, a, q) ==
    /\ i # a /\ q \in disk[a].sealed
    /\ ~halted(i) /\ core[i].resuming = 0
    /\ <<a, q>> \notin core[i].payloads
    /\ q >= core[i].frontier[a].next /\ q < core[i].frontier[a].next + MaxAhead
    /\ core' = [core EXCEPT ![i].payloads = @ \cup {<<a, q>>},
                            ![i].pool = @ \cup {<<a, q>>}]
    /\ UNCHANGED <<vertices, commits, disk, blocks, handed, complete, crashes, resumes>>

(* propose: the rounds up to r may be left out by a jump, which also stands   *)
(* for the vertices that lead no slot and name no batch.  A halted core       *)
(* introduces and carries nothing.                                           *)
Propose(i, r) ==
    LET leads == ~halted(i) /\ <<r, i>> \in Leads
        v == [round |-> r, source |-> i,
              batches |-> IF halted(i) THEN {} ELSE core[i].unintroduced,
              carried |-> IF leads THEN core[i].pool ELSE {}]
    IN  /\ r > core[i].round /\ core[i].resuming = 0
        /\ v.batches # {} \/ <<r, i>> \in Leads
        /\ vertices' = vertices \cup {v}
        /\ core' = [core EXCEPT ![i].round = r,
                                ![i].unintroduced = @ \ v.batches,
                                ![i].introduced = @ \cup v.batches,
                                ![i].pool = @ \ v.carried]
        /\ disk' = [disk EXCEPT ![i].own = @ \cup {v}]
        /\ UNCHANGED <<commits, blocks, handed, complete, crashes, resumes>>

(* after_offer: a vertex that enters the DAG takes what it introduces out of *)
(* the carry pool.                                                           *)
Offer(i, v) ==
    /\ Consecutive(v.batches) /\ v.round >= Floor(commits, core[i].done)
    /\ core[i].resuming = 0
    /\ core[i].pool \cap ({v.source} \X v.batches) # {}
    /\ core' = [core EXCEPT ![i].pool = @ \ ({v.source} \X v.batches)]
    /\ UNCHANGED <<vertices, commits, disk, blocks, handed, complete, crashes, resumes>>
-----------------------------------------------------------------------------
(* Fast-forward, crash and recovery. *)

Found(pairs, a, default) ==
    IF \E p \in pairs : p[1] = a THEN (CHOOSE p \in pairs : p[1] = a)[2] ELSE default

(* Mutant: the batches that wait behind a gap are not imported. *)
ImportNextOnly(state) ==
    [a \in Author |-> [next |-> Found(state.next, a, 0), early |-> NoPlaces]]

(* import: what is not written is empty. *)
Import(state) ==
    [a \in Author |-> [next |-> Found(state.next, a, 0),
                       early |-> Found(state.early, a, NoPlaces)]]

(* The ordering state that the certificate of checkpoint k commits to. *)
Certified(k) ==
    CHOOSE state \in {blocks[j][k].state : j \in {v \in Validator : k \in DOMAIN blocks[v]}} : TRUE

(* install: core c takes on the ordering state of checkpoint k. *)
Installed(i, c, k, own_round) ==
    LET frontier == Import(Certified(k))
        own_next == IF i \in Author
                    THEN Max({frontier[i].next} \cup {q + 1 : q \in DOMAIN frontier[i].early})
                    ELSE 0
    IN  [c EXCEPT !.frontier = frontier,
                  !.next_sequence = Max({@, own_next}),
                  !.round = Max({own_round, commits[k].anchor.round}),
                  !.done = k,
                  !.resuming = 0]

(* fast_forward: a core that waits for the state of checkpoint k, certified  *)
(* by validators that went past it, replaces the one that fell behind.  A    *)
(* core fast-forwarded to the handover checkpoint is CommitRule's subject.   *)
FastForward(i, k) ==
    /\ i \in Restarting /\ resumes < MaxResumes
    /\ core[i].resuming = 0 /\ core[i].done < k
    /\ k \in CheckpointAt \ {CloseAt} /\ k < HandoverAt
    /\ \E j \in Validator : core[j].done >= k
    /\ core' = [core EXCEPT ![i] = [NewCore EXCEPT !.next_sequence = core[i].next_sequence,
                                                   !.round = core[i].round,
                                                   !.resuming = k]]
    /\ resumes' = resumes + 1
    /\ UNCHANGED <<vertices, commits, disk, blocks, handed, complete, crashes>>

(* on_ordering: the state arrives and is installed. *)
Install(i) ==
    /\ core[i].resuming # 0
    /\ core' = [core EXCEPT ![i] = Installed(i, core[i], core[i].resuming, core[i].round)]
    /\ disk' = [disk EXCEPT
          ![i].own = {}, ![i].base = core[i].resuming, ![i].done = core[i].resuming,
          ![i].round = Max({@} \cup {v.round : v \in disk[i].own})]
    /\ UNCHANGED <<vertices, commits, blocks, handed, complete, crashes, resumes>>

(* Mutant: recovery leaves a sequence out. *)
NextSequencePast(floor, sealed) == Max({floor} \cup {q + 2 : q \in sealed})

(* The sequence the next batch takes after the sealed ones. *)
NextSequence(floor, sealed) == Max({floor} \cup {q + 1 : q \in sealed})

(* recover: the core rebuilt from the journal.  The delivered vertices alone *)
(* lead to the first d commits: the first proposals counted before are gone. *)
Recovered(i) ==
    LET start == IF disk[i].base = 0 THEN NewCore
                 ELSE Installed(i, NewCore, disk[i].base, disk[i].round)
        introduced == UNION {v.batches : v \in disk[i].own}
    IN  [start EXCEPT
            !.next_sequence = NextSequence(@, disk[i].sealed),
            !.introduced = introduced,
            !.unintroduced = disk[i].sealed \ introduced,
            !.round = Max({@} \cup {v.round : v \in disk[i].own})]

Crash(i, d) ==
    /\ i \in Restarting /\ crashes < MaxCrashes
    /\ \E start \in {[Local(i) EXCEPT !.core = Recovered(i)]} :
       \E replayed \in {Replay(i, start, commits, disk[i].base, d)} :
          /\ core' = [core EXCEPT ![i] = replayed.core]
          /\ blocks' = [blocks EXCEPT ![i] = replayed.blocks]
          /\ handed' = [handed EXCEPT ![i] = replayed.handed]
    /\ crashes' = crashes + 1
    /\ UNCHANGED <<vertices, commits, disk, complete, resumes>>

(* on_certified and complete_epoch: the handover certificate, built by       *)
(* validators that halted, reaches one that halted too or one that adopts it *)
(* before its own ordering got there.                                        *)
CompleteEpoch(i) ==
    /\ complete[i] = "no"
    /\ \E j \in Validator : halted(j)
    /\ complete' = [complete EXCEPT ![i] = IF halted(i) THEN "halted" ELSE "adopted"]
    /\ handed' = [handed EXCEPT ![i] = @ \cup core[i].introduced \cup core[i].unintroduced]
    /\ core' = [core EXCEPT ![i].introduced = {}, ![i].unintroduced = {}]
    /\ UNCHANGED <<vertices, commits, disk, blocks, crashes, resumes>>

-----------------------------------------------------------------------------
Next ==
    \E i \in Validator :
        \/ Submit(i)
        \/ \E a \in Author, q \in Sequence : OnBatch(i, a, q)
        \/ \E r \in Round : Propose(i, r)
        \/ \E v \in vertices : Offer(i, v)
        \/ Decide(i)
        \/ Follow(i)
        \/ \E k \in CheckpointAt : FastForward(i, k)
        \/ Install(i)
        \/ \E d \in disk[i].base..disk[i].done : Crash(i, d)
        \/ CompleteEpoch(i)

Spec == Init /\ [][Next]_vars

-----------------------------------------------------------------------------
(* Properties. *)

Released(i) == UNION {Range(blocks[i][k].released) : k \in DOMAIN blocks[i]}
OwnReleased(i) == {b[2] : b \in {c \in UNION {Released(j) : j \in Validator} : c[1] = i}}

(* Every validator that applies a commit releases the same batches in the   *)
(* same order and is left with the same ordering state, which checkpoints    *)
(* commit to, whether it followed, crashed and replayed, or resumed from an *)
(* exported state in between (batch.rs release, expire_gaps, import).       *)
SameBlocks ==
    \A i, j \in Validator : \A k \in DOMAIN blocks[i] \cap DOMAIN blocks[j] :
        blocks[i][k] = blocks[j][k]

(* No batch is released twice, though it may be introduced by its author,    *)
(* carried by several leaders and introduced again after a restart.         *)
ReleasedOnce ==
    \A i \in Validator : \A k, l \in DOMAIN blocks[i] :
        \A m \in DOMAIN blocks[i][k].released, n \in DOMAIN blocks[i][l].released :
            blocks[i][k].released[m] = blocks[i][l].released[n] => k = l /\ m = n

(* A batch that a vertex of its author introduced is never lost sight of: it *)
(* is still counted as introduced, was released, or was handed back.        *)
IntroducedAccounted ==
    \A i \in Author : core[i].resuming = 0 =>
        \A v \in disk[i].own : \A q \in v.batches :
            q \in core[i].introduced \cup handed[i] \cup OwnReleased(i)

(* A batch handed back to the mempool is never ordered as well, by any        *)
(* validator, unless its author fast-forwarded past commits of the epoch or   *)
(* adopted the handover before ordering the epoch's end itself.              *)
ReturnedNotOrdered ==
    \A i \in Author : complete[i] # "adopted" /\ disk[i].base = 0
        => handed[i] \cap OwnReleased(i) = {}

-----------------------------------------------------------------------------
(* The invariant these follow from. *)

(* The frontiers after each of the commits cs, from the epoch's start on. *)
FrontierAfter(cs) ==
    LET at[n \in 0..Len(cs)] ==
            IF n = 0 THEN EmptyFrontier ELSE FrontierOf(After(at[n - 1], cs, n))
    IN  at

(* What commit k of cs does, whoever applies it. *)
AfterAt(cs, k) == After(FrontierAfter(cs)[k - 1], cs, k)

(* Sequences are used one after the other, and a batch is named, held or     *)
(* carried by anyone only once it is in its author's journal.               *)
SealedFirst ==
    /\ \A i \in Validator :
          /\ disk[i].sealed = 0..(core[i].next_sequence - 1)
          /\ i \notin Author => core[i].next_sequence = 0
          /\ core[i].introduced \cup core[i].unintroduced \subseteq disk[i].sealed
          /\ disk[i].own \subseteq {v \in vertices : v.source = i}
          /\ \A b \in core[i].pool : b[2] \in disk[b[1]].sealed
    /\ \A v \in vertices :
          /\ v.batches \subseteq disk[v.source].sealed
          /\ \A b \in v.carried : b[2] \in disk[b[1]].sealed

(* The sequences of author a that some commit of cs releases. *)
Gone(cs, a) == UNION {{r.sequence : r \in AfterAt(cs, k)[a].ready} : k \in 1..Len(cs)}

(* It waits for none of its batches that the frontier went past. *)
Ahead(i, c) == \A q \in c.introduced \cup c.unintroduced : q >= c.frontier[i].next

(* What was handed back no commit released, and none will: the frontier went  *)
(* past it, or the epoch has all its commits.                                *)
Final(i, returned, cs) ==
    \A q \in returned :
        /\ Len(cs) = HandoverAt \/ q < FrontierAfter(cs)[Len(cs)][i].next
        /\ q \notin Gone(cs, i)

(* Validator i with s, its core, blocks and batches handed back, has applied  *)
(* commits cs and nothing else, however it got to them.  It sealed `sealed'   *)
(* and introduced `own'; its `way' is "resumed" after a fast-forward,         *)
(* "adopted" when it took the handover from others, and "ordered" otherwise.  *)
Good(i, s, cs, sealed, own, way) ==
    /\ s.core \in Core /\ s.core.done <= Len(cs)
    /\ s.core.frontier = FrontierAfter(cs)[s.core.done]
    /\ s.core.introduced \subseteq sealed /\ s.core.unintroduced \subseteq sealed
    /\ DOMAIN s.blocks \subseteq 1..Len(cs)
    /\ \A k \in DOMAIN s.blocks : s.blocks[k] = BlockOf(AfterAt(cs, k))
    /\ s.handed \subseteq Sequence
    /\ (i \in Author /\ way # "resumed") => Ahead(i, s.core)
    /\ (i \in Author /\ way = "ordered") => Final(i, s.handed, cs)
    /\ (i \in Author) => (own \subseteq s.core.introduced \cup s.handed \cup Gone(cs, i))

(* What the journal d says core c introduced: nothing counts while it waits   *)
(* for the state of a checkpoint.                                            *)
Own(c, d) == IF c.resuming = 0 THEN UNION {v.batches : v \in d.own} ELSE {}

Way(d, m) ==
    IF d.base # 0 THEN "resumed" ELSE IF m = "adopted" THEN "adopted" ELSE "ordered"

(* Validator i with core c, journal d, blocks b, batches h handed back and     *)
(* completion m is where the commits cs lead to.                              *)
Stands(i, c, d, b, h, m, cs) ==
    /\ c.resuming <= Len(cs)
    /\ d.base <= d.done /\ d.done <= Len(cs)
    /\ Good(i, [core |-> c, blocks |-> b, handed |-> h], cs, d.sealed, Own(c, d), Way(d, m))

(* Every validator stands where the agreed commits lead to, and every commit  *)
(* was applied by some validator.                                            *)
BatchInv ==
    /\ TypeOK /\ SealedFirst
    /\ Len(commits) <= HandoverAt
    /\ \A k \in 1..Len(commits) : \E i \in Validator : k \in DOMAIN blocks[i]
    /\ \A i \in Validator :
          Stands(i, core[i], disk[i], blocks[i], handed[i], complete[i], commits)
====
