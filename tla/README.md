# Formal models of Tenzro consensus

TLA+ models of the consensus of this repository, checked with TLC on small
instances and proved with TLAPS for all of them. Everything is translated from
the Rust code; `PROJECT.json` maps each definition to the lines it models.
The crate keeps its own Quint and TLA+ models under
`crates/tenzro-consensus/spec`; they start from what reliable broadcast
guarantees. The modules here start below that, at the broadcast itself, its
journal and its recovery, and they are proved and not only explored.

## The system

A committee of validators orders transaction batches without signatures and
then certifies what it ordered with signatures.

| part | state | operations | modelled by |
|---|---|---|---|
| committee (`tenzro-finality/src/committee.rs`) | seats per member | thresholds in seats | `Committee` |
| reliable broadcast (`tenzro-consensus/src/rbc.rs`) | per instance: proposal, counted signals, delivered | propose, signal, restore | `Rbc`, which implements `Broadcast` |
| DAG (`dag.rs`, `vertex.rs`) | vertices, pending, expected and held ones, floor | expect, offer, hold, accept by vouching, drain, prune | `Dag` |
| commit rule (`core.rs` direct, indirect, decide_slots) | next slot, last committed, ordered set | decide slots, commit an anchor | `CommitRule` |
| leader schedule (`schedule.rs`) | drawn leaders, credit | draw, truncate, record outcomes | `CommitRule`, draws left open |
| batches (`batch.rs`, `core.rs`) | next sequence per author, early ones, carry pool, own batches | seal, push, introduce, carry, release, expire, hand back | `Batches` |
| checkpoints (`checkpoint.rs`, `core.rs`) | mark and signed keys on disk, votes, certificates | decide, build, sign, vote, certify | `CheckpointVotes` |
| epoch handover (`core.rs`) | closing and handover index | halt, complete, adopt | `CommitRule`, `Batches` |
| journal and recovery (`consensus_driver.rs`, `core.rs` recover) | records on disk | flush before sending, recover, resume | `Rbc`, `CheckpointVotes`, `CommitRule`, `Batches` |
| mempool, admission, channels, light client | | | not modelled, see below |

Validators interact through messages only. A message handler runs to its end
in one thread (`Core` does no I/O), then the driver writes the journal
and only then sends. Three things run beside it: block execution, the signing
tasks, and other validators. The hard behaviours are therefore: faulty members
that say different things to different peers; lost, repeated and
late messages; a crash between any two steps of the driver; a core replaced
while the process lives on (fast-forward); signatures that arrive out of order
or at another core; bounded memory (windows, floors, kept certificates); and
weights that are not all one.

The modules are layered as the code is. `Broadcast` is what the DAG is told of
`Rbc`: `Dag` takes its deliveries as a set with one vertex a slot, and
`CommitRule` takes a vertex to be its position. `Dag` shows that vertices which
enter without a delivery are the same ones, and that the DAG is closed, which
`CommitRule` assumes when it adds a vertex. `CommitRule` shows that the commits
are agreed, and `Batches` starts from one agreed sequence of commits.

## Modules

`Committee` declares members, seats and who holds each seat, and defines the
thresholds with the source's names. The weight of a set of members is the
number of their seats.

`Rbc` is one broadcast instance at every validator. `inst[i]` is the
`Instance` in memory, `journal[i]` what a restart restores, `wire[i]` what `i`
ever sent, `output[i]` what its core delivered to the DAG. `Propose`,
`OnPropose` and `OnSignal` are the handlers; each is one `Pass`, which includes
the looped-back signals, the journal write and the send, because a crash before
the write is the same as a crash before the input. `EnterDag` journals a
delivery, `CrashRecover` is `Core::recover`, and `FastForward` is `Core::resume`
with `install`. `Spec` has every action but the last; `FastForwardSpec` adds it.
Messages are not objects of the state: what an honest validator sent stays
receivable, because peers re-send on every frontier, and taking it is optional.

`Broadcast` is the abstract broadcast: an honest author proposes one vertex, and
every validator is handed the same vertex or none. `Rbc!Broadcasts` maps
`proposal` to `own` and `handed` to `output`. Signals, tallies, journal writes and
recoveries are stuttering steps; a handler that delivers is a `Deliver`.

`CheckpointVotes` is signing and certification in one epoch. `disk[i]` holds the
high-water mark and the keys of signed indices, `asked[i]` the signing tasks
that have not run, `ready[i]` the signatures on their way to the core, `core[i]`
the collector, its floor and the certificates held. `Decide` and `Build` create
a checkpoint and start its task, `Sign` runs `sign_checkpoint`, `OwnVote`,
`OnVote` and `OnCertificate` are the core's handlers, `FastForward` and
`CrashRecover` replace the core. Which checkpoint a core builds at an index is
left open, so that what is claimed rests on the mark and on quorums alone.

`Dag` is how vertices enter one validator's DAG. `World` is every vertex any
member made, `Agreed` those reliable broadcast delivers and `Heard` those whose
broadcast completes here. `Deliver` and `Vertices` are the core's handlers with
`offer` and `hold`; `Reach` and `Drain` are the bodies of the loops of `reach`
and `drain_pending`, `Missing` is the end of the latter, and no handler starts
before the loops of the last one ended (`Idle`). `PruneBelow` is
`collect_garbage`, with the fetches it forgets. The other validators appear in
`past`: what an honest author held of a vertex's history when it proposed the
vertex. A reference is taken to name the round its vertex has; the code does not
compare the two, and what a faulty author's wrong round does is not modelled.
A restart of this validator replays its DAG from the journal and is the subject
of `CommitRule`.

`CommitRule` is the DAG of one epoch and the decision of its leader slots.
Reliable broadcast is taken as proved in `Rbc`: one vertex per round and author,
so a vertex is its position, `strong[p]` its references and `past[p]` what it
reaches through them. `dag[i]`, `first[i]`, `round[i]` and `halted[i]` are fields
of the core, `decided[i]` the outcomes of the slots before `next_slot`, from which
the floor, the checkpoints and the leaders follow; `journal[i]` is what recovery
reads, `resuming[i]` what a fast-forwarded core waits for, and `executed[i]` the
longest sequence of outcomes the validator ever acted upon. `TryCommit` is one
turn of `try_commit`'s outer loop: it takes decisions up to the first undecided
slot or the first checkpoint, after which slots are decided anew. `Propose` is
`try_start`, `try_advance`, `enter_after` and `propose`; `OnPropose` keeps a first
proposal; `Deliver` and `DeliverFaulty` accept a vertex; `CrashRecover` and `Replay`
are `Core::recover`; `Resume` and `OnOrdering` are `fast_forward`, `Core::resume` and
`install`. Three functions of the outcomes are left open, because their inputs
(timestamps, blocks, seeds, behaviour weights) are themselves functions of the
committed anchors: which commit decides a checkpoint (`Closes`), which checkpoint
is the handover (`Ends`) and whom a checkpoint's draw makes leader (`Draw`).

Where `CommitRule` allows more than the code: timers, pacing and the cap on
uncommitted rounds only delay a proposal and are left out; weak references are
not waited for; any checkpoint decided by an honest validator may be resumed
from, in reach or not; the proposals a journal marks as answered are forgotten by
a crash, so that a first proposal may be taken again; a faulty author's first
proposal may be replaced, since one that is never echoed leaves no mark. A frame's
messages are handled before `progress`, so deliveries do not wait for `TryCommit`.
A vertex below whose floor nothing is checked may name vertices that do not
exist: `DeliverFaulty` keeps the authors of those that do.

`Batches` is the life of transaction batches in one epoch. `core[i]` has each
author's frontier (`Availability`: `next` and `early`), the validator's own batches
by state, the payloads it holds and the carry pool; `disk[i]` is the journal;
`blocks[i]` is what it released at each commit with the ordering state after it, and
`handed[i]` what it gave back to the mempool. `Submit` is `cut_batch` and
`submit_part`, `OnBatch` takes a pushed batch, `Propose` introduces own batches and, in a leader's vertex, carries pushed ones,
`Offer` is what a vertex entering the DAG does to the pool. `Decide` and `Follow` are
`commit`: the batches of the history are introduced and released in order, gaps
at the floor expire, and own batches in a skipped gap are handed back. `Ordered`
is what a commit does to one author's frontier: its vertices by round
(`OrderedRounds`), then what the anchor carries, then `expire_gaps`; a batch's place
in the released sequence is the number of batches sorted before it (`Rank`).
`FastForward` and `Install` export and import the frontier, `Crash` is recovery with
the replay of commits, `CompleteEpoch` hands back what the epoch leaves open. The
commits are one shared sequence, as `CommitRule` shows; their anchors and
histories are left open. A recovering core may get back fewer commits than it
had made, since first proposals are not journalled. Fetching of payloads and
parts that are too large are left out: neither changes the order.

The `MC` modules give TLC its instances; `CommitteeProofs`, `RbcProofs`,
`CheckpointProofs`, `DagProofs`, `CommitLemmas`, `CommitDagProofs`, `CommitProofs` and
`BatchesProofs` hold the proofs. Operators marked "Mutant" are faulty variants of the definition
after them; they are used by no specification and show that the properties
notice the fault.

## Runs

| run | instance | what it shows |
|---|---|---|
| `RbcCrash` | 3 members with 2, 2 and 3 seats, faulty broadcaster, 2 digests, 1 crash | `Agreement`; `NoContradiction`: one digest per kind of signal, over crashes; `Totality`: at rest, all honest validators delivered or none; `Broadcasts`: the refinement |
| `RbcHonestAuthor` | 3 members with 2, 1 and 1 seats, a faulty member, 1 crash, fair | `AuthorIntegrity`; `Delivers`: every honest validator comes to deliver the honest proposal |
| `RbcFastForward` | 4 one-seat members, faulty broadcaster, with `FastForward` | a counterexample to `Agreement`, see Findings |
| `CheckpointVotes` | seats 3, 1, the second faulty, a chain over 3 indices and a rival of its first, window and lag 2, 1 certificate kept, 1 restart | `NoDoubleSign`, `VotesBounded`, `LatestNeverFalls` |
| `CheckpointAccountability` | seats 1, 1, 2, the heavy one faulty | `Accountability`, `EvidenceSound` with too many faulty seats |
| `CommitFaulty` | seats 2, 1, 1, the last member faulty in rounds 0 and 1, rounds 0 to 3, checkpoints that swap later leaders, the second the handover | `SlotAgreement`: slots are decided alike on every part of the DAG, with first proposals that lie and across a redraw; `NothingPastHandover` |
| `CommitRestart` | as above with the faulty member in round 0, 1 crash and 1 fast-forward of b, in either order | `SlotAgreement` and `OneVertexPerRound` over restarts |
| `CommitRetry`, `CommitHandover` | seats 3, 1; a second fast-forward of a waiting core; a handover to resume from | counterexamples, see Findings |
| `Batches` | 2 validators, one follows 2 batches of the other through 2 commits, 1 crash and 1 fast-forward | `SameBlocks`: each commit releases the same batches in one order, and leaves the same ordering state, at all; `ReleasedOnce`; `IntroducedAccounted`: the author loses none; `ReturnedNotOrdered`: none is ordered and handed back |
| `Dag` | 4 one-seat members, a faulty one with two vertices in a slot, 3 rounds of which only the last is heard, fair | `OnlyAgreed`, `CausallyClosed`; `HonestEnters`: a delivered honest vertex enters, or falls below the floor |
| `DagVouching` | the same, with authors that collected round 0 | a counterexample to `OnlyAgreed`, see Findings |

Bounds. Two digests are enough for a disagreement, and symmetric. Four seats is
the least committee with a faulty seat; seven seats over three members has
f = 2 and a broadcaster that loses one seat of two in the tallies, so that the
rounded thresholds differ from the unweighted ones. One crash already separates
every pair of steps of one handler sequence. A window of two is the least in
which `Record::Behind` happens and three indices the least in which a key is
deleted; the index `far` is past what the collector may hold. `MCRbc!View` drops
the tallies that no later step reads (`Read`); states equal under it have the same
future and the same truth of the invariants. A faulty one-seat broadcaster
weighs nothing in ECHO, VOTE and ACK tallies, so `FaultyReady` leaves those out;
`FaultyButVote` leaves out the VOTEs of a faulty member, whose only effect, helping
an ACK, its ECHOs have too. The fair run leaves out its ACKs as well, to stay small;
`AuthorIntegrity` is proved with them. In `CommitRule` a slot and its anchor are two rounds
apart and the anchor needs a round more, so rounds 0 to 3 are the least in which
a slot is decided indirectly. A faulty member that shows support for everyone
(`Shown`) and delivers a vertex that leaves b out (`Delivered`) separates counted
support from delivered support; it counts from round 1 on, which together with
restarts is past what TLC does here, so `CommitFaulty` and `CommitRestart` are two
runs, and `SlotAgreementTheorem` covers both at once. In `Batches` two batches are
the least with a gap, two commits the least with a resume between them and a
commit after it; the limits keep the proportion of the code's (at most as many
own batches unordered as may be ahead, at most as many ahead as may wait).
The specifications may stop in any state, so deadlock is not an error, but for
`Dag`, whose rounds go on.

Fairness. `Rbc!Fairness` says that each validator again and again has taken what
honest members sent: peers compare frontiers on a timer and send what the other
lacks until it has it, also after a restart. `Dag!Fairness` says that loops end,
that broadcasts which complete do so, that `retry_fetches` asks peers in turn until
one that holds the vertex answers (honest peers hold every `Agreed` vertex), and
that rounds go on, so that there is a later offer. The last is needed: after the
floor rises every fetch that is not of an expected vertex is forgotten, and only
a later `drain_pending` asks again. Nothing is assumed of faulty members.
`Totality` needs no fairness: it is stated at rest, when no honest validator has
still to take a proposal or a signal of an honest member that it would read.

## Proofs

All theorems hold for every committee and distribution of seats. `CommitteeProofs`
proves the facts about thresholds and `QuorumOverlap`: two quorums share f + 1
seats.

`RbcProofs` proves `Spec => []Inv` and from it `TypeOK`, `Agreement`,
`NoContradiction` and `AuthorIntegrity`, for any number of crashes, with `Weight(Byzantine) <= max_faulty`.
`Inv` is needed because `Agreement` says nothing of the signals behind a delivery:
it states that every signal on the wire and every delivery is backed by enough
seats that said what justifies it (`SignalsBacked`, `DeliveryBacked`), that tallies
count only what was said (`Heard`) and that a validator speaks with one voice
(`OneVoice`). Two backings of different digests would overlap in an honest
validator that said both (`Overlap`). `BroadcastsTheorem` proves the refinement of
`Broadcast`: under `Inv` each step is a step of it or leaves `own` and `output` alone.
`TotalityTheorem` needs a second invariant, `Settled`: between two handlers a
validator owes nothing, that is, no signal is justified by its tallies and unsent,
and no vertex deliverable and undelivered, except for what it delivered by its own
restored signals before a crash. A delivery is backed by ECHOs on the fast path
or by READYs on the slow one. At rest the honest ones of these have reached
everyone: the ECHOs make every honest validator vote, acknowledge and then send
READY (`FastVotes`, `AllAck`, `AllReady`), the READYs are amplified (`SlowReady`), and
nothing else can have been sent in their place. All honest READYs together suffice
to deliver, and a settled validator has.

`CheckpointProofs` proves `Spec => []Inv` and from it `NoDoubleSign`,
`EvidenceSound`, `Accountability` and `CertificateAgreement`, for every window, set of
checkpoints and number of restarts. `Inv` adds to the properties that the keys
on disk account for every signature within the window of the mark
(`SignaturesKept`), which is why an index without a key may be signed, and that
votes and certificates show only signatures that were made (`VotesMade`). `TypeOK`
and `VotesBounded` are proved as well: the latter with `TasksDecided`, because own
votes are counted without the check `on_vote` makes, and are in reach only since
tasks are started for checkpoints the core decided. `LatestNeverFalls`, an action
property, follows from what `on_certified` drops when too many are kept.

`DagProofs` proves `OnlyAgreed` under the assumption `InStep` and `CausallyClosed`
without it, for every world of vertices and every floor. `VouchInv` is why vouching
is sound: every honest author in `reached_by[x]`, and in the work `reach` still has,
held x in the history of a vertex it made; f + 1 seats hold an honest author, and
what an honest author held is `Agreed`. `InStep` says that no honest author had
collected a round this validator still keeps; `DagVouching` shows that it cannot be
left out. That honest authors hold only `Agreed` vertices is assumed
(`AuthorsAssumption`): it is this theorem at those authors, earlier.

`CommitLemmas`, `CommitDagProofs` and `CommitProofs` prove `SlotAgreement` for every
draw of leaders, choice of checkpoints, number of slots a round, crashes and
fast-forwards, when a core that waits for its state is not fast-forwarded again
(`~Retry`, see `CommitRetry`). The argument has two layers. `DagInv` is about the
vertices: each reaches what its parents reach (`World`), each validator's DAG is
closed down to its floor, and what it remembers of its own rounds bounds what it
proposed (`Kept`), which gives `OneVertexPerRound`. `ValidInv` is about decisions. A
validator's view changes and is lost in crashes, so why it decided is put in
facts that stay true: a commit has f + 1 honest seats of support or is reached
by a committed anchor, a skip is blamed by vertices of all members or is not
reached by an anchor whose history is solid down to it (`Justified`). Two
justified sets of decisions under the same leaders never commit and skip the
same slot (`NoConflict`). Leaders depend on the outcomes before a slot, so
outcomes are `Valid` when each was decided by a justified set under the leaders its
predecessors draw, and valid outcomes agree, one slot after the other
(`ValidAgree`). `NothingPastHandoverTheorem` assumes `MaxResumes = 0`: with
fast-forwards it is false, see `CommitHandover`.

`BatchesProofs` proves all of `Batches`: `TypeOK`, `SameBlocks`, `ReleasedOnce`,
`IntroducedAccounted` and `ReturnedNotOrdered`, for every number of validators, authors,
batches, commits, crashes and fast-forwards and every limit. The invariant,
`BatchInv`, compares each validator with the epoch as it is for one that applies every
commit from the start: `FrontierAfter(commits)[k]` is the frontier after k commits
and `AfterAt(commits, k)` what commit k does. `Stands` says that a validator's frontier
is the one after the commits it has done, and each of its blocks the one its commit
gives, however it got there; that what its journal says it introduced is
accounted for; and, as long as it ordered the epoch itself (`Way`), that it waits for
nothing the frontier went past (`Ahead`) and was handed back nothing that is
or will be released (`Final`). `SealedFirst` says that batches are named, held and
carried only after they are in their author's journal, which bounds the frontiers
and is why a recovered author continues with a fresh sequence. Below it are lemmas
on the operators. A commit moves an author's frontier up, over batches that it
releases once and ones that it skips (`OrderedSound`), so that two commits release
nothing in common (`ReleasedOnOneSide`). `Release` lists each ready batch once, because
`Before` is a strict total order on them and ranks are distinct. `Import` undoes
`Export`. Commits appended later change nothing of the earlier ones (`MoreCommits`).
Applying a commit keeps a validator `Good` (`ApplyGood`), and so does a replay of any
number of them (`ReplayGood`).

The operators of `Batches` that repeat a step (rounds of a commit, commits of a
replay, frontiers of an epoch) are recursive functions over an interval; what they
compute is proved by looking at the least argument at which it would fail.

Only model-checked: `Delivers` and `HonestEnters`, because liveness is out of the
prover's reach. That `InStep`, `~Retry` and `MaxResumes = 0` are needed is shown by the
counterexamples.

## Findings

`RbcFastForward`: a validator that fast-forwards to a certified checkpoint starts
with an empty broadcast (`Core::resume`, `install`), and a later recovery passes
over the signals journalled before it, while rounds from the DAG's floor up are
still open. It can signal for a second digest of an instance it already
signalled in, and with a faulty broadcaster two honest validators deliver
different vertices. The theorems are about `Spec`, which has no fast-forward.

`CommitRetry`: `fast_forward` hands the new core the last round of the one it
replaces, but a core still waiting for its ordering state has no round yet (its
own is in `resuming.own_round`). A second fast-forward, by `retry_fast_forward` or a
later certificate, loses it, and the validator proposes rounds it already
proposed, which `enter_after` says an honest validator never does.

`CommitHandover`: `install` does not restore `halted`. A core that resumes from the
handover checkpoint orders on past it, although after the close nothing more is
ordered in the epoch, and since it holds that checkpoint's certificate already
it never completes the epoch itself.

`DagVouching`: references below the local floor are not looked at, so an honest
validator that collected round r takes in a faulty author's vertex of round
r + 1 whatever it references in round r, and references that vertex. To a
validator with a lower floor those authors vouch for a vertex of round r that
reliable broadcast never delivers, though `dag.rs` says an honest author's history
holds only delivered ones.

Seen while modelling, and not claimed either way by a property: after a restart
`own_unintroduced` may have a hole, and the next vertex then introduces batches
that are not consecutive, which `check_structure` refuses; within one commit batches
are released by round, author and position, which is sequence order except for a
carried one.

## Not modelled

The draw of leaders: agreement is proved for every draw, and the members' shares
of the slots are a matter of fixed-point arithmetic over long runs. The next
epoch's committee and `epoch_manager`: a core lives for one epoch, and what crosses
the boundary is the certificate (`CheckpointVotes`) and the batches handed back
(`Batches`). Timers and pacing, which only delay. Faulty authors of batches, whose
references are the same at every validator once their vertices are agreed. The
mempool, admission, the light client and settlement are sequential; block
execution is data transformation. Cryptography (signatures and digests are
names nobody else can use), encodings, network transport, and the services
around the node are outside; `PROJECT.json` lists each with its reason.
