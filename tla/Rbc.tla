--------------------------------- MODULE Rbc ---------------------------------
(***************************************************************************)
(* One instance of the signature-free reliable broadcast                   *)
(* (crates/tenzro-consensus/src/rbc.rs) at every validator of a committee, *)
(* with the journal its driver writes before it sends                      *)
(* (crates/tenzro-node/src/consensus_driver.rs, flush) and the recovery    *)
(* from that journal (crates/tenzro-consensus/src/core.rs, recover).       *)
(*                                                                         *)
(* Channels are authenticated and may lose, repeat, delay and reorder      *)
(* messages, and a peer re-sends what it said whenever it is asked         *)
(* (on_frontier).  A message is therefore not an object of the state: what *)
(* an honest validator has put on the wire stays receivable, a receiver    *)
(* need not take it, and taking it twice is refused by the tally.  A       *)
(* Byzantine validator may be heard saying anything to anyone.             *)
(*                                                                         *)
(* The floor below which an instance is dropped (prune_below) only stops a *)
(* validator taking further steps, which every specification of this form  *)
(* already allows.  A proposal held back until its batches arrive          *)
(* (Core::on_propose, echo_held) is a proposal taken later.                *)
(***************************************************************************)
EXTENDS Committee

CONSTANTS Byzantine,    \* the faulty members
          Author,       \* the broadcaster of this instance
          AuthorSeat,   \* the one seat of the author no tally counts
          Digest,       \* the digests of the vertices an author could make
          NoDigest,     \* None
          FaultySignal, \* the signals the faulty members may be heard sending
          MaxCrashes    \* bound on the crashes of honest validators

Honest == Validator \ Byzantine

Kind == {"Echo", "Vote", "Ack", "Ready"}

ASSUME RbcAssumption ==
    /\ Byzantine \subseteq Validator
    /\ Weight(Byzantine) <= max_faulty
    /\ Author \in Validator
    /\ AuthorSeat \in Seat
    /\ Holder[AuthorSeat] = Author
    /\ NoDigest \notin Digest
    /\ FaultySignal \subseteq [from : Byzantine, kind : Kind, digest : Digest]
    /\ MaxCrashes \in Nat

VARIABLES
    inst,       \* inst[i]: validator i's Instance, in memory
    journal,    \* journal[i]: what a restart of i restores
    wire,       \* wire[i][k]: the digests i ever sent a signal of kind k for
    own,        \* the honest author's vertex (Record::Own), once persisted
    output,     \* output[i]: the digests whose delivery left i's core
    crashes

vars == <<inst, journal, wire, own, output, crashes>>

Maybe(S) == S \cup {NoDigest}

(***************************************************************************)
(* got[k][j] is the digest validator j's signal of kind k was counted for. *)
(* It stands for counted (the senders with an entry), for the tallies (the *)
(* senders with an entry d) and, at the validator's own index, for sent:   *)
(* on_propose and on_signal count a signal the moment they send it, and    *)
(* restore_sent counts what it restores.                                   *)
(***************************************************************************)
Instance == [proposed  : Maybe(Digest),
             got       : [Kind -> [Validator -> Maybe(Digest)]],
             delivered : Maybe(Digest)]

Journal == [sent : [Kind -> Maybe(Digest)], delivered : Maybe(Digest)]

(* Every variable keeps the shape of the field it stands for. *)
TypeOK ==
    /\ inst \in [Honest -> Instance]
    /\ journal \in [Honest -> Journal]
    /\ wire \in [Honest -> [Kind -> SUBSET Digest]]
    /\ own \in Maybe(Digest)
    /\ output \in [Honest -> SUBSET Digest]
    /\ crashes \in Nat

-----------------------------------------------------------------------------
(* Tallies. *)

Senders(s, k, d) == {j \in Validator : s.got[k][j] = d}

(***************************************************************************)
(* non_broadcaster_weight summed over a set of senders: every seat but the *)
(* broadcaster's own one.                                                  *)
(***************************************************************************)
NonAuthorWeight(S) == Cardinality(SeatsOf(S) \ {AuthorSeat})

Count(s, k, j, d) == [s EXCEPT !.got[k][j] = d]

(* Mutant: no READY follows f + 1 READYs. *)
JustifiedWithoutAmplification(s, k, d) ==
    LET tally(q) == NonAuthorWeight(Senders(s, q, d))
    IN  \/ k = "Vote" /\ tally("Echo") >= rbc_vote_threshold
        \/ k = "Ack" /\ \/ tally("Echo") >= rbc_ack_threshold
                        \/ tally("Vote") >= rbc_ack_threshold
        \/ k = "Ready" /\ tally("Ack") >= rbc_ack_threshold

(* Whether on_signal's conditions call for a signal of kind k for d. *)
Justified(s, k, d) ==
    LET tally(q) == NonAuthorWeight(Senders(s, q, d))
    IN  \/ k = "Vote" /\ tally("Echo") >= rbc_vote_threshold
        \/ k = "Ack" /\ \/ tally("Echo") >= rbc_ack_threshold
                        \/ tally("Vote") >= rbc_ack_threshold
        \/ k = "Ready" /\ \/ tally("Ack") >= rbc_ack_threshold
                          \/ Weight(Senders(s, "Ready", d)) >= validity

(* Mutants: READYs are not told apart by digest; both thresholds are        *)
(* reached a seat late.                                                     *)
DeliverableOfAny(s, d) ==
    \/ NonAuthorWeight(Senders(s, "Echo", d)) >= rbc_fast_threshold
    \/ Weight({j \in Validator : s.got["Ready"][j] # NoDigest}) >= ready_delivery
DeliverableAbove(s, d) ==
    \/ NonAuthorWeight(Senders(s, "Echo", d)) > rbc_fast_threshold
    \/ Weight(Senders(s, "Ready", d)) > ready_delivery

Deliverable(s, d) ==
    \/ NonAuthorWeight(Senders(s, "Echo", d)) >= rbc_fast_threshold
    \/ Weight(Senders(s, "Ready", d)) >= ready_delivery

(* One pass of on_signal's checks at validator i: what it sends for d it   *)
(* counts at once (loopback).                                              *)
Check(s, i, d) ==
    [proposed  |-> s.proposed,
     got       |-> [k \in Kind |->
                        IF s.got[k][i] = NoDigest /\ Justified(s, k, d)
                        THEN [s.got[k] EXCEPT ![i] = d]
                        ELSE s.got[k]],
     delivered |-> IF s.delivered = NoDigest /\ Deliverable(s, d)
                   THEN d ELSE s.delivered]

(***************************************************************************)
(* on_signal after the signal is counted.  Each looped-back signal runs    *)
(* the checks again; a pass sends at least one of VOTE, ACK and READY or   *)
(* is the last to change anything, so four passes are all of the recursion.*)
(***************************************************************************)
Checks(s, i, d) == Check(Check(Check(Check(s, i, d), i, d), i, d), i, d)

(* on_propose: the first proposal is taken; a one-member committee delivers *)
(* it, any other echoes it.                                                 *)
TakeProposal(s, i, d) ==
    LET taken == [s EXCEPT !.proposed = d]
    IN  IF size = 1
        THEN [taken EXCEPT !.delivered = d]
        ELSE Checks(Count(taken, "Echo", i, d), i, d)

-----------------------------------------------------------------------------

NoInstance == [proposed  |-> NoDigest,
               got       |-> [k \in Kind |-> [j \in Validator |-> NoDigest]],
               delivered |-> NoDigest]

NoJournal == [sent |-> [k \in Kind |-> NoDigest], delivered |-> NoDigest]

Init ==
    /\ inst = [i \in Honest |-> NoInstance]
    /\ journal = [i \in Honest |-> NoJournal]
    /\ wire = [i \in Honest |-> [k \in Kind |-> {}]]
    /\ own = NoDigest
    /\ output = [i \in Honest |-> {}]
    /\ crashes = 0

(* Mutant: a signal is broadcast whether or not there is one to send. *)
PassSendingNone(i, s) ==
    LET sent == [k \in Kind |-> s.got[k][i]]
    IN  /\ inst' = [inst EXCEPT ![i] = s]
        /\ journal' = [journal EXCEPT ![i].sent = sent]
        /\ wire' = [wire EXCEPT ![i] = [k \in Kind |-> @[k] \cup {sent[k]}]]
        /\ output' = [output EXCEPT ![i] = @ \cup ({s.delivered} \ {NoDigest})]
        /\ UNCHANGED crashes

(***************************************************************************)
(* The driver's pass over one input leaves validator i's instance as s: it *)
(* persists the signals the input made it send, then sends them, then      *)
(* hands on the events (Engine::run: flush, then handle_events).  A crash  *)
(* before the records are persisted loses the whole pass and no one has    *)
(* seen any of it, so it is a crash before the input.                      *)
(***************************************************************************)
Pass(i, s) ==
    LET sent == [k \in Kind |-> s.got[k][i]]
    IN  /\ inst' = [inst EXCEPT ![i] = s]
        /\ journal' = [journal EXCEPT ![i].sent = sent]
        /\ wire' = [wire EXCEPT
                ![i] = [k \in Kind |-> @[k] \cup ({sent[k]} \ {NoDigest})]]
        /\ output' = [output EXCEPT ![i] = @ \cup ({s.delivered} \ {NoDigest})]
        /\ UNCHANGED crashes

(***************************************************************************)
(* The honest author proposes a vertex of this round (Core::propose).  It  *)
(* proposes a round once: its vertex is persisted with the pass, and       *)
(* recovery takes the round of its last vertex as the round it is in.      *)
(***************************************************************************)
Propose(d) ==
    /\ Author \in Honest
    /\ own = NoDigest
    /\ own' = d
    /\ Pass(Author, TakeProposal(inst[Author], Author, d))

(* Mutant: the proposal is taken whoever sent it. *)
OnProposeFromAnyone(i, d) ==
    /\ i # Author
    /\ inst[i].proposed = NoDigest
    /\ Pass(i, TakeProposal(inst[i], i, d))
    /\ UNCHANGED own

(* Validator i takes the author's proposal of d (on_propose). *)
OnPropose(i, d) ==
    /\ i # Author
    /\ Author \in Honest => own = d
    /\ inst[i].proposed = NoDigest
    /\ Pass(i, TakeProposal(inst[i], i, d))
    /\ UNCHANGED own

(* Validator i takes j's signal of kind k for d (on_signal). *)
OnSignal(i, j, k, d) ==
    /\ j # i
    /\ IF j \in Honest THEN d \in wire[j][k]
                       ELSE [from |-> j, kind |-> k, digest |-> d] \in FaultySignal
    /\ inst[i].got[k][j] = NoDigest
    /\ Pass(i, Checks(Count(inst[i], k, j, d), i, d))
    /\ UNCHANGED own

(***************************************************************************)
(* The delivered vertex enters validator i's DAG once its body and parents *)
(* are there; the pass that inserts it persists it (Record::Delivered).    *)
(***************************************************************************)
EnterDag(i) ==
    /\ inst[i].delivered # NoDigest
    /\ journal[i].delivered # inst[i].delivered
    /\ journal' = [journal EXCEPT ![i].delivered = inst[i].delivered]
    /\ UNCHANGED <<inst, wire, own, output, crashes>>

(* Mutants: a restart restores the deliveries alone; a restart restores no *)
(* signal but the VOTE, ACK and READY.                                     *)
RestoredUnsent(i, r) == [NoInstance EXCEPT !.delivered = r.delivered]
RestoredUnechoed(i, r) ==
    [proposed  |-> NoDigest,
     got       |-> [k \in Kind |-> [v \in Validator |->
                        IF v = i /\ k # "Echo" THEN r.sent[k] ELSE NoDigest]],
     delivered |-> r.delivered]

(* The instance restore_sent and restore_delivered rebuild from journal r. *)
Restored(i, r) ==
    [proposed  |-> r.sent["Echo"],
     got       |-> [k \in Kind |-> [v \in Validator |->
                        IF v = i THEN r.sent[k] ELSE NoDigest]],
     delivered |-> r.delivered]

(* Validator i stops between two passes and recovers from its journal. *)
CrashRecover(i) ==
    /\ crashes < MaxCrashes
    /\ crashes' = crashes + 1
    /\ inst' = [inst EXCEPT ![i] = Restored(i, journal[i])]
    /\ UNCHANGED <<journal, wire, own, output>>

(***************************************************************************)
(* Validator i is brought to a certified checkpoint whose ordering state   *)
(* still keeps this instance's round (fast_forward, Core::resume,          *)
(* install): its new core holds none of its signals, and recovery ignores  *)
(* those journalled before the Resumed record.  Its own vertex it never    *)
(* proposes again.                                                         *)
(***************************************************************************)
FastForward(i) ==
    /\ inst' = [inst EXCEPT ![i] = NoInstance]
    /\ journal' = [journal EXCEPT ![i] = NoJournal]
    /\ UNCHANGED <<wire, own, output, crashes>>

Next ==
    \/ \E d \in Digest : Propose(d)
    \/ \E i \in Honest, d \in Digest : OnPropose(i, d)
    \/ \E i \in Honest, j \in Validator, k \in Kind, d \in Digest :
            OnSignal(i, j, k, d)
    \/ \E i \in Honest : EnterDag(i)
    \/ \E i \in Honest : CrashRecover(i)

Spec == Init /\ [][Next]_vars

(* Nothing an honest member sent is left for validator i to take. *)
CaughtUp(i) ==
    /\ i = Author \/ Author \notin Honest \/ own = NoDigest \/ inst[i].proposed # NoDigest
    /\ \A j \in Honest \ {i}, k \in Kind : wire[j][k] # {} => inst[i].got[k][j] # NoDigest

(***************************************************************************)
(* A validator whose frontier shows that it lacks the instance is sent the *)
(* author's vertex and every honest signal again, until it has them        *)
(* (frontier, on_frontier, recover).  This is weak fairness of taking what *)
(* honest members sent, written without ENABLED: after a crash, too, a     *)
(* validator catches up again.  Nothing is assumed of the faulty members.  *)
(***************************************************************************)
Fairness == \A i \in Honest : []<>CaughtUp(i)

FairSpec == Spec /\ Fairness

FastForwardSpec == Init /\ [][Next \/ \E i \in Honest : FastForward(i)]_vars

-----------------------------------------------------------------------------

(* Reliable broadcast makes every honest validator deliver the same vertex *)
(* or none: whatever the broadcaster and the other faulty members say, and *)
(* whatever was forgotten in restarts, no two deliveries that ever left an *)
(* honest validator's core differ (on_signal's delivery checks).           *)
Agreement ==
    \A i, j \in Honest : \A d \in output[i], e \in output[j] : d = e

(* What an honest validator says it never contradicts: over all its        *)
(* restarts it signals one digest per kind (sent, restore_sent, flush).    *)
NoContradiction ==
    \A i \in Honest, k \in Kind : \A d, e \in wire[i][k] : d = e

(* An honest author's instance delivers nothing but the vertex the author  *)
(* persisted and proposed, however often it crashed before persisting one. *)
AuthorIntegrity ==
    Author \in Honest => \A i \in Honest : output[i] \subseteq {own}

Abstract == INSTANCE Broadcast WITH proposal <- own, handed <- output

(* The tallies, the journal and the recovery implement the broadcast the   *)
(* DAG relies on: every pass hands on what Broadcast may hand on, or       *)
(* nothing new (RbcAction::Deliver).                                       *)
Broadcasts == Abstract!Spec

(***************************************************************************)
(* Whether validator i's tallies of kind k can still change what it does:  *)
(* VOTEs until its ACK is sent, ACKs until its READY is, ECHOs until VOTE  *)
(* and ACK are sent and it delivered, READYs until its READY is sent and   *)
(* it delivered.                                                           *)
(***************************************************************************)
Read(i, k) ==
    LET unsent(q) == inst[i].got[q][i] = NoDigest
        undelivered == inst[i].delivered = NoDigest
    IN  CASE k = "Echo" -> undelivered \/ unsent("Vote") \/ unsent("Ack")
          [] k = "Vote" -> unsent("Ack")
          [] k = "Ack" -> unsent("Ready")
          [] k = "Ready" -> undelivered \/ unsent("Ready")

(* Nothing an honest member sent is still on its way to a validator that    *)
(* would read it.                                                            *)
AtRest ==
    \A i \in Honest :
        /\ i = Author \/ Author \notin Honest \/ own = NoDigest \/ inst[i].proposed # NoDigest
        /\ \A j \in Honest, k \in Kind :
              Read(i, k) /\ wire[j][k] # {} => inst[i].got[k][j] # NoDigest

(* Delivery is all or nothing: once what honest members sent has reached   *)
(* every honest validator, either all of them have delivered or none ever  *)
(* has, on the fast path or the slow one, and even if the delivery was     *)
(* forgotten in a crash (the amplification in on_signal).  A validator     *)
(* alone among faulty ones has no one to agree with: what it delivered by  *)
(* its own signals and forgot, no one reminds it of.                       *)
Totality ==
    AtRest => \A i, j \in Honest :
                 i # j /\ output[i] # {} => inst[j].delivered # NoDigest

(* What an honest author proposed is delivered by every honest validator,  *)
(* whatever the faulty members say or withhold and whoever restarts        *)
(* meanwhile (on_signal's thresholds, restore_sent and the re-sending).    *)
Delivers ==
    Author \in Honest =>
        (own # NoDigest ~> \A i \in Honest : output[i] = {own})

-----------------------------------------------------------------------------
(***************************************************************************)
(* The inductive invariant behind Agreement.  A signal or a delivery is    *)
(* backed by what is on the wire, not by one validator's tallies, which a  *)
(* crash forgets.                                                          *)
(***************************************************************************)

(* The members that may be heard signalling k for d, when w is the wire. *)
Said(w, k, d) == Byzantine \cup {v \in Honest : d \in w[v][k]}

SignalBacked(w, k, d) ==
    /\ k = "Vote" => NonAuthorWeight(Said(w, "Echo", d)) >= rbc_vote_threshold
    /\ k = "Ack" => \/ NonAuthorWeight(Said(w, "Echo", d)) >= rbc_ack_threshold
                    \/ NonAuthorWeight(Said(w, "Vote", d)) >= rbc_ack_threshold
    /\ k = "Ready" => NonAuthorWeight(Said(w, "Ack", d)) >= rbc_ack_threshold

SignalsBacked(w) ==
    \A v \in Honest, k \in Kind : \A d \in w[v][k] : SignalBacked(w, k, d)

DeliveryBacked(w, d) ==
    \/ size = 1
    \/ NonAuthorWeight(Said(w, "Echo", d)) >= rbc_fast_threshold
    \/ Weight(Said(w, "Ready", d)) >= ready_delivery

(* What is journalled, on the wire and in memory as sent is the same. *)
OneVoice ==
    \A i \in Honest, k \in Kind :
        /\ journal[i].sent[k] = inst[i].got[k][i]
        /\ wire[i][k] = {inst[i].got[k][i]} \ {NoDigest}

(* Only what was sent is counted, and an echo follows a proposal. *)
Heard ==
    \A i \in Honest :
        /\ \A j \in Honest, k \in Kind : inst[i].got[k][j] \in Maybe(wire[j][k])
        /\ inst[i].proposed = NoDigest => inst[i].got["Echo"][i] = NoDigest

Deliveries ==
    \A i \in Honest :
        /\ inst[i].delivered \in Maybe(output[i])
        /\ journal[i].delivered \in Maybe(output[i])
        /\ \A d \in output[i] : DeliveryBacked(wire, d)

(* An honest author's vertex is the only one an honest validator knows. *)
AuthorKnown ==
    Author \in Honest =>
        \A i \in Honest :
            /\ output[i] \subseteq {own}
            /\ \A k \in Kind : wire[i][k] \subseteq {own}

Inv ==
    /\ TypeOK
    /\ OneVoice
    /\ Heard
    /\ SignalsBacked(wire)
    /\ Deliveries
    /\ AuthorKnown

(***************************************************************************)
(* What Totality needs besides: a pass ends with nothing left to send or   *)
(* to deliver.  A restart keeps this of the signals, as those restored are *)
(* all that were sent; a delivery it may forget, until another member's    *)
(* signal for the digest is counted again.                                 *)
(***************************************************************************)
Settled ==
    size # 1 => \A i \in Honest :
        /\ inst[i].proposed = inst[i].got["Echo"][i]
        /\ i = Author /\ own # NoDigest => inst[i].proposed # NoDigest
        /\ \A d \in Digest :
              /\ \A k \in Kind : inst[i].got[k][i] = NoDigest => ~Justified(inst[i], k, d)
              /\ \/ inst[i].delivered # NoDigest
                 \/ \A j \in Validator \ {i}, k \in Kind : inst[i].got[k][j] # d
                 \/ ~Deliverable(inst[i], d)
=============================================================================
