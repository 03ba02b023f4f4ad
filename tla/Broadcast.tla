----------------------------- MODULE Broadcast -----------------------------
(***************************************************************************)
(* What reliable broadcast promises the DAG, without signals, tallies,     *)
(* journals or restarts: in one instance every honest validator is handed  *)
(* the same vertex or none, and an honest author's own.                    *)
(***************************************************************************)
CONSTANTS Honest,       \* the honest validators
          Author,       \* the broadcaster of the instance
          Digest,       \* the digests of the vertices an author could make
          NoDigest      \* none

VARIABLES proposal,     \* the honest author's vertex, once it proposed
          handed        \* handed[i]: what validator i was handed

vars == <<proposal, handed>>

Init ==
    /\ proposal = NoDigest
    /\ handed = [i \in Honest |-> {}]

(* An honest author proposes one vertex, and may be handed it at once. *)
Propose(d) ==
    /\ Author \in Honest
    /\ proposal = NoDigest
    /\ proposal' = d
    /\ handed' \in {handed, [handed EXCEPT ![Author] = {d}]}

(* Validator i is handed d, and no one was handed anything else. *)
Deliver(i, d) ==
    /\ Author \in Honest => d = proposal
    /\ \A j \in Honest : handed[j] \subseteq {d}
    /\ handed' = [handed EXCEPT ![i] = {d}]
    /\ UNCHANGED proposal

Next ==
    \/ \E d \in Digest : Propose(d)
    \/ \E i \in Honest, d \in Digest : Deliver(i, d)

Spec == Init /\ [][Next]_vars
=============================================================================
