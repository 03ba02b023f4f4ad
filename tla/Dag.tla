-------------------------------- MODULE Dag --------------------------------
(***************************************************************************)
(* How vertices enter one validator's DAG                                  *)
(* (crates/tenzro-consensus/src/dag.rs and its callers in core.rs).        *)
(*                                                                         *)
(* A vertex is accepted when reliable broadcast delivered it here, or when *)
(* accepted vertices of authors holding f + 1 seats reach it through their *)
(* references; a fetched vertex that is not acceptable yet is held.  An    *)
(* accepted vertex waits until all it references is in the DAG.            *)
(*                                                                         *)
(* The module follows one validator.  World is every vertex any member     *)
(* made; Agreed are those reliable broadcast delivers, at most one a slot  *)
(* (the Agreement of Rbc), and Heard those whose broadcast completes here: *)
(* peers drop the instances of rounds they collected.  What the other      *)
(* honest validators did is in past[h]: what the author of h held of the   *)
(* history of h when it proposed it, all of it Agreed by this module's own *)
(* theorem at that author, earlier.                                        *)
(*                                                                         *)
(* reach and drain_pending are loops.  Their bodies are the steps Reach    *)
(* and Drain, and no handler starts before the loops of the last ended.    *)
(***************************************************************************)
EXTENDS Committee

CONSTANTS World,        \* the vertices any member made
          round,        \* the round of each vertex
          source,       \* its author
          refs,         \* what it references, strongly or weakly
          Byzantine,    \* the members that do not follow the protocol
          Agreed,       \* the vertices reliable broadcast delivers
          Heard,        \* those whose broadcast completes at this validator
          past,         \* for each vertex, the history its author held
          FirstFloor,   \* the floor this validator's core starts with
          MaxFloor      \* bound: the highest floor it reaches

Honest == Validator \ Byzantine

ASSUME WorldAssumption ==
    /\ round \in [World -> Nat]
    /\ source \in [World -> Validator]
    /\ refs \in [World -> SUBSET World]
    /\ past \in [World -> SUBSET World]
    /\ Byzantine \subseteq Validator
    /\ Weight(Byzantine) <= max_faulty
    /\ Agreed \subseteq World
    /\ Heard \subseteq Agreed
    /\ FirstFloor \in Nat
    /\ MaxFloor \in Nat

(* An honest author references what it holds, and holds what reliable      *)
(* broadcast delivers.                                                     *)
ASSUME AuthorsAssumption ==
    \A h \in World : source[h] \in Honest =>
        h \in past[h] /\ past[h] \subseteq Agreed

(***************************************************************************)
(* No honest author had collected a round this validator still keeps: the  *)
(* history it held is closed down to this validator's floor.               *)
(***************************************************************************)
InStep ==
    \A h \in World : source[h] \in Honest =>
        \A x \in past[h] : \A r \in refs[x] : round[r] >= FirstFloor => r \in past[h]

VARIABLES dag,          \* the vertices in the DAG
          pending,      \* accepted, waiting for their references
          expected,     \* would be accepted from a fetch
          held,         \* fetched, not acceptable yet
          reached_by,   \* the authors whose accepted vertices reach each
          floor,        \* the lowest round kept
          wanted,       \* asked of peers (wanted_vertices)
          delivered,    \* what reliable broadcast delivered here
          work,         \* the references reach still has to follow
          draining      \* whether drain_pending is still to finish

vars == <<dag, pending, expected, held, reached_by, floor, wanted, delivered,
          work, draining>>

Work == [to : World, authors : SUBSET Validator]

TypeOK ==
    /\ dag \subseteq World
    /\ pending \subseteq World
    /\ expected \subseteq World
    /\ held \subseteq World
    /\ reached_by \in [World -> SUBSET Validator]
    /\ floor \in Nat
    /\ wanted \subseteq World
    /\ delivered \subseteq Heard
    /\ work \subseteq Work
    /\ draining \in BOOLEAN

Init ==
    /\ dag = {} /\ pending = {} /\ expected = {} /\ held = {}
    /\ reached_by = [v \in World |-> {}]
    /\ floor = FirstFloor
    /\ wanted = {} /\ delivered = {} /\ work = {}
    /\ draining = FALSE

Idle == work = {} /\ ~draining

missing_refs(v) == {r \in refs[v] : round[r] >= floor /\ r \notin dag}

Carry(v, authors) == {[to |-> r, authors |-> authors] : r \in missing_refs(v)}

(* accept: v waits; its author and those that reach it are carried on. *)
accept(v, authors, rest) ==
    /\ pending' = pending \cup {v}
    /\ reached_by' = [reached_by EXCEPT ![v] = {}]
    /\ work' = rest \cup Carry(v, authors \cup {source[v]})

(* offer, for the digests in exp. *)
offer(v, exp) ==
    IF v \in dag \/ round[v] < floor \/ v \notin exp
    THEN expected' = exp /\ UNCHANGED <<pending, held, reached_by, work, draining>>
    ELSE /\ expected' = exp \ {v}
         /\ held' = held \ {v}
         /\ accept(v, reached_by[v], {})
         /\ draining' = TRUE

hold(v) ==
    IF v \in dag \cup pending \/ round[v] < floor
    THEN UNCHANGED <<held, work, draining>>
    ELSE /\ held' = held \cup {v}
         /\ work' = IF reached_by[v] = {} THEN {} ELSE Carry(v, reached_by[v])
         /\ draining' = TRUE

(***************************************************************************)
(* Reliable broadcast delivers v: it is expected, and offered when its     *)
(* body is here; otherwise it is asked of peers.                           *)
(***************************************************************************)
Deliver(v) ==
    LET exp == IF round[v] >= floor /\ v \notin dag THEN expected \cup {v} ELSE expected
    IN  /\ Idle
        /\ v \in Heard \ delivered
        /\ delivered' = delivered \cup {v}
        /\ \/ offer(v, exp) /\ UNCHANGED wanted
           \/ /\ expected' = exp
              /\ wanted' = wanted \cup {v}
              /\ UNCHANGED <<pending, held, reached_by, work, draining>>
        /\ UNCHANGED <<dag, floor>>

(* A peer's Vertices message brings v: offered when expected, held when it *)
(* was asked for as a missing reference.                                   *)
Vertices(v) ==
    /\ Idle
    /\ v \in expected \cup wanted
    /\ wanted' = wanted \ {v}
    /\ \/ v \in expected /\ offer(v, expected)
       \/ v \notin expected /\ hold(v) /\ UNCHANGED <<pending, expected, reached_by>>
    /\ UNCHANGED <<dag, floor, delivered>>

(* Mutant: a vertex is accepted on f seats of authors. *)
VouchedByFaulty(authors) == Weight(authors) >= max_faulty

(* Authors of f + 1 seats, vouch_seats, make a vertex acceptable. *)
Vouched(authors) == Weight(authors) >= validity

(* Mutant: a held vertex that became acceptable is only expected. *)
VouchExpects(r, authors, rest) ==
    /\ expected' = expected \cup {r}
    /\ reached_by' = [reached_by EXCEPT ![r] = authors]
    /\ work' = rest
    /\ UNCHANGED <<pending, held>>

(* A vertex that became acceptable is accepted when held, else expected. *)
Vouch(r, authors, rest) ==
    \/ /\ r \in held
       /\ held' = held \ {r}
       /\ expected' = expected \ {r}
       /\ accept(r, authors, rest)
    \/ /\ r \notin held
       /\ expected' = expected \cup {r}
       /\ reached_by' = [reached_by EXCEPT ![r] = authors]
       /\ work' = rest
       /\ UNCHANGED <<pending, held>>

(***************************************************************************)
(* The body of reach's loop: authors reach w.to; with f + 1 seats of them  *)
(* it is acceptable, with fewer a held one carries the new authors on.     *)
(***************************************************************************)
Reach ==
    \E w \in work :
        LET r     == w.to
            rest  == work \ {w}
            added == w.authors \ reached_by[r]
            all   == w.authors \cup reached_by[r]
        IN  /\ \/ /\ round[r] < floor \/ r \in dag \cup pending \/ added = {}
                  /\ work' = rest
                  /\ UNCHANGED <<pending, expected, held, reached_by>>
               \/ /\ ~(round[r] < floor \/ r \in dag \cup pending \/ added = {})
                  /\ \/ Vouched(all) /\ Vouch(r, all, rest)
                     \/ /\ ~Vouched(all)
                        /\ reached_by' = [reached_by EXCEPT ![r] = all]
                        /\ work' = rest \cup (IF r \in held THEN Carry(r, added) ELSE {})
                        /\ UNCHANGED <<pending, expected, held>>
            /\ UNCHANGED <<dag, floor, wanted, delivered, draining>>

(* The slots of the DAG that hold a vertex. *)
Occupied(v) == \E u \in dag : round[u] = round[v] /\ source[u] = source[v]

(* Mutant: references that are pending count as present. *)
ReadyTogether == {v \in pending : missing_refs(v) \subseteq pending}

Ready == {v \in pending : missing_refs(v) = {}}

(***************************************************************************)
(* The body of drain_pending's loop: a ready vertex enters the DAG, unless *)
(* its slot holds one.                                                     *)
(***************************************************************************)
Drain ==
    /\ draining /\ work = {}
    /\ \E v \in Ready :
           /\ pending' = pending \ {v}
           /\ \/ Occupied(v) /\ UNCHANGED <<dag, wanted>>
              \/ ~Occupied(v) /\ dag' = dag \cup {v} /\ wanted' = wanted \ {v}
    /\ UNCHANGED <<expected, held, reached_by, floor, delivered, work, draining>>

(* drain_pending ends: what pending and held vertices miss is asked for. *)
Missing ==
    /\ draining /\ work = {} /\ Ready = {}
    /\ wanted' = wanted \cup (UNION {missing_refs(v) : v \in pending \cup held}
                                 \ (pending \cup held))
    /\ draining' = FALSE
    /\ UNCHANGED <<dag, pending, expected, held, reached_by, floor, delivered, work>>

(* collect_garbage: the floor rises to f. *)
PruneBelow(f) ==
    LET kept == {v \in World : round[v] >= f}
    IN  /\ Idle
        /\ f > floor
        /\ floor' = f
        /\ dag' = dag \cap kept
        /\ pending' = pending \cap kept
        /\ expected' = expected \cap kept
        /\ held' = held \cap kept
        /\ reached_by' = [v \in World |-> IF v \in kept THEN reached_by[v] ELSE {}]
        /\ wanted' = wanted \cap expected \cap kept
        /\ UNCHANGED <<delivered, work, draining>>

(***************************************************************************)
(* A vertex of a round above World is offered: what matters here is that   *)
(* drain_pending runs again.                                               *)
(***************************************************************************)
LaterOffer ==
    /\ Idle
    /\ draining' = TRUE
    /\ UNCHANGED <<dag, pending, expected, held, reached_by, floor, wanted, delivered, work>>

Next ==
    \/ \E v \in World : Deliver(v)
    \/ \E v \in World : Vertices(v)
    \/ Reach
    \/ Drain
    \/ Missing
    \/ \E f \in 0..MaxFloor : PruneBelow(f)
    \/ LaterOffer

Spec == Init /\ [][Next]_vars

(***************************************************************************)
(* The fairness liveness needs: the loops end; the broadcasts that         *)
(* complete here complete; retry_fetches asks the peers in turn for what   *)
(* is wanted until one that holds it answers, and honest peers hold every  *)
(* Agreed vertex; the rounds go on, so there is always a later offer.      *)
(***************************************************************************)
Fairness ==
    /\ []<>Idle
    /\ \A v \in Heard : []<>(v \in delivered)
    /\ \A v \in Agreed : []<>(v \notin wanted)
    /\ []<><<LaterOffer>>_vars

FairSpec == Spec /\ Fairness

(***************************************************************************)
(* dag.rs: "an honest author's history holds only the vertices reliable    *)
(* broadcast delivered for their slots", so a vertex accepted on f + 1     *)
(* seats of authors is one of them: what this validator accepts and what   *)
(* its DAG holds is what reliable broadcast delivers.                      *)
(***************************************************************************)
OnlyAgreed == dag \cup pending \subseteq Agreed

(***************************************************************************)
(* dag.rs: "the DAG is always causally closed" above the floor, also       *)
(* after the floor rose and while vertices wait for each other.            *)
(***************************************************************************)
CausallyClosed == \A v \in dag : missing_refs(v) = {}

(***************************************************************************)
(* A vertex of an honest author that reliable broadcast delivered enters   *)
(* the DAG, or falls below the floor: every vertex of its history is asked *)
(* for, held, vouched for and accepted, though the broadcasts of most of   *)
(* them never complete here.                                               *)
(***************************************************************************)
HonestEnters ==
    \A h \in {v \in Heard : source[v] \in Honest} :
        (h \in delivered) ~> (h \in dag \/ round[h] < floor)
=============================================================================
