------------------------------- MODULE MCDag -------------------------------
(***************************************************************************)
(* Four members with a seat each; d is faulty.  In round 0 d made d0,      *)
(* which reliable broadcast delivers, and its twin t0; its vertex d1 of    *)
(* round 1 references the twin.                                            *)
(***************************************************************************)
EXTENDS Dag

CONSTANTS a, b, c, d
CONSTANTS a0, b0, d0, t0, a1, b1, c1, d1, a2, b2

Members == {a, b, c, d}
SeatHolder == [s \in Members |-> s]

Round0 == {a0, b0, d0, t0}
Round1 == {a1, b1, c1, d1}
Round2 == {a2, b2}
Vertexes == Round0 \cup Round1 \cup Round2
RoundOf == [v \in Vertexes |-> CASE v \in Round0 -> 0 [] v \in Round1 -> 1 [] v \in Round2 -> 2]
SourceOf == [v \in Vertexes |-> CASE v \in {a0, a1, a2} -> a [] v \in {b0, b1, b2} -> b
                                  [] v = c1 -> c [] v \in {d0, t0, d1} -> d]
AllButTwin == Vertexes \ {t0}
LastAndFaulty == {a2, b2, d1}

References(last) ==
    [v \in Vertexes |-> CASE v \in Round0 -> {}
                          [] v \in {a1, b1, c1} -> {a0, b0, d0}
                          [] v = d1 -> {a0, b0, t0}
                          [] v \in Round2 -> last]

(* The honest authors of round 2 keep round 0: d1 never entered their DAG. *)
RefsInStep == References({a1, b1, c1})
PastInStep == [v \in Vertexes |-> {v} \cup
                 CASE v \in Round2 -> {a1, b1, c1, a0, b0, d0}
                   [] v \in {a1, b1, c1} -> {a0, b0, d0}
                   [] v \in Round0 \cup {d1} -> {}]

(* They collected round 0: d1 entered their DAG without its references. *)
RefsAhead == References({a1, b1, d1})
PastAhead == [v \in Vertexes |-> {v} \cup
                CASE v \in Round2 -> {a1, b1, d1}
                  [] v \in {a1, b1, c1} -> {a0, b0, d0}
                  [] v \in Round0 \cup {d1} -> {}]
=============================================================================
