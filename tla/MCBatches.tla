----------------------------- MODULE MCBatches -----------------------------
(* Instances of Batches for TLC. *)
EXTENDS Batches

(* Validator 1 leads every round: it carries what it holds of 0's batches. *)
OneLeads == (Round \ {0}) \X {1}
====
