---------------------------- MODULE MCReconciler ----------------------------
(* Identities, paths and tasks are interchangeable; versions are not, for a
   fresh one is chosen among them. *)
EXTENDS Reconciler, TLC

Interchangeable == Permutations(Ids) \cup Permutations(Paths) \cup Permutations(Ops)
=============================================================================
