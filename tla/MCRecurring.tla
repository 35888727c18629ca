----------------------------- MODULE MCRecurring -----------------------------
(***************************************************************************)
(* Recurring for TLC.  The webhook requests are interchangeable.           *)
(***************************************************************************)
EXTENDS Recurring, TLC

Symmetry == Permutations(Handlers)

=============================================================================
