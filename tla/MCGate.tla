------------------------------- MODULE MCGate -------------------------------
(***************************************************************************)
(* The gate under the bank-servicing policies, at model-checking size.     *)
(***************************************************************************)
EXTENDS GateSafety, MCBank, TLC

ThreadSymmetry == Permutations(Threads)

\* A candidate that lets no refund pass by itself: refund-auto at 0.
Tightened == INSTANCE BankPolicy WITH AutoMax <- 0
TightenedPermits(a, ctx) == Tightened!BankPermits(a, ctx)
MCAsked == {a \in Acts : Refund(a)}

ASSUME TightenedAsks == CandidateAsks
=============================================================================
