-------------------------------- MODULE Sums --------------------------------
(***************************************************************************)
(* Sums over finite sets, as the correctness properties of this project    *)
(* state them, and the facts their proofs need: a sum does not depend on   *)
(* the order its elements are taken in.                                    *)
(***************************************************************************)
EXTENDS Integers, FiniteSetsExt

\* The sum of f[x] for x in S.
SumOf(f, S) == MapThenSumSet(LAMBDA x : f[x], S)
=============================================================================
