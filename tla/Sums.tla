-------------------------------- MODULE Sums --------------------------------
(***************************************************************************)
(* Sums of integers, over a finite set of indices and over a sequence.     *)
(***************************************************************************)
EXTENDS FiniteSetsExt

SumOver(f, S) == MapThenSumSet(LAMBDA x : f[x], S)

Total(seq) == SumOver(seq, DOMAIN seq)
=============================================================================
