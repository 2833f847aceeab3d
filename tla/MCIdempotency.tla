--------------------------- MODULE MCIdempotency ---------------------------
(* Two callers: a caller that returned may begin another request, so the owner *)
(* of an old record and both competitors for its takeover are among them.      *)
EXTENDS Idempotency, TLC

CallerSymmetry == Permutations(Callers)
=============================================================================
