----------------------------- MODULE MCFxProxy -----------------------------
(* A small instance of the exchange-rate proxy for TLC. *)
EXTENDS FxProxy, TLC

CONSTANTS usd, xyz   \* a pair the provider quotes, and one it does not

SomePairs == {usd, xyz}
QuotedPairs == {usd}
CallerSymmetry == Permutations(Callers)
=============================================================================
