--------------------------- MODULE MC_PaperLoop ---------------------------
(* A first purchase over the daily cap, then a rebalance that sells one    *)
(* ticker and completes the other.                                         *)
EXTENDS PaperLoop, TLC

AnyRunner == Permutations(Runners)
Monthly   == <<1, 2>>
Cash      == <<0, 0>>
Book      == <<<<2, 1>>, <<1, 1>>>>
=============================================================================
