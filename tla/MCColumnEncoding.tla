--------------------------- MODULE MCColumnEncoding ---------------------------
(* Two tables that reference themselves or each other. *)
EXTENDS ColumnEncoding, TLC
CONSTANTS w1, w2

TwoWorkers == {w1, w2}
AnyWorker == Permutations(TwoWorkers)
AllKeySets == SUBSET {<<1, 1>>, <<1, 2>>, <<2, 1>>}
OneKey == {{<<2, 1>>}}
=============================================================================
