---------------------------- MODULE MCMigration ----------------------------
EXTENDS Migration, TLC

CONSTANTS w1, w2

OneTick == {w1}
TwoTicks == {w1, w2}
Symmetry == Permutations(TwoTicks)

TwoRecords == {1, 2}

Record(kind, parent) == [kind |-> kind, parent |-> parent]

(* A page that comes before its parent, or an attachment and a product. *)
TwoShapes == {<<Record("content", 2), Record("content", 0)>>,
              <<Record("media", 0), Record("product", 0)>>}
TwoPages == {<<Record("content", 0), Record("content", 0)>>}
=============================================================================
