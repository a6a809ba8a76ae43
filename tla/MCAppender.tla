----------------------------- MODULE MCAppender -----------------------------
(* Appender on a small table: every row is as good as another.             *)
EXTENDS Appender, TLC

RowSymmetry == Permutations(Rows)
=============================================================================
