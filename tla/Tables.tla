--------------------------------- MODULE Tables ---------------------------------
(***************************************************************************)
(* A multi_index table of the chain, as a function from the primary keys   *)
(* of its rows to the rows.  Keys start at 1.                              *)
(***************************************************************************)
EXTENDS Integers

\* A table of rows R with keys in K.
IsTable(table, K, R) == DOMAIN table \subseteq K /\ table \in [DOMAIN table -> R]

\* A table without rows.
Empty == [k \in {} |-> k]

\* emplace a row, or modify the row that is there.
Put(table, key, row) ==
  [k \in DOMAIN table \cup {key} |-> IF k = key THEN row ELSE table[k]]

\* erase the rows of the given keys.
Drop(table, keys) == [k \in DOMAIN table \ keys |-> table[k]]

\* available_primary_key: one more than the key of the last row; the contracts
\* turn the 0 of an empty table into 1.  The key of an erased last row is reused.
IsNextKey(table, key) ==
  /\ key = 1 \/ key - 1 \in DOMAIN table
  /\ \A k \in DOMAIN table : k < key

===============================================================================
