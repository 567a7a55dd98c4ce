------------------------------- MODULE Tables -------------------------------
(***************************************************************************)
(* Database tables.  A table is a function from the primary keys of its    *)
(* rows to the rows, so DOMAIN t is the set of rows that exist.            *)
(***************************************************************************)

\* Insert the rows of `rows` into t, or overwrite the rows t has under those keys.
Upsert(t, rows) ==
  [k \in DOMAIN t \cup DOMAIN rows |-> IF k \in DOMAIN rows THEN rows[k] ELSE t[k]]

\* The table with one row.
OneRow(k, row) == [x \in {k} |-> row]

\* Delete the rows whose key is in K.
Without(t, K) == [k \in DOMAIN t \ K |-> t[k]]

=============================================================================
