------------------------------ MODULE EntitySave ------------------------------
(***************************************************************************)
(* repository.save of TypeORM for an entity that has a row, as the         *)
(* services of apps/api use it: it SELECTs the row, compares it with the   *)
(* entity column by column, and UPDATEs the columns that differ.  No entity*)
(* has a version column and nothing locks the row, so another request can  *)
(* write it between the two statements; the columns that did not differ    *)
(* keep what the other one wrote.                                          *)
(***************************************************************************)

\* The row after the UPDATE: `selected' is what the save read of it.
Updated(row, selected, entity) ==
    [x \in DOMAIN row |-> IF entity[x] # selected[x] THEN entity[x] ELSE row[x]]

\* Another request wrote one of these columns between the two statements.
Crossed(row, selected, columns) == \E x \in columns : row[x] # selected[x]
=============================================================================
