-------------------------------- MODULE Rows --------------------------------
(***************************************************************************)
(* How a request changes a row through SQLAlchemy's unit of work: the      *)
(* session keeps the values it loaded, the handler assigns attributes, and *)
(* the flush issues UPDATE ... SET for the attributes whose value differs  *)
(* from the loaded one, WHERE id = ...  Nothing compares the row with what *)
(* was loaded, so a column another session changed meanwhile is either     *)
(* overwritten or silently kept.                                           *)
(***************************************************************************)
EXTENDS TLC

\* x for key k alone.
Only(k, x) == [y \in {k} |-> x]

\* The entries of f, and those of g for other keys.
Both(f, g) ==
    [y \in DOMAIN f \cup DOMAIN g |-> IF y \in DOMAIN f THEN f[y] ELSE g[y]]

\* The row after the UPDATE of a session that loaded read and assigned set: the
\* columns it assigned another value than it loaded.
Flushed(row, read, set) ==
    [c \in DOMAIN row |-> IF c \in DOMAIN set /\ set[c] # read[c] THEN set[c] ELSE row[c]]
=============================================================================
