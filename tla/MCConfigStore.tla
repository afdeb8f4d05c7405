--------------------------- MODULE MCConfigStore ---------------------------
(***************************************************************************)
(* The instance of ConfigStore for TLC: two tabs and a few edits.          *)
(***************************************************************************)
EXTENDS ConfigStore

\* The edits are interchangeable, but a run with a liveness property must not
\* use a symmetry, so there are few of them.
CONSTANTS e1, e2, e3

MCEdit == {e1, e2, e3}
============================================================================
