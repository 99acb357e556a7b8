--------------------------- MODULE MCConfigStore ---------------------------
(***************************************************************************)
(* Small instances of ConfigStore.                                         *)
(***************************************************************************)
EXTENDS ConfigStore

Date(y, m, d) == [y |-> y, m |-> m, d |-> d]

\* The date the index starts from, its next day, the same day of a later month
\* and of the next year.
SomeDates == {Date(2025, 1, 1), Date(2025, 1, 2), Date(2025, 2, 1), Date(2026, 1, 1)}

OneValue == {2}
=============================================================================
