--------------------------- MODULE MCStoreForward ---------------------------
(***************************************************************************)
(* Small instances of StoreForward.                                        *)
(***************************************************************************)
EXTENDS StoreForward

\* Minute 0 raises both retry flags, minute 1 names the logs, and two of them
\* are replayed.
BusyMinutes == <<0, 1, 31, 43>>

\* Two replays of the NNW log, with the naming minute in between.
NamingMinutes == <<1, 31>>
=============================================================================
