---------------------------- MODULE MinuteTable ----------------------------
(***************************************************************************)
(* What the UART thread asks of the MQTT thread in a minute of the hour,   *)
(* by raising flags: the part of its handler that does not sleep.          *)
(***************************************************************************)
EXTENDS Integers

CONSTANTS NNW, TBNNW, SDNNW \* the logs for both servers, for TB, for SDM

\* Minute 1 sets the names of the logs to replay to the date of the day.
NamesLogs(m) == m = 1

\* The servers whose retry flag is raised: Retry_server is 11,
\* Retry_server_thingsboard 57, and both divide 0.
RetryRaised(m) == {s \in {"TB", "SDM"} : \/ s = "SDM" /\ m % 11 = 0
                                         \/ s = "TB"  /\ m % 57 = 0}

\* The logs whose replay flag is raised.
ReplayRaised(m) == {k \in {NNW, TBNNW, SDNNW} : \/ k = NNW   /\ m = 31
                                                \/ k = TBNNW /\ m = 43
                                                \/ k = SDNNW /\ m = 53}
=============================================================================
