------------------------------ MODULE Mailbox ------------------------------
(***************************************************************************)
(* What the rest of the RMU may rely on about the mailbox event_uart: its  *)
(* param2 tells the MQTT thread what json_data_buf is about to hold.  The  *)
(* UART callback raises it, the MQTT thread clears it, and once a minute   *)
(* the timer posts a copy of it which the UART thread writes back.  At     *)
(* most one copy is on its way.                                            *)
(*                                                                         *)
(* UartTasks implements this interface; Telemetry builds on it.            *)
(***************************************************************************)
EXTENDS Integers

VARIABLES
  param2, \* event_uart.param2
  posted  \* the copy in the UART thread's event queue, or Nothing

vars == <<param2, posted>>
-----------------------------------------------------------------------------
Telemetry  == 1
Attributes == 2
Kind       == {Telemetry, Attributes}
Nothing    == -1

Init == param2 = 0 /\ posted = Nothing

\* ql_uart_notify_cb has a frame of this kind.
Raise(k) ==
  /\ param2' = k
  /\ UNCHANGED posted

\* The MQTT thread takes the mail.
Take ==
  /\ param2' = 0
  /\ UNCHANGED posted

\* timer_callback posts event_uart ...
Post ==
  /\ posted = Nothing
  /\ posted' = param2
  /\ UNCHANGED param2

\* ... and ql_event_try_wait of the UART thread writes it back.
Restore ==
  /\ posted # Nothing
  /\ param2' = posted /\ posted' = Nothing

Restart == param2' = 0 /\ posted' = Nothing

Next == (\E k \in Kind : Raise(k)) \/ Take \/ Post \/ Restore \/ Restart

Spec == Init /\ [][Next]_vars
=============================================================================
