-------------------------------- MODULE Fota --------------------------------
(***************************************************************************)
(* The firmware update: fota_ftp_app, run by the MQTT thread for the OTA   *)
(* command, fetches a package from an FTP server into a local file.        *)
(*                                                                         *)
(* ql_ftp_client_get_ex calls fota_ftp_write_cb for each chunk it receives *)
(* and returns when the package is through or the network fails.           *)
(* fota_ftp_file_download makes up to ten such requests, each of which     *)
(* goes on behind the chunks that are in the file.  A chunk of the package *)
(* stands for the bytes of one callback; the server may replace the        *)
(* package at any moment.                                                  *)
(***************************************************************************)
EXTENDS Integers, Sequences

CONSTANTS
  SizeOf,   \* the chunks of each version of the package
  Space,    \* the chunks that fit on the flash
  Attempts, \* the requests fota_ftp_file_download makes: 10
  MaxCalls, \* bound: OTA commands of a run
  MaxBoots  \* bound: power cuts of a run, which count the resets before them

Version == DOMAIN SizeOf
Chunk   == [version : Version, at : Nat]

ASSUME SizeAssumption  == Version \subseteq Nat /\ 1 \in Version
                          /\ SizeOf \in [Version -> Nat \ {0}]
ASSUME BoundAssumption == /\ Space \in Nat /\ Attempts \in Nat
                          /\ MaxCalls \in Nat /\ MaxBoots \in Nat

VARIABLES
  pc,              \* where fota_ftp_app is
  again,           \* ... and whether it is the second call
  down_state,      \* fota_ftp_cli: the state of the download,
  total_size,      \* the size of the package when the server was asked
  downloaded_size, \* and the chunks that are written
  i,               \* the requests made
  pos,             \* FTP client: the chunks of the package behind it
  file,            \* the local file, on the flash
  version,         \* the package on the server
  result,          \* ql_fota_get_result
  refused,         \* history: the flash did not remove the file when last asked
  calls,           \* history: OTA commands
  boots            \* history: power cuts and resets

ram  == <<down_state, total_size, downloaded_size, i, pos>>
vars == <<pc, again, ram, file, refused, version, result, calls, boots>>

DownState == {"DOWN_INIT", "DOWN_DOWNING", "DOWN_INTR", "DOWN_DOWNED",
              "DOWN_NOSPACE", "DOWN_OTHER_ERROR"}
-----------------------------------------------------------------------------
\* Where a request starts.  The variant starts over.
StartPos_Zero == 0
StartPos      == downloaded_size

\* Requests made after one more.  The variant counts complete ones only.
Tried_Whole(ok) == IF ok THEN i + 1 ELSE i
Tried(ok)       == i + 1

\* Whether fota_ftp_file_download may make one more.  The variant is off by one.
MoreRequests_Late == i <= Attempts
MoreRequests      == i < Attempts

\* The end of fota_ftp_get_file.
AfterGet(ok) ==
  CASE down_state \in {"DOWN_INTR", "DOWN_NOSPACE"} -> down_state
    [] down_state = "DOWN_DOWNING" /\ ~ok          -> "DOWN_INTR"
    [] down_state \in {"DOWN_INIT", "DOWN_DOWNED", "DOWN_OTHER_ERROR"} /\ ~ok
                                                   -> "DOWN_OTHER_ERROR"
    [] down_state \notin {"DOWN_INTR", "DOWN_NOSPACE"} /\ ok
                                                   -> IF downloaded_size >= total_size
                                                      THEN "DOWN_DOWNED" ELSE down_state

Stops == {"DOWN_DOWNED", "DOWN_NOSPACE", "DOWN_OTHER_ERROR"}

\* What fota_ftp_file_check leaves of a file it does not install.  The variant
\* keeps it.
Rejected_Kept == file
Rejected      == <<>>

\* ql_remove, which may fail.
Remove(rest) == \/ file' = rest /\ refused' = FALSE
                \/ file' = file /\ refused' = TRUE

\* ql_fota_image_verify: the file is one version of the package, whole.
Whole(f) == \E v \in Version : f = [n \in 1..SizeOf[v] |-> [version |-> v, at |-> n]]
-----------------------------------------------------------------------------
Init ==
  /\ pc = "idle" /\ again = FALSE
  /\ down_state = "DOWN_INIT" /\ total_size = 0 /\ downloaded_size = 0
  /\ i = 0 /\ pos = 0
  /\ file = <<>> /\ refused = FALSE /\ version = 1 /\ result = "NOT_EXIST"
  /\ calls = 0 /\ boots = 0

\* send_rpc_to_criBrd calls fota_ftp_app, and once more if it returns 1.
OtaCommand ==
  /\ pc = "idle" /\ calls < MaxCalls
  /\ pc' = "result" /\ again' = FALSE
  /\ calls' = calls + 1
  /\ UNCHANGED <<ram, file, refused, version, result, boots>>

Return(value) ==
  IF value = 1 /\ ~again THEN pc' = "result" /\ again' = TRUE
                         ELSE pc' = "idle" /\ UNCHANGED again

\* fota_ftp_result_process: an update that is through is put down, ...
UpdateFinished ==
  /\ pc = "result" /\ result = "FINISHED"
  /\ result' = "NOT_EXIST"
  /\ Return(1)
  /\ UNCHANGED <<ram, file, refused, version, calls, boots>>

\* ... one that waits for the reset gets it, ...
UpdateReady ==
  /\ pc = "result" /\ result = "READY"
  /\ pc' = "reset"
  /\ UNCHANGED <<again, ram, file, refused, version, result, calls, boots>>

\* ... and else, or if the question fails, the download begins.
NoUpdate ==
  /\ pc = "result"
  /\ pc' = "init"
  /\ UNCHANGED <<again, ram, file, refused, version, result, calls, boots>>

\* fota_ftp_client_init: the handle or the file may not be had.
ClientInit ==
  /\ pc = "init"
  /\ down_state' = "DOWN_INIT" /\ total_size' = 0 /\ downloaded_size' = 0
  /\ \E handle, opened \in BOOLEAN :
       /\ IF opened THEN file' = <<>> /\ refused' = FALSE ELSE UNCHANGED <<file, refused>>
       /\ IF handle /\ opened THEN pc' = "ready" /\ UNCHANGED again ELSE Return(1)
  /\ UNCHANGED <<i, pos, version, result, calls, boots>>

\* fota_ftp_net_connect_ready: no network, no server or no package there, ...
NotReady ==
  /\ pc = "ready"
  /\ Return(0)
  /\ UNCHANGED <<ram, file, refused, version, result, calls, boots>>

\* ... no space for it, ...
NoSpace ==
  /\ pc = "ready" /\ SizeOf[version] > Space
  /\ total_size' = SizeOf[version] /\ down_state' = "DOWN_NOSPACE" /\ Remove(<<>>)
  /\ Return(0)
  /\ UNCHANGED <<downloaded_size, i, pos, version, result, calls, boots>>

\* ... or ready to fetch it.
Ready ==
  /\ pc = "ready" /\ SizeOf[version] <= Space
  /\ total_size' = SizeOf[version]
  /\ pc' = "download" /\ i' = 0
  /\ UNCHANGED <<again, down_state, downloaded_size, pos, file, refused, version,
                 result, calls, boots>>
-----------------------------------------------------------------------------
\* fota_ftp_file_download: the next request ...
Request ==
  /\ pc = "download" /\ MoreRequests /\ down_state \notin Stops
  /\ pc' = "get" /\ pos' = StartPos
  /\ UNCHANGED <<again, down_state, total_size, downloaded_size, i, file, refused,
                 version, result, calls, boots>>

\* ... or none, because the package is here, does not fit or cannot be fetched.
StopRequests ==
  /\ pc = "download" /\ (~MoreRequests \/ down_state \in Stops)
  /\ IF MoreRequests /\ down_state = "DOWN_NOSPACE"
       THEN Remove(<<>>) /\ down_state' = "DOWN_INIT"
       ELSE UNCHANGED <<file, refused, down_state>>
  /\ pc' = "check"
  /\ UNCHANGED <<again, total_size, downloaded_size, i, pos, version, result,
                 calls, boots>>

\* fota_ftp_write_cb: a chunk is written, ...
WriteChunk ==
  /\ pc = "get" /\ pos < SizeOf[version] /\ Len(file) < Space
  /\ file' = Append(file, [version |-> version, at |-> pos + 1])
  /\ pos' = pos + 1
  /\ downloaded_size' = downloaded_size + 1
  /\ down_state' = "DOWN_DOWNING"
  /\ UNCHANGED <<pc, again, total_size, i, refused, version, result, calls, boots>>

\* ... or not, or only a part of it; the FTP client gives up then.
WriteFails ==
  /\ pc = "get" /\ pos < SizeOf[version]
  /\ file' \in {file, Append(file, [version |-> version, at |-> 0])}
  /\ down_state' \in {"DOWN_NOSPACE", "DOWN_OTHER_ERROR"}
  /\ pc' = "aborted"
  /\ UNCHANGED <<again, total_size, downloaded_size, i, pos, refused, version, result,
                 calls, boots>>

\* ql_ftp_client_get_ex returns, after a network failure at any point of it.
GetReturns ==
  /\ pc \in {"get", "aborted"}
  /\ \E ok \in BOOLEAN :
       /\ ok => pc = "get" /\ pos >= SizeOf[version]
       /\ down_state' = AfterGet(ok)
       /\ i' = Tried(ok)
  /\ pc' = "download"
  /\ UNCHANGED <<again, total_size, downloaded_size, pos, file, refused, version,
                 result, calls, boots>>

\* fota_ftp_file_check: a valid package is installed by a reset, ...
Install ==
  /\ pc = "check" /\ down_state = "DOWN_DOWNED" /\ Whole(file)
  /\ result' = "READY"
  /\ pc' = "reset"
  /\ UNCHANGED <<again, ram, file, refused, version, calls, boots>>

\* ... anything else is removed, if the flash lets it.
Reject ==
  /\ pc = "check" /\ ~(down_state = "DOWN_DOWNED" /\ Whole(file))
  /\ Remove(Rejected) /\ down_state' = "DOWN_INIT"
  /\ Return(0)
  /\ UNCHANGED <<total_size, downloaded_size, i, pos, version, result, calls, boots>>
-----------------------------------------------------------------------------
\* The boot loader installs a package that is ready and whole, now or at the
\* boot after next.
Boot ==
  /\ pc' = "idle" /\ again' = FALSE
  /\ down_state' = "DOWN_INIT" /\ total_size' = 0 /\ downloaded_size' = 0
  /\ i' = 0 /\ pos' = 0
  /\ \/ result = "READY" /\ Whole(file) /\ result' = "FINISHED"
     \/ UNCHANGED result
  /\ boots' = boots + 1
  /\ UNCHANGED <<file, refused, version, calls>>

\* ql_power_reset.
Reset == pc = "reset" /\ Boot

PowerCut == boots < MaxBoots /\ Boot

\* The package on the server is replaced by a newer one.
Replace ==
  /\ version + 1 \in Version
  /\ version' = version + 1
  /\ UNCHANGED <<pc, again, ram, file, refused, result, calls, boots>>

Result  == UpdateFinished \/ UpdateReady \/ NoUpdate
Connect == ClientInit \/ NotReady \/ NoSpace \/ Ready
Fetch   == Request \/ StopRequests \/ WriteChunk \/ WriteFails \/ GetReturns
Check   == Install \/ Reject
App     == Result \/ Connect \/ Fetch \/ Check \/ Reset

Next == OtaCommand \/ App \/ PowerCut \/ Replace

Spec     == Init /\ [][Next]_vars
FairSpec == Spec /\ WF_vars(App)
-----------------------------------------------------------------------------
TypeOK ==
  /\ pc \in {"idle", "result", "init", "ready", "download", "get", "aborted",
             "check", "reset"}
  /\ again \in BOOLEAN
  /\ down_state \in DownState
  /\ total_size \in Nat /\ downloaded_size \in Nat
  /\ i \in 0..Attempts /\ pos \in Nat
  /\ file \in Seq(Chunk) /\ refused \in BOOLEAN /\ version \in Version
  /\ result \in {"NOT_EXIST", "READY", "FINISHED"}
  /\ calls \in 0..MaxCalls
  /\ boots \in Nat

\* While a download goes on, is interrupted or is through, the file holds the
\* chunks 1, 2, ... of the package, none missing and none twice, as many as
\* downloaded_size says: over all requests, whichever of them fail.
ChunksInPlace ==
  down_state \in {"DOWN_DOWNING", "DOWN_INTR", "DOWN_DOWNED"} =>
    /\ Len(file) = downloaded_size
    /\ \A n \in 1..Len(file) : file[n].at = n

\* Until a power cut strikes, an update that fails gives the flash back, or the
\* flash has refused it the last time it was asked; a file that is left so goes
\* with the next update that can open it.
FlashGivenBack == pc = "idle" /\ boots = 0 => file = <<>> \/ refused

\* The MQTT thread, which does not publish meanwhile, gets out of fota_ftp_app.
UpdateEnds == pc # "idle" ~> pc = "idle"
=============================================================================
