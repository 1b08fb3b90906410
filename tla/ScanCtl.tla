------------------------------ MODULE ScanCtl ------------------------------
(***************************************************************************)
(* The decisions of the scan screen, as functions of the state they read:  *)
(* sr_scan_ctl.h (what the pending command means, what the OK key may do), *)
(* sr_peer_sync.h (whether to adopt a scan the board already runs),        *)
(* sr_dialect.h (what a stock Marauder peer needs before a start) and the  *)
(* session transitions of sr_model.c.                                      *)
(*                                                                         *)
(* The program compares wrapping revision counters with a snapshot of      *)
(* them.  Each pair is kept as one Boolean: the counter has moved since    *)
(* its snapshot.  A timer is the Boolean "its window is over".             *)
(* Definitions marked "Mutant" are faults put in on purpose: TLC must see   *)
(* that a property fails with each of them.                                *)
(***************************************************************************)
EXTENDS Naturals

Session == {"Idle", "Running", "Stopped"}

\* Who the peer is, from the Version: line; "none" is an empty Version.
Firmware == {"none", "sigroam", "generic"}

\* The state the board reports in Diag: and Busy:
\*   0 IDLE, 1 SCANNING, 2 STOPPING, 3 DRAINING, 4 SEALED, 5 UPLOADING
BoardState == 0..5

ScanUi == {"Idle", "Starting", "Running", "Stopping",
           "StartFailed", "StopFailed", "Busy"}

Act == {"None", "SendStart", "SendStop"}

\* SrScanCtlCtx: the command being waited for.
ScanCtx == [pending : BOOLEAN,    \* cmd_pending
            isStart : BOOLEAN,    \* cmd_is_start
            rejected : BOOLEAN,   \* cmd_rejected
            revRose : BOOLEAN,    \* session_rev_now > session_rev_at_send
            timedOut : BOOLEAN]   \* now_ms - cmd_tick_ms >= timeout_ms

-----------------------------------------------------------------------------
(* sr_scan_ctl.h                                                           *)

\* Mutant: session_rev is not compared with its snapshot.
ConfirmedNoRev(c, session) ==
    c.pending /\ session = IF c.isStart THEN "Running" ELSE "Stopped"

Confirmed(c, session) ==
    /\ c.pending
    /\ c.revRose
    /\ session = IF c.isStart THEN "Running" ELSE "Stopped"

Eval(c, session) ==
    CASE Confirmed(c, session) -> IF c.isStart THEN "Running" ELSE "Idle"
      [] c.pending /\ ~Confirmed(c, session) ->
           IF c.isStart
           THEN IF c.timedOut THEN "StartFailed" ELSE "Starting"
           ELSE IF c.timedOut THEN "StopFailed" ELSE "Stopping"
      [] ~c.pending /\ c.rejected -> "Busy"
      [] ~c.pending /\ ~c.rejected ->
           IF session = "Running" THEN "Running" ELSE "Idle"

AllowStop(ui) == ui \in {"Running", "Starting", "StopFailed", "Stopping"}

OnOk(ui) ==
    IF AllowStop(ui) THEN "SendStop"
    ELSE IF ui \in {"Idle", "StartFailed"} THEN "SendStart"
    ELSE "None"

IdleOrSealed(st) == st \in {0, 4}

SealingState(st) == st \in {2, 3}

\* sr_scan_ctl_sealing_ex
Sealing(diagSeen, diagSt, busyMoved, busySt, latched) ==
    /\ ~ (diagSeen /\ IdleOrSealed(diagSt))
    /\ ~ (busyMoved /\ IdleOrSealed(busySt))
    /\ \/ diagSeen /\ SealingState(diagSt)
       \/ busyMoved /\ SealingState(busySt)
       \/ latched

Uploading(diagSeen, diagSt) == diagSeen /\ diagSt = 5

\* sr_scan_ctl_on_ok_upload_gate and, below it, sr_scan_ctl_on_ok_ex
OnOkGated(ui, sdDead, sealing, identHold, uploading) ==
    CASE uploading -> "None"
      [] ~uploading /\ (sdDead \/ identHold \/ sealing) ->
           IF AllowStop(ui) THEN "SendStop" ELSE "None"
      [] OTHER -> OnOk(ui)

RetryUnconfirmed(act, ui, session, isStart) ==
    IF act = "None" /\ ui = "Busy" /\ session = "Running" /\ ~isStart
    THEN "SendStop" ELSE act

ShouldLatchStop(fw, diagSeen) == fw = "sigroam" \/ diagSeen

-----------------------------------------------------------------------------
(* sr_peer_sync.h: whether a reply to #info adopts a running scan, given   *)
(* that firmware_rev moved since the request.                              *)

\* Mutant: any state but IDLE is adopted, with a command pending too.
PeerSyncEager(diagSeen, diagSt, session, pending) ==
    CASE ~diagSeen -> "Wait"
      [] diagSeen /\ diagSt # 0 /\ session # "Running" -> "Adopt"
      [] OTHER -> "None"

PeerSync(diagSeen, diagSt, session, pending) ==
    CASE ~diagSeen -> "Wait"
      [] diagSeen /\ ~pending /\ diagSt = 1 /\ session # "Running" -> "Adopt"
      [] OTHER -> "None"

-----------------------------------------------------------------------------
(* sr_dialect.h: stock info leaves SHOW_INFO set, which swallows the next  *)
(* wardrive; a stopscan clears it.                                         *)

\* Mutant: stock peers are started at once, like -sigroam- ones.
ShowInfoKept(fw, probeStopSent) == "None"

\* Mutant: every known peer is taken for a stock one.
ShowInfoClearAll(fw, probeStopSent) ==
    IF fw = "none" THEN "None"
    ELSE IF probeStopSent THEN "Wait" ELSE "SendStop"

ShowInfoClear(fw, probeStopSent) ==
    IF fw # "generic" THEN "None"
    ELSE IF probeStopSent THEN "Wait" ELSE "SendStop"

\* Mutant: the two dialects are swapped.
StatusCmdSwapped(fw) == IF fw = "generic" THEN "info" ELSE "none"

\* The read-only status command, or none: info on -sigroam- firmware only.
StatusCmd(fw) == IF fw = "sigroam" THEN "info" ELSE "none"

ShouldProbe(fw) == fw = "generic"

-----------------------------------------------------------------------------
(* sr_model.c: the session.  A transition moves session_rev.               *)

Started(session) == "Running"

\* Mutant: the acknowledgement of a stock peer is not taken.
StoppedSigroamOnly(session, fw) ==
    IF session = "Running" /\ fw = "sigroam" THEN "Stopped" ELSE session

Stopped(session, fw) ==
    IF session = "Running" \/ (fw = "generic" /\ session = "Idle")
    THEN "Stopped" ELSE session

\* A CSV row shows a stock board is scanning, but never reopens a stopped
\* session.
RowSeen(session, fw) ==
    IF fw = "generic" /\ session = "Idle" THEN Started(session) ELSE session
=============================================================================
