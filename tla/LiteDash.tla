------------------------------ MODULE LiteDash -----------------------------
(***************************************************************************)
(* The Dash in front of a Scout Lite board: a stock dialect that answers   *)
(* the status command "sigroam".  Beside the start and stop of DashScan,   *)
(* whose decisions (ScanCtl) are the same, this screen recovers a start    *)
(* the board accepted and did not announce (src/sr_start_recover.c),       *)
(* samples the GPS of an idle board (src/sr_gps_sample.h), tags a point of *)
(* interest (src/sr_poi.h), and takes over the totals of a scan it adopts  *)
(* (src/sr_sess_seed.h).                                                   *)
(*                                                                         *)
(* As in DashScan a handler of the tick is a step, a counter and its       *)
(* snapshot are the Boolean "has moved", a timer is the Boolean "is over", *)
(* and a flag nobody looks at until it is next set is kept FALSE.          *)
(***************************************************************************)
EXTENDS ScanCtl, Sequences

CONSTANTS
    Plays,       \* bound: what may happen in one run of the app, see Play
    MaxTx,       \* bound: commands written and not yet read by the board
    MaxRows      \* bound: access points the board finds in one scan

VARIABLES
    scene,       \* "menu" or "dash"
    gpc,         \* the handler of the tick that ran last, 0 between two ticks
    scan,        \* app->scan, and ack: the echo of wardrive since the send
    app,         \* the other flags of SigRoamApp the Dash keeps
    rec,         \* the recovery: s_rec and the s_rec_ flags of the scene
    gps,         \* app->gps_sample
    poi,         \* app->poi
    model,       \* SrModel
    slot,        \* the worker's command slot
    tx,          \* commands on the line to the board
    rx,          \* lines on the way to the app
    board,       \* the board
    play,        \* what is left of a member of Plays
    lost         \* a line or a command was lost

gui == <<scene, gpc, scan, app, rec, gps, poi>>
link == <<slot, tx, rx>>
outside == <<board, play, lost>>
vars == <<gui, model, link, outside>>

\* What bounds a run: whether the board scans when the app is launched, the
\* tabs the user presses OK on, how often the user acts, whether also before
\* everything is answered, how many wardrives the board accepts and does not
\* follow, whether it may scan for longer than a window of the app before it
\* says so, and how much of what is on the line is lost.
Play == [scans : BOOLEAN, tabs : SUBSET {"dash", "gps"}, acts : Nat, hasty : BOOLEAN,
         duds : Nat, late : BOOLEAN, losses : Nat]

ASSUME LiteDashAssumption ==
    /\ Plays \subseteq Play
    /\ MaxTx \in Nat \ {0}
    /\ MaxRows \in Nat

Command == {"wardrive", "stopscan", "sigroam", "gpsdata", "wardrivepoi", "reboot"}
NoCmd == "none"

RecPhase == {"Off", "Watch", "Check", "Stop", "Retry", "Fail", "Reboot"}

GpsPhase == {"Idle", "WaitBlock", "WaitSlow", "WaitStop", "Done", "NoReply",
             "StopUnsure", "Rejected"}

PoiPhase == {"Idle", "WaitAck", "Done", "NoReply"}

\* A line: what it says and, of a status, the access points counted and
\* whether the board scans.
Line(k) == [k |-> k, n |-> 0, on |-> FALSE]
LineOf(k, n, on) == [k |-> k, n |-> n, on |-> on]

LineKind == {"startEcho", "started", "wifiStop", "gpsStop", "diag", "sess", "row", "block",
             "banner", "poiTagged"}

LiteTypeOK ==
    /\ scene \in {"menu", "dash"} /\ gpc \in 0..9
    /\ scan \in [pending : BOOLEAN, isStart : BOOLEAN, rejected : BOOLEAN,
                 revRose : BOOLEAN, timedOut : BOOLEAN, ack : BOOLEAN]
    /\ app \in [prestart : BOOLEAN, prestartOut : BOOLEAN, latched : BOOLEAN,
                postStop : BOOLEAN, sync : BOOLEAN, syncMoved : BOOLEAN,
                clear : BOOLEAN, seed : BOOLEAN]
    /\ rec \in [phase : RecPhase, due : BOOLEAN, checkSent : BOOLEAN, fresh : BOOLEAN,
                rebootSent : BOOLEAN, banner : BOOLEAN, retryArm : BOOLEAN, retryAck : BOOLEAN]
    /\ gps \in [phase : GpsPhase, got : BOOLEAN, moved : BOOLEAN, atSend : BOOLEAN,
                stopMoved : BOOLEAN, slow : BOOLEAN, over : BOOLEAN, ackOut : BOOLEAN]
    /\ poi \in [phase : PoiPhase, ack : BOOLEAN, over : BOOLEAN]
    /\ model \in [session : Session, diagSt : {0, 1}, ap : 0..MaxRows + 1,
                  blocks : BOOLEAN, sessSeen : BOOLEAN, sessMoved : BOOLEAN,
                  sessAp : 0..MaxRows, sessOn : BOOLEAN]
    /\ slot \in Command \cup {NoCmd}
    /\ tx \in Seq(Command) /\ Len(tx) <= MaxTx
    /\ rx \in Seq([k : LineKind, n : 0..MaxRows, on : BOOLEAN])
    /\ board \in [st : {0, 1}, silent : BOOLEAN, gps : BOOLEAN, ap : 0..MaxRows, up : BOOLEAN]

\* The peer is identified before the Dash is opened, by a status the end of
\* which may be lost: without a scan it gives the totals of the last one.  The
\* board may outlive an earlier launch, and scan.
Init ==
    /\ scene = "menu" /\ gpc = 0
    /\ scan = [pending |-> FALSE, isStart |-> FALSE, rejected |-> FALSE,
               revRose |-> FALSE, timedOut |-> FALSE, ack |-> FALSE]
    /\ app = [prestart |-> FALSE, prestartOut |-> FALSE, latched |-> FALSE,
              postStop |-> FALSE, sync |-> FALSE, syncMoved |-> FALSE,
              clear |-> FALSE, seed |-> FALSE]
    /\ rec = [phase |-> "Off", due |-> FALSE, checkSent |-> FALSE, fresh |-> FALSE,
              rebootSent |-> FALSE, banner |-> FALSE, retryArm |-> FALSE, retryAck |-> FALSE]
    /\ gps = [phase |-> "Idle", got |-> FALSE, moved |-> FALSE, atSend |-> FALSE,
              stopMoved |-> FALSE, slow |-> FALSE, over |-> FALSE, ackOut |-> FALSE]
    /\ poi = [phase |-> "Idle", ack |-> FALSE, over |-> FALSE]
    /\ slot = NoCmd /\ tx = <<>> /\ rx = <<>>
    /\ play \in Plays /\ lost = FALSE
    /\ board = [st |-> IF play.scans THEN 1 ELSE 0, silent |-> FALSE, gps |-> FALSE,
                ap |-> 0, up |-> TRUE]
    /\ \E st \in {0, board.st}, seen \in BOOLEAN, n \in {0, MaxRows} :
         /\ n # 0 => seen /\ st = 0
         /\ model = [session |-> "Idle", diagSt |-> st, ap |-> 0, blocks |-> FALSE,
                     sessSeen |-> seen, sessMoved |-> FALSE, sessAp |-> n,
                     sessOn |-> seen /\ st = 1]

-----------------------------------------------------------------------------
(* The command slot, and dash_queue_cmd.                                   *)

Free == slot = NoCmd

Offer(c) == slot' = IF Free THEN c ELSE slot

Queued(pending, isStart) ==
    [pending |-> Free \/ pending, isStart |-> isStart, rejected |-> ~Free,
     revRose |-> FALSE, timedOut |-> FALSE, ack |-> FALSE]

QueueCmd(isStart) ==
    /\ Offer(IF isStart THEN "wardrive" ELSE "stopscan")
    /\ scan' = Queued(scan.pending, isStart)

\* The stopscan ahead of a start does not report a full slot.
QueueClearingStop ==
    /\ Offer("stopscan")
    /\ scan' = [Queued(scan.pending, FALSE) EXCEPT !.rejected = ~Free /\ scan.pending]

Ui == Eval(scan, model.session)

\* A lite board's Busy: is part of its status, never a refusal.
SealingNow == Sealing(TRUE, model.diagSt, FALSE, 0, app.latched)

OkAct ==
    RetryUnconfirmed(OnOkGated(Ui, FALSE, SealingNow, FALSE, FALSE),
                     Ui, model.session, scan.isStart)

\* dash_scan_toggle: a start goes by way of a stopscan.
ToggleStop ==
    /\ OkAct = "SendStop"
    /\ QueueCmd(FALSE)
    /\ app' = [app EXCEPT !.prestart = FALSE, !.prestartOut = FALSE]

ToggleStart ==
    /\ OkAct = "SendStart" /\ ~app.prestart
    /\ QueueClearingStop
    /\ app' = [app EXCEPT !.prestart = TRUE, !.prestartOut = FALSE, !.clear = FALSE]

ToggleNot ==
    /\ OkAct = "None" \/ (OkAct = "SendStart" /\ app.prestart)
    /\ UNCHANGED <<slot, scan, app>>

Toggle == ToggleStop \/ ToggleStart \/ ToggleNot

-----------------------------------------------------------------------------
(* The start recovery: dash_recover_tick and dash_recover_on_ok.           *)

RecOff == [rec EXCEPT !.phase = "Off", !.due = FALSE, !.checkSent = FALSE, !.fresh = FALSE,
                      !.rebootSent = FALSE, !.banner = FALSE, !.retryArm = FALSE,
                      !.retryAck = FALSE]

\* What the tick hands to the recovery (SrRecIn).
Scanning == model.session = "Running"
Accepted == scan.pending /\ scan.isStart /\ ~Scanning /\ scan.ack
\* Mutant: the last status will do, also one from before the question.
FreshAny == rec.checkSent

Fresh == rec.checkSent /\ rec.fresh

\* Mutant: the retry goes by the status that led to it.
RetryAcceptedFresh == rec.retryArm /\ scan.pending /\ scan.isStart /\ rec.fresh

RetryAccepted == rec.retryArm /\ scan.pending /\ scan.isStart /\ rec.retryAck

RecRuns ==
    /\ rec.phase \in {"Watch", "Check", "Stop", "Retry"} /\ Scanning
    /\ rec' = RecOff
    /\ UNCHANGED <<scan, app, slot>>

\* Nothing but a session that runs ends an accepted start here (a lite board
\* does not refuse with Busy:), so no start that is watched is dropped.
RecWatches ==
    /\ rec.phase = "Off" /\ Accepted
    /\ rec' = [rec EXCEPT !.phase = "Watch", !.due = FALSE]
    /\ UNCHANGED <<scan, app, slot>>

RecChecks ==
    /\ rec.phase = "Watch" /\ Accepted /\ rec.due
    /\ Offer("sigroam")
    /\ rec' = [rec EXCEPT !.phase = "Check", !.due = FALSE, !.checkSent = Free, !.fresh = FALSE]
    /\ UNCHANGED <<scan, app>>

\* A board that scans is adopted by the peer synchronisation of this tick.
RecAdopts ==
    /\ rec.phase = "Check" /\ ~Scanning /\ Fresh /\ model.diagSt = 1
    /\ rec' = RecOff
    /\ scan' = [scan EXCEPT !.pending = FALSE, !.rejected = FALSE,
                            !.revRose = FALSE, !.timedOut = FALSE, !.ack = FALSE]
    /\ app' = [app EXCEPT !.sync = TRUE, !.syncMoved = TRUE]
    /\ UNCHANGED slot

RecRetries ==
    /\ rec.phase = "Check" /\ ~Scanning /\ Fresh /\ model.diagSt = 0
    /\ rec' = [rec EXCEPT !.phase = "Stop", !.due = FALSE, !.fresh = FALSE,
                          !.retryArm = TRUE, !.retryAck = FALSE]
    /\ app' = [app EXCEPT !.prestart = TRUE, !.prestartOut = FALSE, !.clear = FALSE]
    /\ QueueCmd(FALSE)

RecNoDiag ==
    /\ rec.phase = "Check" /\ ~Scanning /\ ~Fresh /\ rec.due
    /\ rec' = [rec EXCEPT !.phase = "Fail", !.due = FALSE]
    /\ UNCHANGED <<scan, app, slot>>

RecRetried ==
    /\ rec.phase = "Stop" /\ ~Scanning /\ RetryAccepted
    /\ rec' = [rec EXCEPT !.phase = "Retry", !.due = FALSE]
    /\ UNCHANGED <<scan, app, slot>>

RecMisses ==
    /\ rec.phase = "Retry" /\ ~Scanning /\ rec.due
    /\ rec' = [rec EXCEPT !.phase = "Fail", !.due = FALSE]
    /\ UNCHANGED <<scan, app, slot>>

\* dash_recover_finish_idle: the session is left as it is.
RecUp ==
    /\ rec.phase = "Reboot" /\ (rec.banner \/ rec.due)
    /\ rec' = RecOff
    /\ scan' = [scan EXCEPT !.pending = FALSE, !.rejected = FALSE,
                            !.revRose = FALSE, !.timedOut = FALSE, !.ack = FALSE]
    /\ app' = [app EXCEPT !.prestart = FALSE, !.prestartOut = FALSE]
    /\ UNCHANGED slot

\* What the slot did not take is offered again by every tick.
RecAsksAgain ==
    /\ rec.phase = "Check" /\ ~Scanning /\ ~rec.checkSent /\ ~rec.due /\ Free
    /\ Offer("sigroam")
    /\ rec' = [rec EXCEPT !.checkSent = TRUE, !.fresh = FALSE]
    /\ UNCHANGED <<scan, app>>

RecRebootsAgain ==
    /\ rec.phase = "Reboot" /\ ~rec.banner /\ ~rec.due /\ ~rec.rebootSent /\ Free
    /\ Offer("reboot")
    /\ rec' = [rec EXCEPT !.rebootSent = TRUE]
    /\ UNCHANGED <<scan, app>>

Recover ==
    \/ RecRuns \/ RecWatches \/ RecChecks \/ RecAdopts \/ RecRetries
    \/ RecNoDiag \/ RecRetried \/ RecMisses \/ RecUp \/ RecAsksAgain \/ RecRebootsAgain

RecDue ==
    CASE rec.phase = "Off" -> Accepted
      [] rec.phase = "Watch" -> Scanning \/ (Accepted /\ rec.due)
      [] rec.phase = "Check" -> Scanning \/ Fresh \/ rec.due \/ (~rec.checkSent /\ Free)
      [] rec.phase = "Stop" -> Scanning \/ RetryAccepted
      [] rec.phase = "Retry" -> Scanning \/ rec.due
      [] rec.phase = "Fail" -> FALSE
      [] rec.phase = "Reboot" -> rec.banner \/ rec.due \/ (~rec.rebootSent /\ Free)

\* OK on the fail page reboots; elsewhere it cancels and does its usual work.
OkReboots ==
    /\ rec.phase = "Fail"
    /\ Offer("reboot")
    /\ rec' = [rec EXCEPT !.phase = "Reboot", !.due = FALSE, !.rebootSent = Free,
                          !.banner = FALSE]
    /\ UNCHANGED <<scan, app>>

OkCancels ==
    /\ rec.phase # "Fail"
    /\ rec' = RecOff
    /\ Toggle

-----------------------------------------------------------------------------
(* The GPS tab: one sample on demand, or a point of interest.              *)

Sampling == gps.phase \in {"WaitBlock", "WaitSlow", "WaitStop"}

GpsGate ==
    /\ model.session # "Running"
    /\ Ui \notin {"Starting", "Running", "Stopping"}
    /\ ~Sampling

GpsIdle == [phase |-> "Idle", got |-> FALSE, moved |-> FALSE, atSend |-> FALSE,
            stopMoved |-> FALSE, slow |-> FALSE, over |-> FALSE, ackOut |-> FALSE]

\* dash_gps_start
GpsStart ==
    /\ GpsGate
    /\ Offer("gpsdata")
    /\ gps' = [GpsIdle EXCEPT !.phase = IF Free THEN "WaitBlock" ELSE "Rejected",
                              !.atSend = Free /\ model.blocks]
    /\ UNCHANGED poi

\* dash_poi_send: a full slot leaves what the tab says.
PoiSend ==
    /\ model.session = "Running" /\ Ui = "Running" /\ model.ap > 0
    /\ Offer("wardrivepoi")
    /\ poi' = [phase |-> IF Free THEN "WaitAck" ELSE poi.phase, ack |-> FALSE, over |-> FALSE]
    /\ UNCHANGED gps

\* dash_gps_tick
BlockSeen == gps.phase \in {"WaitBlock", "WaitSlow"} /\ gps.moved
GpsGivesUp == gps.phase = "WaitSlow" /\ ~gps.moved /\ gps.over

\* Mutant: the sample is closed when a block came, and only then.
GpsCloseKeeps ==
    /\ BlockSeen \/ GpsGivesUp
    /\ IF BlockSeen THEN Offer("stopscan") ELSE UNCHANGED slot
    /\ gps' = [gps EXCEPT !.phase = IF BlockSeen THEN "WaitStop" ELSE "NoReply",
                          !.got = BlockSeen, !.stopMoved = FALSE, !.ackOut = FALSE,
                          !.slow = FALSE, !.over = FALSE]

GpsClose ==
    /\ BlockSeen \/ GpsGivesUp
    /\ Offer("stopscan")
    /\ gps' = [gps EXCEPT !.phase = IF Free THEN "WaitStop" ELSE "StopUnsure",
                          !.got = BlockSeen, !.stopMoved = FALSE, !.ackOut = FALSE,
                          !.slow = FALSE, !.over = FALSE,
                          !.moved = @ /\ Free, !.atSend = @ /\ Free]

GpsTurnsSlow ==
    /\ gps.phase = "WaitBlock" /\ ~gps.moved /\ gps.slow
    /\ gps' = [gps EXCEPT !.phase = "WaitSlow", !.got = FALSE, !.slow = FALSE]
    /\ UNCHANGED slot

GpsConfirmed ==
    /\ gps.phase = "WaitStop" /\ (gps.stopMoved \/ gps.ackOut)
    /\ gps' = [GpsIdle EXCEPT
                  !.phase = IF ~gps.got THEN "NoReply"
                            ELSE IF gps.stopMoved THEN "Done" ELSE "StopUnsure",
                  !.got = gps.got,
                  !.moved = gps.moved /\ ~gps.got, !.atSend = gps.atSend /\ ~gps.got]
    /\ UNCHANGED slot

\* A block after all: the round is void.
GpsRefuted ==
    /\ gps.phase = "NoReply" /\ gps.moved
    /\ gps' = GpsIdle
    /\ UNCHANGED slot

GpsDue ==
    \/ BlockSeen \/ GpsGivesUp
    \/ gps.phase = "WaitBlock" /\ gps.slow
    \/ gps.phase = "WaitStop" /\ (gps.stopMoved \/ gps.ackOut)
    \/ gps.phase = "NoReply" /\ gps.moved

\* dash_gps_abort, when the screen is left: a full slot is only logged.
GpsAbort ==
    IF Sampling THEN Offer("stopscan") /\ gps' = GpsIdle ELSE UNCHANGED <<slot, gps>>

-----------------------------------------------------------------------------
(* The session: apply_started, apply_stopped, apply_ap of sr_model.c.      *)

SessionTo(s) ==
    scan' = [scan EXCEPT !.revRose = @ \/ (scan.pending /\ s # model.session)]

\* A session that starts after another one counts from zero, also the GPS
\* blocks a sample compares with.
SessionStarts ==
    /\ model' = IF model.session = "Stopped"
                THEN [model EXCEPT !.session = "Running", !.ap = 0, !.blocks = FALSE]
                ELSE [model EXCEPT !.session = "Running"]
    /\ gps' = IF model.session = "Stopped" THEN [gps EXCEPT !.moved = gps.atSend] ELSE gps
    /\ SessionTo("Running")

SessionStops(kind) ==
    LET s == IF kind = "wifiStop" \/ model.session = "Running"
             THEN Stopped(model.session, "generic") ELSE model.session
    IN  model' = [model EXCEPT !.session = s] /\ SessionTo(s)

\* Bound: the counter stops one above what a scan can find.
CountRow(m) == [m EXCEPT !.ap = IF @ > MaxRows THEN @ ELSE @ + 1]

\* Mutant: totals without a scan are not taken.
SessSeenOn(m, l) ==
    IF l.on THEN [m EXCEPT !.sessSeen = TRUE, !.sessMoved = TRUE, !.sessAp = l.n, !.sessOn = TRUE]
            ELSE m

SessSeen(m, l) ==
    [m EXCEPT !.sessSeen = TRUE, !.sessMoved = TRUE, !.sessAp = l.n, !.sessOn = l.on]

\* The total on the screen: the board's once it has given one, which
\* sr_model_reset_session keeps.
Shown == IF model.sessSeen THEN model.sessAp ELSE model.ap

-----------------------------------------------------------------------------
(* One tick of the Dash, its handlers in the order of the scene.           *)

SyncAct == PeerSync(TRUE, model.diagSt, model.session, scan.pending)

SeedDue ==
    app.seed /\ model.sessMoved /\ model.sessOn /\ model.session = "Running"

ConfirmedNow == Confirmed(scan, model.session)

PrestartRetry == app.prestart /\ ~app.clear /\ ~app.prestartOut /\ ~scan.pending
PrestartEnds == app.prestart /\ (app.clear \/ app.prestartOut)

StatusAnswered ==
    /\ \A k \in DOMAIN tx : tx[k] # "sigroam"
    /\ \A k \in DOMAIN rx : rx[k].k \notin {"diag", "sess"}

Due(pos) ==
    CASE pos = 1 -> RecDue
      [] pos = 2 -> app.sync /\ app.syncMoved
      [] pos = 3 -> SeedDue
      [] pos = 4 -> GpsDue
      [] pos = 5 -> ConfirmedNow
      [] pos = 6 -> app.postStop
      [] pos = 7 -> PrestartRetry \/ PrestartEnds
      [] pos = 8 -> poi.phase = "WaitAck" /\ (poi.ack \/ poi.over)
      [] pos = 9 -> rec.phase = "Off" /\ Free /\ StatusAnswered

At(pos) ==
    /\ scene = "dash" /\ gpc < pos
    /\ Due(pos)
    /\ \A p \in (gpc + 1)..(pos - 1) : ~Due(p)

\* The tick goes on while a later handler has something to do.
Done(pos) == gpc' = IF \E p \in (pos + 1)..8 : Due(p)' THEN pos ELSE 0

TickRecover ==
    /\ At(1) /\ Recover
    /\ UNCHANGED <<scene, gps, poi, model, tx, rx, outside>>
    /\ Done(1)

\* dash_peer_sync_tick: totals are asked for with the adoption.
TickSync ==
    /\ At(2)
    /\ IF SyncAct = "Adopt"
       THEN /\ SessionStarts
            /\ app' = [app EXCEPT !.sync = FALSE, !.syncMoved = FALSE, !.seed = TRUE]
       ELSE /\ app' = [app EXCEPT !.sync = FALSE, !.syncMoved = FALSE]
            /\ UNCHANGED <<scan, gps, model>>
    /\ UNCHANGED <<scene, rec, poi, link, outside>>
    /\ Done(2)

\* Mutant: the totals are added to what was counted.
TickSeedAdds ==
    /\ At(3)
    /\ model' = [model EXCEPT !.ap = @ + model.sessAp]
    /\ app' = [app EXCEPT !.seed = FALSE]
    /\ UNCHANGED <<scene, scan, rec, gps, poi, link, outside>>
    /\ Done(3)

\* dash_sess_seed_tick: the totals overwrite what was counted.
TickSeed ==
    /\ At(3)
    /\ model' = [model EXCEPT !.ap = model.sessAp]
    /\ app' = [app EXCEPT !.seed = FALSE]
    /\ UNCHANGED <<scene, scan, rec, gps, poi, link, outside>>
    /\ Done(3)

TickGps ==
    /\ At(4)
    /\ GpsClose \/ GpsTurnsSlow \/ GpsConfirmed \/ GpsRefuted
    /\ UNCHANGED <<scene, scan, app, rec, poi, model, tx, rx, outside>>
    /\ Done(4)

ScanEnds == scan' = [scan EXCEPT !.pending = FALSE, !.rejected = FALSE,
                                 !.revRose = FALSE, !.timedOut = FALSE, !.ack = FALSE]

\* dash_scan_tick: a confirmed stop, unless of a prestart, is followed by the
\* status command.
TickScan ==
    /\ At(5)
    /\ ScanEnds
    /\ \/ /\ scan.isStart
          /\ app' = [app EXCEPT !.latched = FALSE, !.postStop = FALSE]
          /\ UNCHANGED slot
       \/ /\ ~scan.isStart /\ app.prestart
          /\ UNCHANGED <<app, slot>>
       \/ /\ ~scan.isStart /\ ~app.prestart
          /\ Offer("sigroam")
          /\ app' = [app EXCEPT !.latched = TRUE, !.postStop = ~Free]
    /\ UNCHANGED <<scene, rec, gps, poi, model, tx, rx, outside>>
    /\ Done(5)

\* dash_post_stop_info_tick
TickPostStop ==
    /\ At(6)
    /\ IF SealingNow THEN Offer("sigroam") ELSE UNCHANGED slot
    /\ app' = [app EXCEPT !.postStop = SealingNow /\ ~Free]
    /\ UNCHANGED <<scene, scan, rec, gps, poi, model, tx, rx, outside>>
    /\ Done(6)

\* dash_prestart_tick
TickPrestart ==
    /\ At(7)
    /\ \/ /\ PrestartRetry
          /\ QueueClearingStop
          /\ UNCHANGED app
       \/ /\ PrestartEnds
          /\ Offer("wardrive")
          /\ scan' = Queued(scan.pending /\ scan.isStart, TRUE)
          /\ app' = [app EXCEPT !.prestart = FALSE, !.prestartOut = FALSE, !.clear = FALSE]
    /\ UNCHANGED <<scene, rec, gps, poi, model, tx, rx, outside>>
    /\ Done(7)

\* dash_poi_tick
TickPoi ==
    /\ At(8)
    /\ poi' = [phase |-> IF poi.ack THEN "Done" ELSE "NoReply", ack |-> FALSE, over |-> FALSE]
    /\ UNCHANGED <<scene, scan, app, rec, gps, model, link, outside>>
    /\ Done(8)

\* dash_qual_refresh_tick: every 50th tick, not during a recovery.
TickQual ==
    /\ At(9)
    /\ Offer("sigroam")
    /\ UNCHANGED <<scene, scan, app, rec, gps, poi, model, tx, rx, outside>>
    /\ Done(9)

-----------------------------------------------------------------------------
(* Time.  None of these windows ends while something is on its way, but a  *)
(* late board may have scanned all the while.                              *)

Answered == Free /\ tx = <<>> /\ rx = <<>> /\ board.up /\ (board.silent => play.late)

NoneDue == gpc = 0 /\ (scene = "dash" => \A p \in 1..8 : ~Due(p))

Passing == Answered /\ NoneDue

ScanTime ==
    /\ Passing /\ scan.pending /\ ~scan.timedOut
    /\ scan' = [scan EXCEPT !.timedOut = TRUE]
    /\ UNCHANGED <<scene, gpc, app, rec, gps, poi, model, link, outside>>

PrestartTime ==
    /\ Passing /\ app.prestart /\ ~app.prestartOut
    /\ app' = [app EXCEPT !.prestartOut = TRUE]
    /\ UNCHANGED <<scene, gpc, scan, rec, gps, poi, model, link, outside>>

\* 5 s of the recovery, 15 s of its reboot: longer than the 2 s of the start.
RecTime ==
    /\ Passing /\ rec.phase \in {"Watch", "Check", "Retry", "Reboot"} /\ ~rec.due
    /\ rec.phase \in {"Watch", "Retry"} => scan.timedOut
    /\ rec' = [rec EXCEPT !.due = TRUE]
    /\ UNCHANGED <<scene, gpc, scan, app, gps, poi, model, link, outside>>

GpsTime ==
    /\ Passing
    /\ \/ gps.phase = "WaitBlock" /\ ~gps.slow /\ gps' = [gps EXCEPT !.slow = TRUE]
       \/ gps.phase = "WaitSlow" /\ ~gps.over /\ gps' = [gps EXCEPT !.over = TRUE]
       \/ gps.phase = "WaitStop" /\ ~gps.ackOut /\ gps' = [gps EXCEPT !.ackOut = TRUE]
    /\ UNCHANGED <<scene, gpc, scan, app, rec, poi, model, link, outside>>

PoiTime ==
    /\ Passing /\ poi.phase = "WaitAck" /\ ~poi.over
    /\ poi' = [poi EXCEPT !.over = TRUE]
    /\ UNCHANGED <<scene, gpc, scan, app, rec, gps, model, link, outside>>

-----------------------------------------------------------------------------
(* The user.                                                               *)

\* A patient user waits until nothing is on its way, in a sample or in a
\* recovery.
MayAct ==
    /\ gpc = 0 /\ play.acts > 0
    /\ play.hasty \/ (Passing /\ ~Sampling /\ rec.phase \in {"Off", "Fail"} /\ ~app.prestart
                        /\ (scan.pending => scan.timedOut))

Acts == play' = [play EXCEPT !.acts = @ - 1]

OkDash ==
    /\ scene = "dash" /\ "dash" \in play.tabs /\ MayAct
    /\ OkReboots \/ OkCancels
    /\ Acts
    /\ UNCHANGED <<scene, gpc, gps, poi, model, tx, rx, board, lost>>

OkGps ==
    /\ scene = "dash" /\ "gps" \in play.tabs /\ MayAct
    /\ GpsStart \/ PoiSend
    /\ Acts
    /\ UNCHANGED <<scene, gpc, scan, app, rec, model, tx, rx, board, lost>>

\* Mutant: nobody waits for the answer.
EnterDashDeaf ==
    /\ scene = "menu" /\ MayAct
    /\ scene' = "dash"
    /\ Offer("sigroam")
    /\ app' = [app EXCEPT !.sync = FALSE, !.syncMoved = FALSE, !.prestart = FALSE,
                           !.prestartOut = FALSE, !.clear = FALSE, !.postStop = FALSE]
    /\ model' = [model EXCEPT !.sessMoved = FALSE]
    /\ Acts
    /\ UNCHANGED <<gpc, scan, rec, gps, poi, tx, rx, board, lost>>

\* sigroam_scene_dash_on_enter: the status is asked for once.
EnterDash ==
    /\ scene = "menu" /\ MayAct
    /\ scene' = "dash"
    /\ Offer("sigroam")
    /\ app' = [app EXCEPT !.sync = Free, !.syncMoved = FALSE, !.prestart = FALSE,
                           !.prestartOut = FALSE, !.clear = FALSE, !.postStop = FALSE]
    /\ model' = [model EXCEPT !.sessMoved = FALSE]
    /\ Acts
    /\ UNCHANGED <<gpc, scan, rec, gps, poi, tx, rx, board, lost>>

\* sigroam_scene_dash_on_exit: a sample is closed, a recovery forgotten.
LeaveDash ==
    /\ scene = "dash" /\ MayAct
    /\ scene' = "menu"
    /\ GpsAbort
    /\ rec' = RecOff
    /\ Acts
    /\ UNCHANGED <<gpc, scan, app, poi, model, tx, rx, board, lost>>

-----------------------------------------------------------------------------
(* The worker.                                                             *)

Take ==
    /\ ~Free /\ Len(tx) < MaxTx
    /\ tx' = Append(tx, slot)
    /\ slot' = NoCmd
    /\ UNCHANGED <<gui, model, rx, outside>>

ApplySession(l) ==
    /\ \/ l.k = "started" /\ SessionStarts /\ UNCHANGED app
       \/ /\ l.k = "wifiStop" /\ SessionStops("wifiStop")
          /\ app' = [app EXCEPT !.clear = app.prestart]
          /\ UNCHANGED gps
       \/ /\ l.k = "gpsStop" /\ SessionStops("gpsStop")
          /\ gps' = [gps EXCEPT !.stopMoved =
                          @ \/ (gps.phase = "WaitStop" /\ model.session # "Running")]
          /\ UNCHANGED app
       \/ /\ l.k = "row"
          /\ model' = [CountRow(model) EXCEPT
                          !.session = RowSeen(model.session, "generic")]
          /\ SessionTo(RowSeen(model.session, "generic"))
          /\ UNCHANGED <<app, gps>>
    /\ UNCHANGED <<rec, poi>>

ApplyStatus(l) ==
    /\ \/ /\ l.k = "diag"
          /\ model' = [model EXCEPT !.diagSt = IF l.on THEN 1 ELSE 0]
          /\ app' = [app EXCEPT !.syncMoved = app.sync]
          /\ rec' = [rec EXCEPT !.fresh = rec.checkSent /\ rec.phase = "Check"]
       \/ /\ l.k = "sess"
          /\ model' = SessSeen(model, l)
          /\ UNCHANGED <<app, rec>>
    /\ UNCHANGED <<scan, gps, poi>>

Waiting == gps.phase \in {"WaitBlock", "WaitSlow"}
           \/ (gps.phase \in {"WaitStop", "NoReply"} /\ ~gps.got)

ApplyOther(l) ==
    \/ /\ l.k = "block"
       /\ model' = [model EXCEPT !.blocks = TRUE]
       /\ gps' = [gps EXCEPT !.moved = @ \/ Waiting]
       /\ UNCHANGED <<scan, app, rec, poi>>
    \/ /\ l.k = "startEcho"
       /\ scan' = [scan EXCEPT !.ack = @ \/ (scan.pending /\ scan.isStart)]
       /\ rec' = [rec EXCEPT !.retryAck = rec.retryArm]
       /\ UNCHANGED <<app, gps, poi, model>>
    \/ /\ l.k = "banner"
       /\ rec' = [rec EXCEPT !.banner = rec.phase = "Reboot"]
       /\ UNCHANGED <<scan, app, gps, poi, model>>
    \/ /\ l.k = "poiTagged"
       /\ poi' = [poi EXCEPT !.ack = poi.phase = "WaitAck"]
       /\ UNCHANGED <<scan, app, rec, gps, model>>

Apply ==
    /\ gpc = 0 /\ rx # <<>>
    /\ ApplySession(Head(rx)) \/ ApplyStatus(Head(rx)) \/ ApplyOther(Head(rx))
    /\ rx' = Tail(rx)
    /\ UNCHANGED <<scene, gpc, slot, tx, outside>>

-----------------------------------------------------------------------------
(* The board (outside this repository: what its lines and the comments on  *)
(* them say of it).  It answers a command to the end before the next.      *)

Say(lines) == rx' = rx \o lines

Stream == [board EXCEPT !.st = 0, !.silent = FALSE, !.gps = TRUE]

\* Accepted, but a board that already scans or streams does not start, nor
\* does one without what it needs.
ReadWardrive ==
    /\ Head(tx) = "wardrive"
    /\ Say(<<Line("startEcho")>>)
    /\ \/ /\ board.st = 0 /\ ~board.gps
          /\ board' = [board EXCEPT !.st = 1, !.silent = TRUE, !.ap = 0]
          /\ UNCHANGED play
       \/ /\ board.st = 0 /\ ~board.gps /\ play.duds > 0
          /\ play' = [play EXCEPT !.duds = @ - 1]
          /\ UNCHANGED board
       \/ /\ board.st = 1 \/ board.gps
          /\ UNCHANGED <<board, play>>

ReadStopscan ==
    /\ Head(tx) = "stopscan"
    /\ Say(<<Line(IF board.gps THEN "gpsStop" ELSE "wifiStop")>>)
    /\ board' = [board EXCEPT !.st = 0, !.silent = FALSE, !.gps = FALSE]
    /\ UNCHANGED play

ReadStatus ==
    /\ Head(tx) = "sigroam"
    /\ Say(<<LineOf("diag", 0, board.st = 1), LineOf("sess", board.ap, board.st = 1)>>)
    /\ UNCHANGED <<board, play>>

\* gpsdata replaces whatever the board was doing.
ReadGpsdata ==
    /\ Head(tx) = "gpsdata"
    /\ board' = Stream
    /\ Say(<<>>)
    /\ UNCHANGED play

ReadPoi ==
    /\ Head(tx) = "wardrivepoi"
    /\ \/ board.st = 1 /\ Say(<<Line("poiTagged")>>)
       \/ Say(<<>>)
    /\ UNCHANGED <<board, play>>

ReadReboot ==
    /\ Head(tx) = "reboot"
    /\ board' = [board EXCEPT !.st = 0, !.silent = FALSE, !.gps = FALSE, !.ap = 0, !.up = FALSE]
    /\ Say(<<>>)
    /\ UNCHANGED play

BoardRead ==
    /\ tx # <<>> /\ rx = <<>>
    /\ tx' = Tail(tx)
    /\ \/ /\ board.up
          /\ \/ ReadWardrive \/ ReadStopscan \/ ReadStatus \/ ReadGpsdata \/ ReadPoi
             \/ ReadReboot
       \/ /\ ~board.up
          /\ UNCHANGED <<rx, board, play>>
    /\ UNCHANGED <<gui, model, slot, lost>>

Boots ==
    /\ ~board.up
    /\ board' = [board EXCEPT !.up = TRUE]
    /\ Say(<<Line("banner")>>)
    /\ UNCHANGED <<gui, model, slot, tx, play, lost>>

Announce ==
    /\ board.silent
    /\ board' = [board EXCEPT !.silent = FALSE]
    /\ Say(<<Line("started")>>)
    /\ UNCHANGED <<gui, model, slot, tx, play, lost>>

Row ==
    /\ board.st = 1 /\ ~board.silent /\ board.ap < MaxRows
    /\ board' = [board EXCEPT !.ap = @ + 1]
    /\ Say(<<Line("row")>>)
    /\ UNCHANGED <<gui, model, slot, tx, play, lost>>

Block ==
    /\ board.gps /\ rx = <<>>
    /\ Say(<<Line("block")>>)
    /\ UNCHANGED <<gui, model, slot, tx, outside>>

Lose ==
    /\ play.losses > 0
    /\ \/ tx # <<>> /\ tx' = Tail(tx) /\ UNCHANGED rx
       \/ rx # <<>> /\ rx' = Tail(rx) /\ UNCHANGED tx
    /\ play' = [play EXCEPT !.losses = @ - 1]
    /\ lost' = TRUE
    /\ UNCHANGED <<gui, model, slot, board>>

-----------------------------------------------------------------------------
User == OkDash \/ OkGps \/ EnterDash \/ LeaveDash

Tick ==
    \/ TickRecover \/ TickSync \/ TickSeed \/ TickGps \/ TickScan \/ TickPostStop
    \/ TickPrestart \/ TickPoi

Time == ScanTime \/ PrestartTime \/ RecTime \/ GpsTime \/ PoiTime

BoardStep == BoardRead \/ Boots \/ Announce \/ Row \/ Block

Next == User \/ Tick \/ TickQual \/ Time \/ Take \/ Apply \/ BoardStep \/ Lose

Spec == Init /\ [][Next]_vars

\* The threads and the board keep going, and the windows the app waits for
\* end, whatever else comes and goes on the line meanwhile.
Fairness ==
    /\ WF_vars(Tick) /\ WF_vars(Take) /\ WF_vars(Apply)
    /\ SF_vars(BoardRead) /\ WF_vars(Boots) /\ WF_vars(Announce)
    /\ SF_vars(ScanTime) /\ SF_vars(PrestartTime) /\ SF_vars(RecTime)

FairSpec == Spec /\ Fairness

-----------------------------------------------------------------------------
(* Properties.                                                             *)

\* What the recovery does to the board is right: it stops or reboots none that
\* scans, and has a scan to adopt only when the announcement was late or lost;
\* the board then scans, unless a hasty user pressed OK on the GPS tab while it
\* was being asked.  A second miss is not asked about
\* (sr_start_recover.c:180-191), so a board whose announcement is late or lost
\* may be rebooted out of the scan it was asked for.
RecoverySound ==
    [][/\ TickRecover /\ RecAdopts => (play.late \/ lost) /\ (~play.hasty => board.st = 1)
       /\ TickRecover /\ RecRetries => board.st = 0
       /\ OkDash /\ OkReboots /\ ~play.late /\ ~lost => board.st = 0]_vars

\* "retries once, then offers a board reboot" (CHANGELOG.md:42): a start the
\* board accepted comes to a scan, to the fail page or to rest.
RecoveryEnds ==
    (rec.phase \notin {"Off", "Fail"} /\ scene = "dash" /\ ~play.hasty) ~>
        (rec.phase \in {"Off", "Fail"} \/ scene # "dash" \/ lost)

\* "every sample is closed out with a stop" (sr_gps_sample.h:12): when
\* nothing is in flight the board does not stream, unless the tab says that
\* the stop is not confirmed.
SampleClosed ==
    Passing /\ ~Sampling /\ gps.phase # "StopUnsure" /\ ~play.hasty /\ ~lost => ~board.gps

\* gpsdata, which would silently kill the capture (sr_gps_sample.h:40), does
\* not reach a board that scans.
GpsdataOnIdle ==
    [][BoardRead /\ board.up /\ Head(tx) = "gpsdata" /\ ~play.hasty /\ ~play.late /\ ~lost =>
         board.st = 0]_vars

\* The screen counts no access point the board did not find in this scan: what
\* was counted before an adoption or in an earlier session is gone, and so is
\* the total of an earlier scan, as soon as a status was given during this one.
\* (A total given without a scan stays on the screen until then.)
CountsHonest ==
    model.session = "Running" /\ board.st = 1 /\ Free /\ tx = <<>> /\ rx = <<>>
        /\ ~lost /\ ~play.hasty =>
        /\ model.ap <= board.ap
        /\ (model.sessSeen => model.sessOn) => Shown <= board.ap

\* "the guards ensure nothing is sent during a scan" (sr_gps_sample.h:11-12).
NothingDuringScan ==
    [][TickGps /\ slot' # slot => model.session # "Running"]_vars
=============================================================================
