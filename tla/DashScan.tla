------------------------------ MODULE DashScan ------------------------------
(***************************************************************************)
(* Starting and stopping a scan from the Dash screen, and sampling the GPS *)
(* of an idle board with the same two commands' slot, end to end: the      *)
(* user's OK key, the 100 ms tick of the Dash (scenes/scene_dash.c) and of *)
(* the Probe screen (scenes/scene_probe.c), the one-command slot to the    *)
(* worker, the serial line in both directions, the model the worker fills  *)
(* from the lines received (src/sr_model.c), and the board.                *)
(*                                                                         *)
(* Both GUI handlers and the worker's apply run under one mutex, so a line *)
(* is applied only between two handlers.  The worker empties the slot      *)
(* without it: each step of a tick that may send is a step of its own.     *)
(* The command slot is atomic here; CmdSlot models its memory.             *)
(* A flag that is out of use until it is next set (a timer that is not     *)
(* running, the change of a counter nobody compares) is kept FALSE.        *)
(***************************************************************************)
EXTENDS ScanCtl, Sequences

CONSTANTS
    Plays,       \* what the runs considered are like, see Play
    MaxTx,       \* bound: commands written and not yet read by the board
    MaxRx        \* bound: lines sent by the board and not yet applied

Kind == {"sigroam", "generic"}

Play == [kind : Kind,             \* the peer; "generic" is a stock Marauder
         card : BOOLEAN,          \* it has a working SD card
         handover : BOOLEAN,      \* it may still be busy from before the launch
         prompt : BOOLEAN,        \* it answers within every timeout of the app
         probe : BOOLEAN,         \* the user may also open the Probe screen
         gpsTab : BOOLEAN,        \* and press OK on the GPS tab
         patient : BOOLEAN,       \* and acts only when nothing is on its way
         lossy : BOOLEAN]         \* the line may lose a command or a line

ASSUME DashScanAssumption ==
    /\ Plays \subseteq Play
    /\ MaxTx \in Nat \ {0}
    /\ MaxRx \in Nat \ {0, 1}

VARIABLES
    scene,       \* the screen shown
    gpc,         \* GUI thread: the handler of the tick that ran last, or 0
    scan,        \* app->scan
    app,         \* the other flags of SigRoamApp the two screens keep
    gps,         \* app->gps_sample
    model,       \* SrModel, as far as the screens read it
    moved,       \* which revision counters moved since their snapshot
    slot,        \* the worker's command slot
    tx,          \* commands on the line to the board
    rx,          \* lines on the way to the app
    board        \* the board, and what the run is like

vars == <<scene, gpc, scan, app, gps, model, moved, slot, tx, rx, board>>

gui == <<scene, gpc, scan, app, gps>>
link == <<slot, tx, rx>>

Command == {"wardrive", "stopscan", "info", "sigroam", "gpsdata"}
NoCmd == "none"

Line == [kind : {"started", "stopped", "firmware", "diag", "busy", "row",
                 "block", "gpsStop"},
         st : BoardState]

Scene == {"menu", "probe", "dash"}

App == [latched : BOOLEAN,        \* stop_seal_latched
        postStop : BOOLEAN,       \* dash_post_stop_info
        prestart : BOOLEAN,       \* dash_prestart
        prestartOut : BOOLEAN,    \* its 2000 ms are over
        ident : BOOLEAN,          \* dash_ident_pending
        identSends : 0..2,        \* dash_ident_sends
        identDue : BOOLEAN,       \* SR_SCAN_CTL_IDENT_MS since the last send
        sync : BOOLEAN,           \* peer_sync_pending
        probed : BOOLEAN,         \* dash_sigroam_probed
        stopSent : BOOLEAN,       \* probe_stop_sent
        sigroamSent : BOOLEAN,    \* probe_sigroam_sent
        hsSent : BOOLEAN,         \* hs.sent
        hsSends : 0..2,           \* hs.sends
        hsBytes : BOOLEAN,        \* bytes received since hs was sent
        hsOut : BOOLEAN]          \* SR_HANDSHAKE_TIMEOUT_MS are over

\* The soft timeout of SR_GPS_FIRST_BLOCK_MS changes what the tab says, no
\* more; "Rest" is every phase in which no sample is in flight.
Gps == [phase : {"Rest", "WaitBlock", "WaitStop"},
        heard : BOOLEAN,          \* gps_blocks, or gps_stop_rev, since its snapshot
        out : BOOLEAN,            \* SR_GPS_SLOW_BLOCK_MS, or SR_GPS_STOP_ACK_MS, are over
        atSend : BOOLEAN]         \* blocks_at_send # 0

Model == [session : Session,
          fw : Firmware,          \* firmware.version
          diagSeen : BOOLEAN,     \* firmware.diag_seen
          diagSt : BoardState,    \* firmware.diag_state
          busySt : BoardState,    \* busy.state
          sdDead : BOOLEAN,       \* a fresh Qual: says sd=0
          blocks : BOOLEAN]       \* gps_blocks # 0

Moved == [busySend : BOOLEAN,     \* busy_rev, since scan_busy_rev_at_send
          busyStop : BOOLEAN,     \* busy_rev, since busy_rev_at_stop
          clear : BOOLEAN,        \* wifi_stop_rev, since clear_stop_rev
          sync : BOOLEAN,         \* firmware_rev, since peer_sync_fw_rev
          hs : BOOLEAN]           \* firmware_rev, since hs.fw_rev_at_send

Board == [kind : Kind,
          card : BOOLEAN, prompt : BOOLEAN, probe : BOOLEAN,
          gpsTab : BOOLEAN, patient : BOOLEAN,
          lossy : BOOLEAN,        \* as in Play, for the whole run
          st : BoardState,
          showInfo : BOOLEAN,     \* stock: SHOW_INFO is the current scan mode
          gps : BOOLEAN,          \* it streams GPS blocks
          silent : BOOLEAN]       \* accepted wardrive, not announced it yet

TypeOK ==
    /\ scene \in Scene
    /\ gpc \in 0..7
    /\ scan \in ScanCtx
    /\ app \in App
    /\ gps \in Gps
    /\ model \in Model
    /\ moved \in Moved
    /\ slot \in Command \cup {NoCmd}
    /\ tx \in Seq(Command) /\ Len(tx) <= MaxTx
    /\ rx \in Seq(Line) /\ Len(rx) <= MaxRx
    /\ board \in Board

-----------------------------------------------------------------------------
(* Initial state: the app has just started on a board that may be idle or  *)
(* in the middle of anything.                                              *)

BoardInit ==
    /\ board \in Board /\ board.st \notin {3, 4}
    /\ \E p \in Plays :
         /\ \A f \in DOMAIN p \ {"handover"} : board[f] = p[f]
         /\ ~p.handover => board.st = 0 /\ ~board.showInfo
    /\ ~board.silent /\ ~board.gps
    /\ board.kind = "sigroam" => ~board.showInfo
    /\ board.kind = "generic" => board.st \in {0, 1} /\ board.card

GpsRest == [phase |-> "Rest", heard |-> FALSE, out |-> FALSE, atSend |-> FALSE]

Init ==
    /\ scene = "menu"
    /\ gpc = 0
    /\ scan = [pending |-> FALSE, isStart |-> FALSE, rejected |-> FALSE,
               revRose |-> FALSE, timedOut |-> FALSE]
    /\ app = [latched |-> FALSE, postStop |-> FALSE, prestart |-> FALSE,
              prestartOut |-> FALSE, ident |-> FALSE, identSends |-> 0,
              identDue |-> FALSE, sync |-> FALSE, probed |-> FALSE,
              stopSent |-> FALSE, sigroamSent |-> FALSE, hsSent |-> FALSE,
              hsSends |-> 0, hsBytes |-> FALSE, hsOut |-> FALSE]
    /\ gps = GpsRest
    /\ model = [session |-> "Idle", fw |-> "none", diagSeen |-> FALSE,
                diagSt |-> 0, busySt |-> 0, sdDead |-> FALSE, blocks |-> FALSE]
    /\ moved = [busySend |-> FALSE, busyStop |-> FALSE, clear |-> FALSE,
                sync |-> FALSE, hs |-> FALSE]
    /\ slot = NoCmd
    /\ tx = <<>>
    /\ rx = <<>>
    /\ BoardInit

-----------------------------------------------------------------------------
(* Sending: sr_worker_send_cmd accepts a command when the slot is empty.   *)

Free == slot = NoCmd

Offer(c) == slot' = IF Free THEN c ELSE slot

\* dash_queue_cmd: the snapshots are taken before the send is tried, and
\* whether or not it succeeds.
QueuedCtx(pending, isStart) ==
    [pending |-> Free \/ pending,
     isStart |-> isStart,
     rejected |-> ~Free,
     revRose |-> FALSE,
     timedOut |-> FALSE]

QueueCmd(isStart) ==
    /\ Offer(IF isStart THEN "wardrive" ELSE "stopscan")
    /\ scan' = QueuedCtx(scan.pending, isStart)

\* The stopscan sent ahead of a stock start does not report a full slot.
QueueClearingStop ==
    /\ Offer("stopscan")
    /\ scan' = [QueuedCtx(scan.pending, FALSE) EXCEPT !.rejected = ~Free /\ scan.pending]

-----------------------------------------------------------------------------
(* The OK key on the Dash tab: dash_scan_toggle.                           *)

Ui == Eval(scan, model.session)

SealingNow ==
    Sealing(model.diagSeen, model.diagSt, moved.busyStop, model.busySt, app.latched)

IdentHold == app.ident /\ model.fw = "none"

OkAct ==
    RetryUnconfirmed(
        OnOkGated(Ui, model.sdDead, SealingNow, IdentHold,
                  Uploading(model.diagSeen, model.diagSt)),
        Ui, model.session, scan.isStart)

OkStop ==
    /\ OkAct = "SendStop"
    /\ QueueCmd(FALSE)
    /\ app' = [app EXCEPT !.prestart = FALSE]
    /\ moved' = [moved EXCEPT !.busySend = FALSE]

OkStartNow ==
    /\ OkAct = "SendStart" /\ ~app.prestart
    /\ LET clear == ShowInfoClear(model.fw, app.stopSent)
       IN  clear = "None" \/ (clear = "Wait" /\ moved.clear)
    /\ QueueCmd(TRUE)
    /\ moved' = [moved EXCEPT !.busySend = FALSE]
    /\ UNCHANGED app

OkStartAfterClear ==
    /\ OkAct = "SendStart" /\ ~app.prestart
    /\ app' = [app EXCEPT !.prestart = TRUE, !.prestartOut = FALSE]
    /\ \/ /\ ShowInfoClear(model.fw, app.stopSent) = "SendStop"
          /\ QueueClearingStop
          /\ moved' = [moved EXCEPT !.busySend = FALSE, !.clear = FALSE]
       \/ /\ ShowInfoClear(model.fw, app.stopSent) = "Wait"
          /\ ~moved.clear
          /\ UNCHANGED <<scan, slot, moved>>

\* Every other press of OK changes nothing.
OkPress ==
    /\ scene = "dash" /\ gpc = 0
    /\ OkStop \/ OkStartNow \/ OkStartAfterClear
    /\ UNCHANGED <<scene, gpc, gps, model, tx, rx, board>>

-----------------------------------------------------------------------------
(* The OK key on the GPS tab while no scan runs: one sample on demand.     *)

Sampling == gps.phase # "Rest"

GpsGate ==
    /\ model.session # "Running"
    /\ Ui \notin {"Starting", "Running", "Stopping"}
    /\ ~Sampling

\* dash_gps_start
GpsStart ==
    /\ board.gpsTab
    /\ scene = "dash" /\ gpc = 0
    /\ GpsGate
    /\ Offer("gpsdata")
    /\ gps' = IF Free THEN [GpsRest EXCEPT !.phase = "WaitBlock", !.atSend = model.blocks]
              ELSE GpsRest
    /\ UNCHANGED <<scene, gpc, scan, app, model, moved, tx, rx, board>>

-----------------------------------------------------------------------------
(* One tick of the Dash: the handlers in the order of the scene's on_event. *)
(* A handler that returns early takes no step: pos is its place in the      *)
(* order, Due(pos) that it has something to do, and gpc the place of the    *)
(* last one that ran, 0 between two ticks.                                  *)

SyncAct == PeerSync(model.diagSeen, model.diagSt, model.session, scan.pending)

IdentKnown == app.ident /\ model.fw # "none"
IdentRetry == app.ident /\ model.fw = "none" /\ app.identDue /\ app.identSends < 2

\* Mutant: only the refusal of a board that is stopping ends the wait.
RefusedWhileStopping == scan.pending /\ moved.busySend /\ model.busySt = 2

Refused == scan.pending /\ moved.busySend
ConfirmedNow == scan.pending /\ ~moved.busySend /\ Confirmed(scan, model.session)

PrestartRetry ==
    /\ app.prestart /\ ~moved.clear /\ ~app.prestartOut
    /\ ~app.stopSent /\ ~scan.pending
PrestartEnds == app.prestart /\ (moved.clear \/ app.prestartOut)

Due(pos) ==
    CASE pos = 1 -> app.sync /\ moved.sync /\ SyncAct # "Wait"
      [] pos = 2 -> IdentKnown \/ IdentRetry
      [] pos = 3 -> Sampling /\ (gps.heard \/ gps.out)
      [] pos = 4 -> Refused \/ ConfirmedNow
      [] pos = 5 -> app.postStop
      [] pos = 6 -> PrestartRetry \/ PrestartEnds
      [] pos = 7 -> ~app.probed /\ ShouldProbe(model.fw) /\ Free
      [] pos = 8 -> StatusCmd(model.fw) # NoCmd /\ Free

At(pos) ==
    /\ scene = "dash" /\ gpc < pos
    /\ Due(pos)
    /\ \A p \in (gpc + 1)..(pos - 1) : ~Due(p)

\* The tick goes on while a later handler has something to do.
Done(pos) == gpc' = IF \E p \in (pos + 1)..7 : Due(p)' THEN pos ELSE 0

\* A transition of the session moves session_rev ...
SessionTo(s) ==
    /\ model' = [model EXCEPT !.session = s]
    /\ scan' = [scan EXCEPT !.revRose = @ \/ (scan.pending /\ s # model.session)]

\* ... and a start after a stop forgets the blocks counted before it, which
\* looks to a sample as if one had come.
SessionStarts ==
    /\ model' = [model EXCEPT !.session = Started(@),
                              !.blocks = @ /\ model.session # "Stopped"]
    /\ scan' = [scan EXCEPT !.revRose =
                    @ \/ (scan.pending /\ Started(model.session) # model.session)]
    /\ gps' = [gps EXCEPT !.heard = IF model.session = "Stopped" /\ gps.phase = "WaitBlock"
                                    THEN gps.atSend ELSE @]

\* dash_peer_sync_tick
TickSync ==
    /\ At(1)
    /\ app' = [app EXCEPT !.sync = FALSE]
    /\ moved' = [moved EXCEPT !.sync = FALSE]
    /\ IF SyncAct = "Adopt" THEN SessionStarts ELSE UNCHANGED <<model, scan, gps>>
    /\ UNCHANGED <<scene, link, board>>
    /\ Done(1)

\* dash_ident_tick: at most one more info while Version is empty
TickIdent ==
    /\ At(2)
    /\ \/ /\ IdentKnown
          /\ app' = [app EXCEPT !.ident = FALSE]
          /\ UNCHANGED <<slot, moved>>
       \/ /\ IdentRetry
          /\ Offer("info")
          /\ app' = IF Free
                     THEN [app EXCEPT !.identSends = @ + 1, !.identDue = FALSE, !.sync = TRUE]
                     ELSE [app EXCEPT !.identSends = 2]
          /\ moved' = [moved EXCEPT !.sync = @ /\ app.sync]
    /\ UNCHANGED <<scene, scan, gps, model, tx, rx, board>>
    /\ Done(2)

\* dash_gps_tick: a block, or none for too long, closes the sample with a
\* stopscan; what the slot does not take is not sent.
GpsClose ==
    /\ gps.phase = "WaitBlock"
    /\ Offer("stopscan")
    /\ gps' = [GpsRest EXCEPT !.phase = IF Free THEN "WaitStop" ELSE "Rest"]

GpsEnds ==
    /\ gps.phase = "WaitStop"
    /\ gps' = GpsRest
    /\ UNCHANGED slot

TickGps ==
    /\ At(3)
    /\ GpsClose \/ GpsEnds
    /\ UNCHANGED <<scene, scan, app, model, moved, tx, rx, board>>
    /\ Done(3)

\* dash_scan_tick: a refusal, or the confirmation, ends the wait; a timeout
\* does not
ScanEnds ==
    scan' = [scan EXCEPT !.pending = FALSE, !.rejected = FALSE,
                         !.revRose = FALSE, !.timedOut = FALSE]

ScanRefused ==
    /\ Refused
    /\ ScanEnds
    /\ moved' = [moved EXCEPT !.busySend = FALSE]
    /\ UNCHANGED <<app, model, slot>>

ScanStarted ==
    /\ ConfirmedNow /\ scan.isStart
    /\ ScanEnds
    /\ app' = [app EXCEPT !.latched = FALSE, !.postStop = FALSE]
    /\ UNCHANGED <<model, moved, slot>>

\* A session stop latches, and asks for the board's state; the stopscan of a
\* prestart is not a session stop.
Latches == ShouldLatchStop(model.fw, model.diagSeen) /\ ~app.prestart

ScanStopped ==
    /\ ConfirmedNow /\ ~scan.isStart
    /\ ScanEnds
    /\ \/ /\ ~Latches
          /\ UNCHANGED <<app, moved, slot>>
       \/ /\ Latches
          /\ moved' = [moved EXCEPT !.busyStop = FALSE]
          /\ IF StatusCmd(model.fw) = NoCmd
             THEN UNCHANGED slot /\ app' = [app EXCEPT !.latched = TRUE, !.postStop = FALSE]
             ELSE /\ Offer(StatusCmd(model.fw))
                  /\ app' = [app EXCEPT !.latched = TRUE, !.postStop = ~Free]
    /\ UNCHANGED model

TickScan ==
    /\ At(4)
    /\ ScanRefused \/ ScanStarted \/ ScanStopped
    /\ UNCHANGED <<scene, gps, tx, rx, board>>
    /\ Done(4)

\* dash_post_stop_info_tick: the status command that finds out when the
\* board has sealed, until it is accepted
TickPostStop ==
    /\ At(5)
    /\ IF SealingNow /\ StatusCmd(model.fw) # NoCmd
       THEN Offer(StatusCmd(model.fw)) /\ app' = [app EXCEPT !.postStop = ~Free]
       ELSE UNCHANGED slot /\ app' = [app EXCEPT !.postStop = FALSE]
    /\ UNCHANGED <<scene, scan, gps, model, moved, tx, rx, board>>
    /\ Done(5)

\* dash_prestart_tick: on a stock peer, wardrive once the clearing stopscan
\* was answered, or its 2000 ms are over
TickPrestart ==
    /\ At(6)
    /\ \/ /\ PrestartRetry
          /\ QueueClearingStop
          /\ moved' = [moved EXCEPT !.busySend = FALSE]
          /\ UNCHANGED app
       \/ /\ PrestartEnds
          /\ Offer("wardrive")
          /\ scan' = QueuedCtx(scan.pending /\ scan.isStart, TRUE)
          /\ moved' = [moved EXCEPT !.busySend = FALSE]
          /\ app' = [app EXCEPT !.prestart = FALSE, !.prestartOut = FALSE]
    /\ UNCHANGED <<scene, gps, model, tx, rx, board>>
    /\ Done(6)

\* dash_sigroam_probe_tick: one sigroam per visit to a stock peer
TickProbe ==
    /\ At(7)
    /\ Offer("sigroam")
    /\ app' = [app EXCEPT !.probed = TRUE]
    /\ UNCHANGED <<scene, scan, gps, model, moved, tx, rx, board>>
    /\ Done(7)

\* dash_qual_refresh_tick: every 50th tick, never retried
TickQual ==
    /\ At(8)
    /\ Offer(StatusCmd(model.fw))
    /\ UNCHANGED <<scene, scan, app, gps, model, moved, tx, rx, board>>
    /\ Done(8)

-----------------------------------------------------------------------------
(* Entering and leaving the screens.                                       *)

\* sigroam_scene_dash_on_enter
EnterDash ==
    /\ scene = "menu" /\ gpc = 0
    /\ scene' = "dash"
    /\ moved' = [moved EXCEPT !.sync = FALSE]
    /\ LET fresh == [app EXCEPT !.prestart = FALSE, !.postStop = FALSE, !.ident = FALSE,
                                !.identSends = 0, !.sync = FALSE, !.probed = FALSE]
       IN  IF model.fw = "none"
           THEN /\ Offer("info")
                /\ app' = [fresh EXCEPT !.ident = TRUE, !.identDue = FALSE,
                                        !.identSends = IF Free THEN 1 ELSE 0, !.sync = Free]
           ELSE IF StatusCmd(model.fw) # NoCmd
           THEN Offer(StatusCmd(model.fw)) /\ app' = [fresh EXCEPT !.sync = Free]
           ELSE Offer("sigroam") /\ app' = [fresh EXCEPT !.probed = Free]
    /\ UNCHANGED <<gpc, scan, gps, model, tx, rx, board>>

\* Back pops the screen: dash_gps_abort closes a sample in flight, and
\* nothing of another command is touched.
GpsAbort ==
    /\ IF Sampling THEN Offer("stopscan") ELSE UNCHANGED slot
    /\ gps' = GpsRest

Leave ==
    /\ scene # "menu" /\ gpc = 0
    /\ scene' = "menu"
    /\ GpsAbort
    /\ UNCHANGED <<gpc, scan, app, model, moved, tx, rx, board>>

\* probe_queue_info
HsInfo(a) ==
    /\ Offer("info")
    /\ IF Free
       THEN /\ app' = [a EXCEPT !.hsSent = TRUE, !.hsBytes = FALSE, !.hsOut = FALSE,
                                !.hsSends = @ + 1]
            /\ moved' = [moved EXCEPT !.hs = FALSE]
       ELSE /\ app' = [a EXCEPT !.hsSends = IF a.hsSent THEN 2 ELSE 0]
            /\ UNCHANGED moved

\* sigroam_scene_probe_on_enter
EnterProbe ==
    /\ board.probe
    /\ scene = "menu" /\ gpc = 0
    /\ scene' = "probe"
    /\ HsInfo([app EXCEPT !.stopSent = FALSE, !.sigroamSent = FALSE, !.hsSent = FALSE,
                          !.hsSends = 0, !.hsBytes = FALSE, !.hsOut = FALSE])
    /\ UNCHANGED <<gpc, scan, gps, model, tx, rx, board>>

HsOk == app.hsSent /\ moved.hs /\ model.fw # "none"
HsNoReply == app.hsSent /\ ~HsOk /\ app.hsOut /\ ~app.hsBytes

\* The tick of the Probe screen: one retry of info, then one stopscan and
\* one sigroam for a stock peer, each once the slot takes it.
HsRetryDue == HsNoReply /\ app.hsSends < 2
HsStopDue == HsOk /\ ~app.stopSent /\ ShouldProbe(model.fw) /\ Free
HsSigroamDue ==
    HsOk /\ app.stopSent /\ ~app.sigroamSent /\ ShouldProbe(model.fw) /\ Free

HsRetry ==
    /\ scene = "probe" /\ HsRetryDue
    /\ HsInfo(app)
    /\ UNCHANGED <<scene, gpc, scan, gps, model, tx, rx, board>>

HsStop ==
    /\ scene = "probe" /\ HsStopDue
    /\ Offer("stopscan")
    /\ app' = [app EXCEPT !.stopSent = TRUE]
    /\ moved' = [moved EXCEPT !.clear = FALSE]
    /\ UNCHANGED <<scene, gpc, scan, gps, model, tx, rx, board>>

HsSigroam ==
    /\ scene = "probe" /\ HsSigroamDue
    /\ Offer("sigroam")
    /\ app' = [app EXCEPT !.sigroamSent = TRUE]
    /\ UNCHANGED <<scene, gpc, scan, gps, model, moved, tx, rx, board>>

\* Nothing is on its way between the app and the board ...
Answered == Free /\ tx = <<>> /\ rx = <<>> /\ ~board.silent

\* ... and the next tick would change nothing.
NoneDue ==
    /\ gpc = 0
    /\ scene = "dash" => \A p \in 1..7 : ~Due(p)
    /\ scene = "probe" => ~ (HsRetryDue \/ HsStopDue \/ HsSigroamDue)

Settled == Answered /\ NoneDue /\ ~Sampling

-----------------------------------------------------------------------------
(* Time.  The worker looks at the slot every 50 ms and the tick comes every *)
(* 100 ms, far within any of these windows: none of them ends while the     *)
(* slot is full or a handler of the tick has something to do.               *)

Elapse ==
    /\ Free /\ NoneDue
    /\ board.prompt => Answered
    /\ \/ /\ scan.pending /\ ~scan.timedOut
          /\ scan' = [scan EXCEPT !.timedOut = TRUE]
          /\ UNCHANGED <<app, gps, model>>
       \/ /\ app.prestart /\ ~app.prestartOut
          /\ app' = [app EXCEPT !.prestartOut = TRUE]
          /\ UNCHANGED <<scan, gps, model>>
       \/ /\ app.ident /\ ~app.identDue
          /\ app' = [app EXCEPT !.identDue = TRUE]
          /\ UNCHANGED <<scan, gps, model>>
       \/ /\ scene = "probe" /\ app.hsSent /\ ~app.hsOut
          /\ app' = [app EXCEPT !.hsOut = TRUE]
          /\ UNCHANGED <<scan, gps, model>>
       \/ /\ Sampling
          /\ gps' = [gps EXCEPT !.out = TRUE]
          /\ UNCHANGED <<scan, app, model>>
       \/ /\ model.sdDead
          /\ model' = [model EXCEPT !.sdDead = FALSE]
          /\ UNCHANGED <<scan, app, gps>>
    /\ UNCHANGED <<scene, gpc, moved, link, board>>

-----------------------------------------------------------------------------
(* The worker: it empties the slot, and applies the lines received.        *)

Take ==
    /\ ~Free /\ Len(tx) < MaxTx
    /\ tx' = Append(tx, slot)
    /\ slot' = NoCmd
    /\ UNCHANGED <<gui, model, moved, rx, board>>

\* apply_stopped: whatever reason ends a session that runs.
StoppedLine(l) ==
    \/ /\ l.kind = "stopped"
       /\ SessionTo(Stopped(model.session, model.fw))
       /\ moved' = [moved EXCEPT !.clear = TRUE]
       /\ UNCHANGED gps
    \/ /\ l.kind = "gpsStop"
       /\ SessionTo(IF model.session = "Running" THEN "Stopped" ELSE model.session)
       /\ gps' = [gps EXCEPT !.heard =
                     @ \/ (gps.phase = "WaitStop" /\ model.session # "Running")]
       /\ UNCHANGED moved

ApplyLine(l) ==
    CASE l.kind = "started" -> SessionStarts /\ UNCHANGED moved
      [] l.kind = "row" ->
           SessionTo(RowSeen(model.session, model.fw)) /\ UNCHANGED <<gps, moved>>
      [] l.kind \in {"stopped", "gpsStop"} -> StoppedLine(l)
      [] l.kind = "block" ->
           /\ model' = [model EXCEPT !.blocks = TRUE]
           /\ gps' = [gps EXCEPT !.heard = @ \/ gps.phase = "WaitBlock"]
           /\ UNCHANGED <<scan, moved>>
      [] l.kind = "firmware" ->
           /\ model' = [model EXCEPT !.fw = board.kind, !.diagSeen = FALSE, !.diagSt = 0]
           /\ moved' = [moved EXCEPT !.sync = app.sync, !.hs = app.hsSent]
           /\ UNCHANGED <<scan, gps>>
      [] l.kind = "diag" ->
           /\ model' = [model EXCEPT !.diagSeen = TRUE, !.diagSt = l.st, !.sdDead = ~board.card]
           /\ moved' = [moved EXCEPT !.sync = app.sync, !.hs = app.hsSent]
           /\ UNCHANGED <<scan, gps>>
      [] l.kind = "busy" ->
           /\ model' = [model EXCEPT !.busySt = l.st]
           /\ moved' = [moved EXCEPT !.busySend = scan.pending, !.busyStop = TRUE]
           /\ UNCHANGED <<scan, gps>>

Apply ==
    /\ gpc = 0 /\ rx # <<>>
    /\ ApplyLine(Head(rx))
    /\ rx' = Tail(rx)
    /\ app' = [app EXCEPT !.hsBytes = @ \/ app.hsSent]
    /\ UNCHANGED <<scene, gpc, slot, tx, board>>

-----------------------------------------------------------------------------
(* The board (outside this repository: what its lines and the comments on  *)
(* them say of it) and the serial line.                                    *)

Say(lines) == rx' = rx \o lines /\ Len(rx) + Len(lines) <= MaxRx

Plain(kind) == <<[kind |-> kind, st |-> 0]>>
Report(kind) == <<[kind |-> kind, st |-> board.st]>>

\* wardrive starts a scan on an idle board; the scan is announced later.  The
\* session gate of -sigroam- firmware looks at the session only, a stock board
\* follows no wardrive while it shows its info or streams.
Starts ==
    IF board.kind = "sigroam" THEN board.st \in {0, 4} /\ board.card
    ELSE board.st = 0 /\ ~board.showInfo /\ ~board.gps

ReadWardrive ==
    /\ Head(tx) = "wardrive"
    /\ IF Starts
       THEN /\ board' = [board EXCEPT !.st = 1, !.silent = TRUE, !.gps = FALSE]
            /\ Say(<<>>)
       ELSE /\ UNCHANGED board
            /\ Say(IF board.kind = "sigroam" THEN Report("busy") ELSE <<>>)

\* A stream is ended with an answer of its own.  Else a stock board always
\* answers; -sigroam-: only a scan is stopped, and a stop without one may be
\* refused, answered or ignored.
Ended(st) == [board EXCEPT !.st = st, !.showInfo = FALSE, !.gps = FALSE, !.silent = FALSE]

ReadStopscan ==
    /\ Head(tx) = "stopscan"
    /\ CASE board.gps -> board' = Ended(board.st) /\ Say(Plain("gpsStop"))
         [] ~board.gps /\ board.kind = "generic" -> board' = Ended(0) /\ Say(Plain("stopped"))
         [] ~board.gps /\ board.kind = "sigroam" /\ board.st = 1 ->
              board' = Ended(2) /\ Say(Plain("stopped"))
         [] OTHER ->
              /\ UNCHANGED board
              /\ Say(<<>>) \/ Say(Plain("stopped")) \/ Say(Report("busy"))

ReadInfo ==
    /\ Head(tx) = "info"
    /\ IF board.kind = "generic"
       THEN /\ board' = [board EXCEPT !.showInfo = TRUE, !.gps = FALSE]
            /\ Say(Plain("firmware"))
       ELSE UNCHANGED board /\ Say(Plain("firmware") \o Report("diag"))

\* gpsdata replaces whatever a stock board was doing, without a word;
\* -sigroam-: an idle board may stream, or not know the command.
ReadGpsdata ==
    /\ Head(tx) = "gpsdata"
    /\ \/ /\ board.kind = "generic"
          /\ board' = [board EXCEPT !.st = 0, !.showInfo = FALSE, !.silent = FALSE, !.gps = TRUE]
       \/ /\ board.kind = "sigroam" /\ board.st \in {0, 4}
          /\ board' = [board EXCEPT !.gps = TRUE]
       \/ board.kind = "sigroam" /\ UNCHANGED board
    /\ Say(<<>>)

ReadSigroam ==
    /\ Head(tx) = "sigroam"
    /\ UNCHANGED board
    /\ Say(<<>>)

BoardRead ==
    /\ tx # <<>>
    /\ ReadWardrive \/ ReadStopscan \/ ReadInfo \/ ReadSigroam \/ ReadGpsdata
    /\ tx' = Tail(tx)
    /\ UNCHANGED <<gui, model, moved, slot>>

Announce ==
    /\ board.silent
    /\ board' = [board EXCEPT !.silent = FALSE]
    /\ Say(Plain("started"))
    /\ UNCHANGED <<gui, model, moved, slot, tx>>

\* A CSV row of a scan that runs.
Row ==
    /\ board.kind = "generic" /\ board.st = 1 /\ rx = <<>>
    /\ Say(Plain("row"))
    /\ UNCHANGED <<gui, model, moved, slot, tx, board>>

\* A block of a stream.
Block ==
    /\ board.gps /\ rx = <<>>
    /\ Say(Plain("block"))
    /\ UNCHANGED <<gui, model, moved, slot, tx, board>>

\* After a stop the board drains and seals its session by itself.
Seal ==
    /\ board.st = 2
    /\ board' = [board EXCEPT !.st = 0]
    /\ UNCHANGED <<gui, model, moved, link>>

\* The line loses a command, or a line of the board.
Lose ==
    /\ board.lossy
    /\ \/ tx # <<>> /\ tx' = Tail(tx) /\ UNCHANGED rx
       \/ rx # <<>> /\ rx' = Tail(rx) /\ UNCHANGED tx
    /\ UNCHANGED <<gui, model, moved, slot, board>>

-----------------------------------------------------------------------------
User ==
    /\ board.patient => Settled
    /\ OkPress \/ GpsStart \/ EnterDash \/ EnterProbe \/ Leave

GuiTick ==
    \/ TickSync \/ TickIdent \/ TickGps \/ TickScan \/ TickPostStop \/ TickPrestart
    \/ TickProbe \/ TickQual
    \/ HsRetry \/ HsStop \/ HsSigroam

Worker == Take \/ Apply

BoardStep == BoardRead \/ Announce \/ Row \/ Block \/ Seal

Next == User \/ GuiTick \/ Elapse \/ Worker \/ BoardStep \/ Lose

Spec == Init /\ [][Next]_vars

\* The threads, the link and the board keep going; nothing is assumed of the
\* user, of the timers or of the losses.  A scan is announced whatever else
\* the board answers: only the bound MaxRx ever holds the line back.  The tick
\* that asks for the state every 5 s finds the slot free some time, as a
\* command stays in it for 50 ms.
Fairness ==
    /\ WF_vars(GuiTick) /\ SF_vars(TickQual) /\ WF_vars(Take) /\ WF_vars(Apply)
    /\ WF_vars(BoardRead) /\ SF_vars(Announce) /\ WF_vars(Seal)

FairSpec == Spec /\ Fairness

-----------------------------------------------------------------------------
(* Properties.                                                             *)

\* When nothing is on its way and nothing is left to ask, the screen tells
\* the truth: the session is Running exactly when the board scans
\* (dash_peer_sync_tick, dash_scan_tick and the model together).
SettledAgree ==
    Settled /\ ~board.lossy /\ scene = "dash" /\ ~app.sync /\ ~app.ident =>
        (model.session = "Running" <=> board.st = 1)

\* A start the Dash takes as confirmed is a board that scans, and a stop it
\* takes as confirmed one that does not: no stale line confirms a command
\* (dash_scan_tick).
ConfirmedStartRuns ==
    [][TickScan /\ ScanStarted /\ board.patient => board.st = 1]_vars
ConfirmedStopStopped ==
    [][TickScan /\ ScanStopped /\ board.patient => board.st # 1]_vars

\* No wardrive reaches a stock board in SHOW_INFO, which would swallow it
\* (dash_scan_toggle and dash_prestart_tick with the stopscan before it).  A
\* user who leaves the Probe screen between its info and its stopscan, or a
\* sample before its end, is one who must be patient.
NotSwallowed ==
    [][BoardRead /\ Head(tx) = "wardrive" /\ ~board.lossy
        /\ (board.patient \/ ~ (board.probe \/ board.gpsTab)) => ~board.showInfo]_vars

\* The app never stops a scan it does not know of: a stopscan is queued for
\* -sigroam- firmware only while the session is Running, a command is awaited,
\* or a sample of the GPS is being closed (sr_peer_sync.h:16-19), and for a
\* user who waits that sample was not started in front of a board that scans
\* (sr_dialect.h:79-85: "never send this pair there (it would stop a live
\* scan)").
NoBlindStop ==
    [][board.kind = "sigroam" /\ slot' = "stopscan" /\ slot # "stopscan" =>
         \/ model.session = "Running" \/ scan.pending
         \/ Sampling /\ (board.patient /\ ~board.lossy => board.st # 1)]_vars

\* An accepted start does not stay pending: the board confirms or refuses
\* it, unless the user turns it into a stop or leaves.
StartResolved ==
    (scan.pending /\ scan.isStart /\ scene = "dash") ~>
        (~ (scan.pending /\ scan.isStart) \/ scene # "dash")

\* The "Saving..." of a confirmed stop ends: the status command is sent
\* until the board reports that it sealed its session (dash_scan_tick,
\* dash_post_stop_info_tick, dash_qual_refresh_tick), or a scan runs, in front
\* of which it is not shown (views/sr_view_dash.c:1010).
SavingEnds ==
    (app.latched /\ SealingNow /\ scene = "dash") ~>
        (~SealingNow \/ model.session = "Running" \/ scene # "dash")

\* "Command not sent", "press OK again" (views/sr_view_dash.c:967-974): with
\* the slot empty and nothing else in its way, OK sends something.
PressAgainSends ==
    scene = "dash" /\ gpc = 0 /\ Free /\ Ui = "Busy" /\ ~model.sdDead
    /\ ~SealingNow /\ ~IdentHold /\ ~Uploading(model.diagSeen, model.diagSt)
        => OkAct # "None"

\* "Fresh Diag or a Busy: received after this stop" (sr_scan_ctl.h:141): what
\* the board said before the stop does not end the latch, so while the board
\* still stops OK starts nothing.
LatchHolds ==
    app.latched /\ board.st = 2 /\ scene = "dash" => OkAct # "SendStart"

\* "it removes the one [Busy] that lasts as long as the session does"
\* (sr_peer_sync.h:81-82): once the reply to the info of on_enter has been
\* dealt with, a board that scans is a session that runs.
Adopted ==
    Settled /\ scene = "dash" /\ ~app.sync /\ ~app.ident /\ board.st = 1 =>
        model.session = "Running"
=============================================================================
