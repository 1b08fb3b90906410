------------------------------ MODULE Recovery ------------------------------
(***************************************************************************)
(* Scans that the board loses.  The board is powered through the Flipper:  *)
(* plugging and unplugging USB may reset it, and a reset board is idle     *)
(* while the session is still Running.  The first two things a tick does   *)
(* (sigroam.c), on every screen, are                                       *)
(*   - sr_resync.h, for every peer but -sigroam-: after USB was unplugged, *)
(*     wait until the board spoke and went quiet, then stopscan, wardrive; *)
(*   - sr_peer_watch.h, for -sigroam-: two answers to info that show no    *)
(*     scan restart it, and wardrive is repeated until accepted.           *)
(* They share the slot and the pending command with the Dash screen.       *)
(* What a booting board is told is lost; else the line loses nothing here. *)
(***************************************************************************)
EXTENDS DashScan

CONSTANTS
    MaxTries,    \* stopscans of one resync (SR_RESYNC_MAX_TRIES)
    MaxOutages   \* bound: times USB is plugged or unplugged

ASSUME RecoveryAssumption ==
    /\ MaxTries \in Nat \ {0}
    /\ MaxOutages \in Nat

VARIABLES
    power,       \* USB power, what the worker saw of it, the board's boot
    ran,         \* the recovery of this tick has run
    resync,      \* s_resync
    watch        \* s_peer_watch

rvars == <<vars, power, ran, resync, watch>>

Power == [vbus : BOOLEAN, sampled : BOOLEAN,
          board : {"up", "booting", "starting"}, outages : 0..MaxOutages]

ResyncPhase == {"idle", "waitPeer", "needStop", "awaitStop", "needStart",
                "awaitStart", "lost"}

\* rev_at_step2 is left out: whenever it decides, rev_at_trig has decided.
Resync == [phase : ResyncPhase,
           tries : 0..MaxTries,
           vbusWas : BOOLEAN,
           moved : BOOLEAN,       \* session_rev, since rev_at_trig
           grew : BOOLEAN,        \* rx_bytes, since rx_last
           heard : BOOLEAN,       \* rx_last, since rx_at_trig
           timer : BOOLEAN,       \* the window of the phase is over
           giveUp : BOOLEAN]      \* SR_RESYNC_GIVEUP_MS are over

Watch == [phase : {"idle", "recovering", "lost"},
          moved : BOOLEAN,        \* not primed, or session_rev moved
          grace : BOOLEAN,        \* SR_PEER_WATCH_GRACE_MS are over
          fresh : BOOLEAN,        \* sess_rev, since seen_sess_rev
          zero : BOOLEAN,         \* that Sess: says ms=0
          bad : 0..1,
          sent : BOOLEAN,
          gap : BOOLEAN,          \* SR_PEER_WATCH_RETRY_GAP_MS are over
          giveUp : BOOLEAN]       \* SR_PEER_WATCH_GIVEUP_MS are over

RecoveryTypeOK ==
    /\ TypeOK
    /\ power \in Power
    /\ ran \in BOOLEAN
    /\ resync \in Resync
    /\ watch \in Watch

\* sr_resync_go_idle and sr_peer_watch_rearm
ResyncAt(phase) ==
    [phase |-> phase, tries |-> 0, vbusWas |-> power.sampled, moved |-> FALSE,
     grew |-> FALSE, heard |-> FALSE, timer |-> FALSE, giveUp |-> FALSE]

Rearmed ==
    [phase |-> "idle", moved |-> FALSE, grace |-> FALSE, fresh |-> FALSE,
     zero |-> FALSE, bad |-> 0, sent |-> FALSE, gap |-> FALSE, giveUp |-> FALSE]

\* On battery at launch is the same from the first time USB is plugged.
RecoveryInit ==
    /\ Init
    /\ power = [vbus |-> TRUE, sampled |-> FALSE, board |-> "up", outages |-> 0]
    /\ ran = FALSE
    /\ resync = ResyncAt("idle")
    /\ watch = [Rearmed EXCEPT !.moved = TRUE]

\* sigroam_resync_queue
Queue(isStart) ==
    /\ QueueCmd(isStart)
    /\ moved' = [moved EXCEPT !.busySend = FALSE]

-----------------------------------------------------------------------------
(* sigroam_resync_tick.                                                    *)

Active(phase) == phase \notin {"idle", "lost"}

Falling == resync.vbusWas /\ ~power.sampled

\* sr_resync_recovered
Recovered == model.session = "Running" /\ resync.moved

\* The user stopped the scan before the first stopscan.
Cancelled ==
    /\ resync.phase = "waitPeer" \/ (resync.phase = "needStop" /\ resync.tries = 0)
    /\ model.session # "Running"

\* Mutant: one stopscan more than the limit.
OutOfTriesLate == resync.tries > MaxTries

OutOfTries == resync.tries >= MaxTries

StopSeen == resync.moved /\ model.session = "Stopped"

\* From a phase that is neither idle nor lost, and not given up.
ActivePhase ==
    CASE Cancelled -> "idle"
      [] resync.phase \in {"needStart", "awaitStart"} /\ Recovered -> "idle"
      [] resync.phase = "waitPeer" /\ ~resync.grew /\ resync.heard /\ resync.timer ->
           "needStop"
      [] resync.phase = "awaitStop" /\ StopSeen -> "needStart"
      [] resync.phase = "awaitStop" /\ ~StopSeen /\ resync.timer ->
           IF OutOfTries THEN "lost" ELSE "needStop"
      [] OTHER -> resync.phase

\* Mutant: the resync does not look at the dialect of the peer.
LegacyAny == TRUE

\* sr_peer_watch_legacy_resync_allowed, of the last Version read
Legacy == model.fw # "sigroam"

\* The phase sr_resync_eval arrives at, before it sends.
NextPhase ==
    CASE ~Legacy -> "idle"
      [] Legacy /\ resync.phase = "idle" ->
           IF Falling /\ model.session = "Running" THEN "waitPeer" ELSE "idle"
      [] Legacy /\ resync.phase = "lost" -> IF Recovered THEN "idle" ELSE "lost"
      [] Legacy /\ Active(resync.phase) /\ resync.giveUp -> "lost"
      [] Legacy /\ Active(resync.phase) /\ ~resync.giveUp -> ActivePhase

\* A window that is over stays so within its phase; growth starts the quiet
\* second of waitPeer anew.  Power is not looked at for a -sigroam- peer.
Arrived ==
    IF ~Legacy
    THEN [ResyncAt("idle") EXCEPT !.vbusWas = resync.vbusWas]
    ELSE IF NextPhase = resync.phase
    THEN [resync EXCEPT !.vbusWas = power.sampled, !.grew = FALSE,
                        !.heard = @ \/ resync.grew, !.timer = @ /\ ~resync.grew]
    ELSE [ResyncAt(NextPhase) EXCEPT
             !.tries = IF Active(NextPhase) THEN resync.tries ELSE 0,
             !.moved = NextPhase # "idle" /\ resync.moved]

SendsStop ==
    /\ NextPhase = "needStop"
    /\ resync.tries = 0 \/ (resync.phase = "needStop" /\ resync.timer)

SendsStart == NextPhase = "needStart"

ResyncDue == SendsStop \/ SendsStart \/ Arrived # resync

ResyncStop ==
    /\ SendsStop
    /\ Queue(FALSE)
    /\ resync' = IF Free
                 THEN [Arrived EXCEPT !.phase = "awaitStop", !.tries = @ + 1,
                                      !.timer = FALSE]
                 ELSE Arrived

ResyncStart ==
    /\ SendsStart
    /\ Queue(TRUE)
    /\ resync' = IF Free THEN [Arrived EXCEPT !.phase = "awaitStart"] ELSE Arrived

ResyncWaits ==
    /\ ~SendsStop /\ ~SendsStart
    /\ resync' = Arrived
    /\ UNCHANGED <<scan, moved, slot>>

ResyncTick ==
    /\ ResyncDue
    /\ ResyncStop \/ ResyncStart \/ ResyncWaits
    /\ UNCHANGED <<model, watch>>

-----------------------------------------------------------------------------
(* sigroam_peer_watch_tick, for a -sigroam- peer.                          *)

Renewed == watch.moved /\ (watch.phase = "idle" \/ model.session = "Running")

Recovering == watch.phase = "recovering" /\ ~Renewed

Watching == watch.phase = "idle" /\ ~watch.moved

\* Mutant: no grace for a scan that has just begun.
DoubtsAtOnce == model.session = "Running" /\ ~scan.pending

Doubts == model.session = "Running" /\ ~scan.pending /\ watch.grace

NotScanning == watch.zero \/ (model.diagSeen /\ model.diagSt # 1)

\* Mutant: wardrive is repeated without looking at the session first.
ResendDueBlind ==
    watch.phase = "recovering" /\ ~watch.giveUp /\ (~watch.sent \/ watch.gap)

ResendDue == Recovering /\ ~watch.giveUp /\ (~watch.sent \/ watch.gap)

RestartDue == Watching /\ Doubts /\ watch.fresh /\ NotScanning /\ watch.bad = 1

\* Mutant: no giving up once a wardrive was sent.
GivesUpUnsent == Recovering /\ watch.giveUp /\ ~watch.sent

GivesUp == Recovering /\ watch.giveUp

WatchDue ==
    /\ model.fw = "sigroam"
    /\ \/ Renewed
       \/ GivesUp
       \/ ResendDue
       \/ Watching /\ (watch.fresh \/ (watch.bad # 0 /\ ~Doubts))

Rearm ==
    /\ Renewed
    /\ watch' = Rearmed
    /\ UNCHANGED <<scan, model, moved, slot>>

GiveUp ==
    /\ GivesUp
    /\ watch' = [Rearmed EXCEPT !.phase = "lost", !.moved = watch.moved]
    /\ UNCHANGED <<scan, model, moved, slot>>

\* sr_peer_watch_note_sent, if the slot took the command.
NoteSent(w) == IF Free THEN [w EXCEPT !.sent = TRUE, !.gap = FALSE, !.moved = FALSE] ELSE w

Resend ==
    /\ ResendDue
    /\ Queue(TRUE)
    /\ watch' = NoteSent(watch)
    /\ UNCHANGED model

\* The model is told that the scan stopped: only from Stopped is the
\* StartingWardrive that comes a start.
Restart ==
    /\ RestartDue
    /\ QueueCmd(TRUE)
    /\ model' = [model EXCEPT !.session = Stopped(model.session, model.fw)]
    /\ moved' = [moved EXCEPT !.busySend = FALSE, !.clear = TRUE]
    /\ watch' = NoteSent([Rearmed EXCEPT !.phase = "recovering", !.moved = TRUE])

\* Mutant: every reply clears the count.
BadNever == 0

BadNow == IF Doubts /\ NotScanning THEN 1 ELSE 0

\* A reply is counted, or set aside.
Count ==
    /\ Watching /\ (watch.fresh \/ (watch.bad # 0 /\ ~Doubts))
    /\ ~RestartDue
    /\ watch' = [watch EXCEPT !.fresh = FALSE, !.zero = FALSE,
                              !.bad = BadNow]
    /\ UNCHANGED <<scan, model, moved, slot>>

WatchTick ==
    /\ WatchDue
    /\ Rearm \/ GiveUp \/ Resend \/ Restart \/ Count
    /\ UNCHANGED resync

RecoveryDue == ResyncDue \/ WatchDue

RecoveryTick ==
    /\ gpc = 0
    /\ ResyncTick \/ WatchTick
    /\ ran' = TRUE
    /\ UNCHANGED <<scene, gpc, app, gps, tx, rx, board, power>>

-----------------------------------------------------------------------------
(* What the steps of DashScan change for the two.  A flag that its owner   *)
(* would overwrite before reading it is kept FALSE.                        *)

SessionMoved == model'.session # model.session

Noted(bytes, sess, zero) ==
    /\ resync' = [resync EXCEPT !.moved = resync.phase # "idle" /\ (@ \/ SessionMoved),
                                !.grew = resync.phase = "waitPeer" /\ (@ \/ bytes)]
    /\ watch' = LET m == watch.moved \/ SessionMoved
                    listens == watch.phase = "idle" /\ ~m
                IN  [watch EXCEPT !.moved = m,
                                  !.fresh = listens /\ (@ \/ sess),
                                  !.zero = listens /\ (IF sess THEN zero ELSE @)]

\* Sess: comes with Diag:; its ms is 0 when the board has no session.
Heard ==
    LET sess == Head(rx).kind = "diag"
    IN  \E zero \in BOOLEAN :
           /\ zero => sess
           /\ sess /\ Head(rx).st = 0 => zero
           /\ sess /\ Head(rx).st \in 1..3 => ~zero
           /\ Noted(TRUE, sess, zero)

Quiet == Noted(FALSE, FALSE, FALSE)

\* The tick goes on in the handlers of the Dash after the recovery.  A prompt
\* board answers within the 5 s between two requests of dash_qual_refresh_tick.
TickAfter ==
    /\ GuiTick
    /\ TickQual /\ board.prompt => tx = <<>> /\ rx = <<>>
    /\ gpc = 0 => ran \/ ~RecoveryDue
    /\ Quiet
    /\ ran' = (ran /\ gpc' # 0)
    /\ UNCHANGED power

UserStep ==
    /\ User
    /\ Quiet
    /\ ran' = FALSE
    /\ UNCHANGED power

Calm == ~RecoveryDue /\ Free /\ NoneDue /\ (board.prompt => Answered)

DashElapse ==
    /\ Elapse /\ ~RecoveryDue
    /\ Quiet
    /\ ran' = FALSE
    /\ UNCHANGED power

ResyncElapse ==
    /\ Calm
    /\ ~resync.timer
    /\ \/ resync.phase = "waitPeer" /\ resync.heard
       \/ resync.phase = "needStop" /\ resync.tries > 0
       \/ resync.phase = "awaitStop"
    /\ resync' = [resync EXCEPT !.timer = TRUE]
    /\ ran' = FALSE
    /\ UNCHANGED <<vars, power, watch>>

\* The two long windows are not an answer's: they end whatever is on its way.
ResyncGiveUp ==
    /\ Active(resync.phase) /\ ~resync.giveUp
    /\ resync' = [resync EXCEPT !.giveUp = TRUE]
    /\ UNCHANGED <<vars, power, ran, watch>>

GraceElapse ==
    /\ Calm /\ (board.prompt => power.board # "starting")
    /\ watch.phase = "idle" /\ ~watch.grace /\ model.session = "Running"
    /\ watch' = [watch EXCEPT !.grace = TRUE]
    /\ ran' = FALSE
    /\ UNCHANGED <<vars, power, resync>>

GapElapse ==
    /\ Calm
    /\ watch.phase = "recovering" /\ watch.sent /\ ~watch.gap
    /\ watch' = [watch EXCEPT !.gap = TRUE]
    /\ ran' = FALSE
    /\ UNCHANGED <<vars, power, resync>>

WatchGiveUp ==
    /\ watch.phase = "recovering" /\ ~watch.giveUp
    /\ watch' = [watch EXCEPT !.giveUp = TRUE]
    /\ UNCHANGED <<vars, power, ran, resync>>

WorkerTakes == Take /\ Quiet /\ UNCHANGED <<power, ran>>

WorkerApplies == Apply /\ Heard /\ ran' = FALSE /\ UNCHANGED power

\* sr_worker_sample_vbus, once a second
WorkerSamples ==
    /\ power.sampled # power.vbus
    /\ power' = [power EXCEPT !.sampled = power.vbus]
    /\ UNCHANGED <<vars, ran, resync, watch>>

-----------------------------------------------------------------------------
(* The board and its power (outside the repository; sr_resync.h:20-40 and  *)
(* sr_peer_watch.h:14-21 report what was measured).                        *)

\* USB is plugged or unplugged; the board goes on, or loses power and boots.
Outage ==
    /\ power.outages < MaxOutages
    /\ \E reset \in BOOLEAN :
          /\ power' = [vbus |-> ~power.vbus, sampled |-> power.sampled,
                       board |-> IF reset THEN "booting" ELSE power.board,
                       outages |-> power.outages + 1]
          /\ board' = IF reset
                      THEN [board EXCEPT !.st = 0, !.showInfo = FALSE, !.gps = FALSE,
                                         !.silent = FALSE]
                      ELSE board
    /\ UNCHANGED <<gui, model, moved, link, ran, resync, watch>>

\* While it boots the board prints, and what it is told is lost.
Banner ==
    /\ power.board = "booting"
    /\ UNCHANGED <<vars, power, ran>>
    /\ Noted(TRUE, FALSE, FALSE)

LostInBoot ==
    /\ power.board = "booting" /\ tx # <<>>
    /\ tx' = Tail(tx)
    /\ UNCHANGED <<gui, model, moved, slot, rx, board, power, ran>>
    /\ Quiet

\* A boot takes seconds, many ticks.
Booted ==
    /\ power.board = "booting" /\ power.sampled = power.vbus /\ ~RecoveryDue /\ NoneDue
    /\ power' = [power EXCEPT !.board = "up"]
    /\ UNCHANGED <<vars, ran>>
    /\ Noted(TRUE, FALSE, FALSE)

\* A -sigroam- board that accepted wardrive says IDLE until it scans.
Accepts == board.kind = "sigroam" /\ Head(tx) = "wardrive" /\ Starts

BoardReads ==
    /\ power.board # "booting"
    /\ BoardRead /\ Quiet
    /\ power.board = "starting" => Head(tx) # "info"
    /\ power' = [power EXCEPT !.board = IF Accepts THEN "starting"
                                        ELSE IF board'.st = 1 THEN @ ELSE "up"]
    /\ UNCHANGED ran

SaysIdle ==
    /\ power.board = "starting" /\ tx # <<>> /\ Head(tx) = "info"
    /\ tx' = Tail(tx)
    /\ Say(Plain("firmware") \o Plain("diag"))
    /\ UNCHANGED <<gui, model, moved, slot, board, power, ran>>
    /\ Quiet

Scans ==
    /\ power.board = "starting" /\ ~board.silent
    /\ power' = [power EXCEPT !.board = "up"]
    /\ UNCHANGED <<vars, ran, resync, watch>>

BoardActs == (Announce \/ Row \/ Block \/ Seal) /\ Quiet /\ UNCHANGED <<power, ran>>

BoardGoesOn == BoardActs /\ (Announce \/ Seal)

-----------------------------------------------------------------------------
RecoveryNext ==
    \/ UserStep \/ RecoveryTick \/ TickAfter
    \/ DashElapse \/ ResyncElapse \/ ResyncGiveUp
    \/ GraceElapse \/ GapElapse \/ WatchGiveUp
    \/ WorkerTakes \/ WorkerApplies \/ WorkerSamples
    \/ Outage \/ Banner \/ LostInBoot \/ Booted \/ BoardReads \/ SaysIdle \/ Scans
    \/ BoardActs

RecoverySpec == RecoveryInit /\ [][RecoveryNext]_rvars

\* As in DashScan; and every window of the two recoveries ends.
RecoveryFairness ==
    /\ WF_rvars(RecoveryTick) /\ WF_rvars(TickAfter)
    /\ WF_rvars(WorkerTakes) /\ WF_rvars(WorkerApplies) /\ WF_rvars(WorkerSamples)
    /\ WF_rvars(BoardReads) /\ WF_rvars(SaysIdle) /\ WF_rvars(Scans)
    /\ WF_rvars(BoardGoesOn)
    /\ WF_rvars(LostInBoot) /\ SF_rvars(Booted)
    /\ SF_rvars(ResyncElapse) /\ WF_rvars(ResyncGiveUp)
    /\ SF_rvars(GraceElapse) /\ SF_rvars(GapElapse) /\ WF_rvars(WatchGiveUp)

FairRecoverySpec == RecoverySpec /\ RecoveryFairness

-----------------------------------------------------------------------------
(* Properties.                                                             *)

\* The hint "Resyncing..." or "Scan lost, press OK" does not outlive the
\* recovery: a session that runs is a new one to the watch, which the next
\* tick sees, however it came to run (sr_peer_watch.h:145-149).
RenewalSeen == watch.phase # "idle" /\ model.session = "Running" => watch.moved

\* A board that scans is told nothing: the watch restarts only a scan that
\* is not there (tools/host_test/test_peer_watch.c, test_path_a_no_reboot).
RestartSound == [][RecoveryTick /\ Restart => board.st # 1]_rvars

\* "On SigRoam the edge-driven legacy resync is off" (sr_peer_watch.h:24-25):
\* its stopscan, which would end a scan the outage did not touch, is only for
\* other peers, although the dialect is that of the last Version read.
LegacyOff == [][RecoveryTick /\ ResyncStop => board.kind # "sigroam"]_rvars

\* "keep Dash says Running true" (sr_peer_watch.h:14): a session without a
\* scan is noticed, or the scan comes back, or the user acts.
RunningIsTrue ==
    (scene = "dash" /\ model.fw = "sigroam" /\ model.session = "Running" /\ board.st # 1)
        ~> (scene # "dash" \/ model.session # "Running" \/ board.st = 1 \/ scan.pending)

\* Neither recovery goes on for ever.
RecoveryEnds ==
    (Active(resync.phase) \/ watch.phase = "recovering")
        ~> (~Active(resync.phase) /\ watch.phase # "recovering")
=============================================================================
