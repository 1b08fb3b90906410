# SigRoam: TLA+ models, model checking and proofs

SigRoam is a Flipper Zero application that drives a Wi-Fi wardriving board (an
ESP32 with stock Marauder firmware, a stock one with the Scout Lite status
command, or the `-sigroam-` build) over a serial line. This directory holds TLA+
models of the application, the TLC runs that check them and the theorems TLAPS
proves about them. Paths below are those of the repository.

## 1. The system

Three threads of control share the application's state:

* the **GUI thread**: key events, custom events and a 100 ms tick, dispatched
  to the current scene. `sigroam.c` takes `app->mtx` with zero wait around
  each, and drops the event when it does not get it;
* the **worker thread** (`src/sr_worker.c`): sends the command in the one-place
  slot, reads bytes for at most 50 ms, assembles lines, parses them and applies
  each event to the model under `app->mtx`;
* the **serial interrupt** (`src/sr_io.c`): puts received bytes in a stream
  buffer.

At the other end of the line is the **board**, which keeps scanning when the
application exits, answers late, may reboot, and is not in this repository.

### Inventory

| part | state | operations | what is hard | what makes it correct |
|---|---|---|---|---|
| worker and slot, `sr_worker.c` | `cmd_buf`, `cmd_len`, `cmd_ready`, `exit` | `send_cmd`, thread loop, stop and join | no lock; slot released before the write; shutdown in mid-command | every accepted command is written whole, once, in order; no secret left behind; the thread ends |
| serial port, `sr_io.c`, `sr_rx_policy.h` | port handle, power request, expansion, buffer, `closing` | open with rollbacks, close, interrupt, read, write | interrupt against close; each step of open can fail | what was taken is given back, nothing used after it is freed |
| session model, `sr_model.c` | session, revisions, firmware, Diag, Busy, statistics | one transition per event | late, repeated or unexpected lines | the session never claims a scan the lines do not support |
| scan control, `sr_scan_ctl.h` | pending command with its snapshots | evaluation, OK mapping, gates | revisions compared with snapshots taken earlier | a confirmation is true; OK always has a meaning |
| peer sync, `sr_peer_sync.h` | one-shot flag, snapshot | adopt or wait | the two halves of one answer; a command in between | a board that already scans is adopted |
| dialect, `sr_dialect.h` | capability latch | status command, SHOW_INFO clear | three kinds of peer; unknown until it answers | nothing harmful is sent to the wrong peer |
| Dash scene, `scene_dash.c` | flags of the handlers | OK, enter, leave, a dozen tick handlers | all share one slot and one pending command | starts and stops end, the screen agrees with the board |
| Probe scene, `scene_probe.c`, `sr_handshake.h` | handshake, stop and probe flags | enter, tick | interleaves with a Dash command in flight | one retry, one stopscan |
| resync and peer watch, `sr_resync.h`, `sr_peer_watch.h` | phase, tries, timers | evaluation on every tick | recovery against the user and a rebooting board | a lost scan is restarted or given up |
| start recovery, `sr_start_recover.c` | phase, mark, retried | tick, OK | five second silences, a board that resets | one retry, then the fail page |
| GPS sample, POI, seed | small request machines | send, tick, abort | stop replies shared with the scan | requests end; the scan is not disturbed |
| uploads, logs, tools, join | request machines fed by raw lines | begin, line, tick | listings end by a barrier line; answers of another request | one answer belongs to one request |
| settings and stores | file, temporary file | load, save | a crash in mid-save | old or new contents, never a part |
| UART capture, raw log | bounded buffers | note, pull, flush | writer and flusher in turn, buffer full | no line is lost silently, order kept |
| line assembly, parser | partial line, probe state | feed, consume | truncation, answers of several lines | a truncated line is never parsed |
| alerts, new networks, views | edge detectors, layout | tick, draw | none to speak of | - |

`PROJECT.json` lists the hazards at their lines, with the properties that
cover each.

## 2. Modules

| module | models | role |
|---|---|---|
| `Mailbox` | what the GUI may assume of the command path | abstract specification |
| `CmdSlot` | `sr_worker.c`, the slot and both threads, at the grain of single stores | implements `Mailbox` |
| `MCCmdSlot` | - | TLC instance of `CmdSlot` |
| `CmdSlot_proofs` | - | theorems about `CmdSlot` |
| `ScanCtl` | the pure decisions: `sr_scan_ctl.h`, `sr_peer_sync.h`, `sr_dialect.h`, session transitions of `sr_model.c` | operators used by `DashScan`, `LiteDash`, `Intake` |
| `DashScan` | Dash and Probe scenes with the GPS sample, slot, line, model, board | composition |
| `DashScan_proofs` | - | theorems about `DashScan` |
| `DashAgree_proofs` | - | the agreement of a settled Dash with its board, the truth of confirmations, no blind `stopscan` |
| `MCDash` | - | the sets of plays of the Dash runs |
| `Recovery` | `sr_resync.h`, `sr_peer_watch.h` and their ticks in `sigroam.c`, USB power | extends `DashScan` |
| `Recovery_proofs`, `MCRecovery` | - | theorems about `Recovery`, its plays |
| `SerialLink` | `sr_io.c`, `sr_rx_policy.h`, the order of launch and exit in `sigroam.c` | on its own |
| `SerialLink_proofs` | - | theorems about `SerialLink` |
| `LiteDash`, `MCLiteDash` | the Dash with a Lite board: `sr_start_recover.c`, `sr_gps_sample.h`, `sr_poi.h`, `sr_sess_seed.h` | composition of its own, with the decisions of `ScanCtl` |
| `LiteDash_proofs` | - | theorems about `LiteDash` |
| `PanelLink` | slot, line, session and peer of the three panels | base of the next five |
| `MauLogs` | `sr_mau_logs.c`: the listing of the card | operators |
| `Upload` | `sr_marauder_upload.c`, `scene_upload.c` | component |
| `Join` | `sr_marauder_join.c`, `scene_join.c` | component, on `Upload` |
| `Tools` | `sr_board_tools.c`, `scene_tools.c` | component, on `Join` |
| `Panels`, `MCPanels` | the three screens together, the worker, the board | composition |
| `Panels_proofs` | - | theorems about `Panels` |
| `Capture` | `sr_uart_cap.c` and the write of its file | component |
| `Intake`, `MCIntake` | `sr_line.c`, `sr_parse_marauder.c`, the latch of `sr_dialect.h`, `sr_model_apply`, from bytes | composition with `Capture` |
| `Intake_proofs` | - | theorems about `Intake` |

Every composition has a constant `Plays`: the set of records that say what a run
of the app is like (which peer, how the user behaves, how often something is
asked, what is lost). A behaviour takes one of them in its first state, so one
TLC run covers several scenarios and no scenario pays for the freedom of the
others. The `MC` modules give the sets. All counters in a play are bounds.

### CmdSlot

`gpc` and `wpc` are where the GUI is in `sr_worker_send_cmd` and the worker in
`sr_worker_thread`; `buf`, `len`, `ready` and `exit` are the shared fields. A
`memcpy` or `memset` of the buffer is two steps, with the buffer `Torn` in
between, so an overlap shows. `accepted` and `wire` are history: what
`send_cmd` returned true for and what was given to `sr_io_write`. A refused
send changes nothing and is a stutter.

`Mailbox` is a queue of at most two commands: the released one in the worker's
hand and the next in the slot. `CmdSlot` maps to it by `queue <- InHand \o
InSlot`. The maximum of two is a consequence of releasing the slot before the
write (`sr_worker.c:137-140`); the GUI's retry logic has to live with it.

### ScanCtl and DashScan

The program compares revision counters with snapshots (`session_rev` with
`session_rev_at_send`, `busy_rev` with two snapshots, `wifi_stop_rev`,
`firmware_rev`). Only "moved since" is ever read, so each pair is one Boolean
(`moved`, `scan.revRose`), cleared where the code takes the snapshot. A timer is
a Boolean "its window is over", set by `Elapse`.

`DashScan` has one action per handler: `OkPress` on the Dash tab and `GpsStart`
on the GPS tab; the tick handlers `TickSync`, `TickIdent`, `TickGps`, `TickScan`,
`TickPostStop`, `TickPrestart`, `TickProbe`, `TickQual` in the order of
`sigroam_scene_dash_on_event`; the Probe screen's `HsRetry`, `HsStop`,
`HsSigroam`; `EnterDash`, `EnterProbe`, `Leave` (which aborts a sample,
`GpsAbort`); the worker's `Take` and `Apply`. The gate of a sample asks for no
dialect, so its `gpsdata` and the `stopscan` that closes or aborts it go to every
peer. `gps` keeps what decides about it: the phase, with every phase in which
no sample is in flight as "Rest", whether the counter it compares moved, and its
time. The soft timeout only changes a text. A handler that returns early is no step. Within a
tick (`gpc # 0`) the worker may empty the slot (it needs no lock for that) but
applies no line (it needs the mutex).

The board (`BoardRead`, `Announce`, `Row`, `Seal`) is not in the repository.
It is modelled from what the application says of its lines: `wardrive` on an
idle `-sigroam-` board starts a scan announced later, otherwise `Busy:`; stock
firmware ignores it while it scans or in SHOW_INFO; `stopscan` is answered by
"Stopping WiFi"; `info` gives `Firmware:` and, on `-sigroam-`, `Diag:`, and on a
stock board sets SHOW_INFO; `gpsdata` replaces whatever a stock board does by a
stream of blocks, which an idle `-sigroam-` board may give or not, and which a
`stopscan` ends with a line of its own. A `-sigroam-` board drains after a stop and
becomes idle by itself. SEALED is treated as IDLE and DRAINING as STOPPING, which every
reader in the code does too.

A play of `DashScan` says which peer (`kind`), whether it has a working SD card
(`card`; without one it refuses to start), whether it may still be busy from
before the launch (`handover`), answers within every timeout (`prompt`), whether
the user may open Probe (`probe`) or press OK on the GPS tab (`gpsTab`), acts only
when nothing is on its way and no sample is in flight (`patient`), and whether the
line loses commands and lines (`lossy`).

### Recovery

`Recovery` extends `DashScan` by USB power, a board that may reset, and what
`sigroam_tick_event_callback` runs before the current scene, on every screen:
the resync of stock peers, then the peer watch of `-sigroam-` ones.
`RecoveryTick` is the two together, `TickAfter` the scene's handlers, which
wait until the recovery of their tick has run (`ran`). `resync` and `watch` are
`s_resync` and `s_peer_watch` with the counters and times as Booleans, as above.
`NextPhase` is the phase `sr_resync_eval` arrives at in one call, its early
returns and the hops of its loop included; `ResyncStop` and `ResyncStart` then
send, and what `sr_resync_note_sent` records depends on the slot.

The environment: `Outage` plugs or unplugs USB, and the board may reset by it or
not (both were measured, says `sr_peer_watch.h:14-21`); while it boots it prints
(`Banner`) and hears nothing (`LostInBoot`); the worker samples the power once a
second (`WorkerSamples`), and a boot is longer than that and than a tick. A
`-sigroam-` board that accepted `wardrive` reports IDLE for a while
(`power.board = "starting"`), which is what the grace of the watch is for. What
a booting board is told is lost; the line itself loses nothing here.

What the traces of this module show, and no property judges, because the code
does not say what should happen:

* a stock board that an unplugging did not stop prints on, is never quiet for a
  second, and the resync ends in "Scan lost, press OK" after 150 s, with the scan
  still running: that OK stops it;
* the edge of USB power is consumed by every evaluation, so a second unplugging
  during a resync starts none; when the board resets right after its banner, a
  stock session stays Running for good;
* entering Probe during a resync puts `info` between its `stopscan` and its
  `wardrive`, which the board then swallows: the resync waits until it gives up;
* a scan that the user stops while the watch repeats `wardrive` is started
  again ("wardrive until the board accepts").

### SerialLink

`gpc` is the last step of the launch (`sr_io_open` in its order, each with its
failure and rollback) or of the exit (`sigroam_app_free`: stop the worker, stop
reception, join, close, free). `held` is what the application holds of the
system, `otg` the standing 5 V request, which is only withdrawn by whoever made
it. The Flipper has one core: an interrupt runs whole, and no thread runs while
one is due. Bytes are numbered, so that `SaidIsApplied` can tell which were
there before the exit was asked for. A failed open leaves the application
running without a port (`noPort`).

### LiteDash

A Lite board speaks the stock dialect and answers `sigroam` with `Diag:`,
`Busy:` and `Sess:`. Its Dash runs the same tick as in `DashScan`, with the
handlers that need such a board: `TickRecover` first (`s_rec` and the `s_rec_`
flags, one action per branch of `sr_start_recover_step`: `RecRuns`,
`RecWatches`, `RecChecks`, `RecAdopts`, `RecRetries`, `RecNoDiag`, `RecRetried`,
`RecMisses`, `RecUp`, and the two commands a full slot put off), then
`TickSync`, `TickSeed`, `TickGps`, `TickScan`, `TickPostStop`, `TickPrestart`,
`TickPoi`, `TickQual`. `OkDash` is OK on the Dash tab (the recovery's pages first,
then the scan toggle), `OkGps` on the GPS tab (a sample, or a point of interest
while scanning). `gps.block` and `poi.answer` are the counters compared with
snapshots, `rec.out` and the like are timers that are over. `model.ap` is the row
counter; what the screen shows is `Shown`: the board's own total (`sessAp`) once a
`Sess:` was seen, which `sr_model_reset_session` keeps. `sessOn` is its `ms`: whether
the board said it during a scan. A launch may find the total of the last scan.

The board announces a scan it accepted at once, late (`late`: after any window
of the app), or never (`duds`); `reboot` takes it down, its queue with it, until
`Boots`. `gpsdata` on an idle board streams blocks until a `stopscan`; on a
scanning one it ends the capture without a line, as `sr_gps_sample.h:40` says.

### Panels: PanelLink, MauLogs, Upload, Join, Tools

These screens share the slot, the line, the session and one board, so they are
one state space: `Panels` is their union and each module owns the variables of
its screen. The board answers a command to the end before it reads the next; how
long a line waits is not bounded unless the play says `prompt`.

* `MauLogs` keeps `g_logs`: `LogsFeed` is `sr_mau_logs_feed` line by line. A
  listing has no last line; the screen sends `channel` behind it and the echo of
  that closes it. `slots` and `side` are bounded (`LogSlots`), as in the code,
  where what does not fit is counted and named "extra".
* `Upload` keeps the flight (`up`), the screen (`pg`), its share of the capture
  (`cap`) and the board's card. `done` is history: what became of each file.
  `UpFeed` is `sr_mau_up_feed`; a file is counted when the next one opens.
* `Join` is the phase machine of the tick (`ScanStep`, `SavedStep`, `VerifyStep`,
  `CheckStep`, `JoinedStep`, `StopBackStep`) with the listener (`li`). A list with
  the names of the one that is shown may be taken for the same, numbers and all
  (`MayPublish`): the fingerprint is of names and signal strengths. What
  ends a join at once (`Usurped`, `Refused`) is looked at before the slot.
* `Tools` keeps the page, the command kept for the tick and the listener. The
  pump is `PumpGate`, `PumpSend`, `PumpBarrier`, `PumpObserve`, in this order.

### Intake and Capture

A line of the board is its kind, the answer it belongs to and two pieces, so that
a burst can take the beginning of a line, its end or its newline, and run over
several lines and answers: the board answers while earlier lines are still on
their way (`Sends`), and between `gpsdata` and `stopscan` it streams blocks of
position (`BoardStreams`). `headerLost` notes that a header of a block, or the
end of the line before it, was among what was lost. `Feed` is `sr_line_feed` by pieces, with its cut lines
(`MaxText`). `Whole`, `Starts` and `Ends` say what survives of a line is still
taken for it: the parser goes by prefixes for GPS fields and the firmware, by
suffixes for rows and echoes, by the whole line for the rest. `Parsed` is
`marauder_feed` in its order; `HandleReady` the worker's handling of a line.

`Capture` keeps the buffer, the chunk that was pulled and not yet written, the
file, and what was to be captured. The tick pulls under the mutex and writes
after it; the worker may append in between.

## 3. Runs

| run | scenario | shows |
|---|---|---|
| `slot` | two commands that fit and one that does not, four sends, exit at any moment | delivery, exclusion, no residue; the slot implements the mailbox; the thread ends |
| `serial_link` | every failure of the open, bytes all the way | all is given back, nothing used after, what was said is applied, the exit ends |
| `dash_patient` | both peers, with and without SD card, Probe and samples of the GPS too, late answers, a `-sigroam-` board in any state at launch, patient user | a start is confirmed or refused; "Saving..." ends |
| `dash_safety` | the same; a hasty user of a stock board, late answers, or answers in time and Probe too; a hasty user who samples, with a stock board or a `-sigroam-` one without a card; both peers with losses and any state at launch | agreement once settled; no wardrive swallowed by SHOW_INFO; confirmations are true; no blind stopscan |
| `recovery` | both peers, two outages with or without a reset, patient user, answers in time | a restart hits only a board that does not scan; the resync leaves `-sigroam-` alone; a session without a scan is noticed; no recovery lasts for ever |
| `lite_dash` | a Lite board with up to three wardrives it does not follow, late announcements, a scan from before the launch, OK on both tabs, hasty users, a loss | the recovery adopts, retries and reboots the right board, and ends; samples are closed; gpsdata reaches no scan; neither the count nor a total given during this scan is of another one |
| `panels` | twelve plays: the tools on a list of two and a card of three logs, the board's own menu, uploads with retries and failures, a join with the list changing behind it, losses, all pairs of screens the app can stack | an upload is known, its verdict true; listings true; removals are of what was confirmed; "Connected" is true; what was asked ends |
| `intake` | each kind of peer asked four times without a loss; one or two bursts of any length in each kind of answer, over blocks of a stream too; the capture armed anew, its buffer full, writes that fail | lines whole or marked; a position of one block unless a header was lost; identity not stale; the capture is what was said |
| `dash_press_again`, `dash_latch`, `dash_adopted`, `lite_sample` | see below | expected to fail |

Bounds of the link. One command in flight (`MaxTx = 1`) is enough beside the one
in the slot: the worker blocks until the port has sent a command, and the board's
reading is the only thing that ends a command's flight. Two or three lines in
flight (`MaxRx`) cover a late line of an earlier command together with the two
lines an `info` gives; the panels and the Lite Dash do not bound them. Four sends
in `slot` are two on their way, one being filled and one more, so the slot is
reused in every phase. `serial_link` has a buffer of 3, reads of 2 and 6 bytes:
the buffer fills, overflows and empties in more than one read before, during and
after the exit.

Bounds of what is asked. `recovery` has two stopscans per resync (`MaxTries = 2`:
the first, a repeat, and the limit) and two outages (unplug and plug back, each
with or without a reset, also while a recovery of the first is under way); the
program's 24 tries and longer sequences repeat these. `lite_dash` has five acts
of the user: start, stop, sample and the two answers to the pages of a recovery,
in any order; two rows per scan make a count that differs from that of the
scan before. `panels` has `LogSlots = 2` on a card of three logs, so the slots
overflow with logs and with sidecars; two SSIDs and two entries make a renumbered
list; two or three acts are an operation with the one that follows it, and a
join from its screen to "Connected" is three. One index
(`Indices`) is enough: the list changes by putting the other network at it.
`intake` holds 4 pieces per line, so two lines run together by a lost newline
just fit and a third does not; a capture of 5 items pulled by 3 fills, is pulled
in part and is armed anew while a chunk is on its way.

Scenarios narrower than the rest, for a reason in the code:

* a stock board has no `Diag:`, so a scan it runs since before the launch is
  noticed only with its next row: `handover` goes with agreement only where the
  line is lossy and the peer prompt, or the peer is `-sigroam-`;
* `NotSwallowed` is claimed where nothing is lost, and for a hasty user without
  Probe and without samples: left between its `info` and its `stopscan`, Probe
  leaves SHOW_INFO set, and the answer to the `stopscan` of a sample that was left
  may be taken for that of the clearing one;
* a hasty sampler has a stock board that answers in time, or a `-sigroam-` board
  without a card, which refuses every start: `SettledAgree` is not for others. A
  late stock board may start a scan with a `gpsdata` already behind the `wardrive`,
  which ends it without a line; a hasty user of a `-sigroam-` board stops a scan
  while the `Diag:` that adopts it is on its way, sampling or not;
* in `recovery` the user is patient and answers are in time, since an `info`
  answered more than 15 s late would let the watch restart a scan that runs; there
  is no sampling in it (TLC finds nothing in the safety properties with it, but
  does not finish in five minutes; the theorems cover it);
* `RecoverySound`, `GpsdataOnIdle` and `CountsHonest` name in their text when a
  hasty user, a late board or a loss takes them away (section 5 says how);
* the properties of `panels` on uploads, listings and removals are for a user
  who waits (`ghost.rushed`) and lines that arrive; `JoinedIsChosen` is also for
  a hasty one, with one command waiting at the board (proved for two, section 4);
  section 5 says what three can do.

Deadlock is not checked where the system stops: the app exits (`slot`,
`serial_link`), the user has no act left (`lite_dash`, `panels`), the board is
asked no more (`intake`). `dash_patient` and `dash_safety` check it.

### Disagreements between code and comments

Four runs are expected to fail, each on a sentence of the repository:

* `dash_press_again`: after a start refused by a full slot the screen says
  "press OK again" (`views/sr_view_dash.c:974`), but OK does nothing
  (`src/sr_scan_ctl.h:76`, and 222-232 lets only a stop through).
* `dash_latch`: `src/sr_scan_ctl.h:141` speaks of a `Diag:` received after the
  stop; line 157 takes any, also one from before the scan.
* `dash_adopted`: `src/sr_peer_sync.h:81-82` promises to remove the Busy that
  lasts as long as the session; OK between the `Diag:` and the next tick
  disarms the adoption for the rest of the visit.
* `lite_sample`: `src/sr_gps_sample.h:11-12` says that the guards ensure nothing
  is sent during a scan. They are looked at when the sample starts; a scan
  started on the Dash tab while the sample waits for its block is stopped by the
  close-out of the sample (`scenes/scene_dash.c:379-396`).

The three of the Dash need OK pressed within a tick or two of another event, or
a status answer slower than the user; `patient` and `prompt` in the passing
plays keep exactly these apart, so that the rest of the behaviour is checked.

### Fairness

* `CmdSlot`: the operating system keeps scheduling the worker, whose loop never
  blocks longer than its 50 ms read.
* `SerialLink`: an interrupt that is due is served and both threads are
  scheduled; the user may stay and the board may be silent for ever.
* `DashScan`: the GUI's periodic tick, the worker's two halves and the board's
  progress (it reads its input, announces what it started and finishes sealing).
  Strong fairness for the two that something may hold back again and again: the
  announcement, while blocks or rows fill the model's bound of the line, and the
  refresh `TickQual`, which comes every 5 s and finds the slot free, as a command
  stays in it for 50 ms. Rows and blocks are not fair: a board may be silent.
  Nothing is assumed of the user, of the losses or of timers; the liveness runs
  lose nothing.
* `Recovery`: the same, and every window ends, because `furi_get_tick` goes on:
  weak fairness for the two give-ups, which nothing resets; strong fairness for
  the short windows and the boot, which an answer under way suspends in the model
  for the moment it takes. The board goes on announcing, draining or sealing
  (`BoardGoesOn`); one that answers in time has answered a refresh before the next
  one is sent, 5 s later (`TickAfter`). Outages are bounded and not fair.
* `LiteDash`: the tick, the worker's two halves, the board (strongly: it reads
  its input again and again between two rows), and the windows the recovery,
  the prestart and a pending command wait for, which end because
  `furi_get_tick` goes on. Nothing is assumed of the user or of losses, and no
  fairness of the GPS windows is needed.
* `Panels`: the worker, the tick of the screen that is shown, the timeouts of
  the Join screen and the board going on with what it was asked. Losses and the
  user are not fair.
* `Intake` states safety only: nothing in it waits for anything.

## 4. Proofs

All proofs are checked by TLAPS for every value of the constants allowed by the
named assumptions (`CmdSlotAssumption`, `DashScanAssumption`,
`RecoveryAssumption`, `SerialLinkAssumption`, `LiteDashAssumption`,
`PanelAssumption`, `MauLogsAssumption`, `UploadAssumption`, `JoinAssumption`,
`ToolsAssumption`, `CaptureAssumption`, `IntakeAssumption`).

* `CmdSlot_proofs`. The inductive invariant `IInv` adds to the types who owns
  the slot (the GUI while `~ready`, the worker while `ready`), what the buffer,
  the length and the local copy hold at each program counter, and the relation
  between `accepted` and `wire`. `ready` alone does not exclude overlap; the
  ownership does. From it follow exclusion, cleanliness, exact delivery, the
  bound on the loss and, step by step, that each step maps to a step of
  `Mailbox` or to a stutter.
* `DashScan_proofs`. `IInv` is the type invariant with `PeerKnown`: the model's
  firmware is unknown or the true one, and the prestart is armed only for a
  stock peer. `NeverBlind` needs it: without it the clearing stopscan could be
  aimed at the wrong peer. The first half of `NeverBlind` follows from it, with
  losses, delays and any user: a `stopscan` is queued for a `-sigroam-` board only
  with a session running, a command awaited or a sample in flight.
  `NeverSwallowed` is `NotSwallowed` for every play, without a hypothesis. A
  `wardrive` is swallowed by an `info` sent long before it, so the invariant `SInv`
  says of every point of the line whether the board will show info there (`ShowAt`),
  and that no `wardrive` is at such a point (`NotShown`). What keeps it so are two
  facts about the whole app: what clears SHOW_INFO is the last that was sent before
  the start (`Cleared`; without the Probe screen, `DashOnly`), and whoever started
  or stopped anything has the peer's Version, so that no screen but Probe has a
  reason to send another `info` (`KnownFirst`). The answer to the `stopscan` that
  closes a sample may be taken for that of the clearing one, so a hasty sampler is
  left out; one who waits presses OK with no sample in flight.
* `DashAgree_proofs`. `Agreement` is `SettledAgree` for every play without losses
  in which a stock board is idle at launch and not sampled, with any user, or a
  -sigroam- board was left doing anything, with a user who waits, sampling or not
  (`JudgedPlays`), whatever the bounds of the line and however late the
  answers. Two of the cases left out are no gaps of the proof: a stock board that
  scans at launch has no `Diag:` to adopt from, and a hasty user of a -sigroam-
  board is the finding of `dash_adopted`. A stock board that is sampled is left to
  TLC: `gpsdata` may end a scan of it without a line. `SettledAgree` speaks of an empty
  line, so it is not inductive. `AInv` says at all times what the session will be once the
  lines on the way are applied (`RunsAfter`), and that the board is just that
  (`Claims`, and for a stock board its converse `StockTrack`). A -sigroam- board
  may scan without having said so: then (`Unadopted`), on the Dash, a `Diag:` is
  asked for or on its way (`SyncWaits`), it tells the board as it still is when the
  tick looks at it (`LinesFresh`, `DiagFresh`), which needs that no start or stop
  overtakes it (`OneCall`), and nobody starts or stops before (`AdoptionDue`). A
  sample could: it is closed by a `stopscan` nobody awaits. So from its `gpsdata` to
  the line that ends it the board idles, and no start is on its way (`SampleIdle`,
  `Idling`); and no board that streams scans (`Streams`). This is the second half
  of `NeverBlind`: for a user who waits and a line without losses, no sample is
  closed in front of a board that scans. A hasty user, or one who lost a line, may
  do that, as `lite_sample` finds of the Lite board.
  `StartsAreTrue` and `StopsAreTrue` are `ConfirmedStartRuns` and
  `ConfirmedStopStopped`, for every play in which a stock board with a user who waits
  is idle at launch, is not sampled and loses nothing (`HeardPlays`); a `-sigroam-`
  board may be sampled, may lose lines and may have been left doing anything. Answers
  may be as late as they like.
  The hypothesis is needed: a stock board that was left scanning and is late may send
  one more row when the prestart has given up on its stopscan, and the Dash takes that
  row for the start (TLC finds this in 17 states). Where such a board, or one with a
  lossy line, answers in time, `dash_safety` checks both and nothing is proved. `CInv`
  adds to `AInv` what a wait rests on: while a stop is awaited no start is on its way
  (`StopAwaited`), while a start is awaited whatever would confirm it is true
  already (`StartAwaited`), and a prestart is armed with no scan known or announced
  (`PrestartCalm`). The agreement enters where OK is pressed.
* `Recovery_proofs`. `RInv` is the type invariant with `TriesLeft` (a stopscan
  is due only while one is left: without it the count could pass its limit) and
  `RenewalSeen`, which is inductive by itself: while the watch recovers, no
  session runs that it has not seen, so neither a repeat nor giving up can
  overtake one. `LegacyIsOff` is about single steps but rests on a fact about
  the whole system: the resync tests the dialect of the last Version, so one
  must know that no session runs before a Version is there. `LInv` says why
  (`Unnamed`): the Dash holds starts back until then, no `wardrive` is on its
  way, and on the line every `Diag:` comes after a `Firmware:` line, which is
  where the argument needs that the line loses nothing. The steps of `DashScan`
  are taken over from `DashScan_proofs`; only outages, boots and the recoveries
  are new. It holds for any user and for late answers, which the run leaves out.
  `RestartIsSound` is `RestartSound` for every set of boards that answer in time,
  for any user and whatever the board did before the launch. (Late answers refute
  it, section 3: `InTime` is a hypothesis of the theorem, not an assumption.) `WInv`
  looks at a session the watch has seen and whose grace is over (`Doubtful`). The
  grace ends with nothing in flight and no `Sess:` uncounted; from then on, as long as
  the session does not move, every actor has to be shown to start nothing (`NoneStarts`:
  slot, line, board). OK does not, since a start awaited while a session runs has seen
  it begin (`StartFresh`), nor does the prestart or the resync, which are for stock
  peers. So a board that scans scanned when the grace ended, and all it said
  since shows it (`ShowsScan`).
* `SerialLink_proofs`. `IInv` is the type invariant with who made the 5 V
  request (`OtgOwned`), what is held at each stage of the launch and the exit
  (`Stage`), and that after the exit was asked for only younger bytes come
  (`Late`). The three safety properties follow, for every buffer size and
  traffic.
* `LiteDash_proofs`. Types for every play; then three properties of what the app
  does to the board and one of what it shows, none of them inductive. The invariants are layers. Of the line
  it is enough to know which commands and lines are on their way (`Calls`,
  `Lines`), with one fact about them: every line is true of the board as it is
  (`LinesTrue`), since the board reads its next command when all it said was
  applied. `AskInv` relates the flags of a start that is watched and says that no
  `wardrive` is on its way while the board is asked, so an answer of no scan stays
  true. `AgreeInv` says when the app knows of a scan: it is told of it, or the scan
  is from before the launch and nothing was done yet (`Launch`), or a user who waits
  is kept from acting by the adoption that is due (`LaunchWaits`). `TimeInv` is what
  the end of a window says then: a board in step that was not heard does not scan.
  `PatientInv` is what a waiting user leaves alone: no stop on the way to a board
  that is asked, no start under way during a sample. `RecoverySound` and
  `GpsdataOnIdle` follow. `SampleClosed` has its own invariant, `SampleInv`: what
  the board will do once it has read all that is on its way (`StreamAfter`).
  `CountsHonest` needs the order of the commands after all, and the number of rows on
  their way (`Rows`). Whenever the session and the board both run, the rows counted
  and the rows on the way are together no more than the board has found, and the same
  holds of every total on the way or kept that was given during a scan (`CountTrue`),
  so it holds of the total on the screen too. What could break it is a
  total that outlives its scan: seen in one scan, seeded into the next. `SeenTrue`
  says that it does not last: while such a total is there (`Seen`) nobody has a start
  under way, and once its scan is over the status that replaces it is asked for,
  heard or due (`Cleans`), all before a user who waits can act. Below it are four
  layers: a start is read behind the stop it waits for (`OrderInv`), the question of
  a screen just entered is answered first (`SyncInv`), a session that runs hears of
  that stop before the start is read (`RunsInv`), and a session not begun has counted
  nothing (`BaseInv`).
* `Panels_proofs`. Five layers. `AllFine` is the types, one lemma per action; the
  lines and commands in flight are typed by what they carry (`Spoken`,
  `Command`), and the listener's list stays within `IgnoreMax` because the
  board's own does. `FlightInv` gives `FlightKnown`: a user who waits asks for an
  upload only when nothing is on its way, so the command goes first, and from then
  on no line that ends a flight (`Ending`) is on its way until the job itself says
  one; `~pg.retry` is in it because a retry due at the next tick would send a second
  upload. `ListInv` gives `RemovesConfirmed`, which is about what is shown and
  about a command at the board, and says nothing of how they come to agree. The
  board's list carries no end mark, so what was heard is only the beginning of it
  until the barrier's echo: `ListStage` goes through a listing (asked, told, being
  heard, barrier sent, barrier told, heard, or refused) and says at each stage what
  was heard and what the line still brings (`RestAt`). `ChangeStage` does it for an
  add, a removal and a clear: one such command is on its way at a time
  (`OneChange`), and no page counts as settled before it was answered and the
  list heard again. `VerdictFine` gives `VerdictTrue`, for any number of files, failures
  and attempts. `VerdictTrue` speaks of a flight that is over; before, what the flight
  holds must be compared with what became of the files by sets and their
  cardinalities (`Walk`), counting an open file before it is closed. The board says
  up to four lines of a file and the flight wavers between them: a failed attempt is
  taken back when a later one succeeds, but only the first failure of a walk is kept by
  name, and the counts must not change twice. `FileStage` names the five moments by
  what is heard and what is still to come (`Hears`, which lets lines of the board's own
  scan come behind), and the lemmas about `CloseFile`, `KeepOk` and `KeepFail` carry
  `Walk` from one to the next. It rests on `FlightInv` for the beginning and on
  `DirOnce` for the walk: a card that holds no name twice never does, so no file is
  walked twice. `UploadAssumption` says that no log has the empty name, which
  `failName` takes for none. These three hold for a user who waits (`Unhurried`), as
  their properties do. `ChoiceInv` gives `JoinedIsChosen` for any user, whatever the
  screen had asked for and given up before, as long as no line is lost. The listener
  takes any echo of a `join` with its number for its own, so what has to be shown is
  that no other join is under way. A visit to the screen sends four commands between
  two joins (stop, scan, list and the list again), and `Parted` says at each phase how
  many of them are behind the one that was given up (`Behind`). With `MaxTx <= 2` three
  commands can wait, so when the fourth was sent the first join is answered and
  heard. The bound is a hypothesis of the theorem, and no weaker one will do: with
  three at the board TLC finds the confusion section 5 tells of. From there on the
  join is due (`Expecting`) or answered (`Answering`): its echo, then the networks
  it names, then the failure if there is one, all before the echo of the command
  behind it. Two things had to be said in the model first: a board whose ignore
  list is full refuses an add, and the rows of a table come in any order. `Among`,
  a recursive function, is shown to be one by induction on its index, with the
  property as a set of naturals (`ByCounting`).
* `Intake_proofs`. `CaptureCorrect` is `CaptureTrue` for every size of the buffer
  and of a pull, every line, every loss of bytes and every failure of the card.
  `CaptureTrue` is not inductive: it says nothing of a capture with a torn chunk,
  after which a new one begins and must be true again, and the note of a full
  buffer may itself be pulled and written while the flag that allows no second
  one stays. `CInv` has both: what is kept is `Faithful` to what was said by the
  flag `capture.full`, unless the file is torn and not yet due to begin anew.
  The other three follow a line from the board to the model. `LineInv` gives
  `LinesIntact`: on the wire a piece is followed by the next of its line, the last by
  the end of the line (`Follows`), and of that the suffix a burst leaves is still
  true (`TailOrderly`); the text assembled, when nothing of it was lost, is the
  beginning of a line that goes on at the head of the wire (`Begun`). That an answer
  is such a sequence, and in which order its lines come, is about a fold
  (`FlattenSeq`): `FlattenUpTo` does the induction once, `Told` maps each piece to
  its line, and `AnswerInOrder` reads the order off `AnswerTo`. `FixInv` gives
  `FixOfOneAnswer`: while a block is begun, a position of another block has its
  header before it on the wire, which starts the block afresh (`Block`), and no
  header of a third block comes between the two (`SameBlock`). However much a burst
  takes and over however many answers, that only breaks when a header goes, or
  arrives in the middle of a line (`HeaderWhole`), and this is what `headerLost`
  notes. `IdInv` gives `IdentitySound`: a
  `Version:` comes to a state with no `Diag:`, and a `Diag:` or `Sess:` of a board
  that is not Lite to a latch that is not armed. Both are one argument (`Clear`): the
  line that clears what is out of date is on the wire before, or under way, or the
  state is clear and no line that spoils it comes in between.

Only model-checked: liveness (outside the prover's reach; `RunningIsTrue` is a
leads-to as well), the agreement and the truth of confirmations for a stock board that is sampled, or
was left scanning or has a lossy line and answers in time, and `ListingTrue` and `AskedEnds` of
`Panels`: the inductive invariant of `ListingTrue` has to say what every command
and line in flight means to the listing of the logs, as `AInv` does for the agreement
of the Dash and `ListInv` for the ignore list, and TLC does that state by state.

## 5. What the traces show

Behaviour met while modelling that no property judges, because no sentence of the
repository says what should happen, or because it takes a hasty user, a late
board or a lost line. The properties name these conditions.

Dash and recoveries:

* `scenes/scene_dash.c:446-447` says that a send refused by a full slot does not
  erase the criterion of the command in flight; lines 433-441 have re-pointed it
  by then. A late "Stopping WiFi" then confirms a stop that was never sent.
* A stop of a stock peer whose session is already Stopped moves no counter, so
  StopFailed stays on the screen until the next start.
* The phase Stop of the start recovery has no timeout: when the wardrive of its
  prestart is refused by a full slot or lost, "Retrying start..." stays
  (`src/sr_start_recover.h:11-13`). `RecoveryEnds` holds for a user who waits and
  without losses.
* A second miss is not asked about: a board that is late with its announcement
  is offered a reboot, and OK then reboots a board that scans.
* A hasty user may press OK on the GPS tab while a late board is being asked:
  `gpsdata` ends the scan the answer told of, and the recovery adopts it.
* The session stays Running across a reboot of a Lite board.
* `gpsdata` may be queued by a hasty user between the confirmed stop of a
  prestart and its wardrive, which the streaming board then does not follow.
* `dash_gps_abort` with a full slot leaves the board streaming.
* A sample of a `-sigroam-` board queues a `stopscan` with the session Idle and no
  command awaited: when the user started a scan meanwhile, or its
  announcement was lost, that scan is stopped (`NoBlindStop` says so in its third
  disjunct). A stock board whose sample was left with Back may take the answer to
  that `stopscan` for the one that clears SHOW_INFO.
* A session that starts after a stop sets the count of blocks back to 0
  (`sr_model_reset_session`), which a sample that waits takes for a block, and
  closes.
* A Lite Dash goes on showing the total of the previous scan after a new one has
  started, until the next `Sess:` (asked for every 5 s): the screen prefers
  `model.sess` to the row counter (`scenes/scene_dash.c:85-90`), and the reset of a
  session keeps it (`src/sr_model.c:136-141`). `CountsHonest` says that this is the
  only foreign total: one the board gave while it did not scan.
* The seed stays armed when its `Sess:` does not come, and may then overlay a
  session started here; rows between `Sess:` and the seed's tick are lost to the
  count.
* A stock board that an unplugging did not stop prints on, is never quiet for a
  second, and the resync ends in "Scan lost, press OK" after 150 s with the scan
  still running; the edge of USB power is consumed by every evaluation, so a
  second unplugging during a resync starts none.

Panels:

* There is no timer in an upload's flight: a board that falls silent leaves
  "Sending" until the app exits. A flight that begins and ends while another
  screen is shown is not stored.
* Two listings that overlap count twice; a join leaves the capture armed until an
  upload ends on its page or the Dash disarms it.
* With three commands waiting at a board so late that every wait times out, a
  user who gives up a join and starts another may be told "Connected" on the echo
  of the first, while the second went to whatever a scan had put at its number.
* A lost failure line of a join reads as "Connected": the echo of the command
  behind it is the only receipt.
* Tools: "Reading..." stays when the card cannot be mounted during a listing of
  the ignore list and when a scan starts and stops between two ticks; Back from a
  question while a reply is awaited shows the list as it was heard before
  (`src/sr_board_tools.h:12-13`), so that a hasty user may confirm an entry whose
  number is another one by then; a command that waits for the slot when its page
  is left is dropped, one in the slot is still sent.

Input:

* Two blocks of position are mixed when bytes are lost from a field of the one
  through the header of the next: the fields that follow are taken into the block
  that is still begun (`marauder_feed`, lines 1094-1109). One run of lost bytes is
  enough, since the board streams blocks. `FixOfOneAnswer` says that nothing less
  does it: no loss that leaves the headers whole, wherever and however often.
* The latch of the Lite ability stays set when another board is plugged in.
* A failed write that wrote a part of its chunk writes it again from its start,
  so the capture has that part twice; once the note that the buffer was full is
  in, later gaps are not noted again.

## 6. Not modelled

* The request for a point of interest is in `LiteDash` only, although it goes to
  every peer: in `DashScan` it would be one more command that may fill the slot
  during a scan, as the status command of the refresh does. The count of blocks is
  "moved since the snapshot": the case that it comes back to the very number of
  the snapshot after a reset is left out but for 0. In `Join`, two lists whose
  names differ do not have the same fingerprint.
* The field syntax of the lines and the formatting of texts: pure functions
  covered by the host tests; nothing concurrent happens in them.
* The page and the prompt of a `-sigroam-` board on the Upload screen, the
  pending-upload prompt of the Dash: a poll whose answers are only displayed.
* Settings: one writer, a temporary file and a rename, in one call on the GUI
  thread. The storage service is outside this repository and says nothing of
  what a loss of power leaves.
* The raw log, the recent ring, the estimate of different networks, alerts and
  new-network signals: written and read under the one mutex, one call each.
* Drawing, menus, the About, Rank and Settings screens.
