-------------------------------- MODULE Join -------------------------------
(***************************************************************************)
(* Joining a network with a stock board: the Join screen                   *)
(* (scenes/scene_join.c) and the listener that reads the board's answers   *)
(* for it (src/sr_marauder_join.c).  The screen stops the board, scans,    *)
(* lists, lets the user choose, lists again to see that the row is still   *)
(* that network, joins, and sends `channel` behind the join: its echo      *)
(* without a failure before it is the only receipt there is.               *)
(* The Upload screen is below this one and is entered again when it is     *)
(* left.  Definitions marked "Mutant" are faults put in on purpose.        *)
(***************************************************************************)
EXTENDS Upload, SequencesExt

CONSTANTS
    Indices      \* indices of the board's list of access points

VARIABLES
    jn,          \* the Join screen
    li,          \* g_listen of sr_marauder_join.c
    radio        \* the Wi-Fi of the board

joinVars == <<jn, li>>

\* The board keeps a list of finitely many networks, by their indices.
ASSUME JoinAssumption == IsFiniteSet(Ssids) /\ IsFiniteSet(Indices) /\ Indices \subseteq Nat

Phase == {"Blocked", "Stop1", "Scan", "List1", "Stop2", "List2", "Pick", "Pass",
          "Verify", "Join", "Joined", "Fail", "Saved", "SavedList", "StopBack"}

\* The tick does nothing in these: the screen waits for the user.
Still == {"Pass", "Blocked", "Joined", "Fail", "Pick", "SavedList"}

\* join_scan_phase: the rows of the list are on the screen.
ScanPhase == {"Stop1", "Scan", "List1", "Stop2", "List2", "Pick"}

Row == [n : Indices, x : Ssids]
NoRow == [n |-> 0, x |-> NoName]

JoinScreen == [phase : Phase,
               aged : BOOLEAN,          \* the phase's timeout is over
               hunt : {"early", "show", "over"},   \* now - s_hunt_ms
               stopped : BOOLEAN,       \* wifi_stop_rev != s_stop_rev
               need : BOOLEAN,          \* s_need_send
               queued : BOOLEAN,        \* s_check_queued
               sent : BOOLEAN,          \* s_check_sent
               pend : {NoCmd} \cup [c : {"wifi", "stopscan", "scanall", "list", "channel"},
                                    n : {0}, x : {"-"}]
                              \cup [c : {"join"}, n : Indices, x : {"-"}],
               shown : SUBSET Row,
               cursor : Row \cup {NoRow},
               saved : SUBSET Ssids]

Mode == {"Off", "Scan", "List", "Join", "Saved"}

Listener == [mode : Mode,
             scan : BOOLEAN,          \* saw_scan
             end : BOOLEAN,           \* saw_end
             echo : BOOLEAN,          \* saw_list_echo
             rows : SUBSET Row,
             joinEcho : BOOLEAN,      \* saw_join_echo
             expect : BOOLEAN,        \* expect_check
             index : Indices \cup {0},
             essid : Ssids \cup {NoName},
             marked : BOOLEAN,
             receipt : {"Pending", "Fail", "Joined"},
             savedEnd : BOOLEAN,
             saved : SUBSET Ssids]

Radio == [aps : SUBSET Row,               \* the list of access points
          scanning : BOOLEAN,
          on : Ssids \cup {NoName},       \* the network it is connected to
          profiles : SUBSET Ssids]

JoinTypeOK ==
    /\ jn \in JoinScreen
    /\ li \in Listener
    /\ radio \in Radio

\* sr_join_listen: whatever was heard before is forgotten.
Listen(mode) ==
    [mode |-> mode, scan |-> FALSE, end |-> FALSE, echo |-> FALSE, rows |-> {},
     joinEcho |-> FALSE, expect |-> FALSE, index |-> 0, essid |-> NoName,
     marked |-> FALSE, receipt |-> "Pending", savedEnd |-> FALSE, saved |-> {}]

\* One entry of the list for each index.
Table(rows) == \A r, s \in rows : r.n = s.n => r = s

JoinInit ==
    /\ jn = [phase |-> "Blocked", aged |-> FALSE, hunt |-> "early", stopped |-> FALSE,
             need |-> FALSE, queued |-> FALSE, sent |-> FALSE, pend |-> NoCmd,
             shown |-> {}, cursor |-> NoRow, saved |-> {}]
    /\ li = Listen("Off")
    /\ radio = [aps |-> {}, scanning |-> FALSE, on |-> NoName, profiles |-> {}]

-----------------------------------------------------------------------------
(* src/sr_marauder_join.c: what a line means to the listener.              *)

ListFeed(line) ==
    CASE ~li.echo -> [li EXCEPT !.echo = line.k = "listEcho"]
      [] li.echo /\ line.k = "listEnd" -> [li EXCEPT !.end = TRUE]
      [] li.echo /\ line.k = "ap" ->
           [li EXCEPT !.rows = @ \cup {[n |-> line.n, x |-> line.x]}]
      [] OTHER -> li

SavedFeed(line) ==
    CASE line.k = "wifiEnd" -> [li EXCEPT !.savedEnd = TRUE]
      [] line.k = "wifiRow" -> [li EXCEPT !.saved = @ \cup {line.x}]
      [] OTHER -> li

\* Nothing counts before the echo of the join that was sent; the echo of
\* the command behind it ends the wait, and says joined if nothing failed.
ReceiptFeed(line) ==
    CASE ~li.joinEcho -> [li EXCEPT !.joinEcho = line.k = "joinEcho" /\ line.n = li.index]
      [] li.joinEcho /\ line.k = "using" ->
           [li EXCEPT !.essid = IF @ = NoName THEN line.x ELSE @]
      [] li.joinEcho /\ ~li.marked /\ line.k = "joinFail" -> [li EXCEPT !.receipt = "Fail"]
      [] li.joinEcho /\ ~li.marked /\ line.k = "chEcho" /\ li.expect ->
           [li EXCEPT !.marked = TRUE,
                      !.receipt = IF li.essid # NoName /\ @ = "Pending" THEN "Joined" ELSE @]
      [] OTHER -> li

\* sr_join_observe
Observe(line) ==
    CASE li.mode = "Scan" -> [li EXCEPT !.scan = @ \/ line.k = "scanBanner"]
      [] li.mode = "List" /\ ~li.end -> ListFeed(line)
      [] li.mode = "Saved" -> SavedFeed(line)
      [] li.mode = "Join" -> ReceiptFeed(line)
      [] OTHER -> li

\* sr_join_ap_matches
Matches(row) == li.echo /\ li.end /\ {r \in li.rows : r.n = row.n} = {row}

JoinBusy == li.mode # "Off"

-----------------------------------------------------------------------------
(* scenes/scene_join.c: the user.                                          *)

\* join_arm
Arm(j, phase, c) ==
    [j EXCEPT !.phase = phase, !.aged = FALSE, !.need = TRUE, !.pend = c]

Calm(j, phase) == [j EXCEPT !.phase = phase, !.aged = FALSE, !.need = FALSE, !.pend = NoCmd]

keepJoin == UNCHANGED <<tx, rx, model, pg, logs, board, radio>>

\* sigroam_scene_join_on_enter, from the Wifi key of the Upload screen,
\* which is left.
EnterJoin ==
    /\ "join" \in play.open /\ At("upload") /\ pg.page = "Result"
    /\ AllowGo(model.session, up.flight)
    /\ Ask("join", Answered)
    /\ logs' = LogsReset
    /\ LET fresh == [jn EXCEPT !.queued = FALSE, !.sent = FALSE, !.shown = {},
                               !.cursor = NoRow, !.saved = {}]
       IN  /\ jn' = Arm(fresh, "Saved", Cmd("wifi"))
           /\ li' = Listen("Saved")
    /\ UNCHANGED <<slot, tx, rx, model, up, pg, cap, board, radio>>

\* Back while the board is at work: a stopscan first.  Pressed again it is
\* sent again.
JoinBackStop ==
    /\ At("join") /\ jn.phase \in ScanPhase \cup {"StopBack", "Verify", "Join"}
    /\ IF jn.phase = "StopBack" THEN Ask("join", TRUE) ELSE UNCHANGED <<scene, tally>>
    /\ jn' = [Arm(jn, "StopBack", Cmd("stopscan")) EXCEPT !.stopped = FALSE]
    /\ li' = Listen("Off")
    /\ UNCHANGED <<slot, up, cap>> /\ keepJoin

\* Back from the password, to the list as it is.
JoinBackPass ==
    /\ At("join") /\ jn.phase = "Pass"
    /\ jn' = [jn EXCEPT !.phase = "Pick"]
    /\ UNCHANGED <<scene, tally, slot, up, cap, li>> /\ keepJoin

\* Back from a failure: join_show_saved.
JoinBackFail ==
    /\ At("join") /\ jn.phase = "Fail"
    /\ jn' = Calm(jn, "SavedList")
    /\ li' = Listen("Off")
    /\ UNCHANGED <<scene, tally, slot, up, cap>> /\ keepJoin

\* Back out of the screen: the Upload screen is entered again.
JoinLeave ==
    /\ At("join") /\ jn.phase \in {"SavedList", "Blocked", "Joined", "Saved"}
    /\ Goto("upload")
    /\ jn' = [jn EXCEPT !.need = FALSE, !.pend = NoCmd, !.aged = FALSE]
    /\ li' = Listen("Off")
    /\ UploadEntered
    /\ UNCHANGED <<tx, rx, model, tally, cap, board, radio>>

\* join_compose: where there is a row to scan with.
ScanRow == jn.phase = "SavedList" \/ (jn.phase = "Pick" /\ jn.shown = {})

\* join_begin_scan
JoinScan ==
    /\ At("join") /\ Ask("join", Answered)
    /\ ScanRow
    /\ jn' = [Arm(jn, "Stop1", Cmd("stopscan")) EXCEPT !.shown = {}, !.stopped = FALSE,
                                                     !.hunt = "early"]
    /\ li' = Listen("Off")
    /\ UNCHANGED <<slot, up, cap>> /\ keepJoin

\* join_add_another
JoinAdd ==
    /\ At("join") /\ jn.phase = "Joined"
    /\ Ask("join", Answered)
    /\ jn' = [Arm(jn, "Saved", Cmd("wifi")) EXCEPT !.shown = {}, !.cursor = NoRow]
    /\ li' = Listen("Saved")
    /\ UNCHANGED <<slot, up, cap>> /\ keepJoin

\* A row of the list is chosen, also while the sweep goes on.
JoinPick ==
    /\ At("join") /\ jn.phase \in ScanPhase
    /\ \E row \in jn.shown : jn' = [jn EXCEPT !.phase = "Pass", !.cursor = row]
    /\ UNCHANGED <<scene, tally, slot, up, cap, li>> /\ keepJoin

\* The password is given: the list is asked for again.
JoinPass ==
    /\ At("join") /\ jn.phase = "Pass"
    /\ Ask("join", Answered)
    /\ jn' = Arm(jn, "Verify", Cmd("list"))
    /\ li' = Listen("List")
    /\ UNCHANGED <<slot, up, cap>> /\ keepJoin

-----------------------------------------------------------------------------
(* The tick: what ends a join at once, then the command that is due, then  *)
(* the step of the phase.                                                  *)

\* join_fail
Failed(j) == Calm(j, "Fail")

\* Mutant: the network the board names is not looked at.
NeverUsurped == FALSE

Usurped == jn.phase = "Join" /\ li.essid # NoName /\ li.essid # jn.cursor.x

Refused == jn.phase = "Join" /\ (li.receipt = "Fail" \/ jn.aged)

JoinEnds ==
    /\ At("join") /\ (Usurped \/ Refused)
    /\ jn' = Failed(jn) /\ li' = Listen("Off")
    /\ UNCHANGED <<scene, tally, slot, up, cap>> /\ keepJoin

\* join_flush: the tick goes no further while the slot is full.
Flushed == [jn EXCEPT !.need = FALSE, !.pend = NoCmd]

Tick ==
    /\ At("join") /\ jn.phase \notin Still
    /\ ~Usurped /\ ~Refused
    /\ ~jn.need \/ Free
    /\ slot' = IF jn.need THEN jn.pend ELSE slot
    /\ UNCHANGED <<scene, tally>>

StepTo(phase, mode, c) == jn' = Arm(Flushed, phase, c) /\ li' = Listen(mode)

StopSeen == jn.stopped \/ jn.aged

\* join_publish: what was heard replaces what is shown, numbers and all; but
\* for a list with the same fingerprint, of the names and signal strengths.
Published(j) == [j EXCEPT !.shown = li.rows]

SameNames ==
    \A x \in Ssids :
        Cardinality({r \in li.rows : r.x = x}) = Cardinality({r \in jn.shown : r.x = x})

MayPublish(j) == {Published(j)} \cup (IF SameNames THEN {j} ELSE {})

\* join_remember: a network that was joined counts as saved, up to five.
Remembered(j) ==
    [j EXCEPT !.saved = IF Cardinality(@) < 5 THEN @ \cup {j.cursor.x} ELSE @]

\* Mutant: the sweep never ends.
ScanStepForever ==
    \/ /\ jn.phase = "Scan" /\ (li.scan \/ jn.aged)
       /\ StepTo("List1", "List", Cmd("list"))
    \/ /\ jn.phase = "List1" /\ (li.end \/ jn.aged)
       /\ jn' = Calm(Flushed, "Scan") /\ li' = Listen("Off")

\* A scan phase: stop, scan, list again and again until the sweep is over,
\* stop, list.
ScanStep ==
    \/ /\ jn.phase = "Stop1" /\ StopSeen
       /\ jn' = [Arm(Flushed, "Scan", Cmd("scanall")) EXCEPT !.hunt = "early"]
       /\ li' = Listen("Scan")
    \/ /\ jn.phase = "Scan" /\ (li.scan \/ jn.aged)
       /\ StepTo("List1", "List", Cmd("list"))
    \/ /\ jn.phase = "List1" /\ (li.end \/ jn.aged)
       /\ \E seen \in IF jn.hunt # "early" /\ li.rows # {} THEN MayPublish(Flushed)
                       ELSE {Flushed} :
             jn' = IF jn.hunt # "over" THEN Calm(seen, "Scan")
                   ELSE [Arm(seen, "Stop2", Cmd("stopscan")) EXCEPT !.stopped = FALSE]
       /\ li' = Listen("Off")
    \/ /\ jn.phase = "Stop2" /\ StopSeen
       /\ StepTo("List2", "List", Cmd("list"))
    \/ /\ jn.phase = "List2" /\ (li.end \/ jn.aged)
       /\ li' = Listen("Off")
       /\ IF li.rows = {} /\ jn.saved = {}
          THEN jn' = Failed(Flushed)
          ELSE jn' \in MayPublish(Calm(Flushed, "Pick"))

SavedStep ==
    /\ jn.phase = "Saved" /\ (li.savedEnd \/ jn.aged)
    /\ jn' = [Calm(Flushed, "SavedList") EXCEPT !.saved = li.saved]
    /\ li' = Listen("Off")

StopBackStep ==
    /\ jn.phase = "StopBack" /\ StopSeen
    /\ jn' = Calm(Flushed, "SavedList")
    /\ li' = Listen("Off")

\* The second list: the join goes out only if the row is still the network.
VerifyStep ==
    /\ jn.phase = "Verify" /\ (li.end \/ jn.aged)
    /\ IF li.end /\ Matches(jn.cursor)
       THEN /\ jn' = [Arm(Flushed, "Join", CmdOf("join", jn.cursor.n, "-"))
                        EXCEPT !.queued = FALSE, !.sent = FALSE]
            /\ li' = [Listen("Join") EXCEPT !.index = jn.cursor.n]
            /\ cap' = [cap EXCEPT !.armed = TRUE]
       ELSE jn' = Failed(Flushed) /\ li' = Listen("Off") /\ UNCHANGED cap

\* The command behind the join: queued once the join is out, and a receipt
\* is looked at only once it is out too.
CheckStep ==
    /\ jn.phase = "Join" /\ ~jn.sent
    /\ IF ~jn.queued
       THEN /\ jn' = [Flushed EXCEPT !.queued = TRUE, !.need = TRUE, !.pend = Cmd("channel")]
            /\ li' = [li EXCEPT !.expect = TRUE]
       ELSE jn' = [Flushed EXCEPT !.sent = TRUE] /\ UNCHANGED li

JoinedStep ==
    /\ jn.phase = "Join" /\ jn.sent /\ li.receipt = "Joined"
    /\ jn' = Remembered(Calm(Flushed, "Joined"))
    /\ li' = Listen("Off")
    /\ up' = [up EXCEPT !.joined = jn.cursor.x]

StepDue ==
    CASE jn.phase \in {"Stop1", "Stop2", "StopBack"} -> StopSeen
      [] jn.phase = "Scan" -> li.scan \/ jn.aged
      [] jn.phase \in {"List1", "List2", "Verify"} -> li.end \/ jn.aged
      [] jn.phase = "Saved" -> li.savedEnd \/ jn.aged
      [] jn.phase = "Join" -> ~jn.sent \/ li.receipt = "Joined"
      [] OTHER -> FALSE

JoinTick ==
    /\ Tick /\ keepJoin
    /\ \/ (ScanStep \/ SavedStep \/ StopBackStep \/ CheckStep) /\ UNCHANGED <<up, cap>>
       \/ VerifyStep /\ UNCHANGED up
       \/ JoinedStep /\ UNCHANGED cap
       \/ ~StepDue /\ jn.need /\ jn' = Flushed /\ UNCHANGED <<up, cap, li>>

\* Time: the timeout of the phase, and the sweep.
JoinAge ==
    /\ scene.at = "join" /\ jn.phase \notin Still /\ ~jn.aged
    /\ play.prompt => Quiet
    /\ jn' = [jn EXCEPT !.aged = TRUE]
    /\ UNCHANGED <<scene, tally, slot, up, cap, li>> /\ keepJoin

JoinHunt ==
    /\ scene.at = "join" /\ jn.phase \in {"Scan", "List1"} /\ jn.hunt # "over"
    /\ jn' = [jn EXCEPT !.hunt = IF @ = "early" THEN "show" ELSE "over"]
    /\ UNCHANGED <<scene, tally, slot, up, cap, li>> /\ keepJoin

-----------------------------------------------------------------------------
(* The board.                                                              *)

\* Lines in any order: the listener keeps them as a set.
AnyOrder(lines) == SetToSeqs(lines)

ReadWifi ==
    /\ IF model.fw = "lite"
       THEN \E rows \in AnyOrder({LineOf("wifiRow", 0, s) : s \in radio.profiles}) :
              Say(rows \o <<Line("wifiEnd")>>)
       ELSE UNCHANGED rx
    /\ UNCHANGED radio

ReadStop ==
    /\ Say(<<Line("stopped")>>)
    /\ radio' = [radio EXCEPT !.scanning = FALSE]

\* scanall starts an empty list; what it hears arrives later.
ReadScanAll ==
    /\ Say(<<Line("scanBanner")>>)
    /\ radio' = [radio EXCEPT !.scanning = TRUE, !.aps = {}]

\* What the list may be by the time the board is asked: a scan adds to it,
\* and the board's own menu may replace it.
Grown == {rows \in SUBSET Row : Table(rows) /\ radio.aps \subseteq rows}

Tables ==
    {radio.aps} \cup (IF radio.scanning THEN Grown ELSE {})
                \cup (IF play.changes > 0 THEN {rows \in SUBSET Row : Table(rows)} ELSE {})

Replaced(rows) == rows # radio.aps /\ ~(radio.scanning /\ rows \in Grown)

\* list -a
ReadList ==
    \E rows \in Tables :
      /\ \E aps \in AnyOrder({LineOf("ap", r.n, r.x) : r \in rows}) :
           Say(<<Line("listEcho")>> \o aps \o <<Line("listEnd")>>)
      /\ radio' = [radio EXCEPT !.aps = rows]
      /\ play' = IF Replaced(rows) THEN [play EXCEPT !.changes = @ - 1] ELSE play

\* join -a i -p: the network that is at i by then, connected or not.
ReadJoin(i) ==
    \E rows \in Tables, connects \in BOOLEAN :
      LET at == {r.x : r \in {r \in rows : r.n = i}}
      IN  /\ connects => at # {}
          /\ \E using \in AnyOrder({LineOf("using", 0, x) : x \in at}) :
               Say(<<LineOf("joinEcho", i, "-")>> \o using
                   \o (IF connects THEN <<>> ELSE <<Line("joinFail")>>))
          /\ radio' = [radio EXCEPT
                         !.aps = rows,
                         !.on = IF connects THEN CHOOSE x \in at : TRUE ELSE NoName,
                         !.profiles = IF connects THEN @ \cup at ELSE @]
          /\ play' = IF Replaced(rows) THEN [play EXCEPT !.changes = @ - 1] ELSE play
=============================================================================
