------------------------------ MODULE Upload -------------------------------
(***************************************************************************)
(* Direct upload from a stock board: the Upload screen                     *)
(* (scenes/scene_upload.c), the flight it starts and classifies from the   *)
(* lines of the board (src/sr_marauder_upload.c), the listing of the card  *)
(* on its help page and the result it keeps for a Lite board.              *)
(* There is no timer in a flight: it ends on a line of the board.          *)
(* Definitions marked "Mutant" are faults put in on purpose.               *)
(***************************************************************************)
EXTENDS PanelLink, MauLogs

CONSTANTS
    Ssids,       \* names of networks
    Causes       \* reasons the board may give for a file that fails

VARIABLES
    up,          \* g_mau, g_joined and g_key_seen of sr_marauder_upload.c
    pg,          \* the Upload screen
    cap,         \* sr_uart_cap: armed or not, and the screen's part in it
    logs,        \* g_logs of sr_mau_logs.c
    board        \* the board

uploadVars == <<up, pg, cap, logs>>

NoName == "-"

Why == {"route", "reply", "ram", "file"}

FailFace == {"NoRoute", "NoReply", "NoRam", "NoFile", "Rejected"}

Face == {"Idle", "Sending", "NoWifi", "NoReach", "NoKey", "Unsupported",
         "NoLogs", "Sent", "Already", "NoOk"} \cup FailFace

\* How an upload of one file really went.
Outcome == {"-", "sent", "skipped", "failed", "silent"}

Flight == [face : Face,
           flight : BOOLEAN,        \* in_flight
           walked : BOOLEAN,        \* saw_uploading
           ok : BOOLEAN,            \* saw_ok
           succeeded : BOOLEAN,     \* saw_succeeded
           skip : BOOLEAN,          \* saw_skip
           fail : BOOLEAN,          \* saw_fail
           why : SUBSET Why,        \* fail_route, fail_reply, fail_ram, fail_file
           open : BOOLEAN,          \* file_open, and of that file:
           fileOk : BOOLEAN,        \*   file_ok
           fileFail : BOOLEAN,      \*   file_fail
           nOk : Nat,
           nFail : Nat,
           name : LogNames \cup {NoName},
           failName : LogNames \cup {NoName},
           wifiOk : BOOLEAN,
           wifiJoined : BOOLEAN,
           joined : Ssids \cup {NoName},
           done : [LogNames -> Outcome]]    \* history: how the files went

Page == [page : {"Result", "Help"},
         block : {"None", "Scan", "Upload", "Join", "Busy"},
         retry : BOOLEAN,           \* upload_go_retry
         flew : BOOLEAN,            \* s_lite_flew
         stored : BOOLEAN,          \* s_lite_stored
         refresh : BOOLEAN,         \* s_lite_refresh
         last : {"None", "Bad", "Ok"},      \* s_last_st
         file : {"None", "Bad", "Ok"}]      \* last_upload.txt

Capture == [armed : BOOLEAN,        \* sr_uart_cap_armed
            sent : BOOLEAN,         \* s_cap_sent
            ending : BOOLEAN,       \* s_cap_ending
            out : BOOLEAN]          \* its 3000 ms are over

UploadTypeOK ==
    /\ up \in Flight
    /\ pg \in Page
    /\ cap \in Capture
    /\ logs \in LogRecord
    /\ Len(logs.slots) <= LogSlots /\ Cardinality(logs.side) <= LogSlots

\* The card and the upload the board is busy with.
Entry == [k : {"log", "side"}, n : {0}, x : LogNames]

UploadBoard == [job : {"idle", "upload", "noKey"},
                left : Seq(LogNames),    \* files still to walk
                dir : Seq(Entry)]        \* the card: logs and their sidecars

\* A card holds logs and sidecars, none of them twice, a file fails for one of
\* the reasons the board has a line for, and no log has the empty name.
ASSUME UploadAssumption ==
    /\ NoName \notin LogNames
    /\ \A p \in Plays : /\ p.card \in Seq(Entry)
                        /\ \A i, j \in DOMAIN p.card : p.card[i] = p.card[j] => i = j
    /\ Causes \subseteq {"noConnect", "noReply", "noBuffer", "noFile"}

UploadInit ==
    /\ up = [face |-> "Idle", flight |-> FALSE, walked |-> FALSE, ok |-> FALSE,
             succeeded |-> FALSE, skip |-> FALSE, fail |-> FALSE, why |-> {},
             open |-> FALSE, fileOk |-> FALSE, fileFail |-> FALSE, nOk |-> 0,
             nFail |-> 0, name |-> NoName, failName |-> NoName,
             wifiOk |-> FALSE, wifiJoined |-> FALSE, joined |-> NoName,
             done |-> [f \in LogNames |-> "-"]]
    /\ pg = [page |-> "Result", block |-> "None", retry |-> FALSE, flew |-> FALSE,
             stored |-> FALSE, refresh |-> FALSE, last |-> "None", file |-> "None"]
    /\ cap = [armed |-> FALSE, sent |-> FALSE, ending |-> FALSE, out |-> FALSE]
    /\ logs = LogsReset
    /\ board \in [job : {"idle"}, left : {<<>>}, dir : {play.card}]

-----------------------------------------------------------------------------
(* src/sr_marauder_upload.c                                                *)

\* mau_clear_flight: what the screen joined is kept.
ClearFlight(u) ==
    [u EXCEPT !.face = "Idle", !.flight = FALSE, !.walked = FALSE, !.ok = FALSE,
              !.succeeded = FALSE, !.skip = FALSE, !.fail = FALSE, !.why = {},
              !.open = FALSE, !.fileOk = FALSE, !.fileFail = FALSE, !.nOk = 0,
              !.nFail = 0, !.name = NoName, !.failName = NoName,
              !.wifiOk = FALSE, !.wifiJoined = FALSE,
              !.done = [f \in LogNames |-> "-"]]

\* sr_mau_up_on_send
OnSend(u) == [ClearFlight(u) EXCEPT !.flight = TRUE, !.face = "Sending"]

\* mau_close_file: a file is counted when the next one opens or the flight
\* ends, and as failed if any attempt of it still stands as failed.
CloseFile(u) ==
    IF ~u.open THEN u
    ELSE [u EXCEPT !.nFail = IF u.fileFail THEN @ + 1 ELSE @,
                   !.nOk = IF ~u.fileFail /\ u.fileOk THEN @ + 1 ELSE @,
                   !.open = FALSE, !.fileOk = FALSE, !.fileFail = FALSE]

\* Mutant: an upload that works makes up for the files that failed before.
KeepOkForgets(u) ==
    [u EXCEPT !.fileOk = TRUE, !.fileFail = FALSE, !.fail = FALSE,
              !.why = {}, !.failName = NoName]

\* mau_keep_ok: forgets the failed attempts only while no file has failed.
KeepOk(u) ==
    IF u.nFail = 0
    THEN [u EXCEPT !.fileOk = TRUE, !.fileFail = FALSE, !.fail = FALSE,
                   !.why = {}, !.failName = NoName]
    ELSE [u EXCEPT !.fileOk = TRUE]

\* mau_keep_fail: the first failed file gives its name.
KeepFail(u) ==
    [u EXCEPT !.fileFail = TRUE, !.fail = TRUE,
              !.failName = IF @ = NoName THEN u.name ELSE @]

\* mau_end
EndFlight(u, face) == [CloseFile(u) EXCEPT !.flight = FALSE, !.face = face]

\* mau_finish_complete: what a flight that ran to its end is called.
Verdict(u) ==
    CASE ~u.walked -> "NoLogs"
      [] u.walked /\ u.fail ->
           CASE "route" \in u.why -> "NoRoute"
             [] "route" \notin u.why /\ "reply" \in u.why -> "NoReply"
             [] u.why \cap {"route", "reply"} = {} /\ "ram" \in u.why -> "NoRam"
             [] u.why = {"file"} -> "NoFile"
             [] OTHER -> "Rejected"
      [] u.walked /\ ~u.fail ->
           CASE u.succeeded \/ (u.ok /\ ~u.skip) -> "Sent"
             [] ~u.succeeded /\ u.ok /\ u.skip -> "Already"
             [] OTHER -> "NoOk"

\* The lines that end a flight before its walk is done.
EarlyEnd == [noCreds |-> "NoWifi", unreached |-> "NoReach",
             noKey |-> "NoKey", unsupported |-> "Unsupported"]

\* The lines that say why a file fails; noReply alone does not fail it.
Cause == [noConnect |-> "route", noReply |-> "reply", noBuffer |-> "ram", noFile |-> "file"]

\* sr_mau_up_feed
UpFeed(u, line) ==
    CASE ~u.flight -> u
      [] u.flight /\ line.k \in DOMAIN EarlyEnd -> EndFlight(u, EarlyEnd[line.k])
      [] u.flight /\ line.k = "connected" ->
           [u EXCEPT !.wifiOk = TRUE,
                     !.wifiJoined = u.joined # NoName /\ u.joined = line.x]
      [] u.flight /\ line.k = "uploading" ->
           [CloseFile(u) EXCEPT !.walked = TRUE, !.open = TRUE, !.name = line.x,
                                !.face = "Sending"]
      [] u.flight /\ line.k = "skipped" -> [u EXCEPT !.skip = TRUE]
      [] u.flight /\ line.k = "uploadOk" -> KeepOk([u EXCEPT !.ok = TRUE])
      [] u.flight /\ line.k = "succeeded" ->
           KeepOk([u EXCEPT !.ok = TRUE, !.succeeded = TRUE])
      [] u.flight /\ line.k = "noReply" -> [u EXCEPT !.why = @ \cup {"reply"}]
      [] u.flight /\ line.k \in DOMAIN Cause \ {"noReply"} ->
           KeepFail([u EXCEPT !.why = @ \cup {Cause[line.k]}])
      [] u.flight /\ line.k = "failed" -> KeepFail(u)
      [] u.flight /\ line.k = "complete" ->
           LET done == CloseFile(u)
           IN  [done EXCEPT !.flight = FALSE, !.face = Verdict(done)]
      [] OTHER -> u

\* sr_mau_allow_go
AllowGo(session, flight) == ~flight /\ session \in {"Idle", "Stopped"}

\* sr_mau_up_tally
TallyReady(u) == ~u.flight /\ u.face \notin {"Idle", "Sending"}

-----------------------------------------------------------------------------
(* scenes/scene_upload.c                                                   *)

Lite == model.fw = "lite"

\* Nothing is on its way, the board is not busy with an upload and no listing
\* waits for its end.
Answered == Quiet /\ board.job = "idle" /\ ~logs.armed

\* upload_load_last: a peer of another kind has no such file.
LastShown == IF Lite THEN pg.file ELSE pg.last

\* Mutant: a flight still in the air is forgotten too.
UploadEnteredReset ==
    /\ up' = ClearFlight(up)
    /\ logs' = LogsReset
    /\ pg' = [pg EXCEPT !.page = "Result", !.block = "None", !.retry = FALSE,
                        !.flew = up.flight, !.stored = FALSE, !.refresh = FALSE,
                        !.last = LastShown]
    /\ IF Lite /\ ~up.flight THEN Send(Cmd("sigroam")) ELSE UNCHANGED slot

\* The Upload screen opens, from the menu or when the screen above it is
\* left: a flight that is over by then is forgotten.
UploadEntered ==
    /\ up' = IF up.flight THEN up ELSE ClearFlight(up)
    /\ logs' = LogsReset
    /\ pg' = [pg EXCEPT !.page = "Result", !.block = "None", !.retry = FALSE,
                        !.flew = up.flight, !.stored = FALSE, !.refresh = FALSE,
                        !.last = LastShown]
    /\ IF Lite /\ ~up.flight THEN Send(Cmd("sigroam")) ELSE UNCHANGED slot

EnterUpload ==
    /\ At("menu") /\ play.open \cap {"upload", "join"} # {}
    /\ IF Lite /\ ~up.flight THEN Ask("upload", TRUE) ELSE Goto("upload") /\ UNCHANGED tally
    /\ UploadEntered
    /\ UNCHANGED <<tx, rx, model, cap, board>>

\* Back: from the help page to the result, from there to the menu.
UploadBack ==
    /\ At("upload")
    /\ IF pg.page = "Help"
       THEN /\ pg' = [pg EXCEPT !.page = "Result", !.block = "None"]
            /\ UNCHANGED <<scene, logs>>
       ELSE /\ Goto("menu")
            /\ logs' = LogsReset
            /\ pg' = [pg EXCEPT !.block = "None"]
    /\ UNCHANGED <<link, model, tally, up, cap, board>>

UploadHelp ==
    /\ At("upload") /\ pg.page = "Result" /\ "upload" \in play.open
    /\ pg' = [pg EXCEPT !.page = "Help", !.block = "None"]
    /\ UNCHANGED <<link, scene, model, tally, up, cap, logs, board>>

\* The Logs key of the help page.
UploadLogs(joinBusy) ==
    /\ At("upload") /\ pg.page = "Help" /\ ~logs.armed
    /\ Ask("upload", Answered)
    /\ LET block(b) == pg' = [pg EXCEPT !.block = b]
       IN  IF ~LogsAllow(model.session, up.flight, joinBusy)
           THEN /\ block(CASE model.session = "Running" -> "Scan"
                           [] model.session # "Running" /\ up.flight -> "Upload"
                           [] OTHER -> "Join")
                /\ UNCHANGED <<slot, logs>>
           ELSE /\ Send(Cmd("ls"))
                /\ logs' = IF Free THEN LogsArm ELSE LogsReset
                /\ block(IF Free THEN "None" ELSE "Busy")
    /\ UNCHANGED <<tx, rx, model, up, cap, board>>

CapBegin == cap' = [armed |-> TRUE, sent |-> TRUE, ending |-> FALSE, out |-> FALSE]

\* An allowed upload command is tried; a full slot leaves it to the tick.
TryGo ==
    /\ Send(Cmd("upload"))
    /\ pg' = [pg EXCEPT !.retry = ~Free]
    /\ IF Free THEN CapBegin /\ up' = OnSend(up) ELSE UNCHANGED <<cap, up>>

\* The Upload key.
UploadGo ==
    /\ At("upload") /\ pg.page = "Result" /\ "upload" \in play.open
    /\ Ask("upload", Answered)
    /\ IF AllowGo(model.session, up.flight)
       THEN TryGo
       ELSE /\ pg' = [pg EXCEPT !.retry = FALSE]
            /\ UNCHANGED <<slot, cap, up>>
    /\ UNCHANGED <<tx, rx, model, logs, board>>

\* The result of a flight is written to the card of the app, over the old
\* one: the write may fail and leave nothing that can be read, or be refused.
StoreDue == Lite /\ ~up.flight /\ pg.flew /\ ~pg.stored /\ TallyReady(up)
RefreshDue == Lite /\ ~up.flight /\ pg.flew /\ ~pg.refresh /\ Free
FlewDue == Lite /\ up.flight /\ ~(pg.flew /\ ~pg.stored /\ ~pg.refresh)
BarrierDue == LogsBarrierDue(logs) /\ Free

\* The tick, up to the barrier of the listing: at most one command.
UploadTickFirst ==
    /\ At("upload")
    /\ FlewDue \/ StoreDue \/ RefreshDue \/ BarrierDue
    /\ \E wrote \in {"Ok", "Bad", "refused"} :
         /\ StoreDue \/ wrote = "Ok"
         /\ pg' = [pg EXCEPT
               !.flew = @ \/ FlewDue,
               !.stored = (@ /\ ~FlewDue) \/ StoreDue,
               !.refresh = (@ /\ ~FlewDue) \/ RefreshDue,
               !.last = IF ~StoreDue THEN @ ELSE IF wrote = "Ok" THEN "Ok" ELSE "Bad",
               !.file = IF StoreDue /\ wrote # "refused" THEN wrote ELSE @]
    /\ CASE RefreshDue -> Send(Cmd("sigroam")) /\ UNCHANGED logs
         [] ~RefreshDue /\ BarrierDue -> Send(Cmd("channel")) /\ logs' = LogsBarrierSent(logs)
         [] OTHER -> UNCHANGED <<slot, logs>>
    /\ scene' = [scene EXCEPT !.half = pg.retry /\ ~RefreshDue]
    /\ UNCHANGED <<tx, rx, model, tally, up, cap, board>>

\* The end of a capture: a mark when the flight is over, disarmed 3000 ms
\* after it.
CapMark ==
    /\ At("upload") /\ cap.sent /\ cap.armed /\ ~up.flight /\ ~cap.ending
    /\ cap' = [cap EXCEPT !.ending = TRUE]
    /\ UNCHANGED <<link, scene, model, tally, up, pg, logs, board>>

CapDisarm ==
    /\ At("upload") /\ cap.sent /\ cap.armed /\ ~up.flight /\ cap.ending /\ cap.out
    /\ cap' = [armed |-> FALSE, sent |-> FALSE, ending |-> FALSE, out |-> FALSE]
    /\ UNCHANGED <<link, scene, model, tally, up, pg, logs, board>>

CapTime ==
    /\ cap.ending /\ ~cap.out
    /\ cap' = [cap EXCEPT !.out = TRUE]
    /\ UNCHANGED <<link, scene, model, tally, up, pg, logs, board>>

\* The rest of the tick: the upload a full slot put off.
UploadTickRetry ==
    /\ scene.at = "upload" /\ pg.retry
    /\ scene.half \/ ~(FlewDue \/ StoreDue \/ RefreshDue \/ BarrierDue)
    /\ scene' = [scene EXCEPT !.half = FALSE]
    /\ IF AllowGo(model.session, up.flight)
       THEN TryGo
       ELSE /\ pg' = [pg EXCEPT !.retry = FALSE]
            /\ UNCHANGED <<slot, cap, up>>
    /\ UNCHANGED <<tx, rx, model, tally, logs, board>>

-----------------------------------------------------------------------------
(* The board.  An upload walks the logs of the card, in its order.         *)

Say(lines) == rx' = rx \o lines

\* The entries of a directory that are in a set, in its order.
Among(s, set) ==
    LET kept[i \in 0..Len(s)] ==
          IF i = 0 THEN <<>>
          ELSE IF s[i] \in set THEN Append(kept[i - 1], s[i]) ELSE kept[i - 1]
    IN  kept[Len(s)]

Files == LET logsOf == Among(board.dir, [k : {"log"}, n : {0}, x : LogNames])
         IN  [i \in DOMAIN logsOf |-> logsOf[i].x]

Sidecar(f) == LineOf("side", 0, f)

HasSidecar(f) == \E i \in DOMAIN board.dir : board.dir[i] = Sidecar(f)

ReadUpload ==
    /\ \/ /\ \E bad \in {<<Line("noCreds")>>, <<Line("unsupported")>>,
                          <<Line("unreached"), Line("unreached")>>} : Say(bad)
          /\ UNCHANGED board
       \/ /\ \E s \in Ssids : Say(<<LineOf("connected", 0, s)>>)
          /\ \E job \in {"upload", "noKey"} :
               board' = [board EXCEPT !.job = job, !.left = Files]

\* What the board prints of one file, by how it went.
FileLines ==
    [sent |-> {<<Line("succeeded"), Line("uploadOk")>>,
               <<Line("failed"), Line("succeeded"), Line("uploadOk")>>,
               <<Line("noReply"), Line("succeeded"), Line("uploadOk")>>},
     skipped |-> {<<Line("skipped"), Line("uploadOk")>>},
     failed |-> {<<Line("failed")>>} \cup {<<Line(why), Line("failed")>> : why \in Causes},
     silent |-> {<< >>}]

UploadFile ==
    /\ board.job = "upload" /\ rx = <<>> /\ board.left # <<>>
    /\ LET f == Head(board.left)
       IN  \E how \in DOMAIN FileLines :
             /\ (how = "skipped") = HasSidecar(f)
             /\ \E lines \in FileLines[how] : Say(<<LineOf("uploading", 0, f)>> \o lines)
             /\ board' = [board EXCEPT !.left = Tail(@),
                                       !.dir = IF how = "sent" THEN Append(@, Sidecar(f)) ELSE @]
             /\ up' = [up EXCEPT !.done[f] = how]
    /\ UNCHANGED <<scene, slot, tx, model, tally, pg, cap, logs>>

UploadNoKey ==
    /\ board.job = "noKey" /\ rx = <<>> /\ board.left # <<>>
    /\ Say(<<LineOf("uploading", 0, Head(board.left)), Line("noKey"), Line("failed")>>)
    /\ board' = [board EXCEPT !.left = Tail(@)]
    /\ UNCHANGED <<scene, slot, tx, model, tally, uploadVars>>

UploadComplete ==
    /\ board.job # "idle" /\ rx = <<>> /\ board.left = <<>>
    /\ Say(<<Line("complete")>>)
    /\ board' = [board EXCEPT !.job = "idle"]
    /\ UNCHANGED <<scene, slot, tx, model, tally, uploadVars>>

\* ls /: the echo, then the card.
ReadLs ==
    /\ \/ Say(<<Line("lsEcho"), Line("noMount")>>)
       \/ Say(<<Line("lsEcho")>> \o board.dir)
    /\ UNCHANGED board

ReadChannel == Say(<<Line("chEcho")>>) /\ UNCHANGED board
=============================================================================
