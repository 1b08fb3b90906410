-------------------------------- MODULE Tools -------------------------------
(***************************************************************************)
(* The Board tools screen for a Lite board (scenes/scene_tools.c) and the  *)
(* listener it arms (src/sr_board_tools.c): the list of SSIDs the board    *)
(* leaves out of its log, the logs on its card, the size it splits them    *)
(* at.  The list has no last line either: `channel` is sent behind it and  *)
(* its echo closes the list.  Entries are removed by the number the board  *)
(* printed, and a removal renumbers the ones behind it.                    *)
(* Definitions marked "Mutant" are faults put in on purpose.               *)
(***************************************************************************)
EXTENDS Join

CONSTANTS
    IgnoreMax,   \* SR_BT_LIST_MAX: entries of the list
    Sizes        \* sizes a log may be split at

VARIABLES
    tl,          \* the Board tools screen
    bt,          \* g_bt of sr_board_tools.c
    keep         \* the board: the list, the size and its own scan

ASSUME ToolsAssumption ==
    /\ IgnoreMax \in Nat \ {0}
    /\ \A p \in Plays : p.ign \in Seq(Ssids) /\ Len(p.ign) <= IgnoreMax

ToolPage == {"Peer", "Gate", "Menu", "Ignore", "Logs", "Split", "Ask", "Note", "Add"}

Wait == {"None", "List", "Ls", "Added", "Removed", "Cleared", "File", "Files", "Split"}

Item == [n : 1..IgnoreMax, x : Ssids]
NoItem == [n |-> 0, x |-> NoName]

ToolWord == {"none", "ignList", "ignAdd", "ignRm", "ignClear", "ls", "rm", "rmAll",
             "split", "channel"}

ToolScreen ==
    [page : ToolPage,
     reading : BOOLEAN,          \* "Reading..." is shown over the page
     back : ToolPage,            \* where OK leads from a note
     ask : {"No", "Rm", "Clear", "Log", "All"},
     del : {"Idle", "One", "All1", "All2"},
     ripe : BOOLEAN,             \* 1000 ms since All2 was opened
     wait : Wait,
     listing : BOOLEAN,
     cmd : [c : ToolWord, n : Nat, x : Ssids \cup LogNames \cup Sizes \cup {"-"}],
     tag : {"Plain", "IgnBar", "LsBar"},
     rm : Item \cup {NoItem},    \* s_rm_ord, s_rm_ssid
     file : LogNames \cup {NoName},
     size : Sizes \cup {"unknown"}]

Reply == {"none", "added", "addFail", "removed", "badIndex", "cleared", "file", "files",
          "rmFail", "sd", "busy", "splitBad"}

Listening == [listen : {"Off", "List", "Reply"},
              echo : BOOLEAN,
              due : BOOLEAN,            \* barrier_due
              barrier : BOOLEAN,        \* barrier_sent
              closed : BOOLEAN,
              busy : BOOLEAN,
              items : Seq(Item),
              kind : Reply,             \* reply_kind
              news : BOOLEAN,           \* reply_seq has moved on since it was looked at
              size : Sizes \cup {"unknown"},
              sized : BOOLEAN]          \* split_seq has moved on

ToolsTypeOK ==
    /\ tl \in ToolScreen
    /\ bt \in Listening
    /\ Len(bt.items) <= IgnoreMax
    /\ keep \in [ign : Seq(Ssids), size : Sizes, ward : BOOLEAN]

\* sr_bt_reset
BtReset == [listen |-> "Off", echo |-> FALSE, due |-> FALSE, barrier |-> FALSE,
            closed |-> FALSE, busy |-> FALSE, items |-> <<>>, kind |-> "none",
            news |-> FALSE, size |-> "unknown", sized |-> FALSE]

ToolsFresh ==
    [page |-> "Menu", reading |-> FALSE, back |-> "Menu", ask |-> "No", del |-> "Idle",
     ripe |-> FALSE, wait |-> "None", listing |-> FALSE, cmd |-> NoCmd, tag |-> "Plain",
     rm |-> NoItem, file |-> NoName, size |-> "unknown"]

ToolsInit ==
    /\ tl = ToolsFresh
    /\ bt = BtReset
    /\ keep \in [ign : {play.ign}, size : Sizes, ward : {FALSE}]

-----------------------------------------------------------------------------
(* src/sr_board_tools.c                                                    *)

\* sr_bt_arm_list: the items heard before go, the reply stays.
BtArmList ==
    [bt EXCEPT !.listen = "List", !.echo = FALSE, !.due = FALSE, !.barrier = FALSE,
               !.closed = FALSE, !.busy = FALSE, !.items = <<>>]

\* sr_bt_arm_reply, and the marks of what was seen.
BtArmReply ==
    [bt EXCEPT !.listen = "Reply", !.echo = FALSE, !.due = FALSE, !.barrier = FALSE,
               !.closed = FALSE, !.news = FALSE, !.sized = FALSE]

\* sr_bt_ignore_barrier_due
IgnoreBarrierDue ==
    bt.listen = "List" /\ bt.due /\ ~bt.barrier /\ ~bt.closed /\ ~bt.busy

Noted(kind) == [bt EXCEPT !.kind = kind, !.news = TRUE]

BtListFeed(line) ==
    CASE ~bt.echo ->
           IF line.k = "ignEcho" THEN [bt EXCEPT !.echo = TRUE, !.due = TRUE] ELSE bt
      [] bt.echo /\ line.k = "busy" ->
           [Noted("busy") EXCEPT !.busy = TRUE, !.closed = TRUE]
      [] bt.echo /\ line.k = "chEcho" /\ bt.barrier -> [bt EXCEPT !.closed = TRUE]
      [] bt.echo /\ line.k = "ignItem" /\ Len(bt.items) < IgnoreMax ->
           [bt EXCEPT !.items = Append(@, [n |-> line.n, x |-> line.x])]
      [] OTHER -> bt

\* bt_classify
BtReplyFeed(line) ==
    IF line.k = "splitIs"
    THEN [bt EXCEPT !.size = line.x, !.sized = TRUE]
    ELSE IF line.k \in Reply \ {"none"} THEN Noted(line.k) ELSE bt

\* sr_bt_feed
BtFeed(line) ==
    CASE bt.listen = "List" /\ ~bt.closed -> BtListFeed(line)
      [] bt.listen = "Reply" -> BtReplyFeed(line)
      [] OTHER -> bt

\* sr_bt_del_on_key: what the confirmation becomes, and what it does.
DelKey(key, blocked) ==
    CASE tl.del = "Idle" -> [del |-> "Idle", act |-> "None"]
      [] tl.del # "Idle" /\ key \in {"Back", "Left"} -> [del |-> "Idle", act |-> "Cancel"]
      [] tl.del = "One" /\ key = "Center" /\ ~blocked -> [del |-> "Idle", act |-> "SendOne"]
      [] tl.del = "All1" /\ key = "Center" /\ ~blocked -> [del |-> "All2", act |-> "Next"]
      [] tl.del = "All2" /\ key = "Right" /\ ~blocked /\ tl.ripe ->
           [del |-> "Idle", act |-> "SendAll"]
      [] OTHER -> [del |-> tl.del, act |-> "None"]

\* sr_bt_gate
Gate ==
    CASE model.session = "Running" -> "Scan"
      [] model.session # "Running" /\ up.flight -> "Upload"
      [] model.session # "Running" /\ ~up.flight /\ JoinBusy -> "Join"
      [] OTHER -> "Ok"

-----------------------------------------------------------------------------
(* scenes/scene_tools.c: the pages, and what is asked of the board.        *)

toolsRest == <<tx, rx, model, up, pg, cap, board, joinVars, radio, keep>>

\* tools_stop_tx
StopTx(t) == [t EXCEPT !.cmd = NoCmd, !.wait = "None", !.listing = FALSE]

Show(t, page) == [t EXCEPT !.page = page, !.reading = FALSE]

\* tools_show_gate: everything asked is dropped.
ShowGate ==
    /\ tl' = Show(StopTx(tl), "Gate")
    /\ bt' = BtReset
    /\ logs' = LogsReset

ShowNote(t, back) == [Show(t, "Note") EXCEPT !.wait = "None", !.back = back]

\* tools_begin: one command is kept for the tick; with one waiting already
\* nothing is asked.
Begun(t, c, wait) ==
    IF tl.cmd = NoCmd
    THEN [t EXCEPT !.cmd = c, !.tag = "Plain", !.reading = TRUE, !.wait = wait]
    ELSE [t EXCEPT !.wait = "None"]

\* Mutant: the list is not asked for again, the old one is shown.
StartListNot(t) ==
    IF t.page = "Menu" THEN /\ bt' = [BtArmList EXCEPT !.news = FALSE, !.sized = FALSE]
                            /\ tl' = [Begun(t, Cmd("ignList"), "List") EXCEPT !.listing = FALSE]
                            /\ UNCHANGED logs
    ELSE tl' = [Show(t, "Ignore") EXCEPT !.wait = "None"] /\ UNCHANGED <<bt, logs>>

\* tools_start_list
StartList(t) ==
    IF Gate # "Ok" THEN ShowGate
    ELSE /\ bt' = [BtArmList EXCEPT !.news = FALSE]
         /\ tl' = [Begun(t, Cmd("ignList"), "List") EXCEPT !.listing = FALSE]
         /\ UNCHANGED logs

\* tools_start_ls
StartLs(t) ==
    IF Gate # "Ok" THEN ShowGate
    ELSE /\ bt' = BtArmReply
         /\ logs' = LogsArm
         /\ tl' = [Begun(t, Cmd("ls"), "Ls") EXCEPT !.listing = tl.cmd = NoCmd]

\* tools_start_reply
StartReply(t, c, wait) ==
    IF Gate # "Ok" THEN ShowGate
    ELSE bt' = BtArmReply /\ tl' = Begun(t, c, wait) /\ UNCHANGED logs

-----------------------------------------------------------------------------
(* The user.  Nothing else is on its way for a user who waits.             *)

NoneAwaited == Answered /\ tl.wait = "None" /\ tl.cmd = NoCmd

Choosing(page) == At("tools") /\ tl.page = page /\ ~tl.reading

\* sigroam_scene_tools_on_enter
EnterTools ==
    /\ At("menu") /\ "tools" \in play.open
    /\ Goto("tools")
    /\ bt' = BtReset
    /\ tl' = CASE model.fw # "lite" -> [ToolsFresh EXCEPT !.page = "Peer"]
               [] model.fw = "lite" /\ Gate # "Ok" -> [ToolsFresh EXCEPT !.page = "Gate"]
               [] OTHER -> ToolsFresh
    /\ logs' = IF model.fw = "lite" /\ Gate # "Ok" THEN LogsReset ELSE logs
    /\ UNCHANGED <<slot, tally, toolsRest>>

\* The items of the menu.
ToolsList ==
    /\ Choosing("Menu") /\ Ask("tools", NoneAwaited)
    /\ StartList(tl)
    /\ UNCHANGED <<slot, toolsRest>>

ToolsLogs ==
    /\ Choosing("Menu") /\ Ask("tools", NoneAwaited)
    /\ StartLs(tl)
    /\ UNCHANGED <<slot, toolsRest>>

\* A name for the list is typed, or the home network is taken.
ToolsOpenAdd ==
    /\ Choosing("Ignore")
    /\ tl' = IF Len(bt.items) >= IgnoreMax THEN ShowNote(tl, "Ignore") ELSE Show(tl, "Add")
    /\ UNCHANGED <<scene, tally, slot, bt, logs, toolsRest>>

ToolsAdd ==
    /\ Choosing("Add") \/ Choosing("Ignore")
    /\ Ask("tools", NoneAwaited)
    /\ \E x \in Ssids :
         /\ tl.page = "Ignore" => x \notin {bt.items[i].x : i \in DOMAIN bt.items}
         /\ StartReply(tl, CmdOf("ignAdd", 0, x), "Added")
    /\ UNCHANGED <<slot, toolsRest>>

\* What is confirmed on a page of its own.
ToolsConfirm ==
    /\ \/ /\ Choosing("Ignore")
          /\ \E i \in DOMAIN bt.items :
               tl' = [Show(tl, "Ask") EXCEPT !.ask = "Rm", !.del = "One", !.rm = bt.items[i]]
       \/ /\ Choosing("Ignore") /\ bt.items # <<>>
          /\ tl' = [Show(tl, "Ask") EXCEPT !.ask = "Clear", !.del = "One"]
       \/ /\ Choosing("Logs")
          /\ \E f \in LogsShown(logs) :
               tl' = [Show(tl, "Ask") EXCEPT !.ask = "Log", !.del = "One", !.file = f]
       \/ /\ Choosing("Logs") /\ logs.matches > 0
          /\ tl' = [Show(tl, "Ask") EXCEPT !.ask = "All", !.del = "All1", !.ripe = FALSE]
    /\ UNCHANGED <<scene, tally, slot, bt, logs, toolsRest>>

\* tools_on_send
Confirmed(t) ==
    CASE t.ask = "Rm" -> StartReply(t, CmdOf("ignRm", t.rm.n, t.rm.x), "Removed")
      [] t.ask = "Clear" -> StartReply(t, Cmd("ignClear"), "Cleared")
      [] t.ask = "Log" -> StartReply(t, CmdOf("rm", 0, t.file), "File")
      [] t.ask = "All" -> StartReply(t, Cmd("rmAll"), "Files")

\* tools_back_list, from another page than a note.
BackList(t) ==
    Show(t, IF t.ask \in {"Log", "All"} \/ t.page = "Logs" THEN "Logs"
            ELSE IF t.page = "Split" THEN "Split" ELSE "Ignore")

\* A button of the page that asks: tools_on_button.
ToolsSend ==
    /\ Choosing("Ask")
    /\ Ask("tools", NoneAwaited)
    /\ \E key \in {"Center", "Right"} :
         LET done == DelKey(key, Gate # "Ok")
         IN  /\ done.act \in {"SendOne", "SendAll"}
             /\ Confirmed([tl EXCEPT !.del = done.del])
    /\ UNCHANGED <<slot, toolsRest>>

ToolsButton ==
    /\ Choosing("Ask")
    /\ \E key \in {"Left", "Center", "Right"} :
         LET done == DelKey(key, Gate # "Ok")
         IN  \/ /\ done.act = "Cancel"
                /\ tl' = BackList([tl EXCEPT !.del = done.del])
                /\ UNCHANGED <<bt, logs>>
             \/ /\ done.act = "Next"
                /\ tl' = [Show(tl, "Ask") EXCEPT !.del = done.del, !.ripe = FALSE]
                /\ UNCHANGED <<bt, logs>>
             \/ done.act = "None" /\ Gate # "Ok" /\ key # "Left" /\ ShowGate
    /\ UNCHANGED <<scene, tally, slot, toolsRest>>

ToolsNoteOk ==
    /\ Choosing("Note")
    /\ tl' = Show(tl, tl.back)
    /\ UNCHANGED <<scene, tally, slot, bt, logs, toolsRest>>

\* The size: asked for, or set.
ToolsSplit ==
    /\ Ask("tools", NoneAwaited)
    /\ \/ Choosing("Logs") /\ StartReply(tl, Cmd("split"), "Split")
       \/ Choosing("Split") /\ \E kb \in Sizes : StartReply(tl, CmdOf("split", 1, kb), "Split")
    /\ UNCHANGED <<slot, toolsRest>>

\* Back, hasty when an answer is awaited.  From a page that asks the list is
\* shown as it was heard, and the wait goes on.
ToolsBack ==
    /\ At("tools")
    /\ play' = play
    /\ ghost' = [ghost EXCEPT !.rushed = @ \/ tl.wait # "None"]
    /\ CASE tl.page \in {"Ask", "Note", "Add"} ->
              /\ tl' = [IF tl.page = "Note" THEN Show(tl, tl.back) ELSE BackList(tl)
                          EXCEPT !.del = "Idle"]
              /\ UNCHANGED <<scene, bt, logs>>
         [] tl.page = "Split" ->
              /\ tl' = Show(StopTx(tl), "Logs")
              /\ UNCHANGED <<scene, bt, logs>>
         [] tl.page \in {"Ignore", "Logs"} \/ (tl.page \in {"Menu", "Gate"} /\ tl.wait # "None") ->
              /\ tl' = Show(StopTx(tl), "Menu")
              /\ bt' = BtReset /\ logs' = LogsReset
              /\ UNCHANGED scene
         [] OTHER ->
              /\ Goto("menu")
              /\ tl' = StopTx(tl)
              /\ bt' = BtReset /\ logs' = LogsReset
    /\ UNCHANGED <<slot, toolsRest>>

\* The second page of "Delete all" is armed after a second.
ToolsRipe ==
    /\ scene.at = "tools" /\ tl.del = "All2" /\ ~tl.ripe
    /\ tl' = [tl EXCEPT !.ripe = TRUE]
    /\ UNCHANGED <<scene, tally, slot, bt, logs, toolsRest>>

-----------------------------------------------------------------------------
(* The tick: tools_pump.                                                   *)

PumpGate ==
    /\ At("tools") /\ Lite
    /\ IF Gate # "Ok"
       THEN tl.page # "Gate" /\ ShowGate
       ELSE tl.page = "Gate" /\ tl' = Show(StopTx(tl), "Menu") /\ UNCHANGED <<bt, logs>>
    /\ UNCHANGED <<scene, tally, slot, toolsRest>>

Pumping == At("tools") /\ Lite /\ Gate = "Ok" /\ tl.page # "Gate"

PumpSend ==
    /\ Pumping /\ tl.cmd # NoCmd /\ Free
    /\ slot' = tl.cmd
    /\ tl' = [tl EXCEPT !.cmd = NoCmd]
    /\ bt' = IF tl.tag = "IgnBar" /\ IgnoreBarrierDue THEN [bt EXCEPT !.barrier = TRUE] ELSE bt
    /\ logs' = IF tl.tag = "LsBar" THEN LogsBarrierSent(logs) ELSE logs
    /\ UNCHANGED <<scene, tally, toolsRest>>

LsBarrierDue == tl.listing /\ LogsBarrierDue(logs)

PumpBarrier ==
    /\ Pumping /\ tl.cmd = NoCmd
    /\ IgnoreBarrierDue \/ LsBarrierDue
    /\ tl' = [tl EXCEPT !.cmd = Cmd("channel"),
                        !.tag = IF IgnoreBarrierDue THEN "IgnBar" ELSE "LsBar"]
    /\ UNCHANGED <<scene, tally, slot, bt, logs, toolsRest>>

Looked == [bt EXCEPT !.news = FALSE, !.sized = FALSE]

\* What a reply has to be for the wait to end in another listing.
Wanted == [Added |-> {"added", "addFail"}, Removed |-> {"removed", "badIndex"},
           Cleared |-> {"cleared"}, File |-> {"file"}, Files |-> {"files"}]

\* tools_finish_reply
Finish(t) ==
    CASE bt.kind = "busy" \/ bt.busy -> ShowGate
      [] bt.kind \in {"sd", "rmFail"} /\ ~bt.busy ->
           tl' = ShowNote(t, "Logs") /\ bt' = Looked /\ UNCHANGED logs
      [] bt.kind \notin {"busy", "sd", "rmFail"} /\ ~bt.busy ->
           IF t.wait \in DOMAIN Wanted /\ bt.kind \in Wanted[t.wait]
           THEN IF t.wait \in {"File", "Files"} THEN StartLs(t) ELSE StartList(t)
           ELSE /\ tl' = IF t.wait = "Split" /\ bt.kind = "splitBad" /\ t.size = "unknown"
                         THEN ShowNote(t, "Split") ELSE t
                /\ bt' = Looked
                /\ UNCHANGED logs

ListOver == tl.wait = "List" /\ bt.closed
LsFailed == tl.wait = "Ls" /\ bt.news /\ bt.kind \in {"busy", "sd"}
LsOver == tl.wait = "Ls" /\ ~LsFailed /\ logs.phase = "Closed"

\* tools_take_split, and the page if it is about the size.
SplitTaken ==
    LET taken == IF bt.sized THEN [tl EXCEPT !.size = bt.size] ELSE tl
        ended == IF taken.wait = "Split" THEN [taken EXCEPT !.wait = "None"] ELSE taken
    IN  IF bt.sized /\ (tl.page = "Split" \/ tl.wait = "Split")
        THEN Show(ended, "Split") ELSE taken

\* tools_observe
PumpObserve ==
    /\ Pumping /\ tl.cmd = NoCmd /\ ~IgnoreBarrierDue /\ ~LsBarrierDue
    /\ CASE ListOver ->
              IF bt.busy THEN ShowGate
              ELSE tl' = [Show(tl, "Ignore") EXCEPT !.wait = "None"] /\ UNCHANGED <<bt, logs>>
         [] LsFailed -> Finish([tl EXCEPT !.listing = FALSE])
         [] LsOver ->
              /\ tl' = [Show(tl, "Logs") EXCEPT !.wait = "None", !.listing = FALSE]
              /\ UNCHANGED <<bt, logs>>
         [] ~ListOver /\ ~LsFailed /\ ~LsOver ->
              IF bt.news /\ SplitTaken.wait # "None"
              THEN Finish(SplitTaken)
              ELSE /\ bt.sized
                   /\ tl' = SplitTaken
                   /\ bt' = [bt EXCEPT !.sized = FALSE]
                   /\ UNCHANGED logs
    /\ UNCHANGED <<scene, tally, slot, toolsRest>>

-----------------------------------------------------------------------------
(* The board.                                                              *)

IgnRows == [i \in DOMAIN keep.ign |-> LineOf("ignItem", i, keep.ign[i])]

Without(i) == [j \in 1..(Len(keep.ign) - 1) |-> keep.ign[IF j < i THEN j ELSE j + 1]]

BoardBusy == keep.ward /\ Say(<<Line("busy")>>) /\ UNCHANGED <<keep, board>>

ReadIgnList ==
    /\ Say(<<Line("ignEcho")>> \o (IF keep.ward THEN <<Line("busy")>> ELSE IgnRows))
    /\ UNCHANGED <<keep, board>>

ReadIgnAdd(x) ==
    /\ ~keep.ward
    /\ \/ /\ Len(keep.ign) < IgnoreMax /\ x \notin ToSet(keep.ign)
          /\ keep' = [keep EXCEPT !.ign = Append(@, x)]
          /\ Say(<<LineOf("added", 0, x)>>)
       \/ /\ Len(keep.ign) >= IgnoreMax \/ x \in ToSet(keep.ign)
          /\ Say(<<Line("addFail")>>) /\ UNCHANGED keep
    /\ UNCHANGED board

ReadIgnRm(i) ==
    /\ ~keep.ward
    /\ IF i \in DOMAIN keep.ign
       THEN keep' = [keep EXCEPT !.ign = Without(i)] /\ Say(<<LineOf("removed", i, "-")>>)
       ELSE Say(<<Line("badIndex")>>) /\ UNCHANGED keep
    /\ UNCHANGED board

ReadIgnClear ==
    /\ ~keep.ward
    /\ keep' = [keep EXCEPT !.ign = <<>>]
    /\ Say(<<Line("cleared")>>)
    /\ UNCHANGED board

\* A log is deleted, its sidecar with it, or the card refuses or is out.
ReadRm(f) ==
    /\ ~keep.ward
    /\ \/ /\ \E i \in DOMAIN board.dir : board.dir[i].x = f
          /\ board' = [board EXCEPT !.dir = Among(@, {e \in Entry : e.x # f})]
          /\ Say(<<LineOf("file", 0, f)>>)
       \/ \E bad \in {"rmFail", "sd"} : Say(<<Line(bad)>>) /\ UNCHANGED board
    /\ UNCHANGED keep

\* Of all logs some may not be deleted.
ReadRmAll ==
    /\ ~keep.ward
    /\ \/ \E left \in SUBSET ToSet(Files) :
            /\ board' = [board EXCEPT !.dir = Among(@, {e \in Entry : e.x \in left})]
            /\ Say([i \in DOMAIN Files |->
                      IF Files[i] \in left THEN Line("rmFail") ELSE LineOf("file", 0, Files[i])]
                   \o <<Line("files")>>)
       \/ Say(<<Line("sd")>>) /\ UNCHANGED board
    /\ UNCHANGED keep

ReadSplit(set, kb) ==
    /\ ~keep.ward
    /\ IF set = 0
       THEN Say(<<LineOf("splitIs", 0, keep.size)>>) /\ UNCHANGED keep
       ELSE Say(<<LineOf("splitIs", 0, kb)>>) /\ keep' = [keep EXCEPT !.size = kb]
    /\ UNCHANGED board

ReadTools(c) ==
    /\ UNCHANGED <<play, radio>>
    /\ \/ c.c = "ignList" /\ ReadIgnList
       \/ c.c \in {"ignAdd", "ignRm", "ignClear", "rm", "rmAll", "split"} /\ BoardBusy
       \/ c.c = "ignAdd" /\ ReadIgnAdd(c.x)
       \/ c.c = "ignRm" /\ ReadIgnRm(c.n)
       \/ c.c = "ignClear" /\ ReadIgnClear
       \/ c.c = "rm" /\ ReadRm(c.x)
       \/ c.c = "rmAll" /\ ReadRmAll
       \/ c.c = "split" /\ ReadSplit(c.n, c.x)

\* The board's own menu starts a scan or stops it.
BoardWard ==
    /\ play.wards > 0
    /\ play' = [play EXCEPT !.wards = @ - 1]
    /\ keep' = [keep EXCEPT !.ward = ~@]
    /\ Say(<<Line(IF keep.ward THEN "stopped" ELSE "started")>>)
    /\ UNCHANGED <<scene, slot, tx, model, ghost, uploadVars, board, joinVars, radio, tl, bt>>
=============================================================================
