-------------------------------- MODULE Panels ------------------------------
(***************************************************************************)
(* The screens outside the Dash, on one command slot, one serial line and  *)
(* one board: Upload, Join above it, and Board tools.                      *)
(***************************************************************************)
EXTENDS Tools

rest == <<joinVars, radio, tl, bt, keep>>
toolVars == <<tl, bt, keep>>

vars == <<scene, play, link, model, ghost, uploadVars, board, rest>>

Init == LinkInit /\ UploadInit /\ JoinInit /\ ToolsInit

Write == WriteSlot /\ UNCHANGED <<scene, rx, model, tally, uploadVars, board, rest>>

\* A Lite board that scans answers what belongs to its log with Busy.
ReadUploads(c) ==
    /\ UNCHANGED <<play, radio, keep>>
    /\ \/ c.c = "upload" /\ ReadUpload
       \/ c.c = "ls" /\ ~keep.ward /\ ReadLs
       \/ c.c = "ls" /\ keep.ward /\ Say(<<Line("lsEcho"), Line("busy")>>) /\ UNCHANGED board
       \/ c.c = "channel" /\ ReadChannel
       \/ c.c = "sigroam" /\ UNCHANGED <<rx, board>>

ReadJoins(c) ==
    /\ UNCHANGED <<board, keep>>
    /\ \/ c.c = "wifi" /\ ReadWifi /\ UNCHANGED play
       \/ c.c = "stopscan" /\ ReadStop /\ UNCHANGED play
       \/ c.c = "scanall" /\ ReadScanAll /\ UNCHANGED play
       \/ c.c = "list" /\ ReadList
       \/ c.c = "join" /\ ReadJoin(c.n)

\* The board reads its next command once the one before is answered.
Read ==
    /\ tx # <<>> /\ rx = <<>> /\ board.job = "idle"
    /\ tx' = Tail(tx)
    /\ ReadUploads(Head(tx)) \/ ReadJoins(Head(tx)) \/ ReadTools(Head(tx))
    /\ UNCHANGED <<scene, slot, model, ghost, uploadVars, joinVars, tl, bt>>

\* The worker applies a line: sr_model.c's apply_unknown and the session.
Heard(line) ==
    /\ up' = UpFeed(up, line)
    /\ logs' = IF line.k = "started" THEN LogsInvalidate(logs) ELSE LogsFeed(logs, line)
    /\ li' = Observe(line)
    /\ bt' = BtFeed(line)
    /\ jn' = IF line.k = "stopped" THEN [jn EXCEPT !.stopped = TRUE] ELSE jn
    /\ model' = [model EXCEPT !.session = SessionAfter(@, line)]

Apply ==
    /\ rx # <<>> /\ ~scene.half
    /\ rx' = Tail(rx)
    /\ Heard(Head(rx))
    /\ UNCHANGED <<scene, slot, tx, tally, pg, cap, board, radio, tl, keep>>

Lose == LoseLine /\ UNCHANGED <<uploadVars, board, rest>>

UploadUser ==
    /\ EnterUpload \/ UploadBack \/ UploadHelp \/ UploadLogs(JoinBusy) \/ UploadGo
    /\ UNCHANGED rest

JoinUser ==
    /\ \/ EnterJoin \/ JoinBackStop \/ JoinBackPass \/ JoinBackFail \/ JoinLeave
       \/ JoinScan \/ JoinAdd \/ JoinPick \/ JoinPass
    /\ UNCHANGED toolVars

ToolsUser ==
    \/ EnterTools \/ ToolsList \/ ToolsLogs \/ ToolsOpenAdd \/ ToolsAdd \/ ToolsConfirm
    \/ ToolsSend \/ ToolsButton \/ ToolsNoteOk \/ ToolsSplit \/ ToolsBack

UploadTicks ==
    /\ UploadTickFirst \/ UploadTickRetry \/ CapMark \/ CapDisarm
    /\ UNCHANGED rest

JoinTicks == (JoinEnds \/ JoinTick) /\ UNCHANGED toolVars

ToolsTicks == PumpGate \/ PumpSend \/ PumpBarrier \/ PumpObserve

Time ==
    \/ CapTime /\ UNCHANGED rest
    \/ (JoinAge \/ JoinHunt) /\ UNCHANGED toolVars
    \/ ToolsRipe

BoardStep ==
    \/ Read
    \/ (UploadFile \/ UploadNoKey \/ UploadComplete) /\ UNCHANGED rest

Next ==
    \/ Write \/ Apply \/ Lose
    \/ UploadUser \/ JoinUser \/ ToolsUser
    \/ UploadTicks \/ JoinTicks \/ ToolsTicks
    \/ Time
    \/ BoardStep \/ BoardWard

Spec == Init /\ [][Next]_vars

\* The worker empties the slot and applies what arrives, the screens tick,
\* time passes, and the board reads its commands and goes on with its work.
Fairness ==
    /\ WF_vars(Write) /\ WF_vars(Apply)
    /\ WF_vars(UploadTicks) /\ WF_vars(JoinTicks) /\ WF_vars(ToolsTicks)
    /\ WF_vars(JoinAge /\ UNCHANGED toolVars) /\ WF_vars(JoinHunt /\ UNCHANGED toolVars)
    /\ WF_vars(BoardStep)

FairSpec == Spec /\ Fairness

-----------------------------------------------------------------------------
TypeOK == UploadTypeOK /\ JoinTypeOK /\ ToolsTypeOK

\* The user waited for every answer, and none was lost.
Unhurried == ~ghost.rushed /\ ~ghost.lost

\* The app knows of an upload the board is busy with, whatever screens are
\* left and entered meanwhile: the flag that bars a scan, a join and a second
\* upload (in_flight of sr_marauder_upload.c) is up.
FlightKnown == Unhurried /\ board.job = "upload" => up.flight

Went(how) == {f \in LogNames : up.done[f] = how}

RanToEnd == ~up.flight /\ up.face \in FailFace \cup {"Sent", "Already", "NoOk"}

\* What the screen says of an upload that ran to its end is what happened to
\* the files: it failed if one did and names one of those, it says sent only
\* if one was and none failed, and the counts miss none of those that failed.
VerdictTrue ==
    Unhurried /\ RanToEnd =>
      /\ up.face \in FailFace <=> Went("failed") # {}
      /\ up.face \in FailFace => up.failName \in Went("failed")
      /\ up.face = "Sent" => Went("sent") # {}
      /\ up.face = "Already" => Went("sent") = {} /\ Went("skipped") # {}
      /\ up.nFail >= Cardinality(Went("failed"))
      /\ up.nOk + up.nFail = Cardinality(Went("sent") \cup Went("skipped") \cup Went("failed"))

\* A listing that closes counts the logs of the card, shows none that is not
\* there, and what it says is not yet sent has no sidecar and the rest one.
ListingTrue ==
    [][Unhurried /\ logs.phase # "Closed" /\ logs'.phase = "Closed" =>
         /\ logs'.matches = Len(Files)
         /\ LogsShown(logs') \subseteq ToSet(Files)
         /\ LogsKnown(logs') =>
              LogsUnsent(logs') = {f \in ToSet(Files) : ~HasSidecar(f)}]_vars

\* "Connected" is said of the network the user chose, and the board is on it,
\* also when the user is hasty, when answers come after their timeout and when
\* the list of the board changes behind the back of the screen: as long as no
\* more than two commands (MaxTx) wait at the board besides the one in the slot.
\* With three the echo of a join the user gave up can be taken for that of the
\* next.
JoinedIsChosen ==
    [][jn.phase # "Joined" /\ jn'.phase = "Joined" /\ ~ghost.lost =>
         radio.on = jn.cursor.x]_vars

\* The list the user chooses from is the list of the board.
IgnoreListTrue ==
    tl.page = "Ignore" /\ ~tl.reading /\ tl.wait = "None" =>
      bt.items = [i \in DOMAIN keep.ign |-> [n |-> i, x |-> keep.ign[i]]]

ConfirmedEntry ==
    rx = <<>> /\ tx # <<>> /\ Head(tx).c = "ignRm" =>
      Head(tx).n \in DOMAIN keep.ign /\ keep.ign[Head(tx).n] = Head(tx).x

\* The list shown is that of the board, and the entry the board is about to
\* remove, which it is told by its number, is the one the user confirmed.
RemovesConfirmed == Unhurried => IgnoreListTrue /\ ConfirmedEntry

\* A flight ends.  There is no timer: it takes the board's last line.
FlightEnds == up.flight ~> (~up.flight \/ ghost.lost)

\* The Join screen comes to a page that waits for the user, whether or not
\* the board answers.
JoinSettles ==
    (scene.at = "join" /\ jn.phase \notin Still) ~> (scene.at # "join" \/ jn.phase \in Still)

\* "Reading..." ends, unless the card cannot be mounted or a scan starts and
\* is over before the next tick: that end of a listing the screen misses.
ReadingEnds ==
    tl.wait # "None" ~>
      (tl.wait = "None" \/ logs.phase \in {"Card", "Dropped"} \/ ghost.rushed \/ ghost.lost)

\* What was asked of the board ends.
AskedEnds == FlightEnds /\ JoinSettles /\ ReadingEnds
=============================================================================
