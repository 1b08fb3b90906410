--------------------------- MODULE DashScan_proofs ---------------------------
(***************************************************************************)
(* DashScan is type correct for every peer, every user and every line,     *)
(* lossy or not; and where nothing is lost, no wardrive is swallowed.      *)
(*                                                                         *)
(* The first half of NoBlindStop (StopStep, completed in DashAgree_proofs) *)
(* is about single steps, but it needs an invariant: a stopscan that       *)
(* clears SHOW_INFO is queued only for a stock peer, or by a prestart, so  *)
(* one must know that the Version the app holds is the peer's own and that *)
(* no prestart is ever armed against -sigroam- firmware.                   *)
(*                                                                         *)
(* NotSwallowed is about what a board does with commands sent earlier, so  *)
(* its invariant follows SHOW_INFO along the line: what the board will     *)
(* show once it has read the first n commands (ShowAt), and all of them    *)
(* (ShowAfter).  No wardrive is sent behind an info that no stopscan       *)
(* clears (NotShown); a clearing stopscan, of a prestart or of the Probe   *)
(* screen, is the last that was sent before the wardrive (Cleared); and    *)
(* once anything was started or stopped the app knows the peer, so that it *)
(* has no reason to ask it for info again (KnownFirst).                    *)
(***************************************************************************)
EXTENDS DashScan, TLAPS

\* The app takes the peer for what it is, and prestarts only stock peers.
PeerKnown ==
    /\ model.fw \in {"none", board.kind}
    /\ board.kind = "sigroam" => ~app.prestart

IInv == TypeOK /\ PeerKnown

-----------------------------------------------------------------------------
(* Type correctness, one lemma for each actor.                             *)

LEMMA TypeInit == Init => TypeOK
  BY DashScanAssumption
  DEF Init, TypeOK, BoardInit, Scene, ScanCtx, App, Model, Moved, Session, Firmware,
      BoardState, NoCmd, Board, Kind, Command, Line, Gps, GpsRest

LEMMA FreeType == Free \in BOOLEAN
  BY DEF Free

LEMMA QueuedType ==
  ASSUME NEW p \in BOOLEAN, NEW s \in BOOLEAN
  PROVE  QueuedCtx(p, s) \in ScanCtx
  BY DEF QueuedCtx, ScanCtx, Free

LEMMA QueueType ==
  ASSUME TypeOK
  PROVE  /\ \A s \in BOOLEAN : QueueCmd(s) =>
              scan' \in ScanCtx /\ slot' \in Command \cup {NoCmd}
         /\ QueueClearingStop =>
              scan' \in ScanCtx /\ slot' \in Command \cup {NoCmd}
<1>0. scan.pending \in BOOLEAN
  BY DEF TypeOK, ScanCtx
<1>1. ASSUME NEW s \in BOOLEAN, QueueCmd(s)
      PROVE  scan' \in ScanCtx /\ slot' \in Command \cup {NoCmd}
  <2>1. scan' \in ScanCtx
    BY <1>0, <1>1, QueuedType DEF QueueCmd
  <2>2. slot' \in Command \cup {NoCmd}
    BY <1>1 DEF TypeOK, QueueCmd, Offer, Free, Command
  <2>. QED BY <2>1, <2>2
<1>2. ASSUME QueueClearingStop
      PROVE  scan' \in ScanCtx /\ slot' \in Command \cup {NoCmd}
  <2>1. scan' \in ScanCtx
    BY <1>0, <1>2 DEF QueueClearingStop, QueuedCtx, ScanCtx, Free
  <2>2. slot' \in Command \cup {NoCmd}
    BY <1>2 DEF TypeOK, QueueClearingStop, Offer, Free, Command
  <2>. QED BY <2>1, <2>2
<1>. QED BY <1>1, <1>2

LEMMA HsInfoType ==
  ASSUME TypeOK, NEW a \in App, a.hsSends \in 0..1, HsInfo(a)
  PROVE  app' \in App /\ moved' \in Moved
<1>1. CASE Free
  <2>1. app' = [a EXCEPT !.hsSent = TRUE, !.hsBytes = FALSE, !.hsOut = FALSE,
                         !.hsSends = a.hsSends + 1]
    BY <1>1 DEF HsInfo
  <2>2. a.hsSends + 1 \in 0..2
    OBVIOUS
  <2>3. app' \in App
    BY <2>1, <2>2 DEF App
  <2>. QED BY <1>1, <2>3 DEF HsInfo, TypeOK, Moved
<1>2. CASE ~Free
  <2>1. app' = [a EXCEPT !.hsSends = IF a.hsSent THEN 2 ELSE 0]
    BY <1>2 DEF HsInfo
  <2>2. app' \in App
    BY <2>1 DEF App
  <2>. QED BY <1>2, <2>2 DEF HsInfo, TypeOK
<1>. QED BY <1>1, <1>2

LEMMA GpsType ==
  ASSUME TypeOK
  PROVE  /\ GpsRest \in Gps
         /\ \A p \in {"Rest", "WaitBlock", "WaitStop"}, a \in BOOLEAN :
              [GpsRest EXCEPT !.phase = p, !.atSend = a] \in Gps
         /\ \A p \in {"Rest", "WaitStop"} : [GpsRest EXCEPT !.phase = p] \in Gps
         /\ \A h \in BOOLEAN : [gps EXCEPT !.heard = h] \in Gps
         /\ [gps EXCEPT !.out = TRUE] \in Gps
  BY DEF TypeOK, GpsRest, Gps

LEMMA TypeUser == TypeOK /\ User => TypeOK'
<1>. SUFFICES ASSUME TypeOK, User PROVE TypeOK'
  OBVIOUS
<1>1. CASE OkPress
  <2>1. scan' \in ScanCtx /\ slot' \in Command \cup {NoCmd}
    BY <1>1, QueueType DEF OkPress, OkStop, OkStartNow, OkStartAfterClear, TypeOK
  <2>2. app' \in App /\ moved' \in Moved
    BY <1>1 DEF OkPress, OkStop, OkStartNow, OkStartAfterClear, TypeOK, App, Moved
  <2>. QED BY <1>1, <2>1, <2>2 DEF OkPress, TypeOK
<1>2. CASE EnterDash
  <2>1. slot' \in Command \cup {NoCmd}
    BY <1>2 DEF EnterDash, TypeOK, Offer, Free, Command, StatusCmd, NoCmd
  <2>2. app' \in App
    <3>. DEFINE fresh == [app EXCEPT !.prestart = FALSE, !.postStop = FALSE,
                                     !.ident = FALSE, !.identSends = 0,
                                     !.sync = FALSE, !.probed = FALSE]
    <3>0. app \in App /\ 0 \in 0..2
      BY DEF TypeOK
    <3>1. fresh \in App
      BY <3>0 DEF App
    <3>2. \/ app' = [fresh EXCEPT !.ident = TRUE, !.identDue = FALSE,
                                   !.identSends = IF Free THEN 1 ELSE 0, !.sync = Free]
          \/ app' = [fresh EXCEPT !.sync = Free]
          \/ app' = [fresh EXCEPT !.probed = Free]
      BY <1>2, Zenon DEF EnterDash
    <3>3. (IF Free THEN 1 ELSE 0) \in 0..2
      OBVIOUS
    <3>. HIDE DEF fresh
    <3>. QED BY <3>1, <3>2, <3>3, FreeType DEF App
  <2>4. moved' \in Moved
    BY <1>2 DEF EnterDash, TypeOK, Moved
  <2>3. scene' \in Scene
    BY <1>2 DEF EnterDash, Scene
  <2>. QED BY <1>2, <2>1, <2>2, <2>3, <2>4 DEF EnterDash, TypeOK
<1>3. CASE EnterProbe
  <2>1. slot' \in Command \cup {NoCmd}
    BY <1>3 DEF EnterProbe, HsInfo, TypeOK, Offer, Free, Command
  <2>2. app' \in App /\ moved' \in Moved
    <3>. DEFINE a == [app EXCEPT !.stopSent = FALSE, !.sigroamSent = FALSE,
                                 !.hsSent = FALSE, !.hsSends = 0, !.hsBytes = FALSE,
                                 !.hsOut = FALSE]
    <3>0. app \in App /\ 0 \in 0..2
      BY DEF TypeOK
    <3>1. a \in App
      BY <3>0 DEF App
    <3>2. a.hsSends = 0
      BY <3>0 DEF App
    <3>3. HsInfo(a)
      BY <1>3 DEF EnterProbe
    <3>. HIDE DEF a
    <3>. QED BY <3>1, <3>2, <3>3, HsInfoType
  <2>3. scene' \in Scene
    BY <1>3 DEF EnterProbe, Scene
  <2>. QED BY <1>3, <2>1, <2>2, <2>3 DEF EnterProbe, TypeOK
<1>4. CASE Leave
  <2>1. slot' \in Command \cup {NoCmd} /\ gps' \in Gps
    BY <1>4, GpsType DEF Leave, GpsAbort, Offer, Free, TypeOK, Command
  <2>. QED BY <1>4, <2>1 DEF Leave, TypeOK, Scene
<1>5. CASE GpsStart
  <2>1. slot' \in Command \cup {NoCmd}
    BY <1>5 DEF GpsStart, Offer, Free, TypeOK, Command
  <2>2. gps' \in Gps
    BY <1>5, GpsType DEF GpsStart, TypeOK, Model
  <2>. QED BY <1>5, <2>1, <2>2 DEF GpsStart, TypeOK
<1>. QED BY <1>1, <1>2, <1>3, <1>4, <1>5 DEF User

LEMMA StartsType ==
  ASSUME TypeOK, SessionStarts
  PROVE  model' \in Model /\ scan' \in ScanCtx /\ gps' \in Gps
<1>1. model' \in Model /\ scan' \in ScanCtx
  BY DEF SessionStarts, Started, TypeOK, Model, ScanCtx, Session
<1>2. gps.atSend \in BOOLEAN /\ gps.heard \in BOOLEAN
  BY DEF TypeOK, Gps
<1>3. gps' \in Gps
  BY <1>2, GpsType DEF SessionStarts
<1>. QED BY <1>1, <1>3

LEMMA TypeTick == TypeOK /\ GuiTick => TypeOK'
<1>. SUFFICES ASSUME TypeOK, GuiTick PROVE TypeOK'
  OBVIOUS
<1>. USE DEF TypeOK
<1>1. CASE TickSync
  <2>1. app' \in App /\ moved' \in Moved
    BY <1>1 DEF TickSync, App, Moved
  <2>2. model' \in Model /\ scan' \in ScanCtx /\ gps' \in Gps
    BY <1>1, StartsType DEF TickSync
  <2>. QED BY <1>1, <2>1, <2>2 DEF TickSync, link, Done
<1>2. CASE TickIdent
  <2>1. app' \in App
    <3>1. CASE app' = [app EXCEPT !.ident = FALSE]
      BY <3>1 DEF App
    <3>2. CASE IdentRetry /\ app' = [app EXCEPT !.identSends = @ + 1, !.identDue = FALSE,
                                                !.sync = TRUE]
      <4>1. app.identSends + 1 \in 0..2
        BY <3>2 DEF IdentRetry, App
      <4>. QED BY <3>2, <4>1 DEF App
    <3>3. CASE app' = [app EXCEPT !.identSends = 2]
      BY <3>3 DEF App
    <3>. QED BY <1>2, <3>1, <3>2, <3>3, Zenon DEF TickIdent
  <2>3. moved' \in Moved
    BY <1>2 DEF TickIdent, App, Moved
  <2>2. slot' \in Command \cup {NoCmd}
    BY <1>2 DEF TickIdent, Offer, Free, Command
  <2>. QED BY <1>2, <2>1, <2>2, <2>3 DEF TickIdent, Done
<1>3. CASE TickScan
  <2>1. scan' \in ScanCtx
    BY <1>3 DEF TickScan, ScanRefused, ScanStarted, ScanStopped, ScanEnds, ScanCtx
  <2>2. slot' \in Command \cup {NoCmd}
    BY <1>3 DEF TickScan, ScanRefused, ScanStarted, ScanStopped, Offer, Free,
                StatusCmd, Command, NoCmd
  <2>3. app' \in App /\ moved' \in Moved
    BY <1>3 DEF TickScan, ScanRefused, ScanStarted, ScanStopped, App, Moved, Free
  <2>4. UNCHANGED <<scene, gps, model, tx, rx, board>>
    BY <1>3 DEF TickScan, ScanRefused, ScanStarted, ScanStopped
  <2>. QED BY <1>3, <2>1, <2>2, <2>3, <2>4 DEF TickScan, Done
<1>4. CASE TickPostStop
  <2>1. slot' \in Command \cup {NoCmd}
    BY <1>4 DEF TickPostStop, Offer, Free, StatusCmd, Command, NoCmd
  <2>2. app' \in App
    BY <1>4 DEF TickPostStop, App, Free
  <2>. QED BY <1>4, <2>1, <2>2 DEF TickPostStop, Done
<1>5. CASE TickPrestart
  <2>1. scan' \in ScanCtx /\ slot' \in Command \cup {NoCmd}
    <3>1. CASE QueueClearingStop
      BY <3>1, QueueType
    <3>2. CASE /\ Offer("wardrive")
               /\ scan' = QueuedCtx(scan.pending /\ scan.isStart, TRUE)
      BY <3>2, QueuedType DEF Offer, Free, Command, ScanCtx
    <3>. QED BY <1>5, <3>1, <3>2 DEF TickPrestart
  <2>2. app' \in App /\ moved' \in Moved
    BY <1>5 DEF TickPrestart, App, Moved
  <2>. QED BY <1>5, <2>1, <2>2 DEF TickPrestart, Done
<1>6. CASE TickProbe
  <2>1. app' \in App /\ slot' \in Command \cup {NoCmd}
    BY <1>6 DEF TickProbe, Offer, Free, Command, App
  <2>. QED BY <1>6, <2>1 DEF TickProbe, Done
<1>7. CASE TickQual
  <2>1. slot' \in Command \cup {NoCmd}
    BY <1>7 DEF TickQual, Offer, Free, StatusCmd, Command, NoCmd
  <2>. QED BY <1>7, <2>1 DEF TickQual, Done
<1>8. CASE HsRetry
  <2>1. app' \in App /\ moved' \in Moved
    <3>1. app.hsSends \in 0..1
      BY <1>8 DEF HsRetry, HsRetryDue, App
    <3>. QED BY <1>8, <3>1, HsInfoType DEF HsRetry
  <2>2. slot' \in Command \cup {NoCmd}
    BY <1>8 DEF HsRetry, HsInfo, Offer, Free, Command
  <2>. QED BY <1>8, <2>1, <2>2 DEF HsRetry
<1>9. CASE HsStop
  <2>1. app' \in App /\ moved' \in Moved /\ slot' \in Command \cup {NoCmd}
    BY <1>9 DEF HsStop, Offer, Free, Command, App, Moved
  <2>. QED BY <1>9, <2>1 DEF HsStop
<1>10. CASE HsSigroam
  <2>1. app' \in App /\ slot' \in Command \cup {NoCmd}
    BY <1>10 DEF HsSigroam, Offer, Free, Command, App
  <2>. QED BY <1>10, <2>1 DEF HsSigroam
<1>11. CASE TickGps
  <2>1. slot' \in Command \cup {NoCmd} /\ gps' \in Gps
    BY <1>11, GpsType DEF TickGps, GpsClose, GpsEnds, Offer, Free, Command
  <2>. QED BY <1>11, <2>1 DEF TickGps, Done
<1>. QED
  BY <1>1, <1>2, <1>3, <1>4, <1>5, <1>6, <1>7, <1>8, <1>9, <1>10, <1>11 DEF GuiTick

LEMMA TypeElapse == TypeOK /\ Elapse => TypeOK'
<1>. SUFFICES ASSUME TypeOK, Elapse PROVE TypeOK'
  OBVIOUS
<1>1. scan' \in ScanCtx
  BY DEF TypeOK, Elapse, ScanCtx
<1>2. app' \in App
  BY DEF TypeOK, Elapse, App
<1>3. model' \in Model
  BY DEF TypeOK, Elapse, Model
<1>4. gps' \in Gps
  BY GpsType DEF TypeOK, Elapse
<1>. QED BY <1>1, <1>2, <1>3, <1>4 DEF TypeOK, Elapse, link

\* What is taken off the head of a queue leaves it within its bound.
LEMMA TailBound ==
  ASSUME NEW S, NEW n \in Nat, NEW s \in Seq(S), s # <<>>, Len(s) <= n
  PROVE  Head(s) \in S /\ Tail(s) \in Seq(S) /\ Len(Tail(s)) <= n
  OBVIOUS

LEMMA TypeWorker == TypeOK /\ Worker => TypeOK'
<1>. SUFFICES ASSUME TypeOK, Worker PROVE TypeOK'
  OBVIOUS
<1>. USE DashScanAssumption
<1>1. CASE Take
  <2>1. tx' \in Seq(Command) /\ Len(tx') = Len(tx) + 1
    BY <1>1 DEF Take, TypeOK, Free
  <2>2. Len(tx') <= MaxTx
    BY <1>1, <2>1 DEF Take, TypeOK
  <2>. QED BY <1>1, <2>1, <2>2 DEF Take, gui, TypeOK
<1>2. CASE Apply
  <2>1. Head(rx) \in Line /\ rx' \in Seq(Line) /\ Len(rx') <= MaxRx
    BY <1>2, TailBound DEF Apply, TypeOK
  <2>2. app' \in App
    BY <1>2 DEF Apply, TypeOK, App
  <2>. DEFINE l == Head(rx)
  <2>3. ApplyLine(l)
    BY <1>2 DEF Apply
  <2>4. l \in Line
    BY <2>1
  <2>. HIDE DEF l
  <2>5. ASSUME NEW s \in Session, SessionTo(s)
        PROVE  model' \in Model /\ scan' \in ScanCtx
    BY <2>5 DEF SessionTo, TypeOK, Model, ScanCtx
  <2>6. /\ Started(model.session) \in Session
        /\ RowSeen(model.session, model.fw) \in Session
        /\ Stopped(model.session, model.fw) \in Session
    BY DEF TypeOK, Model, Started, RowSeen, Stopped, Session
  <2>7. model' \in Model /\ scan' \in ScanCtx /\ moved' \in Moved /\ gps' \in Gps
    <3>0. \/ gps' = gps
          \/ \E h \in BOOLEAN : gps' = [gps EXCEPT !.heard = h]
          \/ gps' \in Gps
      <4>1. gps.heard \in BOOLEAN
        BY DEF TypeOK, Gps
      <4>2. CASE l.kind = "started"
        BY <2>3, <4>2, StartsType DEF ApplyLine
      <4>3. CASE l.kind = "block"
        BY <2>3, <4>1, <4>3 DEF ApplyLine
      <4>4. CASE l.kind \in {"stopped", "gpsStop"}
        BY <2>3, <4>1, <4>4 DEF ApplyLine, StoppedLine
      <4>5. CASE l.kind \in {"row", "firmware", "diag", "busy"}
        BY <2>3, <4>5 DEF ApplyLine
      <4>. QED BY <2>4, <4>2, <4>3, <4>4, <4>5 DEF Line
    <3>9. gps' \in Gps
      BY <3>0, GpsType DEF TypeOK
    <3>1. CASE l.kind = "started"
      BY <2>3, <3>1, <3>9, StartsType DEF ApplyLine, TypeOK
    <3>6. CASE l.kind = "row"
      BY <2>3, <2>5, <2>6, <3>6, <3>9 DEF ApplyLine, TypeOK
    <3>2. CASE l.kind \in {"stopped", "gpsStop"}
      <4>1. \E s \in Session : SessionTo(s)
        <5>1. (IF model.session = "Running" THEN "Stopped" ELSE model.session) \in Session
          BY DEF TypeOK, Model, Session
        <5>. QED BY <2>3, <2>6, <3>2, <5>1 DEF ApplyLine, StoppedLine
      <4>2. moved' \in Moved
        BY <2>3, <3>2 DEF ApplyLine, StoppedLine, TypeOK, Moved
      <4>. QED BY <2>5, <3>9, <4>1, <4>2
    <3>7. CASE l.kind = "block"
      BY <2>3, <3>7, <3>9 DEF ApplyLine, TypeOK, Model
    <3>3. CASE l.kind = "firmware"
      <4>1. /\ model' = [model EXCEPT !.fw = board.kind, !.diagSeen = FALSE, !.diagSt = 0]
            /\ moved' = [moved EXCEPT !.sync = app.sync, !.hs = app.hsSent]
            /\ UNCHANGED scan
        BY <2>3, <3>3 DEF ApplyLine
      <4>2. board.kind \in Firmware /\ 0 \in BoardState
        BY DEF TypeOK, Board, Kind, Firmware, BoardState
      <4>3. model' \in Model
        BY <4>1, <4>2 DEF TypeOK, Model
      <4>. QED BY <3>9, <4>1, <4>3 DEF TypeOK, Moved, App
    <3>4. CASE l.kind = "diag"
      BY <2>3, <2>4, <3>4, <3>9 DEF ApplyLine, TypeOK, Model, Moved, App, Line
    <3>5. CASE l.kind = "busy"
      BY <2>3, <2>4, <3>5, <3>9 DEF ApplyLine, TypeOK, Model, Moved, ScanCtx, Line
    <3>. QED BY <2>4, <3>1, <3>2, <3>3, <3>4, <3>5, <3>6, <3>7 DEF Line
  <2>. QED BY <1>2, <2>1, <2>2, <2>7 DEF Apply, TypeOK
<1>. QED BY <1>1, <1>2 DEF Worker

\* What the board says are lines, and no more than the bound.
LEMMA SayType ==
  ASSUME TypeOK, NEW lines \in Seq(Line), Say(lines)
  PROVE  rx' \in Seq(Line) /\ Len(rx') <= MaxRx
  BY DashScanAssumption DEF Say, TypeOK

LEMMA LineType ==
  ASSUME TypeOK,
         NEW k \in {"started", "stopped", "firmware", "diag", "busy", "row", "block",
                    "gpsStop"}
  PROVE  Plain(k) \in Seq(Line) /\ Report(k) \in Seq(Line)
<1>1. [kind |-> k, st |-> 0] \in Line
  BY DEF Line, BoardState
<1>2. [kind |-> k, st |-> board.st] \in Line
  BY DEF TypeOK, Board, Line
<1>. QED BY <1>1, <1>2 DEF Plain, Report

LEMMA TypeBoard == TypeOK /\ BoardStep => TypeOK'
<1>. SUFFICES ASSUME TypeOK, BoardStep PROVE TypeOK'
  OBVIOUS
<1>1. CASE BoardRead
  <2>1. tx' \in Seq(Command) /\ Len(tx') <= MaxTx
    BY <1>1, TailBound, DashScanAssumption DEF BoardRead, TypeOK
  <2>2. \E lines \in Seq(Line) : Say(lines)
    <3>1. <<>> \in Seq(Line)
      OBVIOUS
    <3>2. /\ Plain("stopped") \in Seq(Line) /\ Plain("firmware") \in Seq(Line)
          /\ Plain("gpsStop") \in Seq(Line)
          /\ Report("busy") \in Seq(Line)
          /\ (Plain("firmware") \o Report("diag")) \in Seq(Line)
      BY LineType
    <3>. QED BY <1>1, <3>1, <3>2
             DEF BoardRead, ReadWardrive, ReadStopscan, ReadInfo, ReadSigroam, ReadGpsdata
  <2>3. board' \in Board
    <3>0. board \in Board /\ {0, 1, 2} \subseteq BoardState
      BY DEF TypeOK, BoardState
    <3>1. CASE ReadWardrive
      <4>1. board' = board \/ board' = [board EXCEPT !.st = 1, !.silent = TRUE, !.gps = FALSE]
        BY <3>1 DEF ReadWardrive
      <4>. QED BY <3>0, <4>1 DEF Board
    <3>2. CASE ReadStopscan
      <4>1. board' = board \/ \E st \in BoardState : board' = Ended(st)
        BY <3>0, <3>2 DEF ReadStopscan, Board
      <4>2. \A st \in BoardState : Ended(st) \in Board
        BY <3>0 DEF Ended, Board
      <4>. QED BY <3>0, <4>1, <4>2
    <3>3. CASE ReadInfo
      BY <3>0, <3>3 DEF ReadInfo, Board
    <3>4. CASE ReadSigroam
      BY <3>0, <3>4 DEF ReadSigroam
    <3>5. CASE ReadGpsdata
      BY <3>0, <3>5 DEF ReadGpsdata, Board
    <3>. QED BY <1>1, <3>1, <3>2, <3>3, <3>4, <3>5 DEF BoardRead
  <2>. QED BY <1>1, <2>1, <2>2, <2>3, SayType DEF BoardRead, gui, TypeOK
<1>2. CASE Announce
  <2>1. rx' \in Seq(Line) /\ Len(rx') <= MaxRx
    BY <1>2, LineType, SayType DEF Announce
  <2>2. board' \in Board
    BY <1>2 DEF Announce, TypeOK, Board
  <2>. QED BY <1>2, <2>1, <2>2 DEF Announce, gui, TypeOK
<1>3. CASE Row
  BY <1>3, LineType, SayType DEF Row, gui, TypeOK
<1>4. CASE Seal
  <2>1. board' \in Board
    BY <1>4 DEF Seal, TypeOK, Board, BoardState
  <2>. QED BY <1>4, <2>1 DEF Seal, gui, link, TypeOK
<1>5. CASE Block
  BY <1>5, LineType, SayType DEF Block, gui, TypeOK
<1>. QED BY <1>1, <1>2, <1>3, <1>4, <1>5 DEF BoardStep

LEMMA TypeLose == TypeOK /\ Lose => TypeOK'
<1>. SUFFICES ASSUME TypeOK, Lose PROVE TypeOK'
  OBVIOUS
<1>1. tx' \in Seq(Command) /\ Len(tx') <= MaxTx
  <2>1. CASE tx' = tx
    BY <2>1 DEF TypeOK
  <2>2. CASE tx # <<>> /\ tx' = Tail(tx)
    BY <2>2, TailBound, DashScanAssumption DEF TypeOK
  <2>. QED BY <2>1, <2>2 DEF Lose
<1>2. rx' \in Seq(Line) /\ Len(rx') <= MaxRx
  <2>1. CASE rx' = rx
    BY <2>1 DEF TypeOK
  <2>2. CASE rx # <<>> /\ rx' = Tail(rx)
    BY <2>2, TailBound, DashScanAssumption DEF TypeOK
  <2>. QED BY <2>1, <2>2 DEF Lose
<1>. QED BY <1>1, <1>2 DEF TypeOK, Lose, gui

-----------------------------------------------------------------------------
(* The invariant.                                                          *)

LEMMA InitIInv == Init => IInv
  BY TypeInit DEF IInv, PeerKnown, Init

\* Only a stock peer needs the stopscan before a start.
LEMMA ClearIsStock ==
  ASSUME PeerKnown, NEW b,
         ShowInfoClear(model.fw, b) # "None" \/ ShouldProbe(model.fw)
  PROVE  board.kind = "generic"
  BY DEF PeerKnown, ShowInfoClear, ShouldProbe

\* What a run is like, the peer and its user, stays as it is.
LEMMA RunKept ==
  ASSUME TypeOK, [Next]_vars
  PROVE  /\ board'.kind = board.kind /\ board'.lossy = board.lossy
         /\ board'.patient = board.patient /\ board'.probe = board.probe
         /\ board'.prompt = board.prompt /\ board'.gpsTab = board.gpsTab
<1>0. board \in Board
  BY DEF TypeOK
<1>1. CASE BoardRead \/ Announce \/ Seal
  BY <1>0, <1>1 DEF BoardRead, ReadWardrive, ReadStopscan, ReadInfo, ReadSigroam,
                    ReadGpsdata, Ended, Announce, Seal, Board
<1>2. CASE UNCHANGED board
  BY <1>2
<1>. QED
  BY <1>1, <1>2
  DEF Next, User, GuiTick, Worker, BoardStep, vars, OkPress, GpsStart, EnterDash,
      EnterProbe, Leave, TickSync, TickIdent, TickGps, TickScan, TickPostStop, TickPrestart,
      TickProbe, TickQual, HsRetry, HsStop, HsSigroam, Elapse, Take, Apply, Row, Block, Lose

LEMMA PeerKnownKept == IInv /\ [Next]_vars => PeerKnown'
<1>. SUFFICES ASSUME IInv, [Next]_vars PROVE PeerKnown'
  OBVIOUS
<1>. USE DEF IInv
<1>0. app \in App /\ model \in Model
  BY DEF TypeOK
<1>1. model'.fw \in {"none", board.kind}
  <2>1. CASE Apply
    <3>. DEFINE l == Head(rx)
    <3>0. l \in Line
      BY <2>1 DEF Apply, TypeOK
    <3>1. ApplyLine(l)
      BY <2>1 DEF Apply
    <3>. HIDE DEF l
    <3>2. CASE l.kind \in {"stopped", "gpsStop", "row"}
      <4>1. PICK s : model' = [model EXCEPT !.session = s]
        BY <3>1, <3>2 DEF ApplyLine, StoppedLine, SessionTo
      <4>. QED BY <1>0, <4>1 DEF PeerKnown, Model
    <3>6. CASE l.kind \in {"started", "block"}
      BY <1>0, <3>1, <3>6 DEF ApplyLine, SessionStarts, PeerKnown, Model
    <3>3. CASE l.kind = "firmware"
      BY <1>0, <3>1, <3>3 DEF ApplyLine, Model
    <3>4. CASE l.kind = "diag"
      BY <1>0, <3>1, <3>4 DEF ApplyLine, PeerKnown, Model
    <3>5. CASE l.kind = "busy"
      BY <1>0, <3>1, <3>5 DEF ApplyLine, PeerKnown, Model
    <3>. QED BY <3>0, <3>2, <3>3, <3>4, <3>5, <3>6 DEF Line
  <2>2. CASE TickSync \/ Elapse
    BY <1>0, <2>2 DEF TickSync, Elapse, SessionStarts, PeerKnown, Model
  <2>3. CASE UNCHANGED model
    BY <2>3 DEF PeerKnown
  <2>. QED
    BY <2>1, <2>2, <2>3
    DEF Next, User, GuiTick, Worker, BoardStep, vars, gui, OkPress, GpsStart, EnterDash,
        EnterProbe, Leave, TickIdent, TickGps, TickScan, ScanRefused, ScanStarted, ScanStopped,
        TickPostStop, TickPrestart, TickProbe, TickQual, HsRetry, HsStop, HsSigroam, Take,
        BoardRead, Announce, Row, Block, Seal, Lose
<1>2. ASSUME board.kind = "sigroam" PROVE ~app'.prestart
  <2>0. ~app.prestart
    BY <1>2 DEF PeerKnown
  <2>1. CASE OkPress
    <3>1. ~OkStartAfterClear
      BY <1>2, ClearIsStock DEF OkStartAfterClear
    <3>2. CASE OkStop
      BY <1>0, <3>2 DEF OkStop, App
    <3>3. CASE OkStartNow
      BY <2>0, <3>3 DEF OkStartNow
    <3>. QED BY <2>1, <3>1, <3>2, <3>3 DEF OkPress
  <2>2. CASE EnterDash
    <3>. DEFINE fresh == [app EXCEPT !.prestart = FALSE, !.postStop = FALSE,
                                     !.ident = FALSE, !.identSends = 0,
                                     !.sync = FALSE, !.probed = FALSE]
    <3>1. fresh.prestart = FALSE /\ fresh = [x \in DOMAIN app |-> fresh[x]]
      BY <1>0 DEF App
    <3>2. \/ app' = [fresh EXCEPT !.ident = TRUE, !.identDue = FALSE,
                                   !.identSends = IF Free THEN 1 ELSE 0, !.sync = Free]
          \/ app' = [fresh EXCEPT !.sync = Free]
          \/ app' = [fresh EXCEPT !.probed = Free]
      BY <2>2, Zenon DEF EnterDash
    <3>3. "prestart" \in DOMAIN app
      BY <1>0 DEF App
    <3>. HIDE DEF fresh
    <3>. QED BY <3>1, <3>2, <3>3
  <2>3. CASE EnterProbe
    BY <1>0, <2>0, <2>3 DEF EnterProbe, HsInfo, App
  <2>4. CASE GuiTick
    <3>1. CASE TickSync
      BY <1>0, <2>0, <3>1 DEF TickSync, App
    <3>2. CASE TickIdent
      BY <1>0, <2>0, <3>2 DEF TickIdent, App
    <3>3. CASE TickScan
      BY <1>0, <2>0, <3>3 DEF TickScan, ScanRefused, ScanStarted, ScanStopped, App
    <3>4. CASE TickPostStop
      BY <1>0, <2>0, <3>4 DEF TickPostStop, App
    <3>5. CASE TickPrestart
      BY <2>0, <3>5 DEF TickPrestart, PrestartRetry, PrestartEnds
    <3>6. CASE TickProbe
      BY <1>0, <2>0, <3>6 DEF TickProbe, App
    <3>7. CASE TickQual
      BY <2>0, <3>7 DEF TickQual
    <3>8. CASE HsRetry
      BY <1>0, <2>0, <3>8 DEF HsRetry, HsInfo, App
    <3>9. CASE HsStop \/ HsSigroam
      BY <1>0, <2>0, <3>9 DEF HsStop, HsSigroam, App
    <3>. QED
      BY <2>0, <2>4, <3>1, <3>2, <3>3, <3>4, <3>5, <3>6, <3>7, <3>8, <3>9 DEF GuiTick, TickGps
  <2>5. CASE Elapse
    BY <1>0, <2>0, <2>5 DEF Elapse, App
  <2>6. CASE Apply
    BY <1>0, <2>0, <2>6 DEF Apply, App
  <2>7. CASE UNCHANGED app
    BY <2>0, <2>7
  <2>. QED
    BY <2>1, <2>2, <2>3, <2>4, <2>5, <2>6, <2>7
    DEF Next, User, Worker, BoardStep, vars, gui, GpsStart, Leave, Take, BoardRead, Announce,
        Row, Block, Seal, Lose
<1>. QED BY <1>1, <1>2, RunKept DEF PeerKnown

LEMMA TypeKept == TypeOK /\ [Next]_vars => TypeOK'
<1>1. TypeOK /\ UNCHANGED vars => TypeOK'
  BY DEF TypeOK, vars
<1>. QED
  BY <1>1, TypeUser, TypeTick, TypeElapse, TypeWorker, TypeBoard, TypeLose DEF Next

THEOREM Invariance == Spec => []IInv
<1>1. IInv /\ [Next]_vars => IInv'
  BY TypeKept, PeerKnownKept DEF IInv
<1>. QED BY InitIInv, <1>1, PTL DEF Spec

\* Every variable of the Dash, the line and the board keeps its type.
THEOREM TypeCorrect == Spec => []TypeOK
<1>1. IInv => TypeOK
  BY DEF IInv
<1>. QED BY Invariance, <1>1, PTL

-----------------------------------------------------------------------------
(* No stopscan for a scan the app does not know of, or to close a sample.  *)

\* OK stops only what runs, or a command that is awaited.
LEMMA StopIsKnown ==
  ASSUME OkAct = "SendStop"
  PROVE  model.session = "Running" \/ scan.pending
  BY DEF OkAct, RetryUnconfirmed, OnOkGated, OnOk, AllowStop, Ui, Eval, Confirmed

LEMMA StopStep ==
  ASSUME IInv, Next, board.kind = "sigroam", slot' = "stopscan", slot # "stopscan"
  PROVE  model.session = "Running" \/ scan.pending \/ Sampling
<1>. USE DEF IInv
<1>1. CASE OkPress
  <2>1. CASE OkStop
    BY <2>1, StopIsKnown DEF OkStop
  <2>2. ~OkStartNow
    BY DEF OkStartNow, QueueCmd, Offer
  <2>3. ~OkStartAfterClear
    BY ClearIsStock DEF OkStartAfterClear
  <2>. QED BY <1>1, <2>1, <2>2, <2>3 DEF OkPress
<1>2. ~TickPrestart
  BY DEF TickPrestart, PrestartRetry, PrestartEnds, PeerKnown
<1>3. ~HsStop
  BY ClearIsStock DEF HsStop, HsStopDue
<1>4. CASE TickGps
  BY <1>4 DEF TickGps, At, Due
<1>5. CASE Leave
  BY <1>5 DEF Leave, GpsAbort
<1>. QED
  BY <1>1, <1>2, <1>3, <1>4, <1>5
  DEF Next, User, GuiTick, Worker, BoardStep, gui, link, Offer, StatusCmd, GpsStart, EnterDash,
      EnterProbe, HsInfo, TickSync, TickIdent, TickScan, ScanRefused, ScanStarted,
      ScanStopped, TickPostStop, TickProbe, TickQual, HsRetry, HsSigroam, Elapse, Take,
      NoCmd, Apply, BoardRead, Announce, Row, Block, Seal, Lose

-----------------------------------------------------------------------------
(* What is on the line, either way.                                        *)

\* Command c is on its way to the board; the board has said a line of kind k
\* that the app has not applied yet.
Sent(c) == slot = c \/ \E i \in 1..Len(tx) : tx[i] = c
Said(k) == \E i \in 1..Len(rx) : rx[i].kind = k

LEMMA TailShift ==
  ASSUME NEW s \in Seq(Line), s # <<>>
  PROVE  /\ Len(s) \in Nat /\ Head(s) = s[1] /\ s[1] \in Line /\ 1 \in 1..Len(s)
         /\ Len(Tail(s)) = Len(s) - 1
         /\ \A i \in 1..Len(Tail(s)) : i + 1 \in 1..Len(s) /\ Tail(s)[i] = s[i + 1]
         /\ \A k \in 1..Len(s) :
              k = 1 \/ (k - 1 \in 1..Len(Tail(s)) /\ Tail(s)[k - 1] = s[k])
  OBVIOUS

LEMMA TailSent ==
  ASSUME NEW s \in Seq(Command), s # <<>>
  PROVE  /\ Len(s) \in Nat /\ Head(s) = s[1] /\ s[1] \in Command /\ 1 \in 1..Len(s)
         /\ Len(Tail(s)) = Len(s) - 1
         /\ \A i \in 1..Len(Tail(s)) : i + 1 \in 1..Len(s) /\ Tail(s)[i] = s[i + 1]
  OBVIOUS

\* A command that leaves the line is sent no more.
LEMMA SentLess ==
  ASSUME TypeOK, tx # <<>>, tx' = Tail(tx), slot' = slot
  PROVE  /\ Sent("wardrive")' => Sent("wardrive")
         /\ Sent("stopscan")' => Sent("stopscan")
         /\ Sent("gpsdata")' => Sent("gpsdata")
         /\ Sent(Head(tx))
<1>1. /\ Len(tx) \in Nat /\ 1 \in 1..Len(tx) /\ Head(tx) = tx[1] /\ Len(tx') = Len(tx) - 1
      /\ \A i \in 1..Len(tx') : i + 1 \in 1..Len(tx) /\ tx'[i] = tx[i + 1]
  BY TailSent DEF TypeOK
<1>. QED BY <1>1 DEF Sent

\* A command that is taken to the line is still sent.
LEMMA SentTaken ==
  ASSUME TypeOK, Take
  PROVE  \A c \in Command : Sent(c)' <=> Sent(c)
<1>1. slot \in Command /\ tx \in Seq(Command) /\ slot' = NoCmd /\ NoCmd \notin Command
  BY DEF TypeOK, Take, Free, NoCmd, Command
<1>2. /\ Len(tx') = Len(tx) + 1 /\ Len(tx) \in Nat /\ tx'[Len(tx) + 1] = slot
      /\ \A i \in 1..Len(tx) : i \in 1..Len(tx') /\ tx'[i] = tx[i]
      /\ Len(tx) + 1 \in 1..Len(tx')
      /\ \A i \in 1..Len(tx') : i = Len(tx) + 1 \/ i \in 1..Len(tx)
  BY <1>1 DEF Take
<1>. QED BY <1>1, <1>2 DEF Sent

LEMMA Appended ==
  ASSUME NEW s \in Seq(Line), NEW t \in Seq(Line)
  PROVE  /\ Len(s) \in Nat /\ Len(t) \in Nat
         /\ Len(s \o t) = Len(s) + Len(t)
         /\ \A i \in 1..Len(s) : (s \o t)[i] = s[i]
         /\ \A i \in 1..Len(t) : (s \o t)[Len(s) + i] = t[i]
         /\ \A k \in 1..Len(s \o t) :
              k \in 1..Len(s) \/ (k - Len(s) \in 1..Len(t) /\ (s \o t)[k] = t[k - Len(s)])
  OBVIOUS

LEMMA SaidMore ==
  ASSUME TypeOK, NEW t \in Seq(Line), rx' = rx \o t
  PROVE  \A k : Said(k)' <=> Said(k) \/ \E i \in 1..Len(t) : t[i].kind = k
<1>1. /\ Len(rx) \in Nat /\ Len(t) \in Nat /\ Len(rx') = Len(rx) + Len(t)
      /\ \A i \in 1..Len(rx) : rx'[i] = rx[i]
      /\ \A i \in 1..Len(t) : rx'[Len(rx) + i] = t[i]
      /\ \A k \in 1..Len(rx') :
           k \in 1..Len(rx) \/ (k - Len(rx) \in 1..Len(t) /\ rx'[k] = t[k - Len(rx)])
  BY Appended DEF TypeOK
<1>2. \A i \in 1..Len(rx) : i \in 1..Len(rx')
  BY <1>1
<1>3. \A i \in 1..Len(t) : Len(rx) + i \in 1..Len(rx')
  BY <1>1
<1>. QED BY <1>1, <1>2, <1>3, SMTT(30) DEF Said

\* A scan is announced, or a row sent, only of a scan; a stream is only ended by
\* a stopscan.
LEMMA SaidNow ==
  ASSUME TypeOK, BoardRead \/ Announce \/ Row \/ Block
  PROVE  /\ Said("started")' => Said("started") \/ board.silent
         /\ Said("row")' => Said("row") \/ (board.kind = "generic" /\ board.st = 1)
         /\ Said("gpsStop")' =>
              Said("gpsStop") \/ (BoardRead /\ Head(tx) = "stopscan" /\ board.gps)
<1>1. ASSUME NEW k \in {"started", "row", "block", "stopped", "gpsStop", "firmware"},
             Say(Plain(k))
      PROVE  \A c : Said(c)' <=> Said(c) \/ c = k
  <2>. DEFINE t == Plain(k)
  <2>1. t \in Seq(Line) /\ Len(t) = 1 /\ t[1].kind = k
    BY DEF Plain, Line, BoardState
  <2>2. rx' = rx \o t
    BY <1>1 DEF Say
  <2>. HIDE DEF t
  <2>3. \A c : Said(c)' <=> Said(c) \/ \E i \in 1..Len(t) : t[i].kind = c
    BY <2>1, <2>2, SaidMore
  <2>. QED BY <2>1, <2>3
<1>2. ASSUME NEW t \in Seq(Line), Say(t),
             \A i \in 1..Len(t) : t[i].kind \in {"busy", "firmware", "diag"}
      PROVE  \A c \in {"started", "row", "gpsStop"} : Said(c)' <=> Said(c)
  <2>1. \A c : Said(c)' <=> Said(c) \/ \E i \in 1..Len(t) : t[i].kind = c
    BY <1>2, SaidMore DEF Say
  <2>. QED BY <1>2, <2>1
<1>3. /\ <<>> \in Seq(Line) /\ Report("busy") \in Seq(Line)
      /\ Plain("firmware") \o Report("diag") \in Seq(Line)
      /\ \A i \in 1..Len(<<>>) : <<>>[i].kind \in {"busy", "firmware", "diag"}
      /\ \A i \in 1..Len(Report("busy")) : Report("busy")[i].kind \in {"busy", "firmware", "diag"}
      /\ \A i \in 1..Len(Plain("firmware") \o Report("diag")) :
            (Plain("firmware") \o Report("diag"))[i].kind \in {"busy", "firmware", "diag"}
  BY DEF Plain, Report, Line, BoardState, TypeOK, Board
<1>4. CASE Announce
  BY <1>1, <1>4 DEF Announce
<1>5. CASE Row
  BY <1>1, <1>5 DEF Row
<1>6. CASE Block
  BY <1>1, <1>6 DEF Block
<1>7. CASE ReadWardrive \/ ReadSigroam \/ ReadGpsdata
  <2>1. Say(<<>>) \/ Say(Report("busy"))
    BY <1>7 DEF ReadWardrive, ReadSigroam, ReadGpsdata
  <2>. QED BY <1>2, <1>3, <2>1
<1>8. CASE ReadInfo
  <2>1. Say(Plain("firmware")) \/ Say(Plain("firmware") \o Report("diag"))
    BY <1>8 DEF ReadInfo
  <2>. QED BY <1>1, <1>2, <1>3, <2>1
<1>9. CASE ReadStopscan /\ BoardRead
  <2>1. \/ Say(<<>>) \/ Say(Report("busy")) \/ Say(Plain("stopped"))
        \/ Say(Plain("gpsStop")) /\ Head(tx) = "stopscan" /\ board.gps
    BY <1>9 DEF ReadStopscan
  <2>. QED BY <1>1, <1>2, <1>3, <1>9, <2>1
<1>. QED BY <1>4, <1>5, <1>6, <1>7, <1>8, <1>9 DEF BoardRead

-----------------------------------------------------------------------------
(* No wardrive is swallowed.                                               *)

\* The line loses nothing, and the user waits for the answers or does without
\* the Probe screen and without samples.
Heeded ==
    /\ board.kind = "generic" /\ ~board.lossy
    /\ board.patient \/ ~ (board.probe \/ board.gpsTab)

\* A stock board shows info once it has read the first n commands on the line.
ShowAt(n) ==
    \/ \E k \in 1..n : tx[k] = "info" /\ \A j \in (k + 1)..n : tx[j] # "stopscan"
    \/ board.showInfo /\ \A j \in 1..n : tx[j] # "stopscan"

\* It shows info once it has read all that is sent.
ShowAfter == slot = "info" \/ (slot # "stopscan" /\ ShowAt(Len(tx)))

\* No wardrive that is sent will be read in SHOW_INFO.
NotShown ==
    /\ \A i \in 1..Len(tx) : tx[i] = "wardrive" => ~ShowAt(i)
    /\ slot = "wardrive" => ~ShowAt(Len(tx))

\* Something was started or stopped, or is about to be.
Engaged ==
    \/ scan.pending \/ model.session = "Running" \/ moved.clear \/ board.silent
    \/ Sent("wardrive") \/ Sent("stopscan") \/ Said("started") \/ Said("stopped")
    \/ app.prestart \/ app.stopSent \/ Sampling

\* Nothing is started or stopped before the peer is known, and the Dash asks
\* for it.
KnownFirst ==
    /\ Engaged => model.fw = "generic"
    /\ scene = "dash" /\ model.fw = "none" => app.ident
    /\ ~model.diagSeen /\ ~Said("diag")
    /\ board.patient /\ scene = "dash" /\ model.fw = "none" => Sent("info") \/ Said("firmware")

\* Without the Probe screen, any command sent leaves SHOW_INFO for good.
DashOnly ==
    ~board.probe =>
      /\ scene # "probe" /\ ~app.stopSent
      /\ scan.pending \/ moved.clear \/ Sent("stopscan") \/ Said("stopped") => ~ShowAfter

\* With it, the stopscan of that screen does, and the prestart of a user who
\* waits, or one that is over.
Cleared ==
    /\ app.stopSent => app.hsSent /\ moved.hs /\ ~ShowAfter
    /\ scene = "dash" /\ app.prestart /\ (board.patient \/ app.prestartOut) => ~ShowAfter

Heeds == NotShown /\ KnownFirst /\ DashOnly /\ Cleared

\* The invariant: -sigroam- firmware has no SHOW_INFO, and a stock peer that is
\* heeded swallows nothing.
SInv ==
    /\ IInv
    /\ board.kind = "sigroam" => ~board.showInfo
    /\ Heeded => Heeds

-----------------------------------------------------------------------------
(* The steps: the GUI's, and without loss the worker's and the board's.    *)

\* The user, a tick, or time.
Gui == User \/ GuiTick \/ Elapse \/ UNCHANGED vars

LEMMA GuiLines ==
  ASSUME TypeOK, Gui
  PROVE  /\ tx' = tx /\ rx' = rx /\ board' = board
         /\ slot' = slot \/ (slot = NoCmd /\ slot' # NoCmd)
         /\ model'.fw = model.fw /\ model'.diagSeen = model.diagSeen
<1>0. model \in Model
  BY DEF TypeOK
<1>1. CASE User
  <2>1. tx' = tx /\ rx' = rx /\ board' = board /\ model' = model
    BY <1>1 DEF User, OkPress, GpsStart, EnterDash, EnterProbe, Leave
  <2>2. slot' = slot \/ (slot = NoCmd /\ slot' # NoCmd)
    BY <1>1 DEF User, OkPress, OkStop, OkStartNow, OkStartAfterClear, QueueCmd, QueueClearingStop,
           GpsStart, EnterDash, EnterProbe, HsInfo, Leave, GpsAbort, Offer, Free, NoCmd, StatusCmd
  <2>. QED BY <2>1, <2>2
<1>2. CASE GuiTick
  <2>1. tx' = tx /\ rx' = rx /\ board' = board
    BY <1>2 DEF GuiTick, TickSync, TickIdent, TickGps, TickScan, TickPostStop, TickPrestart,
           TickProbe, TickQual, HsRetry, HsStop, HsSigroam, link
  <2>2. model'.fw = model.fw /\ model'.diagSeen = model.diagSeen
    BY <1>0, <1>2 DEF GuiTick, TickSync, SessionStarts, TickIdent, TickGps, TickScan, ScanRefused,
           ScanStarted, ScanStopped, TickPostStop, TickPrestart, TickProbe, TickQual, HsRetry,
           HsStop, HsSigroam, Model
  <2>3. slot' = slot \/ (slot = NoCmd /\ slot' # NoCmd)
    BY <1>2 DEF GuiTick, TickSync, TickIdent, TickGps, GpsClose, GpsEnds, TickScan, ScanRefused,
           ScanStarted, ScanStopped, TickPostStop, TickPrestart, QueueClearingStop, TickProbe,
           TickQual, HsRetry, HsInfo, HsStop, HsSigroam, link, Offer, Free, NoCmd, StatusCmd
  <2>. QED BY <2>1, <2>2, <2>3
<1>3. CASE Elapse
  BY <1>0, <1>3 DEF Elapse, link, Model
<1>. QED BY <1>1, <1>2, <1>3 DEF Gui, vars

LEMMA DashEntered ==
  ASSUME TypeOK, EnterDash
  PROVE  /\ ~app'.prestart /\ app'.stopSent = app.stopSent /\ app'.hsSent = app.hsSent
         /\ app'.prestartOut = app.prestartOut
         /\ model.fw = "none" => app'.ident
<1>. DEFINE fresh == [app EXCEPT !.prestart = FALSE, !.postStop = FALSE, !.ident = FALSE,
                                 !.identSends = 0, !.sync = FALSE, !.probed = FALSE]
<1>0. app \in App /\ 0 \in 0..2 /\ (IF Free THEN 1 ELSE 0) \in 0..2
  BY DEF TypeOK
<1>1. /\ fresh \in App /\ ~fresh.prestart /\ fresh.stopSent = app.stopSent
      /\ fresh.hsSent = app.hsSent /\ fresh.prestartOut = app.prestartOut
  BY <1>0 DEF App
<1>2. \/ app' = [fresh EXCEPT !.ident = TRUE, !.identDue = FALSE,
                              !.identSends = IF Free THEN 1 ELSE 0, !.sync = Free]
      \/ model.fw # "none" /\ app' = [fresh EXCEPT !.sync = Free]
      \/ model.fw # "none" /\ app' = [fresh EXCEPT !.probed = Free]
  BY Zenon DEF EnterDash
<1>. HIDE DEF fresh
<1>. QED BY <1>0, <1>1, <1>2, FreeType DEF App

\* Which handlers set the flags that matter here.
LEMMA FlagsSet ==
  ASSUME TypeOK, Gui
  PROVE  /\ app'.stopSent => ~EnterProbe /\ (app.stopSent \/ HsStop)
         /\ app'.prestart => app.prestart \/ (User /\ OkStartAfterClear)
         /\ app'.prestartOut => app.prestartOut \/ Elapse
         /\ scene' = "dash" => scene = "dash" \/ EnterDash
<1>0. app \in App
  BY DEF TypeOK
<1>1. CASE EnterProbe
  <2>. DEFINE a == [app EXCEPT !.stopSent = FALSE, !.sigroamSent = FALSE, !.hsSent = FALSE,
                               !.hsSends = 0, !.hsBytes = FALSE, !.hsOut = FALSE]
  <2>0. 0 \in 0..2
    OBVIOUS
  <2>1. a \in App /\ ~a.stopSent /\ a.prestart = app.prestart /\ a.prestartOut = app.prestartOut
    BY <1>0, <2>0 DEF App
  <2>2. HsInfo(a) /\ scene' = "probe"
    BY <1>1 DEF EnterProbe
  <2>. HIDE DEF a
  <2>. QED BY <2>1, <2>2 DEF HsInfo, App
<1>2. CASE HsRetry
  BY <1>0, <1>2 DEF HsRetry, HsInfo, EnterProbe, App
<1>3. CASE EnterDash
  BY <1>3, DashEntered DEF EnterProbe, EnterDash
<1>4. CASE User /\ OkPress
  BY <1>0, <1>4 DEF OkPress, OkStop, OkStartNow, OkStartAfterClear, EnterProbe, App
<1>5. CASE GpsStart \/ Leave \/ Elapse \/ UNCHANGED vars
  BY <1>0, <1>5 DEF GpsStart, Leave, Elapse, vars, EnterProbe, App
<1>6. CASE TickSync \/ TickIdent \/ TickGps \/ TickScan \/ TickPostStop
  BY <1>0, <1>6 DEF TickSync, TickIdent, TickGps, TickScan, ScanRefused, ScanStarted, ScanStopped,
         TickPostStop, At, EnterProbe, App
<1>7. CASE TickPrestart \/ TickProbe \/ TickQual
  BY <1>0, <1>7 DEF TickPrestart, TickProbe, TickQual, At, EnterProbe, App
<1>8. CASE HsStop \/ HsSigroam
  BY <1>0, <1>8 DEF HsStop, HsSigroam, EnterProbe, App
<1>. QED BY <1>1, <1>2, <1>3, <1>4, <1>5, <1>6, <1>7, <1>8 DEF Gui, User, GuiTick

\* The worker or the board takes a step, and nothing is lost.
Outside == Take \/ Apply \/ BoardRead \/ Announce \/ Row \/ Block \/ Seal

LEMMA Steps ==
  ASSUME [Next]_vars, ~board.lossy
  PROVE  Gui \/ Outside
  BY DEF Next, Gui, Outside, Worker, BoardStep, Lose

LEMMA OutsideApp ==
  ASSUME TypeOK, Outside
  PROVE  /\ scene' = scene
         /\ \A f \in {"prestart", "prestartOut", "stopSent", "hsSent", "ident"} : app'[f] = app[f]
         /\ app.hsSent /\ moved.hs => moved'.hs
         /\ scan'.pending = scan.pending
         /\ Sampling' <=> Sampling
<1>0. app \in App /\ scan \in ScanCtx /\ moved \in Moved /\ gps \in Gps
  BY DEF TypeOK
<1>1. CASE Apply
  <2>1. app' = [app EXCEPT !.hsBytes = @ \/ app.hsSent] /\ scene' = scene
    BY <1>1 DEF Apply
  <2>2. \A f \in {"prestart", "prestartOut", "stopSent", "hsSent", "ident"} : app'[f] = app[f]
    BY <1>0, <2>1 DEF App
  <2>. DEFINE l == Head(rx)
  <2>3. l \in Line /\ ApplyLine(l)
    BY <1>1, TailShift DEF Apply, TypeOK
  <2>. HIDE DEF l
  <2>4. scan'.pending = scan.pending
    BY <1>0, <2>3 DEF ApplyLine, SessionStarts, StoppedLine, SessionTo, Line, ScanCtx
  <2>5. app.hsSent /\ moved.hs => moved'.hs
    BY <1>0, <2>3 DEF ApplyLine, StoppedLine, Line, Moved
  <2>6. gps'.phase = gps.phase
    BY <1>0, <2>3 DEF ApplyLine, SessionStarts, StoppedLine, Line, Gps
  <2>. QED BY <2>1, <2>2, <2>4, <2>5, <2>6 DEF Sampling
<1>2. CASE Take \/ BoardRead \/ Announce \/ Row \/ Block \/ Seal
  BY <1>2 DEF Take, BoardRead, Announce, Row, Block, Seal, gui, Sampling
<1>. QED BY <1>1, <1>2 DEF Outside

\* The app never forgets who the peer is.
LEMMA FwKept ==
  ASSUME IInv, board.kind = "generic", ~board.lossy, [Next]_vars
  PROVE  /\ model.fw \in {"none", "generic"}
         /\ model.fw = "generic" => model'.fw = "generic"
<1>1. CASE Gui
  BY <1>1, GuiLines DEF IInv, PeerKnown
<1>2. CASE Apply
  <2>1. model \in Model
    BY DEF IInv, TypeOK
  <2>. DEFINE l == Head(rx)
  <2>2. l \in Line /\ ApplyLine(l)
    BY <1>2, TailShift DEF Apply, IInv, TypeOK
  <2>. HIDE DEF l
  <2>3. model.fw = "generic" => model'.fw = "generic"
    BY <2>1, <2>2 DEF ApplyLine, SessionStarts, StoppedLine, SessionTo, Line, Model
  <2>. QED BY <2>3 DEF IInv, PeerKnown
<1>3. CASE Take \/ BoardRead \/ Announce \/ Row \/ Block \/ Seal
  BY <1>3 DEF Take, BoardRead, Announce, Row, Block, Seal, IInv, PeerKnown
<1>. QED BY <1>1, <1>2, <1>3, Steps DEF Outside

-----------------------------------------------------------------------------
(* What the board will show, and the commands on the line.                 *)

LEMMA ShowTaken ==
  ASSUME TypeOK, Take
  PROVE  /\ ShowAfter' => ShowAfter
         /\ NotShown => NotShown'
<1>0. tx \in Seq(Command) /\ slot \in Command
  BY DEF TypeOK, Take, Free
<1>1. board' = board /\ slot' = NoCmd
  BY DEF Take
<1>2. PICK n \in Nat : /\ n = Len(tx) /\ Len(tx') = n + 1
                       /\ \A i \in 1..n : tx'[i] = tx[i]
                       /\ tx'[n + 1] = slot
  BY <1>0 DEF Take
<1>3. ASSUME NEW i \in 0..n, ShowAt(i)' PROVE ShowAt(i)
  BY <1>1, <1>2, <1>3 DEF ShowAt
<1>4. ASSUME ShowAt(n + 1)' PROVE ShowAfter
  <2>1. CASE board.showInfo /\ \A j \in 1..(n + 1) : tx'[j] # "stopscan"
    <3>1. slot # "stopscan" /\ \A j \in 1..n : tx[j] # "stopscan"
      BY <1>2, <2>1
    <3>. QED BY <1>2, <2>1, <3>1 DEF ShowAfter, ShowAt
  <2>2. ASSUME NEW k \in 1..(n + 1), tx'[k] = "info",
               \A j \in (k + 1)..(n + 1) : tx'[j] # "stopscan"
        PROVE  ShowAfter
    <3>1. CASE k = n + 1
      BY <1>2, <2>2, <3>1 DEF ShowAfter
    <3>2. CASE k \in 1..n
      <4>1. slot # "stopscan" /\ \A j \in (k + 1)..n : tx[j] # "stopscan"
        BY <1>2, <2>2, <3>2
      <4>. QED BY <1>2, <2>2, <3>2, <4>1 DEF ShowAfter, ShowAt
    <3>. QED BY <1>2, <3>1, <3>2
  <2>. QED BY <1>1, <1>4, <2>1, <2>2 DEF ShowAt
<1>5. ShowAfter' => ShowAt(n + 1)'
  BY <1>1, <1>2 DEF ShowAfter, ShowAt, NoCmd
<1>6. ASSUME NotShown PROVE NotShown'
  <2>1. ASSUME NEW i \in 1..(n + 1), tx'[i] = "wardrive" PROVE ~ShowAt(i)'
    <3>1. CASE i \in 1..n
      <4>1. ~ShowAt(i) /\ i \in 0..n
        BY <1>2, <1>6, <2>1, <3>1 DEF NotShown
      <4>. QED BY <1>3, <4>1
    <3>2. CASE i = n + 1
      <4>1. ~ShowAfter
        BY <1>2, <1>6, <2>1, <3>2 DEF NotShown, ShowAfter
      <4>2. ~ShowAt(n + 1)'
        BY <1>4, <4>1
      <4>. QED BY <3>2, <4>2
    <3>. QED BY <1>2, <3>1, <3>2
  <2>. QED BY <1>1, <1>2, <2>1 DEF NotShown, NoCmd
<1>. QED BY <1>4, <1>5, <1>6

LEMMA ShowRead ==
  ASSUME TypeOK, BoardRead, board.kind = "generic"
  PROVE  /\ ShowAfter' => ShowAfter
         /\ NotShown => NotShown'
<1>0. tx \in Seq(Command) /\ tx # <<>> /\ tx' = Tail(tx)
  BY DEF BoardRead, TypeOK
<1>1. PICK m \in Nat : /\ m = Len(tx') /\ Len(tx) = m + 1 /\ Head(tx) = tx[1]
                       /\ \A i \in 1..m : i + 1 \in 1..(m + 1) /\ tx'[i] = tx[i + 1]
  <2>1. Len(tx') \in Nat /\ Len(tx) = Len(tx') + 1 /\ Head(tx) = tx[1]
    BY <1>0, TailSent
  <2>2. \A i \in 1..Len(tx') : i + 1 \in 1..(Len(tx') + 1) /\ tx'[i] = tx[i + 1]
    BY <1>0, TailSent
  <2>. QED BY <2>1, <2>2
<1>2. slot' = slot
  BY DEF BoardRead
<1>3. /\ tx[1] = "stopscan" => ~board'.showInfo
      /\ tx[1] \notin {"stopscan", "info"} /\ board'.showInfo => board.showInfo
  BY <1>1 DEF BoardRead, ReadWardrive, ReadStopscan, ReadInfo, ReadSigroam, ReadGpsdata, Ended,
              TypeOK, Board
<1>4. ASSUME NEW n \in 0..m, ShowAt(n)' PROVE ShowAt(n + 1)
  <2>1. \A j \in 2..(n + 1) : j - 1 \in 1..n /\ tx[j] = tx'[j - 1]
    BY <1>1
  <2>2. ASSUME NEW k \in 1..n, tx'[k] = "info", \A j \in (k + 1)..n : tx'[j] # "stopscan"
        PROVE  ShowAt(n + 1)
    <3>1. k + 1 \in 1..(n + 1) /\ tx[k + 1] = "info"
      BY <1>1, <2>2
    <3>2. \A j \in ((k + 1) + 1)..(n + 1) : tx[j] # "stopscan"
      <4>. TAKE j \in ((k + 1) + 1)..(n + 1)
      <4>1. j - 1 \in (k + 1)..n /\ j \in 2..(n + 1)
        OBVIOUS
      <4>. QED BY <2>1, <2>2, <4>1
    <3>. QED BY <3>1, <3>2 DEF ShowAt
  <2>3. ASSUME board'.showInfo, \A j \in 1..n : tx'[j] # "stopscan"
        PROVE  ShowAt(n + 1)
    <3>1. \A j \in 2..(n + 1) : tx[j] # "stopscan"
      BY <2>1, <2>3
    <3>2. tx[1] # "stopscan" /\ 1 \in 1..(n + 1)
      BY <1>3, <2>3
    <3>5. \A j \in 1..(n + 1) : tx[j] # "stopscan"
      BY <3>1, <3>2
    <3>3. CASE tx[1] = "info"
      <4>1. \A j \in (1 + 1)..(n + 1) : tx[j] # "stopscan"
        BY <3>1
      <4>. QED BY <3>2, <3>3, <4>1 DEF ShowAt
    <3>4. CASE tx[1] # "info"
      BY <1>3, <2>3, <3>2, <3>4, <3>5 DEF ShowAt
    <3>. QED BY <3>3, <3>4
  <2>4. \/ \E k \in 1..n : tx'[k] = "info" /\ \A j \in (k + 1)..n : tx'[j] # "stopscan"
        \/ board'.showInfo /\ \A j \in 1..n : tx'[j] # "stopscan"
    BY <1>4 DEF ShowAt
  <2>. QED BY <2>2, <2>3, <2>4
<1>5. ShowAt(m)' => ShowAt(Len(tx))
  <2>1. ShowAt(m + 1) => ShowAt(Len(tx))
    BY <1>1
  <2>. QED BY <1>4, <2>1
<1>6. ShowAfter' => ShowAfter
  BY <1>1, <1>2, <1>5 DEF ShowAfter, ShowAt
<1>7. ASSUME NotShown PROVE NotShown'
  <2>1. ASSUME NEW i \in 1..m, tx'[i] = "wardrive" PROVE ~ShowAt(i)'
    <3>1. i \in 0..m /\ ~ShowAt(i + 1)
      BY <1>1, <1>7, <2>1 DEF NotShown
    <3>. QED BY <1>4, <3>1
  <2>2. slot' = "wardrive" => ~ShowAt(m)'
    BY <1>2, <1>5, <1>7 DEF NotShown
  <2>. QED BY <1>1, <2>1, <2>2 DEF NotShown, ShowAt
<1>. QED BY <1>6, <1>7

\* The app asks a stock peer that it knows for info only when the Probe screen
\* opens, and once more.
LEMMA GuiQueues ==
  ASSUME TypeOK, Gui, slot' # slot
  PROVE  /\ slot' = "info" /\ model.fw = "generic" => EnterProbe \/ HsRetry
         /\ slot' = "wardrive" => OkPress \/ (TickPrestart /\ PrestartEnds)
<1>1. ASSUME slot' = "info", model.fw = "generic" PROVE EnterProbe \/ HsRetry
  <2>1. ~OkPress /\ ~Leave /\ ~Elapse /\ ~UNCHANGED vars
    BY <1>1 DEF OkPress, OkStop, OkStartNow, OkStartAfterClear, QueueCmd, QueueClearingStop, Offer,
           Elapse, link, vars, Leave, GpsAbort
  <2>7. ~GpsStart /\ ~TickGps
    BY <1>1 DEF GpsStart, TickGps, GpsClose, GpsEnds, Offer
  <2>2. ~EnterDash
    BY <1>1 DEF EnterDash, Offer, StatusCmd, NoCmd
  <2>3. ~TickSync /\ ~TickPrestart /\ ~TickProbe /\ ~HsStop /\ ~HsSigroam
    BY <1>1 DEF TickSync, link, TickPrestart, QueueClearingStop, TickProbe, HsStop, HsSigroam, Offer
  <2>4. ~TickIdent
    BY <1>1 DEF TickIdent, IdentRetry
  <2>5. ~TickScan /\ ~TickPostStop
    BY <1>1 DEF TickScan, ScanRefused, ScanStarted, ScanStopped, TickPostStop, Offer, StatusCmd, NoCmd
  <2>6. ~TickQual
    BY <1>1 DEF TickQual, Offer, StatusCmd, NoCmd
  <2>. QED BY <2>1, <2>2, <2>3, <2>4, <2>5, <2>6, <2>7 DEF Gui, User, GuiTick
<1>2. ASSUME slot' = "wardrive" PROVE OkPress \/ (TickPrestart /\ PrestartEnds)
  <2>1. ~EnterDash /\ ~EnterProbe /\ ~Leave /\ ~Elapse /\ ~UNCHANGED vars
    BY <1>2 DEF EnterDash, EnterProbe, HsInfo, Offer, StatusCmd, NoCmd, Leave, GpsAbort, Elapse,
           link, vars
  <2>5. ~GpsStart /\ ~TickGps
    BY <1>2 DEF GpsStart, TickGps, GpsClose, GpsEnds, Offer
  <2>2. ~TickSync /\ ~TickIdent /\ ~TickProbe /\ ~TickQual /\ ~HsRetry /\ ~HsStop /\ ~HsSigroam
    BY <1>2 DEF TickSync, link, TickIdent, TickProbe, TickQual, HsRetry, HsInfo, HsStop, HsSigroam,
           Offer, StatusCmd, NoCmd
  <2>3. ~TickScan /\ ~TickPostStop
    BY <1>2 DEF TickScan, ScanRefused, ScanStarted, ScanStopped, TickPostStop, Offer, StatusCmd, NoCmd
  <2>4. TickPrestart => PrestartEnds
    BY <1>2 DEF TickPrestart, QueueClearingStop, Offer
  <2>. QED BY <2>1, <2>2, <2>3, <2>4, <2>5 DEF Gui, User, GuiTick
<1>. QED BY <1>1, <1>2

LEMMA ShowStable ==
  ASSUME TypeOK, board.kind = "generic", ~board.lossy, model.fw = "generic", [Next]_vars,
         ~EnterProbe, ~HsRetry, ShowAfter'
  PROVE  ShowAfter
<1>1. CASE Gui
  <2>1. tx' = tx /\ board' = board /\ (slot' = slot \/ slot = NoCmd)
    BY <1>1, GuiLines
  <2>2. slot' = slot \/ slot' # "info"
    BY <1>1, GuiQueues
  <2>. QED BY <2>1, <2>2 DEF ShowAfter, ShowAt, NoCmd
<1>2. CASE Take \/ BoardRead
  BY <1>2, ShowTaken, ShowRead
<1>3. CASE Apply \/ Announce \/ Row \/ Block \/ Seal
  <2>1. tx' = tx /\ slot' = slot /\ board'.showInfo = board.showInfo
    BY <1>3 DEF Apply, Announce, Row, Block, Seal, link, TypeOK, Board
  <2>. QED BY <2>1 DEF ShowAfter, ShowAt
<1>. QED BY <1>1, <1>2, <1>3, Steps DEF Outside

\* A stopscan that is accepted ends what the board shows.
LEMMA StopClears ==
  ASSUME slot' = "stopscan"
  PROVE  ~ShowAfter'
  BY DEF ShowAfter

-----------------------------------------------------------------------------
(* Nothing is started or stopped before the peer is known.                 *)

LEMMA NoPressUnknown ==
  ASSUME IInv, KnownFirst, board.kind = "generic", OkPress
  PROVE  model.fw = "generic"
<1>. SUFFICES ASSUME model.fw = "none" PROVE FALSE
  BY DEF IInv, PeerKnown
<1>1. ~scan.pending /\ model.session # "Running" /\ IdentHold
  BY DEF KnownFirst, Engaged, OkPress, IdentHold
<1>2. Ui \in {"Busy", "Idle"}
  BY <1>1 DEF Ui, Eval, Confirmed, IInv, TypeOK, ScanCtx
<1>3. OkAct = "None"
  BY <1>1, <1>2 DEF OkAct, RetryUnconfirmed, OnOkGated, AllowStop
<1>. QED BY <1>3 DEF OkPress, OkStop, OkStartNow, OkStartAfterClear

\* A stock board sends no Diag:.
LEMMA PlainKept ==
  ASSUME TypeOK, board.kind = "generic", ~board.lossy, [Next]_vars,
         ~model.diagSeen, ~Said("diag")
  PROVE  ~model'.diagSeen /\ ~Said("diag")'
<1>1. CASE Gui
  BY <1>1, GuiLines DEF Said
<1>2. CASE Apply
  <2>1. rx \in Seq(Line) /\ rx # <<>> /\ rx' = Tail(rx) /\ model \in Model
    BY <1>2 DEF Apply, TypeOK
  <2>2. Head(rx) \in Line /\ Head(rx).kind # "diag" /\ ~Said("diag")'
    BY <2>1, TailShift DEF Said
  <2>. DEFINE l == Head(rx)
  <2>3. l \in Line /\ l.kind # "diag" /\ ApplyLine(l)
    BY <1>2, <2>2 DEF Apply
  <2>. HIDE DEF l
  <2>4. ~model'.diagSeen
    BY <2>1, <2>3 DEF ApplyLine, SessionStarts, StoppedLine, SessionTo, Line, Model
  <2>. QED BY <2>2, <2>4
<1>3. CASE Take \/ Seal
  BY <1>3 DEF Take, Seal, link, Said
<1>4. CASE BoardRead \/ Announce \/ Row \/ Block
  <2>1. PICK t \in Seq(Line) : rx' = rx \o t /\ \A i \in 1..Len(t) : t[i].kind # "diag"
    <3>1. \A k \in {"stopped", "firmware", "started", "row", "block", "gpsStop"} :
            Plain(k) \in Seq(Line) /\ \A i \in 1..Len(Plain(k)) : Plain(k)[i].kind # "diag"
      BY DEF Plain, Line, BoardState
    <3>2. <<>> \in Seq(Line) /\ \A i \in 1..Len(<<>>) : <<>>[i].kind # "diag"
      OBVIOUS
    <3>3. \/ rx' = rx \o <<>>
          \/ \E k \in {"stopped", "firmware", "started", "row", "block", "gpsStop"} :
               rx' = rx \o Plain(k)
      BY <1>4 DEF BoardRead, ReadWardrive, ReadStopscan, ReadInfo, ReadSigroam, ReadGpsdata, Announce,
                  Row, Block, Say
    <3>. QED BY <3>1, <3>2, <3>3
  <2>2. ~Said("diag")'
    BY <2>1, SaidMore
  <2>3. model' = model
    BY <1>4 DEF BoardRead, Announce, Row, Block
  <2>. QED BY <2>2, <2>3
<1>. QED BY <1>1, <1>2, <1>3, <1>4, Steps DEF Outside

\* Of a peer it does not know yet the app only asks who it is ...
LEMMA UnknownGui ==
  ASSUME IInv, KnownFirst, board.kind = "generic", model.fw = "none", Gui,
         board.patient \/ ~board.gpsTab
  PROVE  ~Engaged' /\ (scene' = "dash" => app'.ident)
<1>0. app \in App /\ scan \in ScanCtx /\ model \in Model /\ moved \in Moved
  BY DEF IInv, TypeOK
<1>1. tx' = tx /\ rx' = rx /\ board' = board
  BY GuiLines DEF IInv
<1>2. ~scan.pending /\ model.session # "Running" /\ ~moved.clear /\ ~app.prestart /\ ~app.stopSent
      /\ ~model.diagSeen /\ ~Sampling
  BY DEF KnownFirst, Engaged
<1>3. /\ ~OkPress /\ ~ (User /\ GpsStart) /\ ~TickGps /\ ~HsStop /\ ~HsSigroam /\ ~TickPrestart /\ ~TickProbe /\ ~TickQual /\ ~TickScan
      /\ ~TickSync
  <2>1. ~OkPress
    BY NoPressUnknown
  <2>2. ~HsStop /\ ~HsSigroam
    BY DEF HsStop, HsStopDue, HsSigroam, HsSigroamDue, ShouldProbe
  <2>3. ~TickPrestart /\ ~TickScan
    BY <1>2 DEF TickPrestart, PrestartRetry, PrestartEnds, TickScan, ScanRefused, ScanStarted,
                ScanStopped, Refused, ConfirmedNow
  <2>4. ~Due(3) /\ ~Due(7) /\ ~Due(8)
    BY <1>2 DEF Due, ShouldProbe, StatusCmd, NoCmd
  <2>6. ~ (User /\ GpsStart)
    BY DEF User, GpsStart, KnownFirst, Settled, Answered, Free, Sent, Said, NoCmd
  <2>5. ~Due(1)
    <3>1. SyncAct = "Wait"
      BY <1>0, <1>2 DEF SyncAct, PeerSync, Model
    <3>. QED BY <3>1 DEF Due
  <2>. QED BY <2>1, <2>2, <2>3, <2>4, <2>5, <2>6 DEF TickGps, TickProbe, TickQual, TickSync, At
<1>4. Gui => \/ EnterDash \/ EnterProbe \/ Leave \/ TickIdent \/ TickPostStop \/ HsRetry \/ Elapse
             \/ UNCHANGED vars
  BY <1>3 DEF Gui, User, GuiTick
<1>5. slot' = slot \/ slot' = "info"
  BY <1>2, <1>4 DEF EnterDash, EnterProbe, HsInfo, Leave, TickIdent, TickPostStop, HsRetry, Elapse, vars,
              link, GpsAbort, Offer, StatusCmd, NoCmd
<1>10. ~Sampling'
  BY <1>2, <1>4 DEF EnterDash, EnterProbe, Leave, GpsAbort, GpsRest, TickIdent, TickPostStop, HsRetry,
                    Elapse, vars, Sampling
<1>6. scan'.pending = scan.pending /\ model'.session = model.session
  BY <1>0, <1>4 DEF EnterDash, EnterProbe, Leave, TickIdent, TickPostStop, HsRetry, Elapse, vars,
                    ScanCtx, Model
<1>7. ~moved'.clear
  BY <1>0, <1>2, <1>4 DEF EnterDash, EnterProbe, HsInfo, Leave, TickIdent, TickPostStop, HsRetry,
                          Elapse, vars, Moved
<1>8. ~app'.prestart /\ ~app'.stopSent /\ (scene' = "dash" => app'.ident)
  <2>1. CASE EnterDash
    BY <1>0, <1>2, <2>1, DashEntered DEF IInv
  <2>2. CASE EnterProbe \/ HsRetry
    BY <1>0, <1>2, <2>2 DEF EnterProbe, HsRetry, HsInfo, App
  <2>3. CASE TickIdent
    <3>1. scene' = scene /\ (scene = "dash" => app.ident)
      BY <2>3 DEF TickIdent, KnownFirst
    <3>. QED BY <1>0, <1>2, <2>3, <3>1 DEF TickIdent, IdentKnown, App
  <2>4. CASE TickPostStop \/ Elapse
    <3>1. scene' = scene /\ (scene = "dash" => app.ident)
      BY <2>4 DEF TickPostStop, Elapse, KnownFirst
    <3>. QED BY <1>0, <1>2, <2>4, <3>1 DEF TickPostStop, Elapse, App
  <2>5. CASE Leave \/ UNCHANGED vars
    BY <1>2, <2>5 DEF Leave, vars, KnownFirst
  <2>. QED BY <1>4, <2>1, <2>2, <2>3, <2>4, <2>5
<1>9. ~Sent("wardrive")' /\ ~Sent("stopscan")' /\ ~Said("started")' /\ ~Said("stopped")' /\ ~board'.silent
  BY <1>1, <1>5 DEF KnownFirst, Engaged, Sent, Said
<1>. QED BY <1>2, <1>6, <1>7, <1>8, <1>9, <1>10 DEF Engaged

\* ... and hears nothing else.
LEMMA UnknownOutside ==
  ASSUME IInv, KnownFirst, board.kind = "generic", model.fw = "none", Outside
  PROVE  Engaged' => model'.fw = "generic"
<1>0. TypeOK /\ scan \in ScanCtx /\ model \in Model /\ moved \in Moved /\ board \in Board
  BY DEF IInv, TypeOK
<1>1. /\ scan'.pending = scan.pending
      /\ app'.prestart = app.prestart /\ app'.stopSent = app.stopSent
      /\ Sampling' <=> Sampling
  BY <1>0, OutsideApp
<1>2. ~Engaged
  BY DEF KnownFirst
<1>3. CASE Take
  <2>1. /\ Said("started")' <=> Said("started")
        /\ Said("stopped")' <=> Said("stopped")
    BY <1>3 DEF Take, Said
  <2>2. ~Sent("wardrive")' /\ ~Sent("stopscan")'
    <3>1. slot \in Command /\ slot # "wardrive" /\ slot # "stopscan"
      BY <1>2, <1>3 DEF IInv, TypeOK, Take, Free, Engaged, Sent
    <3>2. \A i \in 1..Len(tx') : tx'[i] = slot \/ \E j \in 1..Len(tx) : tx'[i] = tx[j]
      BY <1>0, <1>3, <3>1 DEF Take, TypeOK
    <3>. QED BY <1>2, <1>3, <3>1, <3>2 DEF Take, Engaged, Sent, NoCmd
  <2>. QED BY <1>1, <1>2, <1>3, <2>1, <2>2 DEF Take, Engaged, gui
<1>4. CASE Apply
  <2>1. rx \in Seq(Line) /\ rx # <<>> /\ rx' = Tail(rx) /\ tx' = tx /\ slot' = slot /\ board' = board
    BY <1>0, <1>4 DEF Apply, TypeOK
  <2>2. /\ Said("started")' => Said("started")
        /\ Said("stopped")' => Said("stopped")
        /\ Head(rx) \in Line /\ Said(Head(rx).kind)
    BY <2>1, TailShift DEF Said
  <2>. DEFINE l == Head(rx)
  <2>3. l \in Line /\ l.kind \notin {"started", "stopped"} /\ ApplyLine(l)
    BY <1>2, <1>4, <2>2 DEF Apply, Engaged
  <2>. HIDE DEF l
  <2>4. \/ model'.fw = "generic"
        \/ model'.session = model.session /\ moved'.clear = moved.clear
    BY <1>0, <1>2, <2>3 DEF ApplyLine, StoppedLine, SessionTo, RowSeen, Line, Model, Moved, Engaged
  <2>5. Sent("wardrive")' <=> Sent("wardrive")
    BY <2>1 DEF Sent
  <2>6. Sent("stopscan")' <=> Sent("stopscan")
    BY <2>1 DEF Sent
  <2>. QED BY <1>1, <1>2, <2>1, <2>2, <2>4, <2>5, <2>6 DEF Engaged
<1>5. CASE BoardRead
  <2>1. /\ Sent("wardrive")' => Sent("wardrive")
        /\ Sent("stopscan")' => Sent("stopscan")
        /\ Sent(Head(tx))
        /\ Head(tx) # "wardrive" /\ Head(tx) # "stopscan"
    BY <1>0, <1>2, <1>5, SentLess DEF BoardRead, Engaged
  <2>2. ~board'.silent /\ (rx' = rx \o Plain("firmware") \/ rx' = rx \o <<>>)
    BY <1>0, <1>2, <1>5, <2>1 DEF BoardRead, ReadWardrive, ReadStopscan, ReadInfo, ReadSigroam,
                                ReadGpsdata, Say, Engaged, Board
  <2>3. /\ Said("started")' => Said("started")
        /\ Said("stopped")' => Said("stopped")
    <3>1. PICK t \in Seq(Line) : rx' = rx \o t /\ \A i \in 1..Len(t) : t[i].kind = "firmware"
      <4>1. Plain("firmware") \in Seq(Line)
            /\ \A i \in 1..Len(Plain("firmware")) : Plain("firmware")[i].kind = "firmware"
        BY DEF Plain, Line, BoardState
      <4>2. <<>> \in Seq(Line) /\ \A i \in 1..Len(<<>>) : <<>>[i].kind = "firmware"
        OBVIOUS
      <4>. QED BY <2>2, <4>1, <4>2
    <3>. QED BY <1>0, <3>1, SaidMore, SMTT(30)
  <2>. QED BY <1>1, <1>2, <1>5, <2>1, <2>2, <2>3 DEF BoardRead, Engaged, gui
<1>6. CASE Announce
  BY <1>2, <1>6 DEF Announce, Engaged
<1>7. CASE Row \/ Block
  <2>1. \A k \in {"row", "block"} :
          Plain(k) \in Seq(Line) /\ \A i \in 1..Len(Plain(k)) : Plain(k)[i].kind = k
    BY DEF Plain, Line, BoardState
  <2>3. PICK t \in Seq(Line) : rx' = rx \o t /\ \A i \in 1..Len(t) : t[i].kind \in {"row", "block"}
    BY <1>7, <2>1 DEF Row, Block, Say
  <2>4. /\ Said("started")' <=> Said("started")
        /\ Said("stopped")' <=> Said("stopped")
    <3>1. \A k : Said(k)' <=> Said(k) \/ \E i \in 1..Len(t) : t[i].kind = k
      BY <1>0, <2>3, SaidMore
    <3>. QED BY <2>3, <3>1
  <2>2. /\ Sent("wardrive")' <=> Sent("wardrive")
        /\ Sent("stopscan")' <=> Sent("stopscan")
    BY <1>7 DEF Row, Block, Sent
  <2>. QED BY <1>1, <1>2, <1>7, <2>2, <2>4 DEF Row, Block, Engaged, gui
<1>8. CASE Seal
  <2>1. /\ Said("started")' <=> Said("started")
        /\ Said("stopped")' <=> Said("stopped")
        /\ Sent("wardrive")' <=> Sent("wardrive")
        /\ Sent("stopscan")' <=> Sent("stopscan")
        /\ board'.silent = board.silent
    BY <1>0, <1>8 DEF Seal, link, Said, Sent, Board
  <2>. QED BY <1>1, <1>2, <1>8, <2>1 DEF Seal, Engaged, gui
<1>. QED BY <1>3, <1>4, <1>5, <1>6, <1>7, <1>8 DEF Outside

\* On the Dash, a user who waits has asked the peer.
LEMMA AskedKept ==
  ASSUME IInv, KnownFirst, board.kind = "generic", ~board.lossy, board.patient, [Next]_vars,
         scene' = "dash", model'.fw = "none"
  PROVE  Sent("info")' \/ Said("firmware")'
<1>0. TypeOK /\ model.fw = "none" /\ model \in Model
  BY FwKept DEF IInv, TypeOK
<1>1. CASE Gui
  <2>1. rx' = rx /\ tx' = tx /\ (slot' = slot \/ slot = NoCmd)
    BY <1>0, <1>1, GuiLines
  <2>2. CASE scene = "dash"
    BY <1>0, <2>1, <2>2 DEF KnownFirst, Sent, Said, NoCmd
  <2>3. CASE scene # "dash"
    <3>1. User /\ EnterDash
      <4>1. EnterDash
        BY <1>0, <1>1, <2>3, FlagsSet
      <4>. QED BY <1>1, <4>1 DEF Gui, GuiTick, EnterDash, TickSync, TickIdent, TickGps, TickScan,
                  TickPostStop, TickPrestart, TickProbe, TickQual, HsRetry, HsStop, HsSigroam,
                  Elapse, vars
    <3>2. slot' = "info"
      BY <1>0, <3>1 DEF User, EnterDash, Settled, Answered, Offer
    <3>. QED BY <3>2 DEF Sent
  <2>. QED BY <2>2, <2>3
<1>2. CASE Outside
  <2>0. scene = "dash" /\ (Sent("info") \/ Said("firmware"))
    <3>1. scene' = scene
      BY <1>0, <1>2, OutsideApp
    <3>. QED BY <1>0, <3>1 DEF KnownFirst
  <2>1. CASE Take
    <3>3. Sent("info") => Sent("info")'
      BY <1>0, <2>1, SentTaken DEF Command
    <3>. QED BY <2>0, <2>1, <3>3 DEF Take, Said
  <2>2. CASE Apply
    <3>1. rx \in Seq(Line) /\ rx # <<>> /\ rx' = Tail(rx) /\ tx' = tx /\ slot' = slot
      BY <2>2 DEF IInv, Apply, TypeOK
    <3>2. Head(rx).kind # "firmware"
      BY <1>0, <2>2 DEF Apply, ApplyLine, Model
    <3>3. Said("firmware") => Said("firmware")'
      <4>1. /\ Head(rx) = rx[1]
            /\ \A k \in 1..Len(rx) :
                 k = 1 \/ (k - 1 \in 1..Len(rx') /\ rx'[k - 1] = rx[k])
        BY <3>1, TailShift
      <4>. QED BY <3>2, <4>1 DEF Said
    <3>. QED BY <2>0, <3>1, <3>3 DEF Sent
  <2>3. CASE BoardRead
    <3>1. /\ tx \in Seq(Command) /\ tx # <<>> /\ tx' = Tail(tx) /\ slot' = slot
      BY <2>3 DEF IInv, TypeOK, BoardRead
    <3>2. Said("firmware") => Said("firmware")'
      <4>1. \E t \in Seq(Line) : rx' = rx \o t
        <5>1. /\ Plain("firmware") \in Seq(Line) /\ Plain("stopped") \in Seq(Line)
              /\ Plain("gpsStop") \in Seq(Line) /\ <<>> \in Seq(Line)
          BY DEF Plain, Line, BoardState
        <5>. QED BY <2>3, <5>1 DEF BoardRead, ReadWardrive, ReadStopscan, ReadInfo, ReadSigroam,
                     ReadGpsdata, Say
      <4>. QED BY <1>0, <4>1, SaidMore
    <3>3. Sent("info") => Sent("info")' \/ Head(tx) = "info"
      <4>1. /\ Head(tx) = tx[1] /\ Len(tx) \in Nat /\ Len(tx') = Len(tx) - 1
            /\ \A i \in 1..Len(tx') : i + 1 \in 1..Len(tx) /\ tx'[i] = tx[i + 1]
        BY <3>1, TailSent
      <4>2. \A k \in 1..Len(tx) : k = 1 \/ (k - 1 \in 1..Len(tx') /\ tx'[k - 1] = tx[k])
        BY <4>1
      <4>. QED BY <3>1, <4>1, <4>2 DEF Sent
    <3>4. Head(tx) = "info" => Said("firmware")'
      <4>. SUFFICES ASSUME Head(tx) = "info" PROVE Said("firmware")'
        OBVIOUS
      <4>1. rx' = rx \o Plain("firmware")
        BY <2>3 DEF BoardRead, ReadWardrive, ReadStopscan, ReadInfo, ReadSigroam, ReadGpsdata, Say
      <4>2. Plain("firmware") \in Seq(Line) /\ 1 \in 1..Len(Plain("firmware"))
            /\ Plain("firmware")[1].kind = "firmware"
        BY DEF Plain, Line, BoardState
      <4>. QED BY <1>0, <4>1, <4>2, SaidMore
    <3>. QED BY <2>0, <3>2, <3>3, <3>4
  <2>4. CASE Announce \/ Row \/ Block
    <3>1. \E t \in Seq(Line) : rx' = rx \o t
      <4>1. \A k \in {"started", "row", "block"} : Plain(k) \in Seq(Line)
        BY DEF Plain, Line, BoardState
      <4>. QED BY <2>4, <4>1 DEF Announce, Row, Block, Say
    <3>2. Said("firmware") => Said("firmware")'
      BY <1>0, <3>1, SaidMore
    <3>. QED BY <2>0, <2>4, <3>2 DEF Announce, Row, Block, Sent
  <2>5. CASE Seal
    BY <2>0, <2>5 DEF Seal, link, Sent, Said
  <2>. QED BY <1>2, <2>1, <2>2, <2>3, <2>4, <2>5 DEF Outside
<1>. QED BY <1>1, <1>2, Steps

LEMMA KnownKept ==
  ASSUME IInv, KnownFirst, board.kind = "generic", ~board.lossy, [Next]_vars,
         board.patient \/ ~board.gpsTab
  PROVE  KnownFirst'
<1>0. board'.patient = board.patient
  BY RunKept DEF IInv
<1>1. /\ ~model'.diagSeen /\ ~Said("diag")'
      /\ board'.patient /\ scene' = "dash" /\ model'.fw = "none"
           => Sent("info")' \/ Said("firmware")'
  BY <1>0, PlainKept, AskedKept DEF IInv, KnownFirst
<1>2. CASE model.fw = "generic"
  BY <1>1, <1>2, FwKept DEF KnownFirst
<1>3. CASE model.fw = "none" /\ Gui
  BY <1>1, <1>3, UnknownGui DEF KnownFirst
<1>4. CASE model.fw = "none" /\ Outside
  <2>1. scene' = scene /\ app'.ident = app.ident
    BY <1>4, OutsideApp DEF IInv
  <2>. QED BY <1>1, <1>4, <2>1, UnknownOutside DEF KnownFirst
<1>. QED BY <1>2, <1>3, <1>4, FwKept, Steps

-----------------------------------------------------------------------------
(* A wardrive is queued when the board will show nothing.                  *)

LEMMA StartCleared ==
  ASSUME IInv, Heeded, Heeds, Gui, slot' # slot, slot' = "wardrive"
  PROVE  ~ShowAfter
<1>0. app \in App /\ board \in Board
  BY DEF IInv, TypeOK
<1>1. CASE OkPress
  <2>1. model.fw = "generic"
    BY <1>1, NoPressUnknown DEF Heeded, Heeds
  <2>2. OkStartNow
    BY <1>1 DEF OkPress, OkStop, OkStartAfterClear, QueueCmd, QueueClearingStop, Offer
  <2>3. app.stopSent
    BY <2>1, <2>2 DEF OkStartNow, ShowInfoClear
  <2>. QED BY <2>3 DEF Heeds, Cleared
<1>2. CASE TickPrestart /\ PrestartEnds
  <2>1. scene = "dash" /\ app.prestart /\ (moved.clear \/ app.prestartOut)
    BY <1>2 DEF TickPrestart, At, PrestartEnds
  <2>2. CASE board.patient \/ app.prestartOut
    BY <2>1, <2>2 DEF Heeds, Cleared
  <2>3. CASE ~board.probe /\ moved.clear
    BY <2>3 DEF Heeds, DashOnly
  <2>. QED BY <2>1, <2>2, <2>3 DEF Heeded
<1>. QED BY <1>1, <1>2, GuiQueues DEF IInv

LEMMA NotShownKept ==
  ASSUME IInv, Heeded, Heeds, [Next]_vars
  PROVE  NotShown'
<1>0. TypeOK /\ NotShown
  BY DEF IInv, Heeds
<1>1. CASE Gui
  <2>1. tx' = tx /\ board' = board
    BY <1>0, <1>1, GuiLines
  <2>2. slot' = "wardrive" => ~ShowAt(Len(tx))
    <3>1. CASE slot' = slot
      BY <1>0, <3>1 DEF NotShown
    <3>2. CASE slot' # slot
      <4>1. slot = NoCmd
        BY <1>0, <1>1, <3>2, GuiLines
      <4>. QED BY <1>1, <3>2, <4>1, StartCleared DEF ShowAfter, NoCmd
    <3>. QED BY <3>1, <3>2
  <2>. QED BY <1>0, <2>1, <2>2 DEF NotShown, ShowAt
<1>2. CASE Take \/ BoardRead
  BY <1>0, <1>2, ShowTaken, ShowRead DEF Heeded
<1>3. CASE Apply \/ Announce \/ Row \/ Block \/ Seal
  <2>1. tx' = tx /\ slot' = slot /\ board'.showInfo = board.showInfo
    BY <1>0, <1>3 DEF Apply, Announce, Row, Block, Seal, link, TypeOK, Board
  <2>. QED BY <1>0, <2>1 DEF NotShown, ShowAt
<1>. QED BY <1>1, <1>2, <1>3, Steps DEF Outside, Heeded

-----------------------------------------------------------------------------
(* Without the Probe screen.                                               *)

Stirred == scan.pending \/ moved.clear \/ Sent("stopscan") \/ Said("stopped")

LEMMA StirredOutside ==
  ASSUME TypeOK, Outside, board.kind = "generic", Stirred'
  PROVE  Stirred
<1>0. scan'.pending = scan.pending
  BY OutsideApp
<1>1. CASE Take
  <2>1. slot \in Command /\ tx \in Seq(Command)
    BY <1>1 DEF TypeOK, Take, Free
  <2>2. \A i \in 1..Len(tx') : tx'[i] = slot \/ \E j \in 1..Len(tx) : tx'[i] = tx[j]
    BY <1>1, <2>1 DEF Take
  <2>3. Sent("stopscan")' => Sent("stopscan")
    BY <1>1, <2>2 DEF Take, Sent, NoCmd
  <2>4. Said("stopped")' <=> Said("stopped")
    BY <1>1 DEF Take, Said
  <2>. QED BY <1>0, <1>1, <2>3, <2>4 DEF Take, Stirred
<1>2. CASE Apply
  <2>1. rx \in Seq(Line) /\ rx # <<>> /\ rx' = Tail(rx) /\ moved \in Moved
    BY <1>2 DEF Apply, TypeOK
  <2>2. (Said("stopped")' => Said("stopped")) /\ Head(rx) \in Line /\ Said(Head(rx).kind)
    BY <2>1, TailShift DEF Said
  <2>3. Sent("stopscan")' <=> Sent("stopscan")
    BY <1>2 DEF Apply, Sent
  <2>. DEFINE l == Head(rx)
  <2>4. l \in Line /\ ApplyLine(l)
    BY <1>2, <2>2 DEF Apply
  <2>5. l.kind = "stopped" => Said("stopped")
    BY <2>2
  <2>. HIDE DEF l
  <2>6. moved'.clear => moved.clear \/ l.kind = "stopped"
    BY <2>1, <2>4 DEF ApplyLine, StoppedLine, Line, Moved
  <2>. QED BY <1>0, <2>2, <2>3, <2>5, <2>6 DEF Stirred
<1>3. CASE BoardRead
  <2>1. (Sent("stopscan")' => Sent("stopscan")) /\ Sent(Head(tx))
    BY <1>3, SentLess DEF BoardRead
  <2>2. Said("stopped")' => Said("stopped") \/ Head(tx) = "stopscan"
    <3>1. CASE ReadStopscan
      BY <3>1 DEF ReadStopscan
    <3>2. CASE ReadWardrive \/ ReadInfo \/ ReadSigroam \/ ReadGpsdata
      <4>1. rx' = rx \o Plain("firmware") \/ rx' = rx \o <<>>
        BY <3>2 DEF ReadWardrive, ReadInfo, ReadSigroam, ReadGpsdata, Say
      <4>2. PICK t \in Seq(Line) : rx' = rx \o t /\ \A i \in 1..Len(t) : t[i].kind = "firmware"
        <5>1. Plain("firmware") \in Seq(Line)
              /\ \A i \in 1..Len(Plain("firmware")) : Plain("firmware")[i].kind = "firmware"
          BY DEF Plain, Line, BoardState
        <5>2. <<>> \in Seq(Line) /\ \A i \in 1..Len(<<>>) : <<>>[i].kind = "firmware"
          OBVIOUS
        <5>. QED BY <4>1, <5>1, <5>2
      <4>. QED BY <4>2, SaidMore
    <3>. QED BY <1>3, <3>1, <3>2 DEF BoardRead
  <2>. QED BY <1>0, <1>3, <2>1, <2>2 DEF BoardRead, Stirred
<1>4. CASE Announce \/ Row \/ Block
  <2>1. PICK t \in Seq(Line) : rx' = rx \o t /\ \A i \in 1..Len(t) : t[i].kind # "stopped"
    <3>1. \A k \in {"started", "row", "block"} :
            Plain(k) \in Seq(Line) /\ \A i \in 1..Len(Plain(k)) : Plain(k)[i].kind # "stopped"
      BY DEF Plain, Line, BoardState
    <3>. QED BY <1>4, <3>1 DEF Announce, Row, Block, Say
  <2>2. Said("stopped")' => Said("stopped")
    BY <2>1, SaidMore
  <2>. QED BY <1>0, <1>4, <2>2 DEF Announce, Row, Block, Stirred, Sent
<1>5. CASE Seal
  BY <1>0, <1>5 DEF Seal, link, Stirred, Sent, Said
<1>. QED BY <1>1, <1>2, <1>3, <1>4, <1>5 DEF Outside

LEMMA StirredGui ==
  ASSUME TypeOK, Gui, Stirred', ~Stirred
  PROVE  slot' # slot /\ slot' \in {"stopscan", "wardrive"}
<1>0. scan \in ScanCtx /\ moved \in Moved
  BY DEF TypeOK
<1>1. tx' = tx /\ rx' = rx
  BY GuiLines
<1>2. moved'.clear => moved.clear
  <2>1. CASE User
    BY <1>0, <2>1 DEF User, OkPress, OkStop, OkStartNow, OkStartAfterClear, GpsStart, EnterDash,
                      EnterProbe, HsInfo, Leave, Moved
  <2>2. CASE GuiTick
    BY <1>0, <2>2 DEF GuiTick, TickSync, TickIdent, TickGps, TickScan, ScanRefused, ScanStarted,
           ScanStopped, TickPostStop, TickPrestart, TickProbe, TickQual, HsRetry, HsInfo, HsStop,
           HsSigroam, Moved
  <2>. QED BY <2>1, <2>2 DEF Gui, Elapse, vars
<1>3. scan'.pending /\ ~scan.pending => Free /\ slot' \in {"stopscan", "wardrive"}
  <2>1. CASE OkPress
    BY <1>0, <2>1 DEF OkPress, OkStop, OkStartNow, OkStartAfterClear, QueueCmd, QueueClearingStop,
                      QueuedCtx, Offer, ScanCtx
  <2>2. CASE TickPrestart
    BY <1>0, <2>2 DEF TickPrestart, QueueClearingStop, QueuedCtx, Offer, ScanCtx
  <2>3. CASE GpsStart \/ EnterDash \/ EnterProbe \/ Leave \/ Elapse \/ UNCHANGED vars
    BY <1>0, <2>3 DEF GpsStart, EnterDash, EnterProbe, Leave, Elapse, vars, ScanCtx
  <2>4. CASE TickSync \/ TickIdent \/ TickGps \/ TickScan \/ TickPostStop \/ TickProbe \/ TickQual
             \/ HsRetry \/ HsStop \/ HsSigroam
    BY <1>0, <2>4 DEF TickSync, SessionStarts, TickIdent, TickGps, TickScan, ScanRefused, ScanStarted, ScanStopped,
           ScanEnds, TickPostStop, TickProbe, TickQual, HsRetry, HsStop, HsSigroam, ScanCtx
  <2>. QED BY <2>1, <2>2, <2>3, <2>4 DEF Gui, User, GuiTick
<1>4. Sent("stopscan")' => Sent("stopscan") \/ (slot' # slot /\ slot' = "stopscan")
  BY <1>1 DEF Sent
<1>5. Said("stopped")' <=> Said("stopped")
  BY <1>1 DEF Said
<1>. QED BY <1>2, <1>3, <1>4, <1>5 DEF Stirred, Free, NoCmd

LEMMA DashOnlyKept ==
  ASSUME IInv, Heeded, Heeds, [Next]_vars
  PROVE  DashOnly'
<1>. SUFFICES ASSUME ~board.probe
              PROVE  scene' # "probe" /\ ~app'.stopSent /\ (Stirred' => ~ShowAfter')
  BY RunKept DEF DashOnly, Stirred, IInv
<1>0. TypeOK /\ app \in App
  BY DEF IInv, TypeOK
<1>1. scene # "probe" /\ ~app.stopSent /\ (Stirred => ~ShowAfter)
  BY DEF Heeds, DashOnly, Stirred
<1>2. ~EnterProbe /\ ~HsRetry /\ ~HsStop /\ ~HsSigroam
  BY <1>1 DEF EnterProbe, HsRetry, HsStop, HsSigroam
<1>3. scene' # "probe" /\ ~app'.stopSent
  <2>1. CASE Gui
    <3>1. ~app'.stopSent
      BY <1>0, <1>1, <1>2, <2>1, FlagsSet
    <3>2. scene' # "probe"
      BY <1>1, <1>2, <2>1 DEF Gui, User, GuiTick, OkPress, GpsStart, EnterDash, Leave, TickSync,
             TickIdent, TickGps, TickScan, TickPostStop, TickPrestart, TickProbe, TickQual, Elapse,
             vars
    <3>. QED BY <3>1, <3>2
  <2>2. CASE Outside
    <3>1. scene' = scene /\ app'.stopSent = app.stopSent
      BY <1>0, <2>2, OutsideApp
    <3>. QED BY <1>1, <3>1
  <2>. QED BY <2>1, <2>2, Steps DEF Heeded
<1>4. ASSUME Stirred' PROVE ~ShowAfter'
  <2>1. CASE Stirred
    <3>1. model.fw = "generic"
      BY <2>1 DEF Heeds, KnownFirst, Engaged, Stirred
    <3>. QED BY <1>0, <1>1, <1>2, <2>1, <3>1, ShowStable DEF Heeded
  <2>2. CASE ~Stirred
    <3>1. Gui
      BY <1>0, <1>4, <2>2, StirredOutside, Steps DEF Heeded
    <3>2. slot' # slot /\ slot' \in {"stopscan", "wardrive"}
      BY <1>0, <1>4, <2>2, <3>1, StirredGui
    <3>3. CASE slot' = "stopscan"
      BY <3>3, StopClears
    <3>4. CASE slot' = "wardrive"
      <4>1. ~ShowAfter
        BY <3>1, <3>2, <3>4, StartCleared
      <4>2. tx' = tx /\ board' = board /\ slot = NoCmd
        BY <1>0, <3>1, <3>2, GuiLines
      <4>. QED BY <3>4, <4>1, <4>2 DEF ShowAfter, ShowAt, NoCmd
    <3>. QED BY <3>2, <3>3, <3>4
  <2>. QED BY <2>1, <2>2
<1>. QED BY <1>3, <1>4

-----------------------------------------------------------------------------
(* With it, or with a prestart.                                            *)

\* The stopscan of the Probe screen comes last of what the screen sends.
LEMMA ProbeStopLast ==
  ASSUME IInv, Heeded, Heeds, [Next]_vars, app'.stopSent
  PROVE  app'.hsSent /\ moved'.hs /\ ~ShowAfter'
<1>0. TypeOK /\ app \in App /\ moved \in Moved
  BY DEF IInv, TypeOK
<1>1. ~EnterProbe /\ (app.stopSent \/ HsStop)
  <2>1. CASE Gui
    BY <1>0, <2>1, FlagsSet
  <2>2. CASE Outside
    <3>1. scene' = scene /\ app'.stopSent = app.stopSent
      BY <1>0, <2>2, OutsideApp
    <3>. QED BY <3>1 DEF EnterProbe
  <2>. QED BY <2>1, <2>2, Steps DEF Heeded
<1>2. CASE HsStop
  <2>1. HsOk /\ slot' = "stopscan"
    BY <1>2 DEF HsStop, HsStopDue, Offer
  <2>2. app'.hsSent /\ moved'.hs
    BY <1>0, <1>2, <2>1 DEF HsStop, HsOk, App, Moved
  <2>. QED BY <2>1, <2>2, StopClears
<1>3. CASE app.stopSent /\ ~HsStop
  <2>2. app.hsSent /\ moved.hs /\ ~ShowAfter /\ model.fw = "generic"
    BY <1>3 DEF Heeds, Cleared, KnownFirst, Engaged
  <2>3. ~HsRetry
    BY <2>2 DEF HsRetry, HsRetryDue, HsNoReply, HsOk
  <2>4. ~ShowAfter'
    BY <1>0, <1>1, <2>2, <2>3, ShowStable DEF Heeded
  <2>5. app'.hsSent /\ moved'.hs
    <3>1. CASE Gui
      <4>1. CASE OkPress \/ GpsStart \/ Leave \/ Elapse \/ UNCHANGED vars
        BY <1>0, <2>2, <4>1 DEF OkPress, OkStop, OkStartNow, OkStartAfterClear, GpsStart, Leave,
                                Elapse, vars, App, Moved
      <4>2. CASE EnterDash
        BY <1>0, <2>2, <4>2, DashEntered DEF EnterDash, Moved
      <4>3. CASE TickSync \/ TickIdent \/ TickGps \/ TickScan \/ TickPostStop
        BY <1>0, <2>2, <4>3 DEF TickSync, TickIdent, TickGps, TickScan, ScanRefused, ScanStarted, ScanStopped,
               TickPostStop, App, Moved
      <4>4. CASE TickPrestart \/ TickProbe \/ TickQual \/ HsSigroam
        BY <1>0, <2>2, <4>4 DEF TickPrestart, TickProbe, TickQual, HsSigroam, App, Moved
      <4>. QED BY <1>1, <1>3, <2>3, <3>1, <4>1, <4>2, <4>3, <4>4 DEF Gui, User, GuiTick
    <3>2. CASE Outside
      BY <1>0, <2>2, <3>2, OutsideApp
    <3>. QED BY <3>1, <3>2, Steps DEF Heeded
  <2>. QED BY <2>4, <2>5
<1>. QED BY <1>1, <1>2, <1>3

\* A prestart waits for a stopscan that is the last of what was sent.
LEMMA PrestartLast ==
  ASSUME IInv, Heeded, Heeds, [Next]_vars,
         scene' = "dash", app'.prestart, board.patient \/ app'.prestartOut
  PROVE  ~ShowAfter'
<1>0. TypeOK /\ app \in App
  BY DEF IInv, TypeOK
<1>1. CASE scene = "dash" /\ app.prestart /\ (board.patient \/ app.prestartOut)
  <2>1. ~ShowAfter /\ model.fw = "generic"
    BY <1>1 DEF Heeds, Cleared, KnownFirst, Engaged
  <2>2. ~EnterProbe /\ ~HsRetry
    BY <1>1 DEF EnterProbe, HsRetry
  <2>. QED BY <1>0, <2>1, <2>2, ShowStable DEF Heeded
<1>2. CASE ~ (scene = "dash" /\ app.prestart /\ (board.patient \/ app.prestartOut))
  <2>1. Gui
    <3>1. Outside => /\ scene' = scene /\ app'.prestart = app.prestart
                     /\ app'.prestartOut = app.prestartOut
      BY <1>0, OutsideApp
    <3>. QED BY <1>2, <3>1, Steps DEF Heeded
  <2>2. ~EnterDash
    BY <1>0, DashEntered
  <2>3. scene = "dash"
    BY <1>0, <2>1, <2>2, FlagsSet
  <2>4. CASE ~app.prestart
    <3>1. User /\ OkStartAfterClear
      BY <1>0, <2>1, <2>4, FlagsSet
    <3>2. ~app'.prestartOut
      BY <1>0, <3>1 DEF OkStartAfterClear, App
    <3>3. slot = NoCmd
      BY <3>1, <3>2 DEF User, Settled, Answered, Free
    <3>4. CASE QueueClearingStop
      BY <3>3, <3>4, StopClears DEF QueueClearingStop, Offer, Free
    <3>5. CASE ShowInfoClear(model.fw, app.stopSent) = "Wait" /\ slot' = slot
      <4>1. app.stopSent
        BY <3>5 DEF ShowInfoClear
      <4>2. ~ShowAfter
        BY <4>1 DEF Heeds, Cleared
      <4>3. tx' = tx /\ board' = board
        BY <1>0, <2>1, GuiLines
      <4>. QED BY <3>5, <4>2, <4>3 DEF ShowAfter, ShowAt
    <3>. QED BY <3>1, <3>4, <3>5 DEF OkStartAfterClear
  <2>5. CASE app.prestart
    <3>1. ~board.patient /\ ~app.prestartOut /\ Elapse
      BY <1>0, <1>2, <2>1, <2>3, <2>5, FlagsSet
    <3>2. ~PrestartRetry
      <4>1. ~Due(6)
        BY <2>3, <3>1 DEF Elapse, NoneDue
      <4>. QED BY <4>1 DEF Due
    <3>3. app.stopSent \/ Stirred
      BY <2>5, <3>1, <3>2 DEF PrestartRetry, Stirred
    <3>4. ~ShowAfter
      BY <3>1, <3>3 DEF Heeded, Heeds, Cleared, DashOnly, Stirred
    <3>5. tx' = tx /\ board' = board /\ slot' = slot
      BY <3>1 DEF Elapse, link
    <3>. QED BY <3>4, <3>5 DEF ShowAfter, ShowAt
  <2>. QED BY <2>4, <2>5
<1>. QED BY <1>1, <1>2

-----------------------------------------------------------------------------
(* The invariant, and what it says of a wardrive.                          *)

LEMMA OwnShowsNone ==
  ASSUME TypeOK, board.kind = "sigroam", ~board.showInfo, [Next]_vars
  PROVE  ~board'.showInfo
<1>0. board \in Board
  BY DEF TypeOK
<1>1. CASE BoardRead \/ Announce \/ Seal
  BY <1>0, <1>1 DEF BoardRead, ReadWardrive, ReadStopscan, ReadInfo, ReadSigroam,
                    ReadGpsdata, Ended, Announce, Seal, Board
<1>2. CASE board' = board
  BY <1>2
<1>3. Outside => BoardRead \/ Announce \/ Seal \/ board' = board
  BY DEF Outside, Take, Apply, Row, Block
<1>4. Gui => board' = board
  BY GuiLines
<1>5. Gui \/ Outside \/ Lose
  BY DEF Next, Gui, Outside, Worker, BoardStep
<1>. QED BY <1>1, <1>2, <1>3, <1>4, <1>5 DEF Lose

LEMMA SInvInit == Init => SInv
<1>. SUFFICES ASSUME Init PROVE SInv
  OBVIOUS
<1>1. tx = <<>> /\ rx = <<>> /\ slot = NoCmd /\ ~board.silent
  BY DEF Init, BoardInit
<1>2. /\ ~scan.pending /\ model.session = "Idle" /\ ~moved.clear /\ ~app.prestart /\ ~app.stopSent
      /\ scene = "menu" /\ ~model.diagSeen /\ ~Sampling
  BY DEF Init, Sampling, GpsRest
<1>3. /\ ~Sent("wardrive") /\ ~Sent("stopscan")
      /\ ~Said("started") /\ ~Said("stopped") /\ ~Said("diag")
  BY <1>1 DEF Sent, Said, NoCmd
<1>4. NotShown
  BY <1>1 DEF NotShown, NoCmd
<1>5. KnownFirst
  BY <1>1, <1>2, <1>3 DEF KnownFirst, Engaged
<1>6. DashOnly /\ Cleared
  BY <1>2, <1>3 DEF DashOnly, Cleared
<1>7. board.kind = "sigroam" => ~board.showInfo
  BY DEF Init, BoardInit
<1>. QED BY <1>4, <1>5, <1>6, <1>7, InitIInv DEF SInv, Heeds

LEMMA SInvNext == SInv /\ [Next]_vars => SInv'
<1>. SUFFICES ASSUME SInv, [Next]_vars PROVE SInv'
  OBVIOUS
<1>1. IInv' /\ IInv
  BY TypeKept, PeerKnownKept DEF SInv, IInv
<1>2. /\ board'.kind = board.kind /\ board'.lossy = board.lossy
      /\ board'.patient = board.patient /\ board'.probe = board.probe
      /\ board'.gpsTab = board.gpsTab
  BY <1>1, RunKept DEF IInv
<1>3. board'.kind = "sigroam" => ~board'.showInfo
  BY <1>1, <1>2, OwnShowsNone DEF SInv, IInv
<1>4. ASSUME Heeded' PROVE Heeds'
  <2>1. Heeded /\ Heeds
    BY <1>2, <1>4 DEF Heeded, SInv
  <2>2. NotShown' /\ DashOnly'
    BY <1>1, <2>1, NotShownKept, DashOnlyKept
  <2>3. KnownFirst'
    BY <1>1, <2>1, KnownKept DEF Heeded, Heeds
  <2>4. Cleared'
    BY <1>1, <1>2, <2>1, ProbeStopLast, PrestartLast DEF Cleared
  <2>. QED BY <2>2, <2>3, <2>4 DEF Heeds
<1>. QED BY <1>1, <1>3, <1>4 DEF SInv

LEMMA ReadUnshown ==
  ASSUME SInv, BoardRead, Head(tx) = "wardrive", ~board.lossy,
         board.patient \/ ~ (board.probe \/ board.gpsTab)
  PROVE  ~board.showInfo
<1>1. CASE board.kind = "generic"
  <2>1. 1 \in 1..Len(tx) /\ tx[1] = "wardrive"
    BY TailSent DEF SInv, IInv, TypeOK, BoardRead
  <2>2. ~ShowAt(1)
    BY <1>1, <2>1 DEF SInv, Heeded, Heeds, NotShown
  <2>. QED BY <2>1, <2>2 DEF ShowAt
<1>2. CASE board.kind = "sigroam"
  BY <1>2 DEF SInv
<1>. QED BY <1>1, <1>2 DEF SInv, IInv, TypeOK, Board, Kind

\* The line loses nothing, and the user waits for answers or never opens the
\* Probe screen and never takes a sample: then no wardrive is read in SHOW_INFO,
\* for the stopscan that clears it is before it on the line (dash_scan_toggle,
\* dash_prestart_tick, and the stopscan of the Probe screen's tick).
THEOREM NeverSwallowed == Spec => NotSwallowed
<1>1. SInv /\ [Next]_vars =>
        [BoardRead /\ Head(tx) = "wardrive" /\ ~board.lossy
          /\ (board.patient \/ ~ (board.probe \/ board.gpsTab)) => ~board.showInfo]_vars
  BY ReadUnshown
<1>. QED BY <1>1, SInvInit, SInvNext, PTL DEF Spec, NotSwallowed
=============================================================================
