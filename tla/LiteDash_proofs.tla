--------------------------- MODULE LiteDash_proofs --------------------------
(***************************************************************************)
(* What holds of LiteDash for every play and every bound: its types, that  *)
(* a sample is closed out with a stop, that the recovery stops and reboots *)
(* no board that scans, that gpsdata is kept from one that does, and that  *)
(* the screen counts no access point the board did not find.               *)
(*                                                                         *)
(* The invariants are layers.  Of the line it is enough to know which      *)
(* commands and lines are on their way, not in which order (Calls, Lines); *)
(* but each line on the way is true of the board (LinesTrue), as the board *)
(* reads a command when all it said was applied.  AskInv relates the flags *)
(* of a watched start and says that no start is under way while the board  *)
(* is asked.  AgreeInv says when the app knows of a scan; TimeInv what the *)
(* end of a window then says of the board; PatientInv what a user who      *)
(* waits leaves alone.                                                     *)
(*                                                                         *)
(* For the totals the order of the commands counts.  OrderInv says that a  *)
(* start is behind the stop it needs, SyncInv that the question of a       *)
(* screen just entered is answered before it, RunsInv that a session which *)
(* runs hears of that stop before the start is sent.  CountInv adds up     *)
(* what is counted and what is on its way, and says that the totals of a   *)
(* scan that is over are replaced before the next one begins.              *)
(***************************************************************************)
EXTENDS LiteDash, TLAPS, FiniteSetTheorems

ScanSet == [pending : BOOLEAN, isStart : BOOLEAN, rejected : BOOLEAN,
            revRose : BOOLEAN, timedOut : BOOLEAN, ack : BOOLEAN]

AppSet == [prestart : BOOLEAN, prestartOut : BOOLEAN, latched : BOOLEAN,
           postStop : BOOLEAN, sync : BOOLEAN, syncMoved : BOOLEAN,
           clear : BOOLEAN, seed : BOOLEAN]

RecSet == [phase : RecPhase, due : BOOLEAN, checkSent : BOOLEAN, fresh : BOOLEAN,
           rebootSent : BOOLEAN, banner : BOOLEAN, retryArm : BOOLEAN, retryAck : BOOLEAN]

GpsSet == [phase : GpsPhase, got : BOOLEAN, moved : BOOLEAN, atSend : BOOLEAN,
           stopMoved : BOOLEAN, slow : BOOLEAN, over : BOOLEAN, ackOut : BOOLEAN]

PoiSet == [phase : PoiPhase, ack : BOOLEAN, over : BOOLEAN]

ModelSet == [session : Session, diagSt : {0, 1}, ap : 0..MaxRows + 1,
             blocks : BOOLEAN, sessSeen : BOOLEAN, sessMoved : BOOLEAN,
             sessAp : 0..MaxRows, sessOn : BOOLEAN]

BoardSet == [st : {0, 1}, silent : BOOLEAN, gps : BOOLEAN, ap : 0..MaxRows, up : BOOLEAN]

LineSet == [k : LineKind, n : 0..MaxRows, on : BOOLEAN]

-----------------------------------------------------------------------------
(* Type correctness.                                                       *)

LEMMA TypeParts ==
  LiteTypeOK <=>
    /\ scene \in {"menu", "dash"} /\ gpc \in 0..9
    /\ scan \in ScanSet /\ app \in AppSet /\ rec \in RecSet
    /\ gps \in GpsSet /\ poi \in PoiSet /\ model \in ModelSet
    /\ slot \in Command \cup {NoCmd}
    /\ tx \in Seq(Command) /\ Len(tx) <= MaxTx
    /\ rx \in Seq(LineSet)
    /\ board \in BoardSet
  BY Zenon DEF LiteTypeOK, ScanSet, AppSet, RecSet, GpsSet, PoiSet, ModelSet, BoardSet, LineSet

LEMMA TypePartsNext ==
  LiteTypeOK' <=>
    /\ scene' \in {"menu", "dash"} /\ gpc' \in 0..9
    /\ scan' \in ScanSet /\ app' \in AppSet /\ rec' \in RecSet
    /\ gps' \in GpsSet /\ poi' \in PoiSet /\ model' \in ModelSet
    /\ slot' \in Command \cup {NoCmd}
    /\ tx' \in Seq(Command) /\ Len(tx') <= MaxTx
    /\ rx' \in Seq(LineSet)
    /\ board' \in BoardSet
  BY Zenon DEF LiteTypeOK, ScanSet, AppSet, RecSet, GpsSet, PoiSet, ModelSet, BoardSet, LineSet

LEMMA TypeInit == Init => LiteTypeOK
<1>. SUFFICES ASSUME Init PROVE LiteTypeOK
  OBVIOUS
<1>1. MaxRows \in Nat /\ MaxTx \in Nat
  BY LiteDashAssumption
<1>2. scan \in ScanSet /\ app \in AppSet /\ rec \in RecSet /\ gps \in GpsSet /\ poi \in PoiSet
  BY DEF Init, ScanSet, AppSet, RecSet, GpsSet, PoiSet, RecPhase, GpsPhase, PoiPhase
<1>3. board \in BoardSet
  BY <1>1 DEF Init, BoardSet
<1>4. model \in ModelSet
  BY <1>1, <1>3 DEF Init, ModelSet, BoardSet, Session
<1>5. /\ scene \in {"menu", "dash"} /\ gpc \in 0..9 /\ slot \in Command \cup {NoCmd}
      /\ tx \in Seq(Command) /\ Len(tx) <= MaxTx /\ rx \in Seq(LineSet)
  BY <1>1 DEF Init
<1>. QED BY <1>2, <1>3, <1>4, <1>5, TypeParts

LEMMA OfferType ==
  ASSUME slot \in Command \cup {NoCmd}, NEW c \in Command, Offer(c)
  PROVE  slot' \in Command \cup {NoCmd}
  BY DEF Offer

LEMMA QueuedType ==
  ASSUME NEW p \in BOOLEAN, NEW s \in BOOLEAN
  PROVE  Queued(p, s) \in ScanSet
  BY DEF Queued, ScanSet, Free

LEMMA QueueType ==
  ASSUME scan \in ScanSet, slot \in Command \cup {NoCmd}
  PROVE  /\ \A s \in BOOLEAN : QueueCmd(s) =>
              scan' \in ScanSet /\ slot' \in Command \cup {NoCmd}
         /\ QueueClearingStop =>
              scan' \in ScanSet /\ slot' \in Command \cup {NoCmd}
<1>0. scan.pending \in BOOLEAN /\ "wardrive" \in Command /\ "stopscan" \in Command
  BY DEF ScanSet, Command
<1>1. ASSUME NEW s \in BOOLEAN, QueueCmd(s)
      PROVE  scan' \in ScanSet /\ slot' \in Command \cup {NoCmd}
  <2>1. scan' \in ScanSet
    BY <1>0, <1>1, QueuedType DEF QueueCmd
  <2>2. slot' \in Command \cup {NoCmd}
    BY <1>0, <1>1 DEF QueueCmd, Offer
  <2>. QED BY <2>1, <2>2
<1>2. ASSUME QueueClearingStop
      PROVE  scan' \in ScanSet /\ slot' \in Command \cup {NoCmd}
  <2>1. Queued(scan.pending, FALSE) \in ScanSet
    BY <1>0, QueuedType
  <2>2. scan' \in ScanSet
    BY <1>0, <1>2, <2>1 DEF QueueClearingStop, ScanSet, Free
  <2>3. slot' \in Command \cup {NoCmd}
    BY <1>0, <1>2 DEF QueueClearingStop, Offer
  <2>. QED BY <2>2, <2>3
<1>. QED BY <1>1, <1>2

LEMMA RecOffType ==
  ASSUME rec \in RecSet
  PROVE  RecOff \in RecSet
  BY DEF RecOff, RecSet, RecPhase

LEMMA ToggleType ==
  ASSUME scan \in ScanSet, app \in AppSet, slot \in Command \cup {NoCmd}, Toggle
  PROVE  scan' \in ScanSet /\ app' \in AppSet /\ slot' \in Command \cup {NoCmd}
<1>1. CASE ToggleStop
  <2>1. QueueCmd(FALSE)
    BY <1>1 DEF ToggleStop
  <2>2. app' \in AppSet
    BY <1>1 DEF ToggleStop, AppSet
  <2>. QED BY <2>1, <2>2, QueueType
<1>2. CASE ToggleStart
  <2>1. app' \in AppSet
    BY <1>2 DEF ToggleStart, AppSet
  <2>. QED BY <1>2, <2>1, QueueType DEF ToggleStart
<1>3. CASE ToggleNot
  BY <1>3 DEF ToggleNot
<1>. QED BY <1>1, <1>2, <1>3 DEF Toggle

LEMMA SessionType ==
  ASSUME scan \in ScanSet, gps \in GpsSet, model \in ModelSet
  PROVE  /\ SessionStarts => scan' \in ScanSet /\ gps' \in GpsSet /\ model' \in ModelSet
         /\ \A k : SessionStops(k) => scan' \in ScanSet /\ model' \in ModelSet
         /\ \A s : SessionTo(s) => scan' \in ScanSet
<1>1. ASSUME NEW s, SessionTo(s) PROVE scan' \in ScanSet
  BY <1>1 DEF SessionTo, ScanSet
<1>2. ASSUME SessionStarts
      PROVE  scan' \in ScanSet /\ gps' \in GpsSet /\ model' \in ModelSet
  <2>0. 0 \in 0..MaxRows + 1
    BY LiteDashAssumption
  <2>1. scan' \in ScanSet
    BY <1>1, <1>2 DEF SessionStarts
  <2>2. gps' \in GpsSet
    BY <1>2 DEF SessionStarts, GpsSet
  <2>3. model' \in ModelSet
    BY <1>2, <2>0 DEF SessionStarts, ModelSet, Session
  <2>. QED BY <2>1, <2>2, <2>3
<1>3. ASSUME NEW k, SessionStops(k) PROVE scan' \in ScanSet /\ model' \in ModelSet
  <2>1. scan' \in ScanSet
    BY <1>1, <1>3 DEF SessionStops
  <2>2. model' \in ModelSet
    BY <1>3 DEF SessionStops, Stopped, ModelSet, Session
  <2>. QED BY <2>1, <2>2
<1>. QED BY <1>1, <1>2, <1>3

LEMMA RecoverType ==
  ASSUME scan \in ScanSet, app \in AppSet, rec \in RecSet, slot \in Command \cup {NoCmd},
         Recover
  PROVE  scan' \in ScanSet /\ app' \in AppSet /\ rec' \in RecSet
         /\ slot' \in Command \cup {NoCmd}
<1>0. "sigroam" \in Command /\ "reboot" \in Command
  BY DEF Command
<1>1. CASE RecRuns
  BY <1>1, RecOffType DEF RecRuns
<1>2. CASE RecWatches
  BY <1>2 DEF RecWatches, RecSet, RecPhase
<1>3. CASE RecChecks
  <2>1. rec' \in RecSet
    BY <1>3 DEF RecChecks, RecSet, RecPhase, Free
  <2>. QED BY <1>0, <1>3, <2>1, OfferType DEF RecChecks
<1>4. CASE RecAdopts
  <2>1. rec' \in RecSet
    BY <1>4, RecOffType DEF RecAdopts
  <2>2. scan' \in ScanSet /\ app' \in AppSet
    BY <1>4 DEF RecAdopts, ScanSet, AppSet
  <2>. QED BY <1>4, <2>1, <2>2 DEF RecAdopts
<1>5. CASE RecRetries
  <2>1. rec' \in RecSet /\ app' \in AppSet
    BY <1>5 DEF RecRetries, RecSet, AppSet, RecPhase
  <2>. QED BY <1>5, <2>1, QueueType DEF RecRetries
<1>6. CASE RecNoDiag
  BY <1>6 DEF RecNoDiag, RecSet, RecPhase
<1>7. CASE RecRetried
  BY <1>7 DEF RecRetried, RecSet, RecPhase
<1>8. CASE RecMisses
  BY <1>8 DEF RecMisses, RecSet, RecPhase
<1>9. CASE RecUp
  <2>1. rec' \in RecSet
    BY <1>9, RecOffType DEF RecUp
  <2>2. scan' \in ScanSet /\ app' \in AppSet
    BY <1>9 DEF RecUp, ScanSet, AppSet
  <2>. QED BY <1>9, <2>1, <2>2 DEF RecUp
<1>10. CASE RecAsksAgain
  <2>1. rec' \in RecSet
    BY <1>10 DEF RecAsksAgain, RecSet
  <2>. QED BY <1>0, <1>10, <2>1, OfferType DEF RecAsksAgain
<1>11. CASE RecRebootsAgain
  <2>1. rec' \in RecSet
    BY <1>11 DEF RecRebootsAgain, RecSet
  <2>. QED BY <1>0, <1>11, <2>1, OfferType DEF RecRebootsAgain
<1>. QED BY <1>1, <1>2, <1>3, <1>4, <1>5, <1>6, <1>7, <1>8, <1>9, <1>10, <1>11 DEF Recover

LEMMA TypeUser == LiteTypeOK /\ User => LiteTypeOK'
<1>. SUFFICES ASSUME LiteTypeOK, User PROVE LiteTypeOK'
  OBVIOUS
<1>0. /\ "sigroam" \in Command /\ "reboot" \in Command /\ "stopscan" \in Command
      /\ "gpsdata" \in Command /\ "wardrivepoi" \in Command
  BY DEF Command
<1>1. CASE OkDash
  <2>1. CASE OkReboots
    <3>1. rec' \in RecSet
      BY <2>1, TypeParts DEF OkReboots, RecSet, RecPhase, Free
    <3>2. slot' \in Command \cup {NoCmd}
      BY <1>0, <2>1, OfferType, TypeParts DEF OkReboots
    <3>. QED BY <1>1, <2>1, <3>1, <3>2, TypeParts, TypePartsNext DEF OkDash, OkReboots
  <2>2. CASE OkCancels
    <3>1. rec' \in RecSet
      BY <2>2, RecOffType, TypeParts DEF OkCancels
    <3>2. scan' \in ScanSet /\ app' \in AppSet /\ slot' \in Command \cup {NoCmd}
      BY <2>2, ToggleType, TypeParts DEF OkCancels
    <3>. QED BY <1>1, <3>1, <3>2, TypeParts, TypePartsNext DEF OkDash
  <2>. QED BY <1>1, <2>1, <2>2 DEF OkDash
<1>2. CASE OkGps
  <2>1. CASE GpsStart
    <3>1. slot' \in Command \cup {NoCmd}
      BY <1>0, <2>1, OfferType, TypeParts DEF GpsStart
    <3>2. gps' \in GpsSet
      <4>1. GpsIdle \in GpsSet
        BY DEF GpsIdle, GpsSet, GpsPhase
      <4>2. (Free /\ model.blocks) \in BOOLEAN
        OBVIOUS
      <4>3. (IF Free THEN "WaitBlock" ELSE "Rejected") \in GpsPhase
        BY DEF GpsPhase
      <4>. QED BY <2>1, <4>1, <4>2, <4>3 DEF GpsStart, GpsSet
    <3>. QED BY <1>2, <2>1, <3>1, <3>2, TypeParts, TypePartsNext DEF OkGps, GpsStart
  <2>2. CASE PoiSend
    <3>1. slot' \in Command \cup {NoCmd}
      BY <1>0, <2>2, OfferType, TypeParts DEF PoiSend
    <3>2. poi' \in PoiSet
      BY <2>2, TypeParts DEF PoiSend, PoiSet, PoiPhase
    <3>. QED BY <1>2, <2>2, <3>1, <3>2, TypeParts, TypePartsNext DEF OkGps, PoiSend
  <2>. QED BY <1>2, <2>1, <2>2 DEF OkGps
<1>3. CASE EnterDash
  <2>1. slot' \in Command \cup {NoCmd}
    BY <1>0, <1>3, OfferType, TypeParts DEF EnterDash
  <2>2. app' \in AppSet
    BY <1>3, TypeParts DEF EnterDash, AppSet, Free
  <2>3. model' \in ModelSet
    BY <1>3, TypeParts DEF EnterDash, ModelSet
  <2>. QED BY <1>3, <2>1, <2>2, <2>3, TypeParts, TypePartsNext DEF EnterDash
<1>4. CASE LeaveDash
  <2>1. rec' \in RecSet
    BY <1>4, RecOffType, TypeParts DEF LeaveDash
  <2>2. gps' \in GpsSet /\ slot' \in Command \cup {NoCmd}
    <3>1. GpsIdle \in GpsSet
      BY DEF GpsIdle, GpsSet, GpsPhase
    <3>. QED BY <1>0, <1>4, <3>1, OfferType, TypeParts, TypePartsNext DEF LeaveDash, GpsAbort
  <2>. QED BY <1>4, <2>1, <2>2, TypeParts, TypePartsNext DEF LeaveDash
<1>. QED BY <1>1, <1>2, <1>3, <1>4 DEF User

LEMMA DoneType ==
  ASSUME NEW p \in 0..9, Done(p)
  PROVE  gpc' \in 0..9
  BY DEF Done

LEMMA TypeTick == LiteTypeOK /\ (Tick \/ TickQual) => LiteTypeOK'
<1>. SUFFICES ASSUME LiteTypeOK, Tick \/ TickQual PROVE LiteTypeOK'
  OBVIOUS
<1>0. /\ "sigroam" \in Command /\ "stopscan" \in Command /\ "wardrive" \in Command
      /\ 1 \in 0..9 /\ 2 \in 0..9 /\ 3 \in 0..9 /\ 4 \in 0..9 /\ 5 \in 0..9
      /\ 6 \in 0..9 /\ 7 \in 0..9 /\ 8 \in 0..9 /\ 9 \in 0..9
  BY DEF Command
<1>1. CASE TickRecover
  <2>1. /\ scan' \in ScanSet /\ app' \in AppSet /\ rec' \in RecSet
        /\ slot' \in Command \cup {NoCmd}
    BY <1>1, RecoverType, TypeParts DEF TickRecover
  <2>2. gpc' \in 0..9
    BY <1>0, <1>1, DoneType DEF TickRecover
  <2>. QED BY <1>1, <2>1, <2>2, TypeParts, TypePartsNext DEF TickRecover, outside
<1>2. CASE TickSync
  <2>1. app' \in AppSet
    BY <1>2, TypeParts DEF TickSync, AppSet
  <2>2. scan' \in ScanSet /\ gps' \in GpsSet /\ model' \in ModelSet
    BY <1>2, SessionType, TypeParts DEF TickSync
  <2>3. gpc' \in 0..9
    BY <1>0, <1>2, DoneType DEF TickSync
  <2>. QED BY <1>2, <2>1, <2>2, <2>3, TypeParts, TypePartsNext DEF TickSync, outside, link
<1>3. CASE TickSeed
  <2>1. app' \in AppSet
    BY <1>3, TypeParts DEF TickSeed, AppSet
  <2>4. model.sessAp \in 0..MaxRows + 1
    BY TypeParts, LiteDashAssumption DEF ModelSet
  <2>5. model' \in ModelSet
    BY <1>3, <2>4, TypeParts DEF TickSeed, ModelSet
  <2>2. gpc' \in 0..9
    BY <1>0, <1>3, DoneType DEF TickSeed
  <2>. QED BY <1>3, <2>1, <2>2, <2>5, TypeParts, TypePartsNext DEF TickSeed, outside, link
<1>4. CASE TickGps
  <2>1. gps' \in GpsSet /\ slot' \in Command \cup {NoCmd}
    <3>1. CASE GpsClose
      <4>1. slot' \in Command \cup {NoCmd}
        BY <1>0, <3>1, OfferType, TypeParts DEF GpsClose
      <4>2. BlockSeen \in BOOLEAN /\ Free \in BOOLEAN
        BY DEF BlockSeen, Free
      <4>3. (IF Free THEN "WaitStop" ELSE "StopUnsure") \in GpsPhase
        BY DEF GpsPhase
      <4>. QED BY <3>1, <4>1, <4>2, <4>3, TypeParts, TypePartsNext DEF GpsClose, GpsSet
    <3>2. CASE GpsTurnsSlow
      BY <3>2, TypeParts DEF GpsTurnsSlow, GpsSet, GpsPhase
    <3>3. CASE GpsConfirmed
      <4>1. GpsIdle \in GpsSet
        BY DEF GpsIdle, GpsSet, GpsPhase
      <4>2. (IF ~gps.got THEN "NoReply" ELSE IF gps.stopMoved THEN "Done" ELSE "StopUnsure")
              \in GpsPhase
        BY DEF GpsPhase
      <4>. QED BY <3>3, <4>1, <4>2, TypeParts, TypePartsNext DEF GpsConfirmed, GpsSet
    <3>4. CASE GpsRefuted
      BY <3>4, TypeParts DEF GpsRefuted, GpsIdle, GpsSet, GpsPhase
    <3>. QED BY <1>4, <3>1, <3>2, <3>3, <3>4 DEF TickGps
  <2>2. gpc' \in 0..9
    BY <1>0, <1>4, DoneType DEF TickGps
  <2>. QED BY <1>4, <2>1, <2>2, TypeParts, TypePartsNext DEF TickGps, outside
<1>5. CASE TickScan
  <2>1. scan' \in ScanSet
    BY <1>5, TypeParts DEF TickScan, ScanEnds, ScanSet
  <2>2. app' \in AppSet /\ slot' \in Command \cup {NoCmd}
    BY <1>0, <1>5, OfferType, TypeParts DEF TickScan, AppSet, Free
  <2>3. gpc' \in 0..9
    BY <1>0, <1>5, DoneType DEF TickScan
  <2>. QED BY <1>5, <2>1, <2>2, <2>3, TypeParts, TypePartsNext DEF TickScan, outside
<1>6. CASE TickPostStop
  <2>1. app' \in AppSet
    BY <1>6, TypeParts DEF TickPostStop, AppSet, Free
  <2>2. slot' \in Command \cup {NoCmd}
    BY <1>0, <1>6, OfferType, TypeParts DEF TickPostStop
  <2>3. gpc' \in 0..9
    BY <1>0, <1>6, DoneType DEF TickPostStop
  <2>. QED BY <1>6, <2>1, <2>2, <2>3, TypeParts, TypePartsNext DEF TickPostStop, outside
<1>7. CASE TickPrestart
  <2>1. scan' \in ScanSet /\ slot' \in Command \cup {NoCmd} /\ app' \in AppSet
    <3>1. CASE PrestartRetry /\ QueueClearingStop /\ UNCHANGED app
      BY <3>1, QueueType, TypeParts
    <3>2. CASE /\ PrestartEnds
               /\ Offer("wardrive")
               /\ scan' = Queued(scan.pending /\ scan.isStart, TRUE)
               /\ app' = [app EXCEPT !.prestart = FALSE, !.prestartOut = FALSE, !.clear = FALSE]
      <4>1. (scan.pending /\ scan.isStart) \in BOOLEAN
        OBVIOUS
      <4>2. scan' \in ScanSet
        BY <3>2, <4>1, QueuedType
      <4>3. app' \in AppSet
        BY <3>2, TypeParts DEF AppSet
      <4>. QED BY <1>0, <3>2, <4>2, <4>3, OfferType, TypeParts, TypePartsNext
    <3>. QED BY <1>7, <3>1, <3>2 DEF TickPrestart
  <2>2. gpc' \in 0..9
    BY <1>0, <1>7, DoneType DEF TickPrestart
  <2>. QED BY <1>7, <2>1, <2>2, TypeParts, TypePartsNext DEF TickPrestart, outside
<1>8. CASE TickPoi
  <2>1. poi' \in PoiSet
    BY <1>8 DEF TickPoi, PoiSet, PoiPhase
  <2>2. gpc' \in 0..9
    BY <1>0, <1>8, DoneType DEF TickPoi
  <2>. QED BY <1>8, <2>1, <2>2, TypeParts, TypePartsNext DEF TickPoi, outside, link
<1>9. CASE TickQual
  <2>1. slot' \in Command \cup {NoCmd}
    BY <1>0, <1>9, OfferType, TypeParts DEF TickQual
  <2>2. gpc' \in 0..9
    BY <1>0, <1>9, DoneType DEF TickQual
  <2>. QED BY <1>9, <2>1, <2>2, TypeParts, TypePartsNext DEF TickQual, outside
<1>. QED BY <1>1, <1>2, <1>3, <1>4, <1>5, <1>6, <1>7, <1>8, <1>9 DEF Tick

LEMMA TypeTime == LiteTypeOK /\ Time => LiteTypeOK'
<1>. SUFFICES ASSUME LiteTypeOK, Time PROVE LiteTypeOK'
  OBVIOUS
<1>1. CASE ScanTime
  BY <1>1, TypeParts, TypePartsNext DEF ScanTime, ScanSet, outside, link
<1>2. CASE PrestartTime
  BY <1>2, TypeParts, TypePartsNext DEF PrestartTime, AppSet, outside, link
<1>3. CASE RecTime
  BY <1>3, TypeParts, TypePartsNext DEF RecTime, RecSet, outside, link
<1>4. CASE GpsTime
  BY <1>4, TypeParts, TypePartsNext DEF GpsTime, GpsSet, outside, link
<1>5. CASE PoiTime
  BY <1>5, TypeParts, TypePartsNext DEF PoiTime, PoiSet, outside, link
<1>. QED BY <1>1, <1>2, <1>3, <1>4, <1>5 DEF Time

-----------------------------------------------------------------------------
(* Sequences.                                                              *)

LEMMA TailShift ==
  ASSUME NEW S, NEW s \in Seq(S), s # <<>>
  PROVE  /\ Tail(s) \in Seq(S) /\ Head(s) \in S /\ Head(s) = s[1]
         /\ Len(s) \in Nat \ {0} /\ Len(Tail(s)) = Len(s) - 1
         /\ \A i \in 1..Len(Tail(s)) : Tail(s)[i] = s[i + 1] /\ i + 1 \in 1..Len(s)
         /\ \A i \in 2..Len(s) : s[i] = Tail(s)[i - 1] /\ i - 1 \in 1..Len(Tail(s))
  OBVIOUS

LEMMA Appended ==
  ASSUME NEW S, NEW s \in Seq(S), NEW t \in Seq(S)
  PROVE  /\ s \o t \in Seq(S) /\ Len(s) \in Nat /\ Len(t) \in Nat
         /\ Len(s \o t) = Len(s) + Len(t)
         /\ \A i \in 1..Len(s) : (s \o t)[i] = s[i]
         /\ \A i \in 1..Len(t) : (s \o t)[Len(s) + i] = t[i]
         /\ \A i \in (Len(s) + 1)..Len(s \o t) : (s \o t)[i] = t[i - Len(s)]
  OBVIOUS

LEMMA TypeTake == LiteTypeOK /\ Take => LiteTypeOK'
<1>. SUFFICES ASSUME LiteTypeOK, Take PROVE LiteTypeOK'
  OBVIOUS
<1>1. slot \in Command
  BY TypeParts DEF Take, Free
<1>2. tx' \in Seq(Command) /\ Len(tx') <= MaxTx
  BY <1>1, TypeParts, LiteDashAssumption DEF Take
<1>. QED BY <1>2, TypeParts, TypePartsNext DEF Take, gui, outside

LEMMA TypeApply == LiteTypeOK /\ Apply => LiteTypeOK'
<1>. SUFFICES ASSUME LiteTypeOK, Apply PROVE LiteTypeOK'
  OBVIOUS
<1>. DEFINE l == Head(rx)
<1>1. l \in LineSet /\ rx' \in Seq(LineSet)
  BY TypeParts, TailShift DEF Apply
<1>2. l.n \in 0..MaxRows /\ l.on \in BOOLEAN
  BY <1>1 DEF LineSet
<1>. HIDE DEF l
<1>3. CASE ApplySession(l)
  <2>1. CASE l.k = "started" /\ SessionStarts /\ UNCHANGED app
    BY <1>1, <1>3, <2>1, SessionType, TypeParts, TypePartsNext
    DEF Apply, ApplySession, outside
  <2>2. CASE /\ l.k = "wifiStop" /\ SessionStops("wifiStop")
             /\ app' = [app EXCEPT !.clear = app.prestart]
             /\ UNCHANGED gps
    <3>1. app' \in AppSet
      BY <2>2, TypeParts DEF AppSet
    <3>. QED BY <1>1, <1>3, <2>2, <3>1, SessionType, TypeParts, TypePartsNext
         DEF Apply, ApplySession, outside
  <2>3. CASE /\ l.k = "gpsStop" /\ SessionStops("gpsStop")
             /\ gps' = [gps EXCEPT !.stopMoved =
                             @ \/ (gps.phase = "WaitStop" /\ model.session # "Running")]
             /\ UNCHANGED app
    <3>1. gps' \in GpsSet
      BY <2>3, TypeParts DEF GpsSet
    <3>. QED BY <1>1, <1>3, <2>3, <3>1, SessionType, TypeParts, TypePartsNext
         DEF Apply, ApplySession, outside
  <2>4. CASE /\ l.k = "row"
             /\ model' = [CountRow(model) EXCEPT
                             !.session = RowSeen(model.session, "generic")]
             /\ SessionTo(RowSeen(model.session, "generic"))
             /\ UNCHANGED <<app, gps>>
    <3>1. CountRow(model) \in ModelSet
      <4>1. ASSUME ~(model.ap > MaxRows) PROVE model.ap + 1 \in 0..MaxRows + 1
        BY <4>1, TypeParts, LiteDashAssumption DEF ModelSet
      <4>2. CASE model.ap > MaxRows
        BY <4>2, TypeParts DEF CountRow, ModelSet
      <4>3. CASE ~(model.ap > MaxRows)
        BY <4>1, <4>3, TypeParts DEF CountRow, ModelSet
      <4>. QED BY <4>2, <4>3
    <3>2. RowSeen(model.session, "generic") \in Session
      BY TypeParts DEF RowSeen, Started, Session, ModelSet
    <3>3. model' \in ModelSet
      BY <2>4, <3>1, <3>2 DEF ModelSet
    <3>. QED BY <1>1, <1>3, <2>4, <3>3, SessionType, TypeParts, TypePartsNext
         DEF Apply, ApplySession, outside
  <2>. QED BY <1>3, <2>1, <2>2, <2>3, <2>4 DEF ApplySession
<1>4. CASE ApplyStatus(l)
  <2>1. CASE /\ l.k = "diag"
             /\ model' = [model EXCEPT !.diagSt = IF l.on THEN 1 ELSE 0]
             /\ app' = [app EXCEPT !.syncMoved = app.sync]
             /\ rec' = [rec EXCEPT !.fresh = rec.checkSent /\ rec.phase = "Check"]
    <3>1. model' \in ModelSet
      BY <2>1, TypeParts DEF ModelSet
    <3>2. app' \in AppSet /\ rec' \in RecSet
      BY <2>1, TypeParts DEF AppSet, RecSet
    <3>. QED BY <1>1, <1>4, <2>1, <3>1, <3>2, TypeParts, TypePartsNext
         DEF Apply, ApplyStatus, SessSeen, outside
  <2>2. CASE /\ l.k = "sess"
             /\ model' = SessSeen(model, l)
             /\ UNCHANGED <<app, rec>>
    <3>1. model' \in ModelSet
      BY <1>2, <2>2, TypeParts DEF ModelSet, SessSeen
    <3>. QED BY <1>1, <1>4, <2>2, <3>1, TypeParts, TypePartsNext
         DEF Apply, ApplyStatus, outside
  <2>. QED BY <1>4, <2>1, <2>2 DEF ApplyStatus
<1>5. CASE ApplyOther(l)
  <2>1. model' \in ModelSet
    BY <1>5, TypeParts DEF ApplyOther, ModelSet
  <2>2. gps' \in GpsSet
    BY <1>5, TypeParts DEF ApplyOther, GpsSet, Waiting
  <2>3. scan' \in ScanSet
    BY <1>5, TypeParts DEF ApplyOther, ScanSet
  <2>4. rec' \in RecSet
    BY <1>5, TypeParts DEF ApplyOther, RecSet
  <2>5. poi' \in PoiSet
    BY <1>5, TypeParts DEF ApplyOther, PoiSet
  <2>6. UNCHANGED app
    BY <1>5 DEF ApplyOther
  <2>. QED BY <1>1, <2>1, <2>2, <2>3, <2>4, <2>5, <2>6, TypeParts, TypePartsNext
       DEF Apply, outside
<1>. QED BY <1>3, <1>4, <1>5 DEF Apply, l

LEMMA SayType ==
  ASSUME rx \in Seq(LineSet), NEW s \in Seq(LineSet), Say(s)
  PROVE  rx' \in Seq(LineSet)
  BY DEF Say

LEMMA LineTypes ==
  /\ \A k \in LineKind : Line(k) \in LineSet
  /\ \A k \in LineKind, n \in 0..MaxRows, on \in BOOLEAN : LineOf(k, n, on) \in LineSet
  BY LiteDashAssumption DEF Line, LineOf, LineSet

LEMMA TypeBoard == LiteTypeOK /\ BoardStep => LiteTypeOK'
<1>. SUFFICES ASSUME LiteTypeOK, BoardStep PROVE LiteTypeOK'
  OBVIOUS
<1>0. MaxRows \in Nat /\ 0 \in 0..MaxRows
  BY LiteDashAssumption
<1>1. CASE BoardRead
  <2>1. tx' \in Seq(Command) /\ Len(tx') <= MaxTx
    <3>1. Len(tx) \in Nat /\ Len(Tail(tx)) = Len(tx) - 1 /\ Tail(tx) \in Seq(Command)
      BY <1>1, TailShift, TypeParts DEF BoardRead
    <3>. QED BY <1>1, <3>1, TypeParts, LiteDashAssumption DEF BoardRead
  <2>2. rx' \in Seq(LineSet) /\ board' \in BoardSet
    <3>1. CASE ReadWardrive
      <4>1. <<Line("startEcho")>> \in Seq(LineSet)
        BY LineTypes DEF LineKind
      <4>2. board' \in BoardSet
        BY <1>0, <3>1, TypeParts DEF ReadWardrive, BoardSet
      <4>. QED BY <3>1, <4>1, <4>2, SayType, TypeParts DEF ReadWardrive
    <3>2. CASE ReadStopscan
      <4>1. Line(IF board.gps THEN "gpsStop" ELSE "wifiStop") \in LineSet
        BY LineTypes DEF LineKind
      <4>2. <<Line(IF board.gps THEN "gpsStop" ELSE "wifiStop")>> \in Seq(LineSet)
        BY <4>1
      <4>3. board' \in BoardSet
        BY <3>2, TypeParts DEF ReadStopscan, BoardSet
      <4>. QED BY <3>2, <4>2, <4>3, SayType, TypeParts DEF ReadStopscan
    <3>3. CASE ReadStatus
      <4>1. board.ap \in 0..MaxRows /\ (board.st = 1) \in BOOLEAN
        BY TypeParts DEF BoardSet
      <4>2. LineOf("diag", 0, board.st = 1) \in LineSet
        BY <1>0, <4>1, LineTypes DEF LineKind
      <4>3. LineOf("sess", board.ap, board.st = 1) \in LineSet
        BY <4>1, LineTypes DEF LineKind
      <4>4. <<LineOf("diag", 0, board.st = 1), LineOf("sess", board.ap, board.st = 1)>>
              \in Seq(LineSet)
        BY <4>2, <4>3
      <4>. QED BY <3>3, <4>4, SayType, TypeParts DEF ReadStatus
    <3>4. CASE ReadGpsdata
      <4>1. board' \in BoardSet
        BY <3>4, TypeParts DEF ReadGpsdata, Stream, BoardSet
      <4>2. <<>> \in Seq(LineSet)
        OBVIOUS
      <4>. QED BY <3>4, <4>1, <4>2, SayType, TypeParts DEF ReadGpsdata
    <3>5. CASE ReadPoi
      <4>1. <<Line("poiTagged")>> \in Seq(LineSet) /\ <<>> \in Seq(LineSet)
        BY LineTypes DEF LineKind
      <4>. QED BY <3>5, <4>1, SayType, TypeParts DEF ReadPoi
    <3>6. CASE ReadReboot
      <4>1. board' \in BoardSet
        BY <1>0, <3>6, TypeParts DEF ReadReboot, BoardSet
      <4>2. <<>> \in Seq(LineSet)
        OBVIOUS
      <4>. QED BY <3>6, <4>1, <4>2, SayType, TypeParts DEF ReadReboot
    <3>7. CASE ~board.up /\ UNCHANGED <<rx, board, play>>
      BY <3>7, TypeParts
    <3>. QED BY <1>1, <3>1, <3>2, <3>3, <3>4, <3>5, <3>6, <3>7 DEF BoardRead
  <2>. QED BY <1>1, <2>1, <2>2, TypeParts, TypePartsNext DEF BoardRead, gui
<1>2. CASE Boots
  <2>1. <<Line("banner")>> \in Seq(LineSet)
    BY LineTypes DEF LineKind
  <2>2. board' \in BoardSet
    BY <1>2, TypeParts DEF Boots, BoardSet
  <2>3. rx' \in Seq(LineSet)
    BY <1>2, <2>1, SayType, TypeParts DEF Boots
  <2>. QED BY <1>2, <2>2, <2>3, TypeParts, TypePartsNext DEF Boots, gui
<1>3. CASE Announce
  <2>1. <<Line("started")>> \in Seq(LineSet)
    BY LineTypes DEF LineKind
  <2>2. board' \in BoardSet
    BY <1>3, TypeParts DEF Announce, BoardSet
  <2>3. rx' \in Seq(LineSet)
    BY <1>3, <2>1, SayType, TypeParts DEF Announce
  <2>. QED BY <1>3, <2>2, <2>3, TypeParts, TypePartsNext DEF Announce, gui
<1>4. CASE Row
  <2>1. <<Line("row")>> \in Seq(LineSet)
    BY LineTypes DEF LineKind
  <2>2. board.ap + 1 \in 0..MaxRows
    BY <1>0, <1>4, TypeParts DEF Row, BoardSet
  <2>3. board' \in BoardSet
    BY <1>4, <2>2, TypeParts DEF Row, BoardSet
  <2>4. rx' \in Seq(LineSet)
    BY <1>4, <2>1, SayType, TypeParts DEF Row
  <2>. QED BY <1>4, <2>3, <2>4, TypeParts, TypePartsNext DEF Row, gui
<1>5. CASE Block
  <2>1. <<Line("block")>> \in Seq(LineSet)
    BY LineTypes DEF LineKind
  <2>2. rx' \in Seq(LineSet)
    BY <1>5, <2>1, SayType, TypeParts DEF Block
  <2>. QED BY <1>5, <2>2, TypeParts, TypePartsNext DEF Block, gui, outside
<1>. QED BY <1>1, <1>2, <1>3, <1>4, <1>5 DEF BoardStep

LEMMA TypeLose == LiteTypeOK /\ Lose => LiteTypeOK'
<1>. SUFFICES ASSUME LiteTypeOK, Lose PROVE LiteTypeOK'
  OBVIOUS
<1>1. CASE tx # <<>> /\ tx' = Tail(tx) /\ UNCHANGED rx
  <2>1. Len(tx) \in Nat /\ Len(Tail(tx)) = Len(tx) - 1 /\ Tail(tx) \in Seq(Command)
    BY <1>1, TailShift, TypeParts
  <2>2. tx' \in Seq(Command) /\ Len(tx') <= MaxTx
    BY <1>1, <2>1, TypeParts, LiteDashAssumption
  <2>. QED BY <1>1, <2>2, TypeParts, TypePartsNext DEF Lose, gui
<1>2. CASE rx # <<>> /\ rx' = Tail(rx) /\ UNCHANGED tx
  <2>1. rx' \in Seq(LineSet)
    BY <1>2, TailShift, TypeParts
  <2>. QED BY <1>2, <2>1, TypeParts, TypePartsNext DEF Lose, gui
<1>. QED BY <1>1, <1>2 DEF Lose

LEMMA TypeKept == LiteTypeOK /\ [Next]_vars => LiteTypeOK'
<1>1. LiteTypeOK /\ UNCHANGED vars => LiteTypeOK'
  BY TypeParts, TypePartsNext DEF vars, gui, link, outside
<1>. QED BY <1>1, TypeUser, TypeTick, TypeTime, TypeTake, TypeApply, TypeBoard, TypeLose DEF Next

\* Every step of the Dash, the worker, the line and the board keeps the types of
\* the flags, the slot, the two queues and the board.
THEOREM TypeCorrect == Spec => []LiteTypeOK
<1>. QED BY TypeInit, TypeKept, PTL DEF Spec

-----------------------------------------------------------------------------
(* What a run of the app is allowed does not change, but for what is left  *)
(* of it.                                                                  *)

LEMMA PlayInit == Init => play \in Play
  BY LiteDashAssumption DEF Init

LEMMA ActsType ==
  ASSUME play \in Play, MayAct, Acts
  PROVE  play' \in Play /\ play'.hasty = play.hasty /\ play'.late = play.late
<1>1. play.acts \in Nat /\ play.acts > 0
  BY DEF MayAct, Play
<1>2. play.acts - 1 \in Nat
  BY <1>1
<1>. QED BY <1>2 DEF Acts, Play

LEMMA PlayKept ==
  ASSUME play \in Play, [Next]_vars
  PROVE  /\ play' \in Play /\ play'.hasty = play.hasty /\ play'.late = play.late
         /\ lost => lost'
<1>1. CASE User
  BY <1>1, ActsType DEF User, OkDash, OkGps, EnterDash, LeaveDash
<1>2. CASE Tick \/ TickQual \/ Time \/ Take \/ Apply
  <2>1. UNCHANGED <<play, lost>>
    BY <1>2 DEF Tick, TickRecover, TickSync, TickSeed, TickGps, TickScan, TickPostStop,
                TickPrestart, TickPoi, TickQual, Time, ScanTime, PrestartTime, RecTime,
                GpsTime, PoiTime, Take, Apply, outside
  <2>. QED BY <2>1
<1>3. CASE BoardStep
  <2>1. UNCHANGED lost
    BY <1>3 DEF BoardStep, BoardRead, Boots, Announce, Row, Block, outside
  <2>2. CASE UNCHANGED play
    BY <2>1, <2>2
  <2>3. CASE ~UNCHANGED play
    <3>1. play.duds > 0 /\ play' = [play EXCEPT !.duds = @ - 1]
      BY <1>3, <2>3 DEF BoardStep, BoardRead, Boots, Announce, Row, Block, ReadWardrive,
                        ReadStopscan, ReadStatus, ReadGpsdata, ReadPoi, ReadReboot, outside
    <3>2. play.duds - 1 \in Nat
      BY <3>1 DEF Play
    <3>. QED BY <2>1, <3>1, <3>2 DEF Play
  <2>. QED BY <2>2, <2>3
<1>4. CASE Lose
  <2>1. play.losses - 1 \in Nat
    BY <1>4 DEF Lose, Play
  <2>. QED BY <1>4, <2>1 DEF Lose, Play
<1>5. CASE UNCHANGED vars
  BY <1>5 DEF vars, outside
<1>. QED BY <1>1, <1>2, <1>3, <1>4, <1>5 DEF Next

-----------------------------------------------------------------------------
(* A sample is closed out with a stop.                                     *)

Setter == {"gpsdata", "stopscan", "reboot"}

\* The board streams, once it has read all that is on its way to it.
StreamAfter ==
    \/ slot = "gpsdata"
    \/ /\ slot \notin Setter
       /\ \/ \E i \in 1..Len(tx) : /\ tx[i] = "gpsdata"
                                   /\ \A j \in (i + 1)..Len(tx) : tx[j] \notin Setter
          \/ board.gps /\ \A i \in 1..Len(tx) : tx[i] \notin Setter

\* Then a sample still waits, or the tab says that its stop is not confirmed.
Open == {"WaitBlock", "WaitSlow", "StopUnsure"}

SampleInv ==
    /\ LiteTypeOK /\ play \in Play
    /\ ~board.up => ~board.gps
    /\ ~play.hasty /\ ~lost /\ StreamAfter => gps.phase \in Open

LEMMA SampleInit == Init => SampleInv
<1>. SUFFICES ASSUME Init PROVE SampleInv
  OBVIOUS
<1>1. ~StreamAfter /\ (~board.up => ~board.gps)
  BY DEF Init, StreamAfter, NoCmd
<1>. QED BY <1>1, TypeInit, PlayInit DEF SampleInv

LEMMA OfferSets ==
  ASSUME NEW c \in Command \ {"gpsdata"}, Offer(c), UNCHANGED <<tx, board>>, StreamAfter'
  PROVE  StreamAfter /\ (Free => c \notin Setter)
  BY DEF Offer, Free, StreamAfter, Setter, Command, NoCmd

LEMMA StreamSame ==
  ASSUME UNCHANGED <<slot, tx, board>>, StreamAfter'
  PROVE  StreamAfter
  BY DEF StreamAfter

\* Whoever ticks.
LEMMA SampleTick ==
  ASSUME SampleInv, Tick \/ TickQual, StreamAfter'
  PROVE  StreamAfter /\ (gps.phase \in Open => gps'.phase \in Open)
<1>0. /\ "sigroam" \in Command \ {"gpsdata"} /\ "reboot" \in Command \ {"gpsdata"}
      /\ "stopscan" \in Command \ {"gpsdata"} /\ "wardrive" \in Command \ {"gpsdata"}
  BY DEF Command
<1>1. CASE TickRecover
  <2>1. UNCHANGED <<tx, board, gps>>
    BY <1>1 DEF TickRecover, outside
  <2>2. \/ UNCHANGED slot
        \/ Offer("sigroam") \/ Offer("reboot") \/ Offer("stopscan")
    BY <1>1 DEF TickRecover, Recover, RecRuns, RecWatches, RecChecks, RecAdopts, RecRetries,
                RecNoDiag, RecRetried, RecMisses, RecUp, RecAsksAgain, RecRebootsAgain, QueueCmd
  <2>. QED BY <1>0, <2>1, <2>2, OfferSets, StreamSame
<1>2. CASE TickSync
  <2>1. UNCHANGED <<slot, tx, board>> /\ gps'.phase = gps.phase
    <3>1. gps \in GpsSet
      BY TypeParts DEF SampleInv
    <3>. QED BY <1>2, <3>1 DEF TickSync, SessionStarts, link, outside, GpsSet
  <2>. QED BY <2>1, StreamSame
<1>3. CASE TickSeed
  <2>1. UNCHANGED <<slot, tx, board, gps>>
    BY <1>3 DEF TickSeed, link, outside
  <2>. QED BY <2>1, StreamSame
<1>4. CASE TickGps
  <2>0. UNCHANGED <<tx, board>> /\ gps \in GpsSet
    BY <1>4, TypeParts DEF TickGps, outside, SampleInv
  <2>1. CASE GpsClose
    <3>1. Offer("stopscan") /\ StreamAfter /\ ~Free
      BY <1>0, <2>0, <2>1, OfferSets DEF GpsClose, Setter
    <3>2. gps'.phase = "StopUnsure"
      BY <2>0, <2>1, <3>1 DEF GpsClose, GpsSet
    <3>. QED BY <3>1, <3>2 DEF Open
  <2>2. CASE GpsTurnsSlow
    <3>1. UNCHANGED slot /\ gps'.phase = "WaitSlow"
      BY <2>0, <2>2 DEF GpsTurnsSlow, GpsSet
    <3>. QED BY <2>0, <3>1, StreamSame DEF Open
  <2>3. CASE GpsConfirmed \/ GpsRefuted
    BY <2>0, <2>3, StreamSame DEF GpsConfirmed, GpsRefuted, Open
  <2>. QED BY <1>4, <2>1, <2>2, <2>3 DEF TickGps
<1>5. CASE TickScan
  <2>1. UNCHANGED <<tx, board, gps>> /\ (UNCHANGED slot \/ Offer("sigroam"))
    BY <1>5 DEF TickScan, outside
  <2>. QED BY <1>0, <2>1, OfferSets, StreamSame
<1>6. CASE TickPostStop \/ TickQual
  <2>1. UNCHANGED <<tx, board, gps>> /\ (UNCHANGED slot \/ Offer("sigroam"))
    BY <1>6 DEF TickPostStop, TickQual, outside
  <2>. QED BY <1>0, <2>1, OfferSets, StreamSame
<1>7. CASE TickPrestart
  <2>1. UNCHANGED <<tx, board, gps>> /\ (Offer("stopscan") \/ Offer("wardrive"))
    BY <1>7 DEF TickPrestart, QueueClearingStop, outside
  <2>. QED BY <1>0, <2>1, OfferSets
<1>8. CASE TickPoi
  <2>1. UNCHANGED <<slot, tx, board, gps>>
    BY <1>8 DEF TickPoi, link, outside
  <2>. QED BY <2>1, StreamSame
<1>. QED BY <1>1, <1>2, <1>3, <1>4, <1>5, <1>6, <1>7, <1>8 DEF Tick

\* A patient user asks for a sample when the slot is free, and leaves the
\* screen when none waits.
LEMMA SampleUser ==
  ASSUME SampleInv, User, ~play.hasty, ~lost, StreamAfter'
  PROVE  gps'.phase \in Open
<1>0. /\ "sigroam" \in Command \ {"gpsdata"} /\ "reboot" \in Command \ {"gpsdata"}
      /\ "stopscan" \in Command \ {"gpsdata"} /\ "wardrive" \in Command \ {"gpsdata"}
      /\ "wardrivepoi" \in Command \ {"gpsdata"}
  BY DEF Command
<1>1. Free /\ ~Sampling
  BY DEF User, OkDash, OkGps, EnterDash, LeaveDash, MayAct, Passing, Answered
<1>2. CASE OkDash
  <2>1. UNCHANGED <<tx, board, gps>>
        /\ (UNCHANGED slot \/ Offer("reboot") \/ Offer("stopscan"))
    BY <1>2 DEF OkDash, OkReboots, OkCancels, Toggle, ToggleStop, ToggleStart, ToggleNot,
                QueueCmd, QueueClearingStop
  <2>. QED BY <1>0, <2>1, OfferSets, StreamSame DEF SampleInv
<1>3. CASE OkGps /\ GpsStart
  BY <1>1, <1>3 DEF GpsStart, GpsIdle, Open
<1>4. CASE OkGps /\ PoiSend
  <2>1. UNCHANGED <<tx, board, gps>> /\ Offer("wardrivepoi")
    BY <1>4 DEF OkGps, PoiSend
  <2>. QED BY <1>0, <2>1, OfferSets DEF SampleInv
<1>5. CASE EnterDash
  <2>1. UNCHANGED <<tx, board, gps>> /\ Offer("sigroam")
    BY <1>5 DEF EnterDash
  <2>. QED BY <1>0, <2>1, OfferSets DEF SampleInv
<1>6. CASE LeaveDash
  <2>1. UNCHANGED <<tx, board, gps, slot>>
    BY <1>1, <1>6 DEF LeaveDash, GpsAbort
  <2>. QED BY <2>1, StreamSame DEF SampleInv
<1>. QED BY <1>2, <1>3, <1>4, <1>5, <1>6 DEF User, OkGps

LEMMA SampleTake ==
  ASSUME SampleInv, Take, StreamAfter'
  PROVE  StreamAfter /\ UNCHANGED gps
<1>1. slot \in Command /\ tx \in Seq(Command) /\ Len(tx) \in Nat
  BY TypeParts DEF Take, Free, SampleInv
<1>2. /\ tx' = Append(tx, slot) /\ slot' = NoCmd /\ UNCHANGED <<board, gps>>
      /\ Len(tx') = Len(tx) + 1 /\ tx'[Len(tx) + 1] = slot
      /\ \A i \in 1..Len(tx) : tx'[i] = tx[i]
  BY <1>1 DEF Take, gui, outside
<1>3. CASE \E i \in 1..Len(tx') : /\ tx'[i] = "gpsdata"
                                  /\ \A j \in (i + 1)..Len(tx') : tx'[j] \notin Setter
  <2>1. PICK i \in 1..Len(tx') : /\ tx'[i] = "gpsdata"
                                 /\ \A j \in (i + 1)..Len(tx') : tx'[j] \notin Setter
    BY <1>3
  <2>2. CASE i = Len(tx) + 1
    BY <1>2, <2>1, <2>2 DEF StreamAfter
  <2>3. CASE i # Len(tx) + 1
    <3>1. i \in 1..Len(tx) /\ Len(tx) + 1 \in (i + 1)..Len(tx')
      BY <1>1, <1>2, <2>3
    <3>2. slot \notin Setter /\ tx[i] = "gpsdata"
      BY <1>2, <2>1, <3>1
    <3>3. \A j \in (i + 1)..Len(tx) : tx[j] \notin Setter
      <4>. TAKE j \in (i + 1)..Len(tx)
      <4>1. j \in (i + 1)..Len(tx') /\ j \in 1..Len(tx)
        BY <1>1, <1>2, <3>1
      <4>. QED BY <1>2, <2>1, <4>1
    <3>. QED BY <1>2, <3>1, <3>2, <3>3 DEF StreamAfter
  <2>. QED BY <2>2, <2>3
<1>4. CASE board.gps /\ \A i \in 1..Len(tx') : tx'[i] \notin Setter
  <2>1. Len(tx) + 1 \in 1..Len(tx') /\ \A i \in 1..Len(tx) : i \in 1..Len(tx')
    BY <1>1, <1>2
  <2>2. slot \notin Setter
    BY <1>2, <1>4, <2>1
  <2>3. \A i \in 1..Len(tx) : tx[i] \notin Setter
    BY <1>2, <1>4, <2>1
  <2>. QED BY <1>2, <1>4, <2>2, <2>3 DEF StreamAfter
<1>5. slot' # "gpsdata"
  BY <1>2 DEF NoCmd
<1>. QED BY <1>2, <1>3, <1>4, <1>5 DEF StreamAfter

LEMMA SampleBoard ==
  ASSUME SampleInv, BoardStep
  PROVE  /\ UNCHANGED gps /\ (~board'.up => ~board'.gps)
         /\ StreamAfter' => StreamAfter
<1>0. board \in BoardSet /\ tx \in Seq(Command) /\ (~board.up => ~board.gps)
  BY TypeParts DEF SampleInv
<1>1. CASE BoardRead
  <2>0. tx # <<>> /\ tx' = Tail(tx) /\ UNCHANGED <<slot, gps>>
    BY <1>1 DEF BoardRead, gui
  <2>1. /\ Len(tx) \in Nat \ {0} /\ Head(tx) = tx[1] /\ Len(tx') = Len(tx) - 1
        /\ \A i \in 1..Len(tx') : tx'[i] = tx[i + 1] /\ i + 1 \in 1..Len(tx)
        /\ \A i \in 2..Len(tx) : tx[i] = tx'[i - 1] /\ i - 1 \in 1..Len(tx')
    BY <1>0, <2>0, TailShift
  <2>2. /\ ~board'.up => ~board'.gps
        /\ board'.gps => (board.gps /\ tx[1] \notin Setter) \/ tx[1] = "gpsdata"
    <3>1. CASE ~board.up /\ UNCHANGED <<rx, board, play>>
      BY <1>0, <3>1
    <3>2. CASE board.up /\ (ReadWardrive \/ ReadPoi \/ ReadStatus)
      BY <1>0, <2>1, <3>2 DEF ReadWardrive, ReadPoi, ReadStatus, BoardSet, Setter
    <3>3. CASE board.up /\ (ReadStopscan \/ ReadReboot \/ ReadGpsdata)
      BY <1>0, <2>1, <3>3 DEF ReadStopscan, ReadReboot, ReadGpsdata, Stream, BoardSet, Setter
    <3>. QED BY <1>1, <3>1, <3>2, <3>3 DEF BoardRead
  <2>3. ASSUME StreamAfter' PROVE StreamAfter
    <3>1. CASE slot = "gpsdata"
      BY <3>1 DEF StreamAfter
    <3>2. CASE /\ slot \notin Setter
               /\ \E i \in 1..Len(tx') : /\ tx'[i] = "gpsdata"
                                         /\ \A j \in (i + 1)..Len(tx') : tx'[j] \notin Setter
      <4>1. PICK i \in 1..Len(tx') : /\ tx'[i] = "gpsdata"
                                     /\ \A j \in (i + 1)..Len(tx') : tx'[j] \notin Setter
        BY <3>2
      <4>2. i + 1 \in 1..Len(tx) /\ tx[i + 1] = "gpsdata"
        BY <2>1, <4>1
      <4>3. \A j \in (i + 2)..Len(tx) : tx[j] \notin Setter
        <5>. TAKE j \in (i + 2)..Len(tx)
        <5>1. j \in 2..Len(tx) /\ j - 1 \in (i + 1)..Len(tx')
          BY <2>1
        <5>. QED BY <2>1, <4>1, <5>1
      <4>4. \A j \in ((i + 1) + 1)..Len(tx) : tx[j] \notin Setter
        BY <4>3
      <4>. QED BY <3>2, <4>2, <4>4 DEF StreamAfter
    <3>3. CASE slot \notin Setter /\ board'.gps /\ \A i \in 1..Len(tx') : tx'[i] \notin Setter
      <4>1. \A j \in 2..Len(tx) : tx[j] \notin Setter
        BY <2>1, <3>3
      <4>2. CASE tx[1] = "gpsdata"
        <5>1. 1 \in 1..Len(tx) /\ \A j \in (1 + 1)..Len(tx) : tx[j] \notin Setter
          BY <2>1, <4>1
        <5>. QED BY <3>3, <4>2, <5>1 DEF StreamAfter
      <4>3. CASE board.gps /\ tx[1] \notin Setter
        <5>1. \A j \in 1..Len(tx) : j = 1 \/ j \in 2..Len(tx)
          BY <2>1
        <5>. QED BY <3>3, <4>1, <4>3, <5>1 DEF StreamAfter
      <4>. QED BY <2>2, <3>3, <4>2, <4>3
    <3>. QED BY <2>0, <2>3, <3>1, <3>2, <3>3 DEF StreamAfter
  <2>. QED BY <2>0, <2>2, <2>3
<1>2. CASE Boots \/ Announce \/ Row
  <2>1. UNCHANGED <<slot, tx, gps>> /\ board'.gps = board.gps
        /\ (board'.up = board.up \/ board'.up)
    BY <1>0, <1>2 DEF Boots, Announce, Row, gui, BoardSet
  <2>2. StreamAfter' => StreamAfter
    BY <2>1 DEF StreamAfter
  <2>. QED BY <1>0, <2>1, <2>2
<1>3. CASE Block
  <2>1. UNCHANGED <<slot, tx, gps, board>>
    BY <1>3 DEF Block, gui, outside
  <2>. QED BY <1>0, <2>1, StreamSame
<1>. QED BY <1>1, <1>2, <1>3 DEF BoardStep

LEMMA SampleRest ==
  ASSUME SampleInv, Time \/ Apply \/ UNCHANGED vars
  PROVE  /\ UNCHANGED board /\ (StreamAfter' => StreamAfter)
         /\ gps.phase \in Open => gps'.phase \in Open
<1>0. gps \in GpsSet
  BY TypeParts DEF SampleInv
<1>1. UNCHANGED <<slot, tx, board>>
  BY DEF Time, ScanTime, PrestartTime, RecTime, GpsTime, PoiTime, Apply, vars, link, outside
<1>2. gps'.phase = gps.phase
  <2>1. CASE Time \/ UNCHANGED vars
    BY <1>0, <2>1
    DEF Time, ScanTime, PrestartTime, RecTime, GpsTime, PoiTime, vars, gui, GpsSet
  <2>2. CASE Apply /\ ApplySession(Head(rx))
    BY <1>0, <2>2 DEF ApplySession, SessionStarts, GpsSet
  <2>3. CASE Apply /\ (ApplyStatus(Head(rx)) \/ ApplyOther(Head(rx)))
    BY <1>0, <2>3 DEF ApplyStatus, SessSeen, ApplyOther, GpsSet
  <2>. QED BY <2>1, <2>2, <2>3 DEF Apply
<1>. QED BY <1>1, <1>2, StreamSame

LEMMA SampleKept == SampleInv /\ [Next]_vars => SampleInv'
<1>. SUFFICES ASSUME SampleInv, [Next]_vars PROVE SampleInv'
  OBVIOUS
<1>1. LiteTypeOK' /\ play' \in Play /\ play'.hasty = play.hasty /\ (lost => lost')
  BY TypeKept, PlayKept DEF SampleInv
<1>2. ~board'.up => ~board'.gps
  <2>1. CASE BoardStep
    BY <2>1, SampleBoard
  <2>2. CASE ~BoardStep
    <3>1. UNCHANGED board
      BY <2>2 DEF Next, User, OkDash, OkGps, EnterDash, LeaveDash, Tick, TickRecover, TickSync,
                  TickSeed, TickGps, TickScan, TickPostStop, TickPrestart, TickPoi, TickQual,
                  Time, ScanTime, PrestartTime, RecTime, GpsTime, PoiTime, Take, Apply, Lose,
                  outside, vars
    <3>. QED BY <3>1 DEF SampleInv
  <2>. QED BY <2>1, <2>2
<1>3. ASSUME ~play'.hasty, ~lost', StreamAfter' PROVE gps'.phase \in Open
  <2>1. ~play.hasty /\ ~lost
    BY <1>1, <1>3
  <2>2. StreamAfter => gps.phase \in Open
    BY <2>1 DEF SampleInv
  <2>3. CASE User
    BY <1>3, <2>1, <2>3, SampleUser
  <2>4. CASE Tick \/ TickQual
    BY <1>3, <2>2, <2>4, SampleTick
  <2>5. CASE Take
    BY <1>3, <2>2, <2>5, SampleTake
  <2>6. CASE BoardStep
    BY <1>3, <2>2, <2>6, SampleBoard
  <2>7. CASE Time \/ Apply \/ UNCHANGED vars
    BY <1>3, <2>2, <2>7, SampleRest
  <2>8. ~Lose
    BY <1>3 DEF Lose
  <2>. QED BY <2>3, <2>4, <2>5, <2>6, <2>7, <2>8 DEF Next
<1>. QED BY <1>1, <1>2, <1>3 DEF SampleInv

\* "every sample is closed out with a stop": whatever dash_gps_tick and the board
\* did, nothing streams once the round is over and the line is quiet.
THEOREM SamplesAreClosed == Spec => []SampleClosed
<1>1. SampleInv => SampleClosed
  <2>. SUFFICES ASSUME SampleInv, Passing, ~Sampling, gps.phase # "StopUnsure",
                       ~play.hasty, ~lost, board.gps
                PROVE  FALSE
    BY DEF SampleClosed
  <2>1. slot = NoCmd /\ tx = <<>> /\ gps.phase \notin Open
    BY DEF Passing, Answered, Free, Sampling, Open
  <2>2. StreamAfter
    BY <2>1 DEF StreamAfter, NoCmd, Setter
  <2>. QED BY <2>1, <2>2 DEF SampleInv
<1>. QED BY <1>1, SampleInit, SampleKept, PTL DEF Spec

-----------------------------------------------------------------------------
(* What is on its way to the board, and from it, whatever the order.       *)

Calls == {slot} \cup {tx[i] : i \in 1..Len(tx)}
Lines == {rx[i] : i \in 1..Len(rx)}
Said(k) == \E l \in Lines : l.k = k

LEMMA CallsOffer ==
  ASSUME NEW c, Offer(c), UNCHANGED tx
  PROVE  /\ Calls' \subseteq Calls \cup {c}
         /\ Calls \ {NoCmd} \subseteq Calls'
         /\ Free => c \in Calls'
         /\ ~Free => Calls' = Calls
  BY DEF Offer, Free, Calls

LEMMA CallsSame == UNCHANGED <<slot, tx>> => Calls' = Calls
  BY DEF Calls

LEMMA CallsTake ==
  ASSUME LiteTypeOK, Take
  PROVE  Calls' = Calls \cup {NoCmd}
<1>1. slot \in Command /\ tx \in Seq(Command) /\ Len(tx) \in Nat
  BY TypeParts DEF Take, Free
<1>2. /\ tx' = Append(tx, slot) /\ slot' = NoCmd
      /\ Len(tx') = Len(tx) + 1 /\ tx'[Len(tx) + 1] = slot
      /\ \A i \in 1..Len(tx) : tx'[i] = tx[i]
  BY <1>1 DEF Take
<1>3. 1..Len(tx') = 1..Len(tx) \cup {Len(tx) + 1}
  BY <1>1, <1>2
<1>. QED BY <1>2, <1>3 DEF Calls

LEMMA CallsTail ==
  ASSUME LiteTypeOK, tx # <<>>, tx' = Tail(tx), UNCHANGED slot
  PROVE  Head(tx) \in Calls /\ Calls = Calls' \cup {Head(tx)}
<1>1. /\ Len(tx) \in Nat \ {0} /\ Head(tx) = tx[1] /\ Len(tx') = Len(tx) - 1
      /\ \A i \in 1..Len(tx') : tx'[i] = tx[i + 1] /\ i + 1 \in 1..Len(tx)
      /\ \A i \in 2..Len(tx) : tx[i] = tx'[i - 1] /\ i - 1 \in 1..Len(tx')
  BY TailShift, TypeParts
<1>2. Calls \subseteq Calls' \cup {Head(tx)}
  <2>. SUFFICES ASSUME NEW i \in 1..Len(tx) PROVE tx[i] \in Calls' \cup {Head(tx)}
    BY DEF Calls
  <2>1. i = 1 \/ i \in 2..Len(tx)
    BY <1>1
  <2>. QED BY <1>1, <2>1 DEF Calls
<1>3. Calls' \subseteq Calls
  <2>. SUFFICES ASSUME NEW i \in 1..Len(tx') PROVE tx'[i] \in Calls
    BY DEF Calls
  <2>. QED BY <1>1 DEF Calls
<1>4. Head(tx) \in Calls
  <2>1. 1 \in 1..Len(tx)
    BY <1>1
  <2>. QED BY <1>1, <2>1 DEF Calls
<1>. QED BY <1>2, <1>3, <1>4

LEMMA NoCalls == tx = <<>> => Calls = {slot}
  BY DEF Calls

LEMMA NoLines == rx = <<>> => Lines = {}
  BY DEF Lines

LEMMA LinesSame == UNCHANGED rx => Lines' = Lines
  BY DEF Lines

LEMMA LinesTail ==
  ASSUME LiteTypeOK, rx # <<>>, rx' = Tail(rx)
  PROVE  Head(rx) \in Lines /\ Lines = Lines' \cup {Head(rx)}
<1>1. /\ Len(rx) \in Nat \ {0} /\ Head(rx) = rx[1] /\ Len(rx') = Len(rx) - 1
      /\ \A i \in 1..Len(rx') : rx'[i] = rx[i + 1] /\ i + 1 \in 1..Len(rx)
      /\ \A i \in 2..Len(rx) : rx[i] = rx'[i - 1] /\ i - 1 \in 1..Len(rx')
  BY TailShift, TypeParts
<1>2. Lines \subseteq Lines' \cup {Head(rx)}
  <2>. SUFFICES ASSUME NEW i \in 1..Len(rx) PROVE rx[i] \in Lines' \cup {Head(rx)}
    BY DEF Lines
  <2>1. i = 1 \/ i \in 2..Len(rx)
    BY <1>1
  <2>. QED BY <1>1, <2>1 DEF Lines
<1>3. Lines' \subseteq Lines
  <2>. SUFFICES ASSUME NEW i \in 1..Len(rx') PROVE rx'[i] \in Lines
    BY DEF Lines
  <2>. QED BY <1>1 DEF Lines
<1>4. Head(rx) \in Lines
  <2>1. 1 \in 1..Len(rx)
    BY <1>1
  <2>. QED BY <1>1, <2>1 DEF Lines
<1>. QED BY <1>2, <1>3, <1>4

LEMMA LinesSaid ==
  ASSUME LiteTypeOK, NEW s \in Seq(LineSet), Say(s)
  PROVE  Lines' = Lines \cup {s[i] : i \in 1..Len(s)}
<1>1. /\ Len(rx) \in Nat /\ Len(s) \in Nat /\ Len(rx') = Len(rx) + Len(s)
      /\ \A i \in 1..Len(rx) : rx'[i] = rx[i]
      /\ \A i \in 1..Len(s) : rx'[Len(rx) + i] = s[i]
      /\ \A i \in (Len(rx) + 1)..Len(rx') : rx'[i] = s[i - Len(rx)]
  BY Appended, TypeParts DEF Say
<1>2. Lines' \subseteq Lines \cup {s[i] : i \in 1..Len(s)}
  <2>. SUFFICES ASSUME NEW i \in 1..Len(rx')
                PROVE  rx'[i] \in Lines \cup {s[j] : j \in 1..Len(s)}
    BY DEF Lines
  <2>1. i \in 1..Len(rx) \/ (i \in (Len(rx) + 1)..Len(rx') /\ i - Len(rx) \in 1..Len(s))
    BY <1>1
  <2>. QED BY <1>1, <2>1 DEF Lines
<1>3. Lines \subseteq Lines'
  <2>. SUFFICES ASSUME NEW i \in 1..Len(rx) PROVE rx[i] \in Lines'
    BY DEF Lines
  <2>1. i \in 1..Len(rx')
    BY <1>1
  <2>. QED BY <1>1, <2>1 DEF Lines
<1>4. \A i \in 1..Len(s) : s[i] \in Lines'
  <2>. TAKE i \in 1..Len(s)
  <2>1. Len(rx) + i \in 1..Len(rx')
    BY <1>1
  <2>. QED BY <1>1, <2>1 DEF Lines
<1>. QED BY <1>2, <1>3, <1>4

LEMMA LinesOf ==
  ASSUME LiteTypeOK
  PROVE  /\ \A k \in LineKind : Say(<<Line(k)>>) => Lines' = Lines \cup {Line(k)}
         /\ Say(<<>>) => Lines' = Lines
         /\ ReadStatus => Lines' = Lines \cup {LineOf("diag", 0, board.st = 1),
                                               LineOf("sess", board.ap, board.st = 1)}
<1>1. ASSUME NEW k \in LineKind, Say(<<Line(k)>>) PROVE Lines' = Lines \cup {Line(k)}
  <2>. DEFINE s == <<Line(k)>>
  <2>1. s \in Seq(LineSet) /\ {s[i] : i \in 1..Len(s)} = {Line(k)}
    BY LineTypes
  <2>2. Say(s)
    BY <1>1
  <2>. HIDE DEF s
  <2>. QED BY <2>1, <2>2, LinesSaid
<1>2. ASSUME Say(<<>>) PROVE Lines' = Lines
  <2>1. <<>> \in Seq(LineSet) /\ rx \in Seq(LineSet)
    BY TypeParts
  <2>2. rx' = rx
    BY <1>2, <2>1 DEF Say
  <2>. QED BY <2>2, LinesSame
<1>3. ASSUME ReadStatus
      PROVE  Lines' = Lines \cup {LineOf("diag", 0, board.st = 1),
                                  LineOf("sess", board.ap, board.st = 1)}
  <2>. DEFINE d == LineOf("diag", 0, board.st = 1)
              e == LineOf("sess", board.ap, board.st = 1)
              s == <<d, e>>
  <2>1. d \in LineSet /\ e \in LineSet
    <3>1. 0 \in 0..MaxRows /\ board.ap \in 0..MaxRows /\ (board.st = 1) \in BOOLEAN
      BY TypeParts, LiteDashAssumption DEF BoardSet
    <3>. QED BY <3>1, LineTypes DEF LineKind
  <2>2. Say(s)
    BY <1>3 DEF ReadStatus
  <2>. HIDE DEF d, e
  <2>3. s \in Seq(LineSet) /\ {s[i] : i \in 1..Len(s)} = {d, e}
    BY <2>1
  <2>. HIDE DEF s
  <2>4. Lines' = Lines \cup {d, e}
    BY <2>2, <2>3, LinesSaid
  <2>. QED BY <2>4 DEF d, e
<1>. QED BY <1>1, <1>2, <1>3

-----------------------------------------------------------------------------
(* What the lines on the way say of the board is true: it reads the next   *)
(* command when all it said has been applied.                              *)

LinesTrue ==
    /\ board.silent => board.st = 1
    /\ ~board.up => board.st = 0
    /\ \A l \in Lines :
         /\ l.k \in {"started", "row"} => board.st = 1
         /\ l.k \in {"wifiStop", "gpsStop", "banner"} => board.st = 0
         /\ l.k \in {"diag", "sess"} => (l.on <=> board.st = 1)

LineInv == LiteTypeOK /\ play \in Play /\ LinesTrue

LEMMA LineFields ==
  /\ \A k : Line(k).k = k
  /\ \A k, n, on : LineOf(k, n, on).k = k /\ LineOf(k, n, on).n = n /\ LineOf(k, n, on).on = on
  BY DEF Line, LineOf

LEMMA ReadEffect ==
  ASSUME LiteTypeOK, BoardRead
  PROVE  /\ UNCHANGED <<gui, model, slot, lost>> /\ Lines = {}
         /\ Head(tx) \in Calls /\ Calls = Calls' \cup {Head(tx)}
         /\ \/ ~board.up /\ UNCHANGED board /\ Lines' = {}
            \/ /\ Head(tx) = "wardrive" /\ board.up
               /\ Lines' = {Line("startEcho")}
               /\ \/ /\ board.st = 0 /\ ~board.gps
                     /\ board' = [board EXCEPT !.st = 1, !.silent = TRUE, !.ap = 0]
                  \/ UNCHANGED board
            \/ /\ Head(tx) = "stopscan" /\ board.up
               /\ Lines' = {Line(IF board.gps THEN "gpsStop" ELSE "wifiStop")}
               /\ board' = [board EXCEPT !.st = 0, !.silent = FALSE, !.gps = FALSE]
            \/ /\ Head(tx) = "sigroam" /\ board.up /\ UNCHANGED board
               /\ Lines' = {LineOf("diag", 0, board.st = 1),
                            LineOf("sess", board.ap, board.st = 1)}
            \/ /\ Head(tx) = "gpsdata" /\ board.up
               /\ Lines' = {} /\ board' = Stream
            \/ /\ Head(tx) = "wardrivepoi" /\ board.up /\ UNCHANGED board
               /\ Lines' = {} \/ (board.st = 1 /\ Lines' = {Line("poiTagged")})
            \/ /\ Head(tx) = "reboot" /\ board.up
               /\ Lines' = {}
               /\ board' = [board EXCEPT !.st = 0, !.silent = FALSE, !.gps = FALSE, !.ap = 0,
                                         !.up = FALSE]
<1>1. UNCHANGED <<gui, model, slot, lost>> /\ Lines = {}
      /\ Head(tx) \in Calls /\ Calls = Calls' \cup {Head(tx)}
  BY CallsTail, NoLines DEF BoardRead
<1>2. CASE board.up /\ ReadWardrive
  <2>1. Lines' = {Line("startEcho")}
    BY <1>1, <1>2, LinesOf DEF ReadWardrive, LineKind
  <2>. QED BY <1>1, <1>2, <2>1 DEF ReadWardrive
<1>3. CASE board.up /\ ReadStopscan
  <2>1. Lines' = {Line(IF board.gps THEN "gpsStop" ELSE "wifiStop")}
    BY <1>1, <1>3, LinesOf DEF ReadStopscan, LineKind
  <2>. QED BY <1>1, <1>3, <2>1 DEF ReadStopscan
<1>4. CASE board.up /\ ReadStatus
  <2>1. Lines' = {LineOf("diag", 0, board.st = 1), LineOf("sess", board.ap, board.st = 1)}
    BY <1>1, <1>4, LinesOf
  <2>. QED BY <1>1, <1>4, <2>1 DEF ReadStatus
<1>5. CASE board.up /\ ReadGpsdata
  BY <1>1, <1>5, LinesOf DEF ReadGpsdata
<1>6. CASE board.up /\ ReadPoi
  <2>1. Lines' = {} \/ (board.st = 1 /\ Lines' = {Line("poiTagged")})
    BY <1>1, <1>6, LinesOf DEF ReadPoi, LineKind
  <2>. QED BY <1>1, <1>6, <2>1 DEF ReadPoi
<1>7. CASE board.up /\ ReadReboot
  BY <1>1, <1>7, LinesOf DEF ReadReboot
<1>8. CASE ~board.up /\ UNCHANGED <<rx, board, play>>
  BY <1>1, <1>8, LinesSame
<1>. QED BY <1>2, <1>3, <1>4, <1>5, <1>6, <1>7, <1>8 DEF BoardRead

\* What a command the board reads does to its scan.
LEMMA ReadBoard ==
  ASSUME LiteTypeOK, BoardRead
  PROVE  \/ UNCHANGED board
         \/ /\ Head(tx) = "wardrive" /\ board.st = 0
            /\ board'.st = 1 /\ board'.silent /\ board'.ap = 0
         \/ /\ Head(tx) \in {"stopscan", "gpsdata", "reboot"}
            /\ board'.st = 0 /\ ~board'.silent
<1>0. board \in BoardSet
  BY TypeParts
<1>1. CASE board' = [board EXCEPT !.st = 1, !.silent = TRUE, !.ap = 0]
           /\ board.st = 0 /\ Head(tx) = "wardrive"
  BY <1>0, <1>1 DEF BoardSet
<1>2. CASE board' = [board EXCEPT !.st = 0, !.silent = FALSE, !.gps = FALSE]
           /\ Head(tx) = "stopscan"
  BY <1>0, <1>2 DEF BoardSet
<1>3. CASE board' = Stream /\ Head(tx) = "gpsdata"
  BY <1>0, <1>3 DEF BoardSet, Stream
<1>4. CASE board' = [board EXCEPT !.st = 0, !.silent = FALSE, !.gps = FALSE, !.ap = 0,
                                  !.up = FALSE]
           /\ Head(tx) = "reboot"
  BY <1>0, <1>4 DEF BoardSet
<1>. QED BY <1>1, <1>2, <1>3, <1>4, ReadEffect

\* What the board says unasked.
LEMMA SpeakEffect ==
  ASSUME LiteTypeOK, Boots \/ Announce \/ Row \/ Block
  PROVE  /\ UNCHANGED <<gui, model, slot, tx, play, lost>> /\ Calls' = Calls
         /\ \/ /\ ~board.up /\ board' = [board EXCEPT !.up = TRUE]
               /\ Lines' = Lines \cup {Line("banner")}
            \/ /\ board.silent /\ board' = [board EXCEPT !.silent = FALSE]
               /\ Lines' = Lines \cup {Line("started")}
            \/ /\ board.st = 1 /\ ~board.silent /\ board.ap < MaxRows
               /\ board' = [board EXCEPT !.ap = @ + 1]
               /\ Lines' = Lines \cup {Line("row")}
            \/ /\ board.gps /\ UNCHANGED board
               /\ Lines' = Lines \cup {Line("block")}
<1>1. CASE Boots
  <2>1. Lines' = Lines \cup {Line("banner")}
    BY <1>1, LinesOf DEF Boots, LineKind
  <2>. QED BY <1>1, <2>1, CallsSame DEF Boots
<1>2. CASE Announce
  <2>1. Lines' = Lines \cup {Line("started")}
    BY <1>2, LinesOf DEF Announce, LineKind
  <2>. QED BY <1>2, <2>1, CallsSame DEF Announce
<1>3. CASE Row
  <2>1. Lines' = Lines \cup {Line("row")}
    BY <1>3, LinesOf DEF Row, LineKind
  <2>. QED BY <1>3, <2>1, CallsSame DEF Row
<1>4. CASE Block
  <2>1. Lines' = Lines \cup {Line("block")}
    BY <1>4, LinesOf DEF Block, LineKind
  <2>. QED BY <1>4, <2>1, CallsSame DEF Block, outside
<1>. QED BY <1>1, <1>2, <1>3, <1>4

LEMMA ApplyEffect ==
  ASSUME LiteTypeOK, Apply
  PROVE  /\ UNCHANGED <<scene, gpc, slot, tx, outside>> /\ Calls' = Calls /\ gpc = 0
         /\ Head(rx) \in Lines /\ Head(rx) \in LineSet /\ Lines = Lines' \cup {Head(rx)}
<1>1. rx # <<>> /\ rx' = Tail(rx)
  BY DEF Apply
<1>2. Head(rx) \in LineSet
  BY <1>1, TypeParts, TailShift
<1>. QED BY <1>1, <1>2, LinesTail, CallsSame DEF Apply

LEMMA LoseEffect ==
  ASSUME LiteTypeOK, Lose
  PROVE  /\ UNCHANGED <<gui, model, slot, board>> /\ lost'
         /\ Calls' \subseteq Calls /\ Lines' \subseteq Lines
<1>1. CASE tx # <<>> /\ tx' = Tail(tx) /\ UNCHANGED rx
  BY <1>1, CallsTail, LinesSame DEF Lose
<1>2. CASE rx # <<>> /\ rx' = Tail(rx) /\ UNCHANGED tx
  BY <1>2, CallsSame, LinesTail DEF Lose
<1>. QED BY <1>1, <1>2 DEF Lose

\* The app, its threads and time leave the board and its lines alone.
LEMMA BoardFrame ==
  /\ User \/ Tick \/ TickQual \/ Time => UNCHANGED <<tx, rx, board, lost>>
  /\ Tick \/ TickQual \/ Time => UNCHANGED outside
  /\ Time => \/ UNCHANGED <<link, model, scene, gpc, poi>>
             \/ UNCHANGED <<link, model, scene, gpc, rec>>
<1>1. User => UNCHANGED <<tx, rx, board, lost>>
  BY DEF User, OkDash, OkGps, EnterDash, LeaveDash
<1>2. Tick \/ TickQual => UNCHANGED <<tx, rx, outside>>
  BY DEF Tick, TickRecover, TickSync, TickSeed, TickGps, TickScan, TickPostStop,
         TickPrestart, TickPoi, TickQual, link
<1>3. Time => UNCHANGED <<link, outside, model, scene, gpc, poi>>
              \/ UNCHANGED <<link, outside, model, scene, gpc, rec>>
  BY DEF Time, ScanTime, PrestartTime, RecTime, GpsTime, PoiTime
<1>. QED BY <1>1, <1>2, <1>3 DEF link, outside

LEMMA LineInit == Init => LineInv
<1>. SUFFICES ASSUME Init PROVE LineInv
  OBVIOUS
<1>1. Lines = {}
  BY NoLines DEF Init
<1>. QED BY <1>1, TypeInit, PlayInit DEF LineInv, LinesTrue, Init

LEMMA LineKept == LineInv /\ [Next]_vars => LineInv'
<1>. SUFFICES ASSUME LineInv, [Next]_vars PROVE LinesTrue'
  BY TypeKept, PlayKept DEF LineInv
<1>0. LiteTypeOK /\ LinesTrue /\ board \in BoardSet
  BY TypeParts DEF LineInv
<1>1. CASE User \/ Tick \/ TickQual \/ Time \/ Take \/ UNCHANGED vars
  <2>1. UNCHANGED <<rx, board>>
    BY <1>1, BoardFrame DEF Take, outside, vars, link
  <2>. QED BY <1>0, <2>1, LinesSame DEF LinesTrue
<1>2. CASE Apply
  <2>1. UNCHANGED board /\ Lines' \subseteq Lines
    BY <1>0, <1>2, ApplyEffect DEF outside
  <2>. QED BY <1>0, <2>1 DEF LinesTrue
<1>3. CASE BoardRead
  <2>1. CASE ~board.up /\ UNCHANGED board /\ Lines' = {}
    BY <1>0, <2>1 DEF LinesTrue
  <2>2. CASE Head(tx) = "wardrive" /\ board.up /\ Lines' = {Line("startEcho")}
    <3>1. (board'.silent => board'.st = 1) /\ board'.up
      BY <1>0, <1>3, <2>2, ReadEffect DEF LinesTrue, BoardSet
    <3>. QED BY <2>2, <3>1, LineFields DEF LinesTrue
  <2>3. CASE /\ Head(tx) = "stopscan" /\ board.up
             /\ Lines' = {Line(IF board.gps THEN "gpsStop" ELSE "wifiStop")}
             /\ board' = [board EXCEPT !.st = 0, !.silent = FALSE, !.gps = FALSE]
    <3>1. ~board'.silent /\ board'.st = 0
      BY <1>0, <2>3 DEF BoardSet
    <3>2. \A l \in Lines' : l.k \in {"gpsStop", "wifiStop"}
      BY <2>3, LineFields
    <3>. QED BY <3>1, <3>2 DEF LinesTrue
  <2>4. CASE /\ Head(tx) = "sigroam" /\ board.up /\ UNCHANGED board
             /\ Lines' = {LineOf("diag", 0, board.st = 1),
                          LineOf("sess", board.ap, board.st = 1)}
    <3>1. \A l \in Lines' : l.k \in {"diag", "sess"} /\ l.on = (board.st = 1)
      BY <2>4, LineFields
    <3>. QED BY <1>0, <2>4, <3>1 DEF LinesTrue
  <2>5. CASE /\ Head(tx) = "gpsdata" /\ board.up
             /\ Lines' = {} /\ board' = Stream
    BY <1>0, <2>5 DEF LinesTrue, Stream, BoardSet
  <2>6. CASE /\ Head(tx) = "wardrivepoi" /\ board.up /\ UNCHANGED board
             /\ Lines' = {} \/ (board.st = 1 /\ Lines' = {Line("poiTagged")})
    BY <1>0, <2>6, LineFields DEF LinesTrue
  <2>7. CASE /\ Head(tx) = "reboot" /\ board.up
             /\ Lines' = {}
             /\ board' = [board EXCEPT !.st = 0, !.silent = FALSE, !.gps = FALSE, !.ap = 0,
                                       !.up = FALSE]
    BY <1>0, <2>7 DEF LinesTrue, BoardSet
  <2>. QED BY <1>0, <1>3, <2>1, <2>2, <2>3, <2>4, <2>5, <2>6, <2>7, ReadEffect
<1>4. CASE Boots \/ Announce \/ Row \/ Block
  BY <1>0, <1>4, SpeakEffect, LineFields DEF LinesTrue, BoardSet
<1>5. CASE Lose
  BY <1>0, <1>5, LoseEffect DEF LinesTrue
<1>. QED BY <1>1, <1>2, <1>3, <1>4, <1>5 DEF Next, BoardStep

-----------------------------------------------------------------------------
(* The start a recovery watches.                                           *)

\* The recovery asks the board, or is about to; it has given the start up.
Asking == rec.phase = "Check" \/ (rec.phase = "Watch" /\ rec.due)
Missed == rec.phase \in {"Fail", "Reboot"} \/ (rec.phase = "Retry" /\ rec.due)

\* A recovery watches a start that is pending; a prestart waits for a stop.
StartFlags ==
    /\ scan.ack => scan.pending /\ scan.isStart
    /\ app.prestart => ~scan.isStart
    /\ rec.phase \in {"Watch", "Check"} => scan.ack
    /\ rec.phase = "Retry" => scan.pending /\ scan.isStart
    /\ rec.phase \in {"Fail", "Reboot"} => ~app.prestart
    /\ scene = "menu" => rec.phase = "Off"

\* No tick goes on with a recovery whose scan runs.
TickFlag == gpc # 0 /\ rec.phase \in {"Watch", "Check", "Retry"} => ~Scanning

\* While it asks no start is on its way, so an answer of no scan stays true.
AskTrue ==
    /\ Asking \/ Missed => "wardrive" \notin Calls
    /\ rec.phase = "Check" /\ Fresh /\ model.diagSt = 0 => board.st = 0

AskInv == LineInv /\ StartFlags /\ TickFlag /\ AskTrue

LEMMA AskTypes ==
  ASSUME AskInv
  PROVE  /\ LiteTypeOK /\ play \in Play /\ LinesTrue /\ StartFlags /\ TickFlag /\ AskTrue
         /\ scan \in ScanSet /\ app \in AppSet /\ rec \in RecSet /\ gps \in GpsSet
         /\ model \in ModelSet /\ board \in BoardSet /\ poi \in PoiSet
         /\ scene \in {"menu", "dash"}
  BY TypeParts DEF AskInv, LineInv

\* A handler behind the recovery runs only when that has nothing to do.
LEMMA BehindRecovery ==
  ASSUME AskInv, NEW p \in 2..9, At(p)
  PROVE  /\ scene = "dash"
         /\ rec.phase \in {"Watch", "Check", "Retry"} => ~Scanning
<1>1. gpc \in 0..9 /\ TickFlag
  BY TypeParts DEF AskInv, LineInv
<1>2. CASE gpc = 0
  <2>1. 1 \in (gpc + 1)..(p - 1)
    BY <1>2
  <2>2. ~RecDue
    <3>1. ~Due(1)
      BY <2>1 DEF At
    <3>. QED BY <3>1 DEF Due
  <2>3. ~ (rec.phase = "Watch" /\ Scanning)
    BY <2>2 DEF RecDue
  <2>4. ~ (rec.phase = "Check" /\ Scanning)
    BY <2>2 DEF RecDue
  <2>5. ~ (rec.phase = "Retry" /\ Scanning)
    BY <2>2 DEF RecDue
  <2>. QED BY <2>3, <2>4, <2>5 DEF At
<1>3. CASE gpc # 0
  BY <1>1, <1>3 DEF At, TickFlag
<1>. QED BY <1>2, <1>3

LEMMA QuietFacts ==
  ASSUME Passing
  PROVE  /\ Free /\ Calls = {NoCmd} /\ Lines = {} /\ gpc = 0 /\ board.up
         /\ board.silent => play.late
         /\ scene = "dash" => \A p \in 1..8 : ~Due(p)
         /\ scene = "dash" => ~RecDue
<1>1. scene = "dash" => \A p \in 1..8 : ~Due(p)
  BY DEF Passing, NoneDue
<1>2. scene = "dash" => ~RecDue
  BY <1>1 DEF Due
<1>. QED BY <1>1, <1>2, NoCalls, NoLines DEF Passing, Answered, NoneDue, Free

LEMMA AskInit == Init => AskInv
<1>. SUFFICES ASSUME Init PROVE AskInv
  OBVIOUS
<1>. QED BY LineInit DEF AskInv, StartFlags, TickFlag, AskTrue, Init, Asking, Missed

LEMMA AskRecover ==
  ASSUME AskInv, TickRecover
  PROVE  StartFlags' /\ TickFlag' /\ AskTrue'
<1>0. /\ scan \in ScanSet /\ app \in AppSet /\ rec \in RecSet /\ model \in ModelSet
      /\ StartFlags /\ TickFlag /\ AskTrue /\ scene = "dash"
      /\ UNCHANGED <<scene, model, tx, rx, board>>
  BY AskTypes DEF TickRecover, At, outside
<1>1. CASE RecRuns
  <2>1. UNCHANGED <<scan, app, slot>> /\ rec'.phase = "Off"
    BY <1>0, <1>1 DEF RecRuns, RecOff, RecSet
  <2>. QED BY <1>0, <2>1 DEF StartFlags, TickFlag, AskTrue, Asking, Missed
<1>2. CASE RecWatches
  <2>1. /\ UNCHANGED <<scan, app, slot>> /\ rec'.phase = "Watch" /\ ~rec'.due
        /\ Accepted
    BY <1>0, <1>2 DEF RecWatches, RecSet
  <2>. QED BY <1>0, <2>1 DEF StartFlags, TickFlag, AskTrue, Asking, Missed, Accepted, Scanning
<1>3. CASE RecChecks
  <2>1. /\ UNCHANGED <<scan, app>> /\ rec'.phase = "Check" /\ ~rec'.fresh
        /\ Accepted /\ Asking /\ Offer("sigroam")
    BY <1>0, <1>3 DEF RecChecks, RecSet, Asking
  <2>2. Calls' \subseteq Calls \cup {"sigroam"}
    BY <1>0, <2>1, CallsOffer
  <2>. QED BY <1>0, <2>1, <2>2
       DEF StartFlags, TickFlag, AskTrue, Asking, Missed, Accepted, Scanning, Fresh
<1>4. CASE RecAdopts
  <2>1. UNCHANGED slot /\ rec'.phase = "Off" /\ ~scan'.ack /\ scan'.isStart = scan.isStart
        /\ app'.prestart = app.prestart
    BY <1>0, <1>4 DEF RecAdopts, RecOff, RecSet, ScanSet, AppSet
  <2>. QED BY <1>0, <2>1 DEF StartFlags, TickFlag, AskTrue, Asking, Missed
<1>5. CASE RecRetries
  <2>1. rec'.phase = "Stop" /\ ~scan'.ack /\ ~scan'.isStart
    BY <1>0, <1>5 DEF RecRetries, RecSet, QueueCmd, Queued
  <2>. QED BY <1>0, <2>1 DEF StartFlags, TickFlag, AskTrue, Asking, Missed
<1>6. CASE RecNoDiag
  <2>1. UNCHANGED <<scan, app, slot>> /\ rec'.phase = "Fail" /\ Asking /\ ~app.prestart
    BY <1>0, <1>6 DEF RecNoDiag, RecSet, Asking, StartFlags
  <2>2. "wardrive" \notin Calls'
    BY <1>0, <2>1, CallsSame DEF AskTrue
  <2>. QED BY <1>0, <2>1, <2>2 DEF StartFlags, TickFlag, AskTrue
<1>7. CASE RecRetried
  <2>1. /\ UNCHANGED <<scan, app, slot>> /\ rec'.phase = "Retry" /\ ~rec'.due
        /\ ~Scanning /\ scan.pending /\ scan.isStart
    BY <1>0, <1>7 DEF RecRetried, RecSet, RetryAccepted
  <2>. QED BY <1>0, <2>1 DEF StartFlags, TickFlag, AskTrue, Asking, Missed, Scanning
<1>8. CASE RecMisses
  <2>1. UNCHANGED <<scan, app, slot>> /\ rec'.phase = "Fail" /\ Missed /\ ~app.prestart
    BY <1>0, <1>8 DEF RecMisses, RecSet, Missed, StartFlags
  <2>2. "wardrive" \notin Calls'
    BY <1>0, <2>1, CallsSame DEF AskTrue
  <2>. QED BY <1>0, <2>1, <2>2 DEF StartFlags, TickFlag, AskTrue
<1>9. CASE RecUp
  <2>1. UNCHANGED slot /\ rec'.phase = "Off" /\ ~scan'.ack /\ scan'.isStart = scan.isStart
        /\ ~app'.prestart
    BY <1>0, <1>9 DEF RecUp, RecOff, RecSet, ScanSet, AppSet
  <2>. QED BY <1>0, <2>1 DEF StartFlags, TickFlag, AskTrue, Asking, Missed
<1>10. CASE RecAsksAgain
  <2>1. /\ UNCHANGED <<scan, app>> /\ rec'.phase = "Check" /\ rec.phase = "Check"
        /\ ~rec'.fresh /\ ~Scanning /\ Offer("sigroam")
    BY <1>0, <1>10 DEF RecAsksAgain, RecSet
  <2>2. Calls' \subseteq Calls \cup {"sigroam"}
    BY <1>0, <2>1, CallsOffer
  <2>. QED BY <1>0, <2>1, <2>2
       DEF StartFlags, TickFlag, AskTrue, Asking, Missed, Scanning, Fresh
<1>11. CASE RecRebootsAgain
  <2>1. /\ UNCHANGED <<scan, app>> /\ rec'.phase = "Reboot" /\ rec.phase = "Reboot"
        /\ Offer("reboot")
    BY <1>0, <1>11 DEF RecRebootsAgain, RecSet
  <2>2. Calls' \subseteq Calls \cup {"reboot"}
    BY <1>0, <2>1, CallsOffer
  <2>. QED BY <1>0, <2>1, <2>2 DEF StartFlags, TickFlag, AskTrue, Asking, Missed
<1>. QED BY <1>1, <1>2, <1>3, <1>4, <1>5, <1>6, <1>7, <1>8, <1>9, <1>10, <1>11
     DEF TickRecover, Recover

LEMMA AskTick ==
  ASSUME AskInv, Tick \/ TickQual, ~TickRecover
  PROVE  StartFlags' /\ TickFlag' /\ AskTrue'
<1>0. /\ scan \in ScanSet /\ app \in AppSet /\ rec \in RecSet /\ model \in ModelSet
      /\ StartFlags /\ AskTrue
      /\ UNCHANGED <<tx, rx, board>>
  BY AskTypes, BoardFrame
<1>1. /\ scene = "dash" /\ UNCHANGED <<scene, rec>>
      /\ rec.phase \in {"Watch", "Check", "Retry"} => ~Scanning
  <2>1. \E p \in 2..9 : At(p)
    <3>1. \/ At(2) \/ At(3) \/ At(4) \/ At(5) \/ At(6) \/ At(7) \/ At(8) \/ At(9)
      BY DEF Tick, TickSync, TickSeed, TickGps, TickScan, TickPostStop, TickPrestart,
             TickPoi, TickQual
    <3>. QED BY <3>1
  <2>2. UNCHANGED <<scene, rec>>
    BY DEF Tick, TickSync, TickSeed, TickGps, TickScan, TickPostStop, TickPrestart,
           TickPoi, TickQual
  <2>. QED BY <2>1, <2>2, BehindRecovery
<1>2. CASE TickSync
  <2>1. /\ UNCHANGED slot /\ app'.prestart = app.prestart
        /\ scan'.ack = scan.ack /\ scan'.pending = scan.pending /\ scan'.isStart = scan.isStart
        /\ model'.diagSt = model.diagSt
        /\ ~Scanning /\ scan.pending => ~Scanning'
    BY <1>0, <1>2 DEF TickSync, SessionStarts, SessionTo, SyncAct, PeerSync, AppSet, ScanSet,
                      ModelSet, Scanning, link
  <2>. QED BY <1>0, <1>1, <2>1, CallsSame
       DEF StartFlags, TickFlag, AskTrue, Asking, Missed, Fresh
<1>3. CASE TickSeed \/ TickGps \/ TickPostStop \/ TickPoi \/ TickQual
  <2>1. /\ UNCHANGED scan /\ app'.prestart = app.prestart
        /\ model'.session = model.session /\ model'.diagSt = model.diagSt
    BY <1>0, <1>3 DEF TickSeed, TickGps, TickPostStop, TickPoi, TickQual, AppSet, ModelSet
  <2>2. UNCHANGED slot \/ Offer("stopscan") \/ Offer("sigroam")
    BY <1>3 DEF TickSeed, TickGps, GpsClose, GpsTurnsSlow, GpsConfirmed, GpsRefuted,
                TickPostStop, TickPoi, TickQual, link
  <2>3. Calls' \subseteq Calls \cup {"stopscan", "sigroam"}
    BY <1>0, <2>2, CallsSame, CallsOffer
  <2>. QED BY <1>0, <1>1, <2>1, <2>3
       DEF StartFlags, TickFlag, AskTrue, Asking, Missed, Fresh, Scanning
<1>4. CASE TickScan
  <2>1. rec.phase \notin {"Watch", "Check", "Retry"}
    BY <1>0, <1>1, <1>4 DEF TickScan, At, Due, ConfirmedNow, Confirmed, StartFlags, Scanning
  <2>2. ~scan'.ack /\ scan'.isStart = scan.isStart /\ app'.prestart = app.prestart
    BY <1>0, <1>4 DEF TickScan, ScanEnds, ScanSet, AppSet
  <2>3. UNCHANGED slot \/ Offer("sigroam")
    BY <1>4 DEF TickScan
  <2>4. Calls' \subseteq Calls \cup {"sigroam"}
    BY <1>0, <2>3, CallsSame, CallsOffer
  <2>. QED BY <1>0, <1>1, <2>1, <2>2, <2>4 DEF StartFlags, TickFlag, AskTrue, Asking, Missed
<1>5. CASE TickPrestart
  <2>1. app.prestart
    BY <1>5 DEF TickPrestart, PrestartRetry, PrestartEnds
  <2>2. rec.phase \in {"Off", "Stop"}
    BY <1>0, <2>1 DEF StartFlags, RecSet, RecPhase
  <2>3. ~scan'.ack /\ (app'.prestart => ~scan'.isStart)
    <3>1. CASE QueueClearingStop
      BY <3>1 DEF QueueClearingStop, Queued
    <3>2. CASE /\ scan' = Queued(scan.pending /\ scan.isStart, TRUE)
               /\ app' = [app EXCEPT !.prestart = FALSE, !.prestartOut = FALSE, !.clear = FALSE]
      BY <1>0, <3>2 DEF Queued, AppSet
    <3>. QED BY <1>5, <3>1, <3>2 DEF TickPrestart
  <2>. QED BY <1>0, <1>1, <2>2, <2>3 DEF StartFlags, TickFlag, AskTrue, Asking, Missed
<1>. QED BY <1>2, <1>3, <1>4, <1>5 DEF Tick

LEMMA AskTime ==
  ASSUME AskInv, Time
  PROVE  StartFlags' /\ TickFlag' /\ AskTrue'
<1>0. /\ scan \in ScanSet /\ app \in AppSet /\ rec \in RecSet /\ StartFlags /\ AskTrue
      /\ UNCHANGED <<scene, gpc, model, slot, tx, rx, board>> /\ gpc = 0
  BY AskTypes, QuietFacts
  DEF Time, ScanTime, PrestartTime, RecTime, GpsTime, PoiTime, link, outside
<1>1. CASE RecTime
  <2>1. /\ UNCHANGED <<scan, app>> /\ rec'.phase = rec.phase
        /\ rec'.fresh = rec.fresh /\ rec'.checkSent = rec.checkSent
    BY <1>0, <1>1 DEF RecTime, RecSet
  <2>2. "wardrive" \notin Calls'
    BY <1>0, <1>1, QuietFacts, CallsSame DEF RecTime, NoCmd
  <2>. QED BY <1>0, <2>1, <2>2 DEF StartFlags, TickFlag, AskTrue, Fresh
<1>2. CASE ~RecTime
  <2>1. /\ UNCHANGED rec /\ scan'.ack = scan.ack /\ scan'.pending = scan.pending
        /\ scan'.isStart = scan.isStart /\ app'.prestart = app.prestart
    BY <1>0, <1>2 DEF Time, ScanTime, PrestartTime, GpsTime, PoiTime, ScanSet, AppSet
  <2>. QED BY <1>0, <2>1, CallsSame
       DEF StartFlags, TickFlag, AskTrue, Asking, Missed, Fresh
<1>. QED BY <1>1, <1>2

LEMMA AskUser ==
  ASSUME AskInv, User
  PROVE  StartFlags' /\ TickFlag' /\ AskTrue'
<1>0. /\ scan \in ScanSet /\ app \in AppSet /\ rec \in RecSet /\ StartFlags /\ AskTrue
      /\ scene \in {"menu", "dash"} /\ model \in ModelSet
      /\ UNCHANGED <<gpc, tx, rx, board>> /\ gpc = 0
  BY AskTypes, BoardFrame DEF User, OkDash, OkGps, EnterDash, LeaveDash, MayAct
<1>1. CASE OkDash /\ OkReboots
  <2>1. /\ UNCHANGED <<scene, scan, app, model>> /\ rec.phase = "Fail" /\ rec'.phase = "Reboot"
        /\ Offer("reboot")
    BY <1>0, <1>1 DEF OkDash, OkReboots, RecSet
  <2>2. Calls' \subseteq Calls \cup {"reboot"}
    BY <1>0, <2>1, CallsOffer
  <2>. QED BY <1>0, <1>1, <2>1, <2>2
       DEF StartFlags, TickFlag, AskTrue, Asking, Missed, OkDash
<1>2. CASE OkDash /\ OkCancels
  <2>1. rec'.phase = "Off" /\ UNCHANGED scene
    BY <1>0, <1>2 DEF OkDash, OkCancels, RecOff, RecSet
  <2>2. \/ ~scan'.ack /\ ~scan'.isStart
        \/ UNCHANGED <<scan, app>>
    BY <1>2 DEF OkCancels, Toggle, ToggleStop, ToggleStart, ToggleNot, QueueCmd,
                QueueClearingStop, Queued
  <2>. QED BY <1>0, <2>1, <2>2 DEF StartFlags, TickFlag, AskTrue, Asking, Missed
<1>3. CASE OkGps
  <2>1. /\ UNCHANGED <<scene, scan, app, rec, model>>
        /\ Offer("gpsdata") \/ Offer("wardrivepoi")
    BY <1>3 DEF OkGps, GpsStart, PoiSend
  <2>2. Calls' \subseteq Calls \cup {"gpsdata", "wardrivepoi"}
    BY <1>0, <2>1, CallsOffer
  <2>. QED BY <1>0, <2>1, <2>2 DEF StartFlags, TickFlag, AskTrue, Asking, Missed, Fresh
<1>4. CASE EnterDash
  <2>1. UNCHANGED <<scan, rec>> /\ rec.phase = "Off" /\ ~app'.prestart
    BY <1>0, <1>4 DEF EnterDash, StartFlags, AppSet
  <2>. QED BY <1>0, <2>1 DEF StartFlags, TickFlag, AskTrue, Asking, Missed
<1>5. CASE LeaveDash
  <2>1. UNCHANGED <<scan, app>> /\ rec'.phase = "Off"
    BY <1>0, <1>5 DEF LeaveDash, RecOff, RecSet
  <2>. QED BY <1>0, <2>1 DEF StartFlags, TickFlag, AskTrue, Asking, Missed
<1>. QED BY <1>1, <1>2, <1>3, <1>4, <1>5 DEF User, OkDash

LEMMA AskApply ==
  ASSUME AskInv, Apply
  PROVE  StartFlags' /\ TickFlag' /\ AskTrue'
<1>. DEFINE l == Head(rx)
<1>0. /\ scan \in ScanSet /\ app \in AppSet /\ rec \in RecSet /\ model \in ModelSet
      /\ StartFlags /\ AskTrue /\ LinesTrue /\ LiteTypeOK
      /\ UNCHANGED <<scene, gpc, slot, tx, board>> /\ gpc = 0 /\ Calls' = Calls
      /\ l \in Lines /\ board \in BoardSet
  BY AskTypes, ApplyEffect DEF outside
<1>. HIDE DEF l
<1>1. CASE ApplySession(l)
  <2>1. /\ UNCHANGED rec /\ scan'.ack = scan.ack /\ scan'.pending = scan.pending
        /\ scan'.isStart = scan.isStart /\ app'.prestart = app.prestart
        /\ model'.diagSt = model.diagSt
    <3>1. ASSUME NEW s, SessionTo(s)
          PROVE  /\ scan'.ack = scan.ack /\ scan'.pending = scan.pending
                 /\ scan'.isStart = scan.isStart
      BY <1>0, <3>1 DEF SessionTo, ScanSet
    <3>2. /\ scan'.ack = scan.ack /\ scan'.pending = scan.pending
          /\ scan'.isStart = scan.isStart
      BY <1>1, <3>1 DEF ApplySession, SessionStarts, SessionStops
    <3>3. UNCHANGED rec /\ app'.prestart = app.prestart
      BY <1>0, <1>1 DEF ApplySession, AppSet
    <3>4. model'.diagSt = model.diagSt
      BY <1>0, <1>1 DEF ApplySession, SessionStarts, SessionStops, CountRow, ModelSet
    <3>. QED BY <3>2, <3>3, <3>4
  <2>. QED BY <1>0, <2>1 DEF StartFlags, TickFlag, AskTrue, Asking, Missed, Fresh
<1>2. CASE ApplyStatus(l)
  <2>1. /\ UNCHANGED scan /\ app'.prestart = app.prestart
        /\ rec'.phase = rec.phase /\ rec'.due = rec.due /\ rec'.checkSent = rec.checkSent
    BY <1>0, <1>2 DEF ApplyStatus, SessSeen, AppSet, RecSet
  <2>2. rec'.phase = "Check" /\ Fresh' /\ model'.diagSt = 0 => board.st = 0
    <3>1. CASE l.k = "diag"
      <4>1. l.on <=> board.st = 1
        BY <1>0, <3>1 DEF LinesTrue
      <4>2. model'.diagSt = IF l.on THEN 1 ELSE 0
        BY <1>0, <1>2, <3>1 DEF ApplyStatus, SessSeen, ModelSet
      <4>. QED BY <1>0, <4>1, <4>2 DEF BoardSet
    <3>2. CASE l.k # "diag"
      <4>1. UNCHANGED rec /\ model'.diagSt = model.diagSt
        BY <1>0, <1>2, <3>2 DEF ApplyStatus, SessSeen, ModelSet
      <4>. QED BY <1>0, <4>1 DEF AskTrue, Fresh
    <3>. QED BY <3>1, <3>2
  <2>. QED BY <1>0, <2>1, <2>2 DEF StartFlags, TickFlag, AskTrue, Asking, Missed
<1>3. CASE ApplyOther(l)
  <2>1. /\ scan'.pending = scan.pending /\ scan'.isStart = scan.isStart
        /\ scan'.ack = scan.ack \/ (scan'.ack /\ scan.pending /\ scan.isStart)
        /\ UNCHANGED app /\ model'.diagSt = model.diagSt
    BY <1>0, <1>3 DEF ApplyOther, ScanSet, ModelSet
  <2>2. /\ rec'.phase = rec.phase /\ rec'.due = rec.due /\ rec'.checkSent = rec.checkSent
        /\ rec'.fresh = rec.fresh
    BY <1>0, <1>3 DEF ApplyOther, RecSet
  <2>. QED BY <1>0, <2>1, <2>2 DEF StartFlags, TickFlag, AskTrue, Asking, Missed, Fresh
<1>. QED BY <1>1, <1>2, <1>3 DEF Apply, l

\* The worker, the board and the line leave the screen alone.
LEMMA AskOutside ==
  ASSUME AskInv, Take \/ BoardStep \/ Lose \/ UNCHANGED vars
  PROVE  StartFlags' /\ TickFlag' /\ AskTrue'
<1>0. /\ LiteTypeOK /\ StartFlags /\ TickFlag /\ AskTrue /\ board \in BoardSet
  BY AskTypes
<1>1. UNCHANGED <<gui, model>>
  BY DEF Take, BoardStep, BoardRead, Boots, Announce, Row, Block, Lose, vars
<1>2. StartFlags' /\ TickFlag'
  BY <1>0, <1>1 DEF StartFlags, TickFlag, gui, Scanning
<1>3. Calls' \subseteq Calls \cup {NoCmd}
  BY <1>0, CallsTake, ReadEffect, SpeakEffect, LoseEffect, CallsSame DEF BoardStep, vars, link
<1>4. board.st = 0 /\ "wardrive" \notin Calls => board'.st = 0
  <2>1. CASE BoardRead
    BY <1>0, <2>1, ReadEffect DEF BoardSet, Stream
  <2>2. CASE Boots \/ Announce \/ Row \/ Block
    BY <1>0, <2>2, SpeakEffect DEF BoardSet
  <2>3. CASE Take \/ Lose \/ UNCHANGED vars
    BY <2>3 DEF Take, Lose, vars, outside
  <2>. QED BY <2>1, <2>2, <2>3 DEF BoardStep
<1>5. AskTrue'
  BY <1>0, <1>1, <1>3, <1>4 DEF AskTrue, gui, Asking, Missed, Fresh, NoCmd
<1>. QED BY <1>2, <1>5

LEMMA AskKept == AskInv /\ [Next]_vars => AskInv'
<1>. SUFFICES ASSUME AskInv, [Next]_vars PROVE AskInv'
  OBVIOUS
<1>1. LineInv'
  BY LineKept DEF AskInv
<1>2. StartFlags' /\ TickFlag' /\ AskTrue'
  BY AskRecover, AskTick, AskTime, AskUser, AskApply, AskOutside DEF Next
<1>. QED BY <1>1, <1>2 DEF AskInv

-----------------------------------------------------------------------------
(* While no line and no command was lost, the app knows of a board that    *)
(* scans, or will: it is about to announce the scan, or has; else it has   *)
(* scanned since before the app was launched.                              *)

\* Nothing was started since the launch, nor any start let through.
Launch ==
    /\ model.session = "Idle" /\ rec.phase = "Off"
    /\ ~scan.isStart /\ "wardrive" \notin Calls
    /\ scan.pending => "stopscan" \in Calls
    /\ ~app.clear /\ (scene = "dash" => ~app.prestartOut)
    /\ board.up

\* A patient user then has not entered the Dash, or waits for its question
\* to be answered: the scan is adopted before the user acts.
LaunchWaits ==
    /\ Launch
    /\ ~scan.pending /\ ~app.prestart
    /\ scene = "dash" =>
         /\ app.sync
         /\ app.syncMoved => model.diagSt = 1
         /\ ~app.syncMoved => "sigroam" \in Calls \/ Said("diag")

Told == board.silent \/ model.session = "Running" \/ Said("started")

AgreeUp == ~lost /\ board.st = 1 /\ ~Told => Launch

AgreeWaits == ~lost /\ ~play.hasty /\ board.st = 1 /\ ~Told => LaunchWaits

AgreeInv == AskInv /\ AgreeUp /\ AgreeWaits

LEMMA AgreeInit == Init => AgreeInv
<1>. SUFFICES ASSUME Init PROVE AgreeInv
  OBVIOUS
<1>1. Calls = {NoCmd}
  BY NoCalls DEF Init
<1>2. board.st = 1 => LaunchWaits
  BY <1>1 DEF LaunchWaits, Launch, Init, NoCmd
<1>3. LaunchWaits => Launch
  BY DEF LaunchWaits
<1>. QED BY <1>2, <1>3, AskInit DEF AgreeInv, AgreeUp, AgreeWaits

\* What is said stays said, until it is known, while the board scans.
LEMMA ToldStays ==
  ASSUME AskInv, [Next]_vars, ~lost', board'.st = 1, ~Told'
  PROVE  ~lost /\ board.st = 1 /\ ~Told
<1>0. /\ LiteTypeOK /\ LinesTrue /\ model \in ModelSet /\ board \in BoardSet
  BY AskTypes
<1>1. CASE User \/ Tick \/ TickQual \/ Time \/ Take \/ UNCHANGED vars
  <2>1. UNCHANGED <<rx, board, lost>>
    BY <1>1, BoardFrame DEF Take, vars, link, outside
  <2>2. model.session = "Running" => model'.session = "Running"
    <3>1. CASE TickSync
      BY <1>0, <3>1 DEF TickSync, SessionStarts, ModelSet
    <3>2. CASE ~TickSync
      BY <1>0, <1>1, <3>2
      DEF User, OkDash, OkGps, EnterDash, LeaveDash, Tick, TickRecover, TickSeed, TickGps,
          TickScan, TickPostStop, TickPrestart, TickPoi, TickQual, Time, ScanTime,
          PrestartTime, RecTime, GpsTime, PoiTime, Take, vars, ModelSet
    <3>. QED BY <3>1, <3>2
  <2>. QED BY <2>1, <2>2, LinesSame DEF Told, Said
<1>2. CASE Apply
  <2>. DEFINE l == Head(rx)
  <2>1. /\ l \in Lines /\ Lines = Lines' \cup {l} /\ UNCHANGED <<board, lost>>
    BY <1>0, <1>2, ApplyEffect DEF outside
  <2>2. l.k \notin {"wifiStop", "gpsStop"}
    BY <1>0, <2>1 DEF LinesTrue
  <2>. HIDE DEF l
  <2>3. l.k = "started" \/ model.session = "Running" => model'.session = "Running"
    <3>1. CASE ApplySession(l)
      BY <1>0, <2>2, <3>1
      DEF ApplySession, SessionStarts, CountRow, RowSeen, Started, ModelSet
    <3>2. CASE ApplyStatus(l) \/ ApplyOther(l)
      BY <1>0, <3>2 DEF ApplyStatus, SessSeen, ApplyOther, ModelSet
    <3>. QED BY <1>2, <3>1, <3>2 DEF Apply, l
  <2>. QED BY <2>1, <2>3 DEF Told, Said
<1>3. CASE BoardRead
  <2>1. UNCHANGED <<model, lost>> /\ Lines = {}
    BY <1>0, <1>3, ReadEffect
  <2>2. UNCHANGED board
    BY <1>0, <1>3, ReadBoard DEF Told
  <2>. QED BY <2>1, <2>2 DEF Told, Said
<1>4. CASE Boots \/ Announce \/ Row \/ Block
  <2>1. UNCHANGED <<model, lost>> /\ Lines \subseteq Lines'
    BY <1>0, <1>4, SpeakEffect DEF gui
  <2>2. board.silent => board'.silent \/ Said("started")'
    BY <1>0, <1>4, SpeakEffect, LineFields DEF Said, BoardSet
  <2>3. board'.st = board.st
    BY <1>0, <1>4, SpeakEffect DEF BoardSet
  <2>. QED BY <2>1, <2>2, <2>3 DEF Told, Said
<1>5. CASE Lose
  BY <1>5 DEF Lose
<1>. QED BY <1>1, <1>2, <1>3, <1>4, <1>5 DEF Next, BoardStep

\* A board that was scanning before the launch: what each part of the app, and
\* the board, leave of that.
LEMMA LaunchTick ==
  ASSUME AskInv, Launch, Tick \/ TickQual, ~Told', board.st = 1
  PROVE  /\ Launch' /\ UNCHANGED <<scene, rx, board, play, lost>>
         /\ ~TickRecover
         /\ model'.diagSt = model.diagSt
         /\ \/ app'.sync = app.sync /\ app'.syncMoved = app.syncMoved
            \/ TickSync /\ SyncAct # "Adopt"
         /\ Calls \ {NoCmd} \subseteq Calls'
         /\ ~scan.pending /\ ~app.prestart => ~scan'.pending /\ ~app'.prestart
<1>0. /\ scan \in ScanSet /\ app \in AppSet /\ rec \in RecSet /\ model \in ModelSet
      /\ UNCHANGED <<tx, rx, board, play, lost>> /\ NoCmd # "stopscan"
      /\ model.session = "Idle" /\ rec.phase = "Off" /\ ~scan.isStart
      /\ "wardrive" \notin Calls /\ ~app.clear /\ board.up
      /\ scan.pending => "stopscan" \in Calls
      /\ scene = "dash" => ~app.prestartOut
  BY AskTypes, BoardFrame DEF Launch, outside, NoCmd
<1>1. ~TickRecover
  BY <1>0 DEF TickRecover, Recover, RecRuns, RecWatches, RecChecks, RecAdopts, RecRetries,
              RecNoDiag, RecRetried, RecMisses, RecUp, RecAsksAgain, RecRebootsAgain, Accepted
<1>2. CASE TickSync
  <2>1. SyncAct # "Adopt"
    BY <1>0, <1>2 DEF TickSync, SessionStarts, Told, ModelSet
  <2>2. /\ UNCHANGED <<scene, scan, rec, model, slot>>
        /\ app'.clear = app.clear /\ app'.prestartOut = app.prestartOut
        /\ app'.prestart = app.prestart
    BY <1>0, <1>2, <2>1 DEF TickSync, AppSet, link
  <2>3. Calls' = Calls
    BY <1>0, <2>2, CallsSame
  <2>4. Launch'
    BY <1>0, <2>2, <2>3 DEF Launch
  <2>. QED BY <1>0, <1>1, <1>2, <2>1, <2>2, <2>3, <2>4
<1>3. CASE TickSeed \/ TickScan
  BY <1>0, <1>3 DEF TickSeed, TickScan, At, Due, SeedDue, ConfirmedNow, Confirmed
<1>4. CASE TickGps \/ TickPostStop \/ TickPoi \/ TickQual
  <2>1. /\ UNCHANGED <<scene, scan, rec, model>>
        /\ app'.clear = app.clear /\ app'.prestartOut = app.prestartOut
        /\ app'.prestart = app.prestart
        /\ app'.sync = app.sync /\ app'.syncMoved = app.syncMoved
    BY <1>0, <1>4 DEF TickGps, TickPostStop, TickPoi, TickQual, AppSet
  <2>2. UNCHANGED slot \/ Offer("stopscan") \/ Offer("sigroam")
    BY <1>4 DEF TickGps, GpsClose, GpsTurnsSlow, GpsConfirmed, GpsRefuted,
                TickPostStop, TickPoi, TickQual, link
  <2>3. /\ Calls' \subseteq Calls \cup {"stopscan", "sigroam"}
        /\ Calls \ {NoCmd} \subseteq Calls'
    BY <1>0, <2>2, CallsSame, CallsOffer
  <2>. QED BY <1>0, <1>1, <2>1, <2>3 DEF Launch
<1>5. CASE TickPrestart
  <2>1. QueueClearingStop /\ UNCHANGED <<scene, rec, model, app>> /\ app.prestart
    BY <1>0, <1>5 DEF TickPrestart, PrestartEnds, PrestartRetry, At
  <2>2. Offer("stopscan") /\ scan'.pending = (Free \/ scan.pending) /\ ~scan'.isStart
    BY <1>0, <2>1 DEF QueueClearingStop, Queued, ScanSet
  <2>3. /\ Calls' \subseteq Calls \cup {"stopscan"} /\ Calls \ {NoCmd} \subseteq Calls'
        /\ Free => "stopscan" \in Calls'
    BY <1>0, <2>2, CallsOffer
  <2>4. Launch'
    BY <1>0, <2>1, <2>2, <2>3 DEF Launch
  <2>. QED BY <1>0, <1>1, <2>1, <2>3, <2>4
<1>. QED BY <1>1, <1>2, <1>3, <1>4, <1>5 DEF Tick

LEMMA LaunchUserTime ==
  ASSUME AskInv, Launch, User \/ Time
  PROVE  Launch' /\ (~play.hasty /\ LaunchWaits => LaunchWaits')
<1>0. /\ scan \in ScanSet /\ app \in AppSet /\ rec \in RecSet
      /\ UNCHANGED <<tx, rx, board>>
      /\ model'.session = model.session /\ model'.diagSt = model.diagSt
       /\ NoCmd \notin {"stopscan", "wardrive", "sigroam"}
      /\ model.session = "Idle" /\ rec.phase = "Off" /\ ~scan.isStart
      /\ "wardrive" \notin Calls /\ ~app.clear /\ board.up
      /\ scan.pending => "stopscan" \in Calls
      /\ scene = "dash" => ~app.prestartOut
  <2>1. model'.session = model.session /\ model'.diagSt = model.diagSt
    BY AskTypes, BoardFrame DEF User, OkDash, OkGps, EnterDash, LeaveDash, ModelSet
  <2>. QED BY AskTypes, BoardFrame, <2>1 DEF Launch, NoCmd
<1>1. CASE Time
  <2>1. /\ UNCHANGED <<scene, slot, model>>
        /\ scan'.pending = scan.pending /\ scan'.isStart = scan.isStart
        /\ app'.clear = app.clear /\ app'.prestart = app.prestart
        /\ app'.sync = app.sync /\ app'.syncMoved = app.syncMoved
        /\ rec'.phase = "Off"
    BY <1>0, <1>1 DEF Time, ScanTime, PrestartTime, RecTime, GpsTime, PoiTime, ScanSet, AppSet,
                      RecSet, link
  <2>2. scene = "dash" => ~app'.prestartOut
    <3>1. CASE PrestartTime /\ scene = "dash"
      <4>1. Calls = {NoCmd} /\ ~Due(7) /\ app.prestart /\ ~app.prestartOut
        BY <1>0, <3>1, QuietFacts DEF PrestartTime
      <4>2. ~PrestartRetry
        BY <4>1 DEF Due
      <4>3. scan.pending
        BY <1>0, <4>1, <4>2 DEF PrestartRetry
      <4>. QED BY <1>0, <4>1, <4>3
    <3>2. CASE ~PrestartTime
      BY <1>0, <1>1, <3>2 DEF Time, ScanTime, RecTime, GpsTime, PoiTime
    <3>. QED BY <3>1, <3>2
  <2>3. Calls' = Calls /\ Lines' = Lines
    BY <1>0, <2>1, CallsSame, LinesSame
  <2>4. Launch'
    BY <1>0, <2>1, <2>2, <2>3 DEF Launch
  <2>. QED BY <1>0, <2>1, <2>3, <2>4 DEF LaunchWaits, Said
<1>2. CASE OkDash \/ OkGps \/ LeaveDash
  <2>1. /\ rec'.phase = "Off" /\ ~scan'.isStart /\ ~app'.clear
        /\ scene = "dash" /\ ~app'.prestartOut
    <3>1. CASE OkDash
      <4>1. scene = "dash" /\ rec' = RecOff /\ Toggle
        BY <1>0, <3>1 DEF OkDash, OkReboots, OkCancels
      <4>2. rec'.phase = "Off"
        BY <1>0, <4>1 DEF RecOff, RecSet
      <4>3. /\ UNCHANGED scan \/ ~scan'.isStart
            /\ UNCHANGED app \/ (app'.clear \in {app.clear, FALSE} /\ ~app'.prestartOut)
        <5>1. CASE ToggleStop
          BY <1>0, <5>1 DEF ToggleStop, QueueCmd, Queued, AppSet
        <5>2. CASE ToggleStart
          BY <1>0, <5>2 DEF ToggleStart, QueueClearingStop, Queued, AppSet
        <5>3. CASE ToggleNot
          BY <5>3 DEF ToggleNot
        <5>. QED BY <4>1, <5>1, <5>2, <5>3 DEF Toggle
      <4>. QED BY <1>0, <4>1, <4>2, <4>3
    <3>2. CASE OkGps \/ LeaveDash
      BY <1>0, <3>2 DEF OkGps, LeaveDash, RecOff, RecSet
    <3>. QED BY <1>2, <3>1, <3>2
  <2>2. \/ UNCHANGED <<slot, scan>>
        \/ Offer("stopscan") /\ scan'.pending = (Free \/ scan.pending)
        \/ Offer("gpsdata") /\ UNCHANGED scan
        \/ Offer("wardrivepoi") /\ UNCHANGED scan
        \/ Offer("stopscan") /\ UNCHANGED scan
    <3>1. CASE OkDash
      BY <1>0, <3>1
      DEF OkDash, OkReboots, OkCancels, Toggle, ToggleStop, ToggleStart,
          ToggleNot, QueueCmd, QueueClearingStop, Queued, ScanSet
    <3>2. CASE OkGps
      BY <3>2 DEF OkGps, GpsStart, PoiSend
    <3>3. CASE LeaveDash
      BY <3>3 DEF LeaveDash, GpsAbort
    <3>. QED BY <1>2, <3>1, <3>2, <3>3
  <2>3. "wardrive" \notin Calls' /\ (scan'.pending => "stopscan" \in Calls')
    <3>1. CASE UNCHANGED <<slot, scan>>
      BY <1>0, <3>1, CallsSame
    <3>2. ASSUME NEW c \in {"stopscan", "gpsdata", "wardrivepoi"}, Offer(c)
          PROVE  /\ "wardrive" \notin Calls' /\ Calls \ {NoCmd} \subseteq Calls'
                 /\ Free => c \in Calls'
      BY <1>0, <3>2, CallsOffer
    <3>. QED BY <1>0, <2>2, <3>1, <3>2
  <2>4. Launch'
    BY <1>0, <2>1, <2>3 DEF Launch
  <2>5. play.hasty \/ ~LaunchWaits
    <3>. SUFFICES ASSUME ~play.hasty, LaunchWaits PROVE FALSE
      OBVIOUS
    <3>1. Passing
      BY <1>2 DEF OkDash, OkGps, LeaveDash, MayAct
    <3>2. Calls = {NoCmd} /\ Lines = {} /\ ~Due(2)
      BY <2>1, <3>1, QuietFacts
    <3>3. ~ (app.sync /\ app.syncMoved)
      BY <3>2 DEF Due
    <3>. QED BY <1>0, <2>1, <3>2, <3>3 DEF LaunchWaits, Said
  <2>. QED BY <2>4, <2>5
<1>3. CASE EnterDash
  <2>1. /\ UNCHANGED <<scan, rec>> /\ Offer("sigroam") /\ scene' = "dash"
        /\ ~app'.clear /\ ~app'.prestartOut /\ ~app'.prestart /\ ~app'.syncMoved
        /\ app'.sync = Free
    BY <1>0, <1>3 DEF EnterDash, AppSet
  <2>2. Calls' \subseteq Calls \cup {"sigroam"} /\ Calls \ {NoCmd} \subseteq Calls'
        /\ (Free => "sigroam" \in Calls')
    BY <1>0, <2>1, CallsOffer
  <2>3. Launch'
    BY <1>0, <2>1, <2>2 DEF Launch
  <2>4. ~play.hasty => Free
    BY <1>3, QuietFacts DEF EnterDash, MayAct
  <2>. QED BY <2>1, <2>2, <2>3, <2>4 DEF LaunchWaits
<1>. QED BY <1>1, <1>2, <1>3 DEF User

LEMMA LaunchApply ==
  ASSUME AskInv, Launch, Apply, board.st = 1, ~Told'
  PROVE  Launch' /\ (LaunchWaits => LaunchWaits')
<1>. DEFINE l == Head(rx)
<1>0. /\ scan \in ScanSet /\ app \in AppSet /\ rec \in RecSet /\ model \in ModelSet
      /\ UNCHANGED <<scene, gpc, slot, tx, board>> /\ Calls' = Calls
      /\ l \in Lines /\ Lines = Lines' \cup {l} /\ LinesTrue
      /\ model.session = "Idle" /\ rec.phase = "Off" /\ ~scan.isStart
      /\ "wardrive" \notin Calls /\ ~app.clear /\ board.up
      /\ scan.pending => "stopscan" \in Calls
      /\ scene = "dash" => ~app.prestartOut
  BY AskTypes, ApplyEffect DEF outside, Launch
<1>1. l.k \notin {"wifiStop", "gpsStop", "started", "row"}
  <2>1. l.k \notin {"wifiStop", "gpsStop"}
    BY <1>0 DEF LinesTrue
  <2>. HIDE DEF l
  <2>2. model'.session # "Running"
    BY DEF Told
  <2>3. ASSUME l.k \in {"started", "row"} PROVE model'.session = "Running"
    <3>1. ApplySession(l)
      BY <2>3 DEF Apply, ApplyStatus, SessSeen, ApplyOther, l
    <3>. QED BY <1>0, <2>3, <3>1
         DEF ApplySession, SessionStarts, CountRow, RowSeen, Started, ModelSet
  <2>. QED BY <2>1, <2>2, <2>3
<1>. HIDE DEF l
<1>2. /\ UNCHANGED model \/ model'.session = "Idle"
      /\ scan'.pending = scan.pending /\ scan'.isStart = scan.isStart
      /\ rec'.phase = rec.phase /\ app'.prestart = app.prestart
      /\ app'.prestartOut = app.prestartOut /\ app'.clear = app.clear
      /\ app'.sync = app.sync
      /\ IF l.k = "diag" THEN app'.syncMoved = app.sync /\ model'.diagSt = 1
                         ELSE app'.syncMoved = app.syncMoved /\ model'.diagSt = model.diagSt
  <2>1. CASE ApplySession(l)
    BY <1>1, <2>1 DEF ApplySession
  <2>2. CASE ApplyStatus(l)
    <3>1. l.k = "diag" => l.on
      BY <1>0 DEF LinesTrue
    <3>. QED BY <1>0, <2>2, <3>1 DEF ApplyStatus, SessSeen, AppSet, RecSet, ModelSet
  <2>3. CASE ApplyOther(l)
    BY <1>0, <2>3 DEF ApplyOther, ScanSet, RecSet, ModelSet
  <2>. QED BY <2>1, <2>2, <2>3 DEF Apply, l
<1>3. Launch'
  BY <1>0, <1>2 DEF Launch
<1>4. LaunchWaits => LaunchWaits'
  BY <1>0, <1>2, <1>3 DEF LaunchWaits, Said
<1>. QED BY <1>3, <1>4

LEMMA LaunchOutside ==
  ASSUME AskInv, Launch, Take \/ BoardStep \/ UNCHANGED vars, board.st = 1,
         board'.st = 1, ~Told'
  PROVE  Launch' /\ (LaunchWaits => LaunchWaits')
<1>0. /\ LiteTypeOK /\ board \in BoardSet /\ NoCmd \notin {"stopscan", "wardrive", "sigroam"}
      /\ UNCHANGED <<gui, model>> /\ board.up /\ "wardrive" \notin Calls
      /\ scan.pending => "stopscan" \in Calls
  BY AskTypes DEF Take, BoardStep, BoardRead, Boots, Announce, Row, Block, vars, Launch, NoCmd
<1>1. CASE Take \/ Boots \/ Announce \/ Row \/ Block \/ UNCHANGED vars
  <2>1. Calls' \ {NoCmd} = Calls \ {NoCmd}
    BY <1>0, <1>1, CallsTake, SpeakEffect, CallsSame DEF vars, link
  <2>2. Lines \subseteq Lines'
    <3>1. Take \/ UNCHANGED vars => Lines' = Lines
      BY LinesSame DEF Take, vars, link
    <3>. QED BY <1>0, <1>1, <3>1, SpeakEffect
  <2>3. board'.up = board.up
    BY <1>0, <1>1, SpeakEffect DEF Take, vars, outside, BoardSet
  <2>4. Launch'
    BY <1>0, <2>1, <2>3 DEF Launch, gui
  <2>. QED BY <1>0, <2>1, <2>2, <2>4 DEF LaunchWaits, Said, gui
<1>2. CASE BoardRead
  <2>1. UNCHANGED board
    BY <1>0, <1>2, ReadBoard DEF Told
  <2>2. Head(tx) # "stopscan"
    <3>. SUFFICES ASSUME Head(tx) = "stopscan" PROVE board'.st = 0
      OBVIOUS
    <3>1. board' = [board EXCEPT !.st = 0, !.silent = FALSE, !.gps = FALSE]
      BY <1>0, <1>2, ReadEffect
    <3>. QED BY <1>0, <3>1 DEF BoardSet
  <2>3. Lines = {} /\ Calls = Calls' \cup {Head(tx)}
    BY <1>0, <1>2, ReadEffect
  <2>4. Head(tx) = "sigroam" => Said("diag")'
    BY <1>0, <1>2, ReadEffect, LineFields DEF Said
  <2>5. Launch'
    BY <1>0, <2>1, <2>2, <2>3 DEF Launch, gui
  <2>. QED BY <1>0, <2>3, <2>4, <2>5 DEF LaunchWaits, Said, gui
<1>. QED BY <1>1, <1>2 DEF BoardStep

LEMMA AgreeKept == AgreeInv /\ [Next]_vars => AgreeInv'
<1>. SUFFICES ASSUME AgreeInv, [Next]_vars, ~lost', board'.st = 1, ~Told'
              PROVE  Launch' /\ (~play'.hasty => LaunchWaits')
  BY AskKept DEF AgreeInv, AgreeUp, AgreeWaits
<1>0. AskInv /\ play \in Play /\ play'.hasty = play.hasty
  BY PlayKept, AskTypes DEF AgreeInv
<1>1. ~lost /\ board.st = 1 /\ ~Told
  BY <1>0, ToldStays
<1>2. Launch /\ (~play.hasty => LaunchWaits)
  BY <1>1 DEF AgreeInv, AgreeUp, AgreeWaits
<1>3. CASE Tick \/ TickQual
  <2>1. Launch' /\ (LaunchWaits /\ ~ (TickSync /\ SyncAct # "Adopt") => LaunchWaits')
    <3>1. NoCmd # "sigroam" /\ (UNCHANGED rx => Lines' = Lines)
      BY LinesSame DEF NoCmd
    <3>. QED BY <1>0, <1>1, <1>2, <1>3, <3>1, LaunchTick DEF LaunchWaits, Said
  <2>2. LaunchWaits /\ TickSync => SyncAct = "Adopt"
    <3>. SUFFICES ASSUME LaunchWaits, TickSync PROVE SyncAct = "Adopt"
      OBVIOUS
    <3>1. scene = "dash" /\ app.sync /\ app.syncMoved
      BY DEF TickSync, At, Due
    <3>. QED BY <3>1 DEF LaunchWaits, Launch, SyncAct, PeerSync
  <2>. QED BY <1>0, <1>2, <2>1, <2>2
<1>4. CASE User \/ Time
  BY <1>0, <1>2, <1>4, LaunchUserTime
<1>5. CASE Apply
  BY <1>0, <1>1, <1>2, <1>5, LaunchApply
<1>6. CASE Take \/ BoardStep \/ UNCHANGED vars
  BY <1>0, <1>1, <1>2, <1>6, LaunchOutside
<1>7. CASE Lose
  BY <1>7 DEF Lose
<1>. QED BY <1>3, <1>4, <1>5, <1>6, <1>7 DEF Next

-----------------------------------------------------------------------------
(* Whether the board scans while it is asked, and once the start is given  *)
(* up.                                                                     *)

\* Where the recovery's record changes.
LEMMA RecSame ==
  ASSUME [Next]_vars, ~TickRecover, ~RecTime, ~OkDash, ~LeaveDash, ~Apply
  PROVE  UNCHANGED rec
<1>1. CASE User \/ Tick \/ TickQual
  BY <1>1 DEF User, OkGps, EnterDash, Tick, TickSync, TickSeed, TickGps, TickScan,
              TickPostStop, TickPrestart, TickPoi, TickQual
<1>2. CASE Time
  BY <1>2 DEF Time, ScanTime, PrestartTime, GpsTime, PoiTime
<1>3. CASE Take \/ BoardStep \/ Lose \/ UNCHANGED vars
  BY <1>3 DEF Take, BoardStep, BoardRead, Boots, Announce, Row, Block, Lose, vars, gui
<1>. QED BY <1>1, <1>2, <1>3 DEF Next

\* The last status changes with the answer to the status command only.
LEMMA StatusSame ==
  ASSUME AskInv, [Next]_vars, ~Apply
  PROVE  model'.diagSt = model.diagSt
<1>0. model \in ModelSet
  BY AskTypes
<1>1. CASE User \/ Tick \/ TickQual
  BY <1>0, <1>1
  DEF User, OkDash, OkGps, EnterDash, LeaveDash, Tick, TickRecover, TickSync, TickSeed,
      TickGps, TickScan, TickPostStop, TickPrestart, TickPoi, TickQual, SessionStarts, ModelSet
<1>2. CASE Time \/ Take \/ BoardStep \/ Lose \/ UNCHANGED vars
  BY <1>2 DEF Time, ScanTime, PrestartTime, RecTime, GpsTime, PoiTime, Take, BoardStep,
              BoardRead, Boots, Announce, Row, Block, Lose, vars
<1>. QED BY <1>1, <1>2 DEF Next

\* An answered question: it was answered before, or is by this line.
AnsweredNow == Apply /\ Head(rx).k = "diag" /\ rec.phase = "Check"

\* A question, or a missed start, begins with a window that ends.
LEMMA AskSteps ==
  ASSUME AskInv, [Next]_vars
  PROVE  /\ Asking' => Asking \/ RecTime
         /\ (Asking \/ Missed)' => Asking \/ Missed \/ RecTime
         /\ (rec.phase = "Check" /\ Fresh)' =>
              \/ rec.phase = "Check" /\ Fresh /\ model'.diagSt = model.diagSt
              \/ AnsweredNow
<1>0. rec \in RecSet /\ (~Apply => model'.diagSt = model.diagSt)
  BY AskTypes, StatusSame
<1>1. CASE TickRecover
  <2>. UNCHANGED model
    BY <1>1 DEF TickRecover
  <2>1. CASE RecRuns \/ RecAdopts \/ RecUp
    <3>1. rec'.phase = "Off"
      BY <1>0, <2>1 DEF RecRuns, RecAdopts, RecUp, RecOff, RecSet
    <3>. QED BY <3>1 DEF Asking, Missed
  <2>2. CASE RecWatches
    <3>1. rec'.phase = "Watch" /\ ~rec'.due
      BY <1>0, <2>2 DEF RecWatches, RecSet
    <3>. QED BY <3>1 DEF Asking, Missed
  <2>3. CASE RecChecks \/ RecAsksAgain
    <3>1. rec'.phase = "Check" /\ ~rec'.fresh /\ Asking
      BY <1>0, <2>3 DEF RecChecks, RecAsksAgain, RecSet, Asking
    <3>. QED BY <3>1 DEF Asking, Missed, Fresh
  <2>4. CASE RecRetries
    <3>1. rec'.phase = "Stop"
      BY <1>0, <2>4 DEF RecRetries, RecSet
    <3>. QED BY <3>1 DEF Asking, Missed
  <2>5. CASE RecNoDiag
    <3>1. rec'.phase = "Fail" /\ Asking
      BY <1>0, <2>5 DEF RecNoDiag, RecSet, Asking
    <3>. QED BY <3>1 DEF Asking, Missed
  <2>6. CASE RecRetried
    <3>1. rec'.phase = "Retry" /\ ~rec'.due
      BY <1>0, <2>6 DEF RecRetried, RecSet
    <3>. QED BY <3>1 DEF Asking, Missed
  <2>7. CASE RecMisses
    <3>1. rec'.phase = "Fail" /\ Missed
      BY <1>0, <2>7 DEF RecMisses, RecSet, Missed
    <3>. QED BY <3>1 DEF Asking
  <2>8. CASE RecRebootsAgain
    <3>1. rec'.phase = "Reboot" /\ Missed
      BY <1>0, <2>8 DEF RecRebootsAgain, RecSet, Missed
    <3>. QED BY <3>1 DEF Asking
  <2>. QED BY <1>1, <2>1, <2>2, <2>3, <2>4, <2>5, <2>6, <2>7, <2>8 DEF TickRecover, Recover
<1>2. CASE OkDash \/ LeaveDash
  <2>1. \/ rec'.phase = "Off"
        \/ rec.phase = "Fail" /\ rec'.phase = "Reboot"
    BY <1>0, <1>2 DEF OkDash, OkReboots, OkCancels, LeaveDash, RecOff, RecSet
  <2>. QED BY <2>1 DEF Asking, Missed
<1>3. CASE RecTime
  <2>1. /\ rec'.phase = rec.phase /\ rec'.fresh = rec.fresh /\ rec'.checkSent = rec.checkSent
        /\ UNCHANGED model
    BY <1>0, <1>3 DEF RecTime, RecSet
  <2>. QED BY <1>3, <2>1 DEF Fresh
<1>4. CASE Apply
  <2>. DEFINE l == Head(rx)
  <2>1. rec'.phase = rec.phase /\ rec'.due = rec.due /\ rec'.checkSent = rec.checkSent
    BY <1>0, <1>4 DEF Apply, ApplySession, ApplyStatus, SessSeen, ApplyOther, RecSet
  <2>2. l.k # "diag" => rec'.fresh = rec.fresh
    BY <1>0, <1>4 DEF Apply, ApplySession, ApplyStatus, SessSeen, ApplyOther, RecSet
  <2>3. l.k # "diag" => model'.diagSt = model.diagSt
    <3>0. model \in ModelSet
      BY AskTypes
    <3>1. ASSUME NEW s PROVE SessionStops(s) => model'.diagSt = model.diagSt
      BY <3>0 DEF SessionStops, ModelSet
    <3>. QED BY <1>4, <3>0, <3>1
         DEF Apply, ApplySession, ApplyStatus, SessSeen, ApplyOther, SessionStarts, CountRow, ModelSet
  <2>. QED BY <1>4, <2>1, <2>2, <2>3 DEF Asking, Missed, Fresh, AnsweredNow
<1>5. CASE ~TickRecover /\ ~RecTime /\ ~OkDash /\ ~LeaveDash /\ ~Apply
  BY <1>0, <1>5, RecSame DEF Asking, Missed, Fresh
<1>. QED BY <1>1, <1>2, <1>3, <1>4, <1>5

\* Without a start or a stop on its way a board stays as it is.
LEMMA StaysIdle ==
  ASSUME AskInv, [Next]_vars
  PROVE  /\ board.st = 0 /\ "wardrive" \notin Calls => board'.st = 0
         /\ board.st = 1 /\ Calls \cap {"stopscan", "gpsdata", "reboot"} = {} => board'.st = 1
<1>0. LiteTypeOK /\ board \in BoardSet
  BY AskTypes
<1>1. CASE BoardRead
  <2>1. Head(tx) \in Calls
    BY <1>0, <1>1, ReadEffect
  <2>. QED BY <1>0, <1>1, <2>1, ReadBoard
<1>2. CASE Boots \/ Announce \/ Row \/ Block
  BY <1>0, <1>2, SpeakEffect DEF BoardSet
<1>3. CASE ~BoardStep
  <2>1. UNCHANGED board
    BY <1>3, BoardFrame DEF Next, Take, Apply, Lose, vars, outside
  <2>. QED BY <2>1
<1>. QED BY <1>1, <1>2, <1>3 DEF BoardStep

\* The windows of a start end when nothing is in flight; the board then has
\* said that it scans, or it does not, unless it may be late with that or what
\* it said was lost.
InTime ==
    ~lost /\ ~play.late =>
      /\ Asking \/ Missed => board.st = 0
      /\ rec.phase = "Check" /\ Fresh => model.diagSt = 0

TimeInv == AgreeInv /\ InTime

LEMMA TimeInit == Init => TimeInv
<1>. SUFFICES ASSUME Init PROVE TimeInv
  OBVIOUS
<1>1. rec.phase = "Off"
  BY DEF Init
<1>. QED BY <1>1, AgreeInit DEF TimeInv, InTime, Asking, Missed

LEMMA TimeKept == TimeInv /\ [Next]_vars => TimeInv'
<1>. SUFFICES ASSUME TimeInv, [Next]_vars, ~lost', ~play'.late
              PROVE  /\ (Asking \/ Missed)' => board'.st = 0
                     /\ (rec.phase = "Check" /\ Fresh)' => model'.diagSt = 0
  BY AgreeKept DEF TimeInv, InTime
<1>0. /\ AskInv /\ AgreeUp /\ AskTrue /\ StartFlags /\ LinesTrue /\ board \in BoardSet
      /\ rec \in RecSet /\ model \in ModelSet /\ scene \in {"menu", "dash"} /\ LiteTypeOK
      /\ ~lost /\ ~play.late
  BY AskTypes, PlayKept DEF TimeInv, AgreeInv
<1>1. /\ Asking \/ Missed => board.st = 0
      /\ rec.phase = "Check" /\ Fresh => model.diagSt = 0
  BY <1>0 DEF TimeInv, InTime
<1>2. RecTime => board.st = 0 \/ Asking
  <2>. SUFFICES ASSUME RecTime PROVE ~Told \/ Asking \/ Missed
    BY <1>0, <1>1 DEF RecTime, AgreeUp, Launch, BoardSet
  <2>1. Passing /\ rec.phase \in {"Watch", "Check", "Retry", "Reboot"}
    BY DEF RecTime
  <2>2. scene = "dash"
    BY <1>0, <2>1 DEF StartFlags
  <2>3. ~board.silent /\ Lines = {} /\ ~RecDue
    BY <1>0, <2>1, <2>2, QuietFacts
  <2>4. rec.phase \in {"Watch", "Retry"} => ~Scanning
    <3>1. CASE rec.phase = "Watch"
      BY <2>3, <3>1 DEF RecDue
    <3>2. CASE rec.phase = "Retry"
      BY <2>3, <3>2 DEF RecDue
    <3>. QED BY <3>1, <3>2
  <2>. QED BY <2>1, <2>3, <2>4 DEF Told, Said, Scanning, Asking, Missed
<1>3. (Asking \/ Missed)' => board'.st = 0
  <2>1. board.st = 0 /\ RecTime => board'.st = 0
    BY DEF RecTime, outside
  <2>2. Asking \/ Missed => board'.st = 0
    BY <1>0, <1>1, StaysIdle DEF AskTrue
  <2>. QED BY <1>0, <1>2, <2>1, <2>2, AskSteps
<1>4. AnsweredNow => model'.diagSt = 0
  <2>. SUFFICES ASSUME AnsweredNow PROVE model'.diagSt = 0
    OBVIOUS
  <2>. DEFINE l == Head(rx)
  <2>1. Apply /\ l.k = "diag" /\ l \in Lines /\ board.st = 0
    BY <1>0, <1>1, ApplyEffect DEF AnsweredNow, Asking
  <2>2. ~l.on
    BY <1>0, <2>1 DEF LinesTrue
  <2>3. ApplyStatus(l)
    BY <2>1 DEF Apply, ApplySession, ApplyOther
  <2>. QED BY <1>0, <2>1, <2>2, <2>3 DEF ApplyStatus, SessSeen, ModelSet
<1>. QED BY <1>0, <1>1, <1>3, <1>4, AskSteps

-----------------------------------------------------------------------------
(* A patient user leaves the board to the recovery.                        *)

\* Who sends what.
LEMMA CallsGrow ==
  ASSUME AskInv, [Next]_vars
  PROVE  \/ Calls' \subseteq Calls \cup {NoCmd, "sigroam"}
         \/ TickGps /\ Sampling /\ Calls' \subseteq Calls \cup {"stopscan"}
         \/ TickPrestart /\ app.prestart /\ Calls' \subseteq Calls \cup {"stopscan", "wardrive"}
         \/ TickRecover /\ RecRetries /\ Calls' \subseteq Calls \cup {"stopscan"}
         \/ TickRecover /\ RecRebootsAgain /\ Calls' \subseteq Calls \cup {"reboot"}
         \/ OkDash /\ Calls' \subseteq Calls \cup {"stopscan", "reboot"}
         \/ OkGps /\ Calls' \subseteq Calls \cup {"gpsdata", "wardrivepoi"}
         \/ LeaveDash /\ Calls' \subseteq Calls \cup {"stopscan"}
<1>0. LiteTypeOK
  BY AskTypes
<1>1. CASE TickRecover
  <2>1. \/ UNCHANGED slot \/ Offer("sigroam")
        \/ RecRetries /\ Offer("stopscan")
        \/ RecRebootsAgain /\ Offer("reboot")
    BY <1>1 DEF TickRecover, Recover, RecRuns, RecWatches, RecChecks, RecAdopts, RecRetries,
                RecNoDiag, RecRetried, RecMisses, RecUp, RecAsksAgain, RecRebootsAgain, QueueCmd
  <2>2. UNCHANGED tx
    BY <1>1 DEF TickRecover
  <2>. QED BY <1>1, <2>1, <2>2, CallsSame, CallsOffer
<1>2. CASE TickGps
  <2>1. UNCHANGED slot \/ (Sampling /\ Offer("stopscan"))
    BY <1>2 DEF TickGps, GpsClose, GpsTurnsSlow, GpsConfirmed, GpsRefuted, BlockSeen,
                GpsGivesUp, Sampling
  <2>2. UNCHANGED tx
    BY <1>2 DEF TickGps
  <2>. QED BY <1>2, <2>1, <2>2, CallsSame, CallsOffer
<1>3. CASE TickPrestart
  <2>1. app.prestart /\ UNCHANGED tx /\ (Offer("stopscan") \/ Offer("wardrive"))
    BY <1>3 DEF TickPrestart, PrestartRetry, PrestartEnds, QueueClearingStop
  <2>. QED BY <1>3, <2>1, CallsOffer
<1>4. CASE TickSync \/ TickSeed \/ TickScan \/ TickPostStop \/ TickPoi \/ TickQual \/ EnterDash
  <2>1. UNCHANGED tx /\ (UNCHANGED slot \/ Offer("sigroam"))
    BY <1>4 DEF TickSync, TickSeed, TickScan, TickPostStop, TickPoi, TickQual, EnterDash, link
  <2>. QED BY <2>1, CallsSame, CallsOffer
<1>5. CASE OkDash
  <2>1. UNCHANGED tx /\ (UNCHANGED slot \/ Offer("stopscan") \/ Offer("reboot"))
    BY <1>5 DEF OkDash, OkReboots, OkCancels, Toggle, ToggleStop, ToggleStart, ToggleNot,
                QueueCmd, QueueClearingStop
  <2>. QED BY <1>5, <2>1, CallsSame, CallsOffer
<1>6. CASE OkGps
  <2>1. UNCHANGED tx /\ (Offer("gpsdata") \/ Offer("wardrivepoi"))
    BY <1>6 DEF OkGps, GpsStart, PoiSend
  <2>. QED BY <1>6, <2>1, CallsOffer
<1>7. CASE LeaveDash
  <2>1. UNCHANGED tx /\ (UNCHANGED slot \/ Offer("stopscan"))
    BY <1>7 DEF LeaveDash, GpsAbort
  <2>. QED BY <1>7, <2>1, CallsSame, CallsOffer
<1>8. CASE Time \/ Apply \/ UNCHANGED vars
  <2>1. UNCHANGED <<slot, tx>>
    BY <1>8, BoardFrame DEF Apply, vars, link
  <2>. QED BY <2>1, CallsSame
<1>9. CASE Take \/ BoardStep \/ Lose
  BY <1>0, <1>9, CallsTake, ReadEffect, SpeakEffect, LoseEffect DEF BoardStep
<1>. QED BY <1>1, <1>2, <1>3, <1>4, <1>5, <1>6, <1>7, <1>8, <1>9 DEF Next, Tick, User

\* A sample begins with the user; its window does not end a sample.
LEMMA SampleBegins ==
  ASSUME AskInv, [Next]_vars, Sampling'
  PROVE  Sampling \/ (OkGps /\ GpsStart)
<1>0. gps \in GpsSet
  BY AskTypes
<1>1. CASE TickGps
  BY <1>1 DEF TickGps, GpsClose, GpsTurnsSlow, GpsConfirmed, GpsRefuted, BlockSeen,
              GpsGivesUp, GpsIdle, Sampling
<1>2. CASE OkGps
  BY <1>2 DEF OkGps, PoiSend, Sampling
<1>3. CASE LeaveDash
  BY <1>3 DEF LeaveDash, GpsAbort, GpsIdle, Sampling
<1>4. CASE TickSync \/ Apply
  BY <1>0, <1>4 DEF TickSync, SessionStarts, Apply, ApplySession, ApplyStatus, SessSeen, ApplyOther,
                    GpsSet, Sampling
<1>5. CASE GpsTime
  BY <1>0, <1>5 DEF GpsTime, GpsSet, Sampling
<1>6. CASE \/ TickRecover \/ TickSeed \/ TickScan \/ TickPostStop \/ TickPrestart \/ TickPoi
           \/ TickQual \/ OkDash \/ EnterDash \/ ScanTime \/ PrestartTime \/ RecTime
           \/ PoiTime \/ Take \/ BoardStep \/ Lose \/ UNCHANGED vars
  <2>1. UNCHANGED gps
    BY <1>6 DEF TickRecover, TickSeed, TickScan, TickPostStop, TickPrestart, TickPoi, TickQual,
                OkDash, EnterDash, ScanTime, PrestartTime, RecTime, PoiTime, Take, BoardStep,
                BoardRead, Boots, Announce, Row, Block, Lose, vars, gui
  <2>. QED BY <2>1 DEF Sampling
<1>. QED BY <1>1, <1>2, <1>3, <1>4, <1>5, <1>6 DEF Next, Tick, User, Time

\* A start is acknowledged by its echo; a prestart begins with OK or a retry.
LEMMA StartSteps ==
  ASSUME AskInv, [Next]_vars
  PROVE  /\ scan'.ack => scan.ack \/ (Apply /\ Head(rx).k = "startEcho")
         /\ app'.prestart => app.prestart \/ OkDash \/ (TickRecover /\ RecRetries)
<1>0. scan \in ScanSet /\ app \in AppSet
  BY AskTypes
<1>1. CASE TickRecover
  <2>1. CASE RecRetries
    BY <1>1, <2>1 DEF RecRetries, QueueCmd, Queued
  <2>2. CASE RecAdopts \/ RecUp
    BY <1>0, <2>2 DEF RecAdopts, RecUp, ScanSet, AppSet
  <2>3. CASE ~RecRetries /\ ~RecAdopts /\ ~RecUp
    BY <1>1, <2>3 DEF TickRecover, Recover, RecRuns, RecWatches, RecChecks, RecNoDiag,
                      RecRetried, RecMisses, RecAsksAgain, RecRebootsAgain
  <2>. QED BY <2>1, <2>2, <2>3
<1>2. CASE TickSync \/ TickSeed \/ TickGps \/ TickScan \/ TickPostStop \/ TickPoi \/ TickQual
  <2>1. CASE TickSync
    BY <1>0, <2>1 DEF TickSync, SessionStarts, SessionTo, ScanSet, AppSet
  <2>2. CASE TickScan
    BY <1>0, <2>2 DEF TickScan, ScanEnds, ScanSet, AppSet
  <2>3. CASE TickSeed \/ TickGps \/ TickPostStop \/ TickPoi \/ TickQual
    BY <1>0, <2>3 DEF TickSeed, TickGps, TickPostStop, TickPoi, TickQual, AppSet
  <2>. QED BY <1>2, <2>1, <2>2, <2>3
<1>3. CASE TickPrestart
  <2>1. app.prestart
    BY <1>3 DEF TickPrestart, PrestartRetry, PrestartEnds
  <2>2. QueueClearingStop \/ scan' = Queued(scan.pending /\ scan.isStart, TRUE)
    BY <1>3 DEF TickPrestart
  <2>3. ~scan'.ack
    BY <2>2 DEF QueueClearingStop, Queued
  <2>. QED BY <2>1, <2>3
<1>4. CASE OkDash
  <2>1. \/ UNCHANGED scan
        \/ QueueCmd(FALSE) \/ QueueClearingStop
    BY <1>4 DEF OkDash, OkReboots, OkCancels, Toggle, ToggleStop, ToggleStart, ToggleNot
  <2>. QED BY <1>4, <2>1 DEF QueueCmd, QueueClearingStop, Queued
<1>5. CASE OkGps \/ EnterDash \/ LeaveDash
  BY <1>0, <1>5 DEF OkGps, EnterDash, LeaveDash, AppSet
<1>6. CASE Time
  BY <1>0, <1>6 DEF Time, ScanTime, PrestartTime, RecTime, GpsTime, PoiTime, ScanSet, AppSet
<1>7. CASE Apply
  <2>1. app'.prestart = app.prestart
    BY <1>0, <1>7 DEF Apply, ApplySession, ApplyStatus, SessSeen, ApplyOther, AppSet
  <2>2. CASE ApplySession(Head(rx))
    <3>1. \E s : SessionTo(s)
      BY <2>2 DEF ApplySession, SessionStarts, SessionStops
    <3>. QED BY <1>0, <2>1, <3>1 DEF SessionTo, ScanSet
  <2>3. CASE ApplyStatus(Head(rx)) \/ ApplyOther(Head(rx))
    BY <1>0, <1>7, <2>1, <2>3 DEF ApplyStatus, SessSeen, ApplyOther
  <2>. QED BY <1>7, <2>2, <2>3 DEF Apply
<1>8. CASE Take \/ BoardStep \/ Lose \/ UNCHANGED vars
  BY <1>8 DEF Take, BoardStep, BoardRead, Boots, Announce, Row, Block, Lose, vars, gui
<1>. QED BY <1>1, <1>2, <1>3, <1>4, <1>5, <1>6, <1>7, <1>8 DEF Next, Tick, User

\* A sample is taken, or gpsdata is still on its way.
OnGps == Sampling \/ "gpsdata" \in Calls

\* No start is on its way, nor will one be sent before the user acts.
Restful ==
    /\ rec.phase \in {"Off", "Fail"} /\ ~app.prestart
    /\ ~Said("startEcho") /\ "wardrive" \notin Calls
    /\ rec.phase = "Off" => ~scan.ack

\* A board that is asked gets no stop, so what it says of a scan stays true;
\* and no start is under way while a sample is taken.
PatientAsk ==
    ~play.hasty =>
      /\ Asking => Calls \cap {"stopscan", "gpsdata", "reboot"} = {}
      /\ rec.phase = "Check" /\ Fresh /\ model.diagSt = 1 => board.st = 1
      /\ OnGps => Restful

PatientInv == AskInv /\ PatientAsk

LEMMA PatientInit == Init => PatientInv
<1>. SUFFICES ASSUME Init PROVE PatientInv
  OBVIOUS
<1>1. rec.phase = "Off" /\ gps.phase = "Idle"
  BY DEF Init
<1>2. "gpsdata" \notin Calls
  BY NoCalls DEF Init, NoCmd
<1>. QED BY <1>1, <1>2, AskInit DEF PatientInv, PatientAsk, Asking, Sampling, OnGps

LEMMA PatientKept == PatientInv /\ [Next]_vars => PatientInv'
<1>. SUFFICES ASSUME PatientInv, [Next]_vars, ~play'.hasty
              PROVE  /\ Asking' => Calls' \cap {"stopscan", "gpsdata", "reboot"} = {}
                     /\ (rec.phase = "Check" /\ Fresh /\ model.diagSt = 1)' => board'.st = 1
                     /\ OnGps' => Restful'
  BY AskKept DEF PatientInv, PatientAsk
<1>0. /\ AskInv /\ StartFlags /\ AskTrue /\ LinesTrue /\ LiteTypeOK
      /\ rec \in RecSet /\ model \in ModelSet /\ board \in BoardSet
      /\ ~play.hasty /\ NoCmd \notin Command
  BY AskTypes, PlayKept DEF PatientInv, NoCmd, Command
<1>1. /\ Asking => Calls \cap {"stopscan", "gpsdata", "reboot"} = {}
      /\ rec.phase = "Check" /\ Fresh /\ model.diagSt = 1 => board.st = 1
      /\ OnGps => Restful
  BY <1>0 DEF PatientInv, PatientAsk
\* The user waits for samples and recoveries to end.
<1>2. OkDash \/ OkGps \/ LeaveDash =>
        /\ Passing /\ ~OnGps /\ rec.phase \in {"Off", "Fail"} /\ ~app.prestart /\ ~Asking
  BY <1>0, QuietFacts DEF OkDash, OkGps, LeaveDash, MayAct, Asking, OnGps, NoCmd
<1>3. Asking' => Calls' \cap {"stopscan", "gpsdata", "reboot"} = {}
  <2>1. RecTime => Calls' = {NoCmd}
    <3>. SUFFICES ASSUME RecTime PROVE Calls' = {NoCmd}
      OBVIOUS
    <3>1. Calls = {NoCmd} /\ UNCHANGED <<slot, tx>>
      BY QuietFacts DEF RecTime, link
    <3>. QED BY <3>1, CallsSame
  <2>2. ASSUME Asking, Asking' PROVE Calls' \cap {"stopscan", "gpsdata", "reboot"} = {}
    <3>1. ~Sampling /\ ~app.prestart
      BY <1>0, <1>1, <2>2 DEF Asking, StartFlags, OnGps, Restful
    <3>2. ~ (TickRecover /\ (RecRetries \/ RecRebootsAgain))
      BY <1>0, <2>2 DEF RecRetries, RecRebootsAgain, Asking, RecSet
    <3>3. ~OkDash /\ ~OkGps /\ ~LeaveDash
      BY <1>2, <2>2
    <3>4. Calls' \subseteq Calls \cup {NoCmd, "sigroam"}
      BY <1>0, <3>1, <3>2, <3>3, CallsGrow
    <3>. QED BY <1>0, <1>1, <2>2, <3>4 DEF Command
  <2>. QED BY <1>0, <2>1, <2>2, AskSteps DEF NoCmd
<1>4. (rec.phase = "Check" /\ Fresh /\ model.diagSt = 1)' => board'.st = 1
  <2>1. rec.phase = "Check" /\ Fresh /\ model.diagSt = 1 => board'.st = 1
    BY <1>0, <1>1, StaysIdle DEF Asking
  <2>2. AnsweredNow /\ model'.diagSt = 1 => board'.st = 1
    <3>. SUFFICES ASSUME AnsweredNow, model'.diagSt = 1 PROVE board'.st = 1
      OBVIOUS
    <3>. DEFINE l == Head(rx)
    <3>1. Apply /\ l.k = "diag" /\ l \in Lines /\ UNCHANGED board
      BY <1>0, ApplyEffect DEF AnsweredNow, outside
    <3>2. ApplyStatus(l)
      BY <3>1 DEF Apply, ApplySession, ApplyOther
    <3>3. model'.diagSt = IF l.on THEN 1 ELSE 0
      BY <1>0, <3>1, <3>2 DEF ApplyStatus, SessSeen, ModelSet
    <3>. QED BY <1>0, <3>1, <3>3 DEF LinesTrue
  <2>. QED BY <1>0, <2>1, <2>2, AskSteps
<1>5. ASSUME OnGps' PROVE Restful'
  <2>1. CASE OkGps /\ GpsStart
    <3>1. /\ Passing /\ rec.phase \in {"Off", "Fail"} /\ ~app.prestart
          /\ UNCHANGED <<rec, app, scan, rx, tx>> /\ scene = "dash"
          /\ Offer("gpsdata") /\ model.session # "Running"
      BY <1>2, <2>1 DEF OkGps, GpsStart, GpsGate
    <3>2. Calls = {NoCmd} /\ Lines = {} /\ ~RecDue
      BY <3>1, QuietFacts
    <3>3. rec.phase = "Off" => ~scan.ack
      BY <1>0, <3>1, <3>2 DEF RecDue, Accepted, Scanning, StartFlags
    <3>4. Calls' \subseteq Calls \cup {"gpsdata"} /\ Lines' = Lines
      BY <3>1, CallsOffer, LinesSame
    <3>. QED BY <3>1, <3>2, <3>3, <3>4 DEF Restful, Said, NoCmd
  <2>2. CASE OnGps
    <3>1. ~OkDash /\ ~OkGps /\ ~LeaveDash
      BY <1>2, <2>2
    <3>2. /\ rec.phase \in {"Off", "Fail"} /\ ~app.prestart
          /\ ~Said("startEcho") /\ "wardrive" \notin Calls
          /\ rec.phase = "Off" => ~scan.ack
      BY <1>1, <2>2 DEF Restful
    <3>3. ~TickRecover
      BY <1>0, <3>2
      DEF TickRecover, Recover, RecRuns, RecWatches, RecChecks, RecAdopts, RecRetries,
          RecNoDiag, RecRetried, RecMisses, RecUp, RecAsksAgain, RecRebootsAgain, Accepted
    <3>4. rec'.phase = rec.phase
      <4>1. CASE Apply
        BY <1>0, <4>1 DEF Apply, ApplySession, ApplyStatus, SessSeen, ApplyOther, RecSet
      <4>2. CASE RecTime
        BY <3>2, <4>2 DEF RecTime
      <4>. QED BY <3>1, <3>3, <4>1, <4>2, RecSame
    <3>5. ~app'.prestart /\ (rec'.phase = "Off" => ~scan'.ack)
      <4>1. Apply => Head(rx).k # "startEcho"
        BY <1>0, <3>2, ApplyEffect DEF Said
      <4>. QED BY <1>0, <3>1, <3>2, <3>3, <3>4, <4>1, StartSteps
    <3>6. "wardrive" \notin Calls'
      BY <1>0, <3>1, <3>2, <3>3, CallsGrow DEF Command
    <3>7. ~Said("startEcho")'
      <4>1. CASE BoardRead
        <5>1. Head(tx) # "wardrive"
          BY <1>0, <3>2, <4>1, ReadEffect
        <5>. QED BY <1>0, <4>1, <5>1, ReadEffect, LineFields DEF Said
      <4>2. CASE Boots \/ Announce \/ Row \/ Block
        BY <1>0, <3>2, <4>2, SpeakEffect, LineFields DEF Said
      <4>3. CASE ~BoardStep
        <5>1. Lines' \subseteq Lines
          <6>1. CASE Apply \/ Lose
            BY <1>0, <6>1, ApplyEffect, LoseEffect
          <6>2. CASE ~Apply /\ ~Lose
            <7>1. UNCHANGED rx
              BY <4>3, <6>2, BoardFrame DEF Next, Take, vars, link
            <7>. QED BY <7>1, LinesSame
          <6>. QED BY <6>1, <6>2
        <5>. QED BY <3>2, <5>1 DEF Said
      <4>. QED BY <4>1, <4>2, <4>3 DEF BoardStep
    <3>. QED BY <3>2, <3>4, <3>5, <3>6, <3>7 DEF Restful
  <2>3. OnGps \/ (OkGps /\ GpsStart)
    <3>1. CASE OkGps /\ ~GpsStart
      <4>1. UNCHANGED <<tx, gps>> /\ Offer("wardrivepoi")
        BY <3>1 DEF OkGps, PoiSend
      <4>2. Calls' \subseteq Calls \cup {"wardrivepoi"}
        BY <4>1, CallsOffer
      <4>. QED BY <1>5, <4>1, <4>2 DEF OnGps, Sampling
    <3>2. CASE ~OkGps
      <4>1. "gpsdata" \in Calls' => "gpsdata" \in Calls
        BY <1>0, <3>2, CallsGrow DEF Command
      <4>. QED BY <1>0, <1>5, <3>2, <4>1, SampleBegins DEF OnGps
    <3>. QED BY <3>1, <3>2
  <2>. QED BY <2>1, <2>2, <2>3
<1>. QED BY <1>3, <1>4, <1>5

-----------------------------------------------------------------------------
(* What the recovery and the samples do to the board.                      *)

\* On a board in step, gpsdata is sent to none that scans, and until it is
\* read no start is let through.
GpsAsk ==
    ~play.hasty /\ ~play.late /\ ~lost /\ "gpsdata" \in Calls => board.st = 0

SafeInv == TimeInv /\ PatientInv /\ GpsAsk

LEMMA SafeInit == Init => SafeInv
<1>. SUFFICES ASSUME Init PROVE SafeInv
  OBVIOUS
<1>1. "gpsdata" \notin Calls
  BY NoCalls DEF Init, NoCmd
<1>. QED BY <1>1, TimeInit, PatientInit DEF SafeInv, GpsAsk

LEMMA SafeKept == SafeInv /\ [Next]_vars => SafeInv'
<1>. SUFFICES ASSUME SafeInv, [Next]_vars, ~play'.hasty, ~play'.late, ~lost',
                     "gpsdata" \in Calls'
              PROVE  board'.st = 0
  BY TimeKept, PatientKept DEF SafeInv, GpsAsk
<1>0. /\ AskInv /\ PatientAsk /\ AgreeWaits /\ GpsAsk /\ LiteTypeOK /\ board \in BoardSet
      /\ ~play.hasty /\ ~play.late /\ ~lost
  BY AskTypes, PlayKept DEF SafeInv, TimeInv, AgreeInv, PatientInv
<1>1. CASE "gpsdata" \in Calls
  <2>1. board.st = 0 /\ "wardrive" \notin Calls
    BY <1>0, <1>1 DEF GpsAsk, PatientAsk, OnGps, Restful
  <2>. QED BY <1>0, <2>1, StaysIdle
<1>2. CASE "gpsdata" \notin Calls
  <2>1. OkGps
    BY <1>0, <1>2, CallsGrow DEF NoCmd
  <2>2. GpsStart
    <3>1. ~GpsStart => Offer("wardrivepoi") /\ UNCHANGED tx
      BY <2>1 DEF OkGps, PoiSend
    <3>. QED BY <1>2, <3>1, CallsOffer
  <2>3. Passing /\ scene = "dash" /\ model.session # "Running" /\ UNCHANGED board
    BY <1>0, <2>1, <2>2 DEF OkGps, GpsStart, GpsGate, MayAct
  <2>4. ~board.silent /\ Lines = {} /\ Calls = {NoCmd} /\ ~Due(2)
    BY <1>0, <2>3, QuietFacts
  <2>5. ~LaunchWaits
    BY <2>3, <2>4 DEF LaunchWaits, Due, Said, NoCmd
  <2>6. board.st # 1
    BY <1>0, <2>3, <2>4, <2>5 DEF AgreeWaits, Told, Said
  <2>. QED BY <1>0, <2>3, <2>6 DEF BoardSet
<1>. QED BY <1>1, <1>2

\* The decisions of the recovery, by what is known of the board: a scan is
\* adopted, a retry stops nothing, and the reboot offered on the fail page
\* (dash_recover_on_ok) ends no scan of a board in step.
THEOREM RecoveryIsSound == Spec => RecoverySound
<1>. DEFINE A == /\ TickRecover /\ RecAdopts =>
                      (play.late \/ lost) /\ (~play.hasty => board.st = 1)
                 /\ TickRecover /\ RecRetries => board.st = 0
                 /\ OkDash /\ OkReboots /\ ~play.late /\ ~lost => board.st = 0
<1>1. ASSUME SafeInv PROVE A
  <2>1. AskTrue /\ InTime /\ PatientAsk
    BY <1>1, AskTypes DEF SafeInv, TimeInv, PatientInv
  <2>2. RecAdopts => rec.phase = "Check" /\ Fresh /\ model.diagSt = 1
    BY DEF RecAdopts
  <2>3. RecRetries => rec.phase = "Check" /\ Fresh /\ model.diagSt = 0
    BY DEF RecRetries
  <2>4. OkReboots => Missed
    BY DEF OkReboots, Missed
  <2>. QED BY <2>1, <2>2, <2>3, <2>4 DEF AskTrue, InTime, PatientAsk
<1>2. SafeInv => [A]_vars
  BY <1>1
<1>. HIDE DEF A
<1>3. Spec => [][A]_vars
  BY <1>2, SafeInit, SafeKept, PTL DEF Spec
<1>. QED BY <1>3 DEF A, RecoverySound

\* "which would silently kill the capture": the guards of dash_gps_start keep
\* gpsdata from a board in step that scans.
THEOREM GpsdataSparesScans == Spec => GpsdataOnIdle
<1>. DEFINE A == BoardRead /\ board.up /\ Head(tx) = "gpsdata" /\ ~play.hasty /\ ~play.late
                   /\ ~lost => board.st = 0
<1>1. SafeInv => A
  BY AskTypes, ReadEffect DEF SafeInv, PatientInv, GpsAsk
<1>2. SafeInv => [A]_vars
  BY <1>1
<1>. HIDE DEF A
<1>3. Spec => [][A]_vars
  BY <1>2, SafeInit, SafeKept, PTL DEF Spec
<1>. QED BY <1>3 DEF A, GpsdataOnIdle

-----------------------------------------------------------------------------
(* The rows on the way to the app, by their number.                        *)

RowAt(s) == {i \in 1..Len(s) : s[i].k = "row"}
RowsOf(s) == Cardinality(RowAt(s))
Rows == RowsOf(rx)

LEMMA RowsFinite ==
  ASSUME NEW s \in Seq(LineSet)
  PROVE  /\ IsFiniteSet(RowAt(s)) /\ RowsOf(s) \in Nat
         /\ (\A i \in 1..Len(s) : s[i].k # "row") => RowsOf(s) = 0
<1>1. Len(s) \in Nat
  OBVIOUS
<1>2. IsFiniteSet(1..Len(s)) /\ RowAt(s) \in SUBSET (1..Len(s))
  BY <1>1, FS_Interval DEF RowAt
<1>3. IsFiniteSet(RowAt(s))
  BY <1>2, FS_Subset
<1>4. RowsOf(s) \in Nat
  BY <1>3, FS_CardinalityType DEF RowsOf
<1>5. ASSUME \A i \in 1..Len(s) : s[i].k # "row" PROVE RowsOf(s) = 0
  <2>1. RowAt(s) = {}
    BY <1>5 DEF RowAt
  <2>. QED BY <2>1, FS_EmptySet DEF RowsOf
<1>. QED BY <1>3, <1>4, <1>5

\* A line more at the end, or one less in front.
LEMMA RowsAppend ==
  ASSUME NEW s \in Seq(LineSet), NEW l \in LineSet
  PROVE  RowsOf(s \o <<l>>) = IF l.k = "row" THEN RowsOf(s) + 1 ELSE RowsOf(s)
<1>. DEFINE t == s \o <<l>>
            n == Len(s) + 1
<1>1. /\ Len(s) \in Nat /\ Len(t) = Len(s) + 1 /\ t[n] = l
      /\ \A i \in 1..Len(s) : t[i] = s[i]
  OBVIOUS
<1>. HIDE DEF t
<1>2. 1..Len(t) = 1..Len(s) \cup {n} /\ n \notin 1..Len(s)
  BY <1>1
<1>3. RowAt(t) = IF l.k = "row" THEN RowAt(s) \cup {n} ELSE RowAt(s)
  BY <1>1, <1>2 DEF RowAt
<1>4. n \notin RowAt(s) /\ IsFiniteSet(RowAt(s))
  BY <1>2, RowsFinite DEF RowAt
<1>. HIDE DEF n
<1>5. Cardinality(RowAt(s) \cup {n}) = Cardinality(RowAt(s)) + 1
  BY <1>4, FS_AddElement
<1>6. RowsOf(t) = IF l.k = "row" THEN RowsOf(s) + 1 ELSE RowsOf(s)
  BY <1>3, <1>5 DEF RowsOf
<1>. QED BY <1>6 DEF t

LEMMA RowsTail ==
  ASSUME NEW s \in Seq(LineSet), s # <<>>
  PROVE  RowsOf(Tail(s)) = IF Head(s).k = "row" THEN RowsOf(s) - 1 ELSE RowsOf(s)
<1>. DEFINE t == Tail(s)
            rest == RowAt(s) \ {1}
            f == [i \in RowAt(t) |-> i + 1]
<1>1. /\ Len(s) \in Nat \ {0} /\ Head(s) = s[1] /\ Len(t) = Len(s) - 1
      /\ \A i \in 1..Len(t) : t[i] = s[i + 1] /\ i + 1 \in 1..Len(s)
      /\ \A i \in 2..Len(s) : s[i] = t[i - 1] /\ i - 1 \in 1..Len(t)
      /\ t \in Seq(LineSet)
  BY TailShift
<1>. HIDE DEF t
<1>2. IsFiniteSet(RowAt(s)) /\ IsFiniteSet(RowAt(t))
  BY <1>1, RowsFinite
<1>3. f \in Bijection(RowAt(t), rest)
  <2>1. ASSUME NEW i \in RowAt(t) PROVE i + 1 \in rest /\ i \in Nat
    BY <1>1 DEF RowAt
  <2>2. f \in [RowAt(t) -> rest]
    BY <2>1
  <2>3. \A i, j \in RowAt(t) : f[i] = f[j] => i = j
    BY <2>1
  <2>4. ASSUME NEW j \in rest PROVE \E i \in RowAt(t) : f[i] = j
    <3>1. j \in 2..Len(s) /\ s[j].k = "row"
      BY <1>1 DEF RowAt
    <3>2. j - 1 \in RowAt(t)
      BY <1>1, <3>1 DEF RowAt
    <3>. QED BY <3>1, <3>2
  <2>. HIDE DEF f, rest
  <2>5. f \in Injection(RowAt(t), rest)
    BY <2>2, <2>3 DEF Injection, IsInjective
  <2>6. f \in Surjection(RowAt(t), rest)
    BY <2>2, <2>4 DEF Surjection
  <2>. QED BY <2>5, <2>6 DEF Bijection
<1>4. Cardinality(rest) = RowsOf(t)
  <2>. HIDE DEF f, rest
  <2>1. ExistsBijection(RowAt(t), rest)
    BY <1>3 DEF ExistsBijection
  <2>. QED BY <1>2, <2>1, FS_Bijection DEF RowsOf
<1>5. Cardinality(rest) = IF 1 \in RowAt(s) THEN RowsOf(s) - 1 ELSE RowsOf(s)
  BY <1>2, FS_RemoveElement DEF RowsOf
<1>6. 1 \in RowAt(s) <=> Head(s).k = "row"
  BY <1>1 DEF RowAt
<1>. QED BY <1>4, <1>5, <1>6 DEF t

LEMMA RowsNat ==
  ASSUME LiteTypeOK
  PROVE  rx \in Seq(LineSet) /\ Rows \in Nat /\ (~Said("row") => Rows = 0)
<1>1. rx \in Seq(LineSet)
  BY TypeParts
<1>2. ~Said("row") => \A i \in 1..Len(rx) : rx[i].k # "row"
  BY DEF Said, Lines
<1>. QED BY <1>1, <1>2, RowsFinite DEF Rows

\* A row on the way is counted.
LEMMA RowsNext ==
  ASSUME LiteTypeOK, rx # <<>>, Head(rx).k = "row"
  PROVE  Rows # 0
<1>1. rx \in Seq(LineSet)
  BY TypeParts
<1>2. RowsOf(Tail(rx)) = RowsOf(rx) - 1 /\ Tail(rx) \in Seq(LineSet)
  BY <1>1, RowsTail
<1>3. RowsOf(Tail(rx)) \in Nat /\ RowsOf(rx) \in Nat
  BY <1>1, <1>2, RowsFinite
<1>. QED BY <1>2, <1>3 DEF Rows

LEMMA RowsSteps ==
  ASSUME LiteTypeOK, LiteTypeOK'
  PROVE  /\ UNCHANGED rx => Rows' = Rows
         /\ Apply => Rows' = IF Head(rx).k = "row" THEN Rows - 1 ELSE Rows
         /\ Row => Rows' = Rows + 1
         /\ Boots \/ Announce \/ Block => Rows' = Rows
         /\ BoardRead => Rows' = 0
<1>0. rx \in Seq(LineSet) /\ rx' \in Seq(LineSet)
  BY TypeParts, TypePartsNext
<1>1. Apply => Rows' = IF Head(rx).k = "row" THEN Rows - 1 ELSE Rows
  BY <1>0, RowsTail DEF Apply, Rows
<1>2. ASSUME NEW k \in LineKind, Say(<<Line(k)>>)
      PROVE  Rows' = IF k = "row" THEN Rows + 1 ELSE Rows
  <2>. DEFINE l == Line(k)
  <2>1. l \in LineSet /\ l.k = k
    BY LineTypes, LineFields
  <2>2. rx' = rx \o <<l>>
    BY <1>2 DEF Say
  <2>. HIDE DEF l
  <2>. QED BY <1>0, <2>1, <2>2, RowsAppend DEF Rows
<1>3. Row => Rows' = Rows + 1
  BY <1>2 DEF Row, LineKind
<1>4. Boots \/ Announce \/ Block => Rows' = Rows
  BY <1>2 DEF Boots, Announce, Block, LineKind
<1>5. ASSUME BoardRead PROVE Rows' = 0
  <2>1. \A l \in Lines' : l.k # "row"
    BY <1>5, ReadEffect, LineFields
  <2>2. \A i \in 1..Len(rx') : rx'[i].k # "row"
    BY <2>1 DEF Lines
  <2>. QED BY <1>0, <2>2, RowsFinite DEF Rows
<1>. QED BY <1>1, <1>3, <1>4, <1>5 DEF Rows

-----------------------------------------------------------------------------
(* The order of what is on its way to the board.                           *)

\* Nothing was lost, and the user waits for the answers.
Orderly == ~play.hasty /\ ~lost

\* The next command the board reads ends what it does.
StopsAhead ==
    \/ slot \in {"stopscan", "gpsdata"} /\ tx = <<>>
    \/ tx # <<>> /\ Head(tx) \in {"stopscan", "gpsdata"}

\* Behind a start there is neither a stop nor another start.
StartLast ==
    \A i \in 1..Len(tx) : tx[i] = "wardrive" =>
        /\ slot \notin {"stopscan", "wardrive"}
        /\ \A j \in (i + 1)..Len(tx) : tx[j] \notin {"stopscan", "wardrive"}

LEMMA AheadSteps ==
  ASSUME LiteTypeOK, StopsAhead
  PROVE  /\ UNCHANGED <<slot, tx>> => StopsAhead'
         /\ \A c : Offer(c) /\ UNCHANGED tx => StopsAhead'
         /\ Take => StopsAhead'
         /\ ~Passing
         /\ BoardRead => Head(tx) \in {"stopscan", "gpsdata"}
<1>1. UNCHANGED <<slot, tx>> => StopsAhead'
  BY DEF StopsAhead
<1>2. ASSUME NEW c, Offer(c), UNCHANGED tx PROVE StopsAhead'
  BY <1>2 DEF StopsAhead, Offer, Free, NoCmd
<1>3. ASSUME Take PROVE StopsAhead'
  <2>1. tx \in Seq(Command) /\ slot \in Command /\ tx' = Append(tx, slot)
    BY <1>3, TypeParts DEF Take, Free
  <2>2. tx' # <<>> /\ Head(tx') = IF tx = <<>> THEN slot ELSE Head(tx)
    BY <2>1
  <2>. QED BY <2>2 DEF StopsAhead
<1>4. ~Passing
  BY DEF StopsAhead, Passing, Answered, Free, NoCmd
<1>5. BoardRead => Head(tx) \in {"stopscan", "gpsdata"}
  BY DEF BoardRead, StopsAhead
<1>. QED BY <1>1, <1>2, <1>3, <1>4, <1>5

LEMMA LastSteps ==
  ASSUME LiteTypeOK
  PROVE  /\ "wardrive" \notin Calls /\ UNCHANGED tx => StartLast'
         /\ /\ StartLast /\ UNCHANGED tx
            /\ UNCHANGED slot \/ slot' \notin {"stopscan", "wardrive"}
            => StartLast'
         /\ StartLast /\ Take => StartLast'
         /\ StartLast /\ BoardRead => StartLast'
         /\ StartLast /\ BoardRead /\ Head(tx) = "wardrive" =>
              "wardrive" \notin Calls' /\ "stopscan" \notin Calls'
<1>0. tx \in Seq(Command) /\ Len(tx) \in Nat /\ NoCmd \notin Command
  BY TypeParts DEF NoCmd, Command
<1>1. "wardrive" \notin Calls /\ UNCHANGED tx => StartLast'
  BY DEF StartLast, Calls
<1>2. StartLast /\ UNCHANGED tx /\ (UNCHANGED slot \/ slot' \notin {"stopscan", "wardrive"}) =>
        StartLast'
  BY DEF StartLast, NoCmd
<1>3. ASSUME StartLast, Take PROVE StartLast'
  <2>1. /\ tx' = Append(tx, slot) /\ slot' = NoCmd
        /\ Len(tx') = Len(tx) + 1 /\ tx'[Len(tx) + 1] = slot
        /\ \A i \in 1..Len(tx) : tx'[i] = tx[i]
    BY <1>0, <1>3 DEF Take
  <2>2. ASSUME NEW i \in 1..Len(tx'), tx'[i] = "wardrive",
               NEW j \in (i + 1)..Len(tx')
        PROVE  tx'[j] \notin {"stopscan", "wardrive"}
    <3>1. i \in 1..Len(tx) /\ tx[i] = "wardrive"
      BY <1>0, <2>1, <2>2
    <3>2. CASE j = Len(tx) + 1
      BY <1>3, <2>1, <3>1, <3>2 DEF StartLast
    <3>3. CASE j # Len(tx) + 1
      <4>1. j \in (i + 1)..Len(tx) /\ j \in 1..Len(tx)
        BY <1>0, <2>1, <3>1, <3>3
      <4>. QED BY <1>3, <2>1, <3>1, <4>1 DEF StartLast
    <3>. QED BY <3>2, <3>3
  <2>. QED BY <2>1, <2>2 DEF StartLast, NoCmd
<1>4. ASSUME StartLast, BoardRead
      PROVE  /\ StartLast'
             /\ Head(tx) = "wardrive" => "wardrive" \notin Calls' /\ "stopscan" \notin Calls'
  <2>1. /\ UNCHANGED slot /\ Len(tx) \in Nat \ {0}
        /\ Head(tx) = tx[1] /\ Len(tx') = Len(tx) - 1
        /\ \A i \in 1..Len(tx') : tx'[i] = tx[i + 1] /\ i + 1 \in 1..Len(tx)
    BY <1>0, <1>4, TailShift DEF BoardRead
  <2>2. ASSUME NEW i \in 1..Len(tx'), tx'[i] = "wardrive"
        PROVE  /\ slot' \notin {"stopscan", "wardrive"}
               /\ \A j \in (i + 1)..Len(tx') : tx'[j] \notin {"stopscan", "wardrive"}
    <3>1. i + 1 \in 1..Len(tx) /\ tx[i + 1] = "wardrive"
      BY <2>1, <2>2
    <3>2. /\ slot \notin {"stopscan", "wardrive"}
          /\ \A j \in ((i + 1) + 1)..Len(tx) : tx[j] \notin {"stopscan", "wardrive"}
      BY <1>4, <3>1 DEF StartLast
    <3>3. ASSUME NEW j \in (i + 1)..Len(tx') PROVE tx'[j] \notin {"stopscan", "wardrive"}
      <4>1. j \in 1..Len(tx') /\ j + 1 \in ((i + 1) + 1)..Len(tx)
        BY <2>1
      <4>. QED BY <2>1, <3>2, <4>1
    <3>. QED BY <2>1, <3>2, <3>3
  <2>3. ASSUME Head(tx) = "wardrive"
        PROVE  "wardrive" \notin Calls' /\ "stopscan" \notin Calls'
    <3>1. /\ slot \notin {"stopscan", "wardrive"}
          /\ \A j \in (1 + 1)..Len(tx) : tx[j] \notin {"stopscan", "wardrive"}
      <4>1. 1 \in 1..Len(tx) /\ tx[1] = "wardrive"
        BY <2>1, <2>3
      <4>. QED BY <1>4, <4>1 DEF StartLast
    <3>2. \A j \in 1..Len(tx') : tx'[j] \notin {"stopscan", "wardrive"}
      BY <2>1, <3>1
    <3>. QED BY <2>1, <3>1, <3>2 DEF Calls
  <2>. QED BY <2>2, <2>3 DEF StartLast
<1>. QED BY <1>1, <1>2, <1>3, <1>4

\* A prestart, or a start behind it.
StartWay == app.prestart \/ "wardrive" \in Calls

\* A start is sent, and read, behind the stop it waits for.
OrderTrue ==
    Orderly =>
      /\ app.prestart => "wardrive" \notin Calls
      /\ "wardrive" \in Calls => board.st = 0
      /\ StartLast
      /\ board.st = 1 /\ (app.prestart \/ "stopscan" \in Calls \/ OnGps) => StopsAhead
      /\ app.prestart /\ (app.clear \/ app.prestartOut) => board.st = 0
      /\ board.gps => board.st = 0

OrderInv == SafeInv /\ OrderTrue

LEMMA OrderInit == Init => OrderInv
<1>. SUFFICES ASSUME Init PROVE OrderInv
  OBVIOUS
<1>1. SafeInv
  BY SafeInit
<1>2. Calls = {NoCmd} /\ tx = <<>> /\ ~board.gps
  BY NoCalls DEF Init
<1>3. ~app.prestart /\ ~Sampling
  BY DEF Init, Sampling
<1>. QED BY <1>1, <1>2, <1>3 DEF OrderInv, OrderTrue, StartLast, OnGps, NoCmd

LEMMA OrderFacts ==
  ASSUME OrderInv
  PROVE  /\ AskInv /\ LiteTypeOK /\ play \in Play /\ LinesTrue /\ StartFlags /\ AskTrue
         /\ scan \in ScanSet /\ app \in AppSet /\ rec \in RecSet /\ gps \in GpsSet
         /\ model \in ModelSet /\ board \in BoardSet /\ scene \in {"menu", "dash"}
         /\ tx \in Seq(Command) /\ AgreeWaits /\ PatientAsk
         /\ NoCmd \notin Command
         /\ Orderly => (OnGps => ~StartWay /\ Restful)
<1>1. AskInv /\ AgreeWaits /\ PatientAsk
  BY DEF OrderInv, SafeInv, TimeInv, AgreeInv, PatientInv
<1>2. NoCmd \notin Command
  BY DEF NoCmd, Command
<1>3. Orderly => (OnGps => ~StartWay /\ Restful)
  BY <1>1 DEF PatientAsk, Orderly, Restful, StartWay
<1>4. tx \in Seq(Command)
  BY <1>1, AskTypes, TypeParts
<1>. QED BY <1>1, <1>2, <1>3, <1>4, AskTypes

\* A patient user, and time, wait until nothing is on its way.
LEMMA PatientSteps ==
  ASSUME AskInv, Orderly
  PROVE  /\ User => /\ Passing /\ ~OnGps /\ rec.phase \in {"Off", "Fail"} /\ ~app.prestart
                    /\ scan.pending => scan.timedOut
         /\ Time => Passing
         /\ LeaveDash => UNCHANGED <<slot, gps>>
         /\ User /\ UNCHANGED slot => UNCHANGED <<slot, tx>>
         /\ Passing => /\ tx = <<>> /\ rx = <<>> /\ Free /\ Calls = {NoCmd} /\ Lines = {}
                       /\ board.up /\ ~StopsAhead
<1>1. User => MayAct
  BY DEF User, OkDash, OkGps, EnterDash, LeaveDash
<1>2. MayAct => /\ Passing /\ ~Sampling /\ rec.phase \in {"Off", "Fail"} /\ ~app.prestart
                /\ scan.pending => scan.timedOut
  BY DEF MayAct, Orderly
<1>3. Passing => /\ tx = <<>> /\ rx = <<>> /\ Free /\ Calls = {NoCmd} /\ Lines = {}
                 /\ board.up /\ ~StopsAhead
  BY QuietFacts, AskTypes, AheadSteps DEF Passing, Answered
<1>4. Time => Passing
  BY DEF Time, ScanTime, PrestartTime, RecTime, GpsTime, PoiTime
<1>5. LeaveDash => UNCHANGED <<slot, gps>>
  BY <1>2 DEF LeaveDash, GpsAbort
<1>6. User => UNCHANGED tx
  BY BoardFrame
<1>7. Passing /\ ~Sampling => ~OnGps
  BY <1>3 DEF OnGps, NoCmd
<1>. QED BY <1>1, <1>2, <1>3, <1>4, <1>5, <1>6, <1>7

LEMMA OrderlyKept ==
  ASSUME AskInv, [Next]_vars, Orderly'
  PROVE  Orderly /\ ~Lose
<1>1. play \in Play
  BY AskTypes
<1>. QED BY <1>1, PlayKept DEF Orderly, Lose

\* What a step does to the board's scan and stream.
LEMMA BoardSteps ==
  ASSUME AskInv, [Next]_vars
  PROVE  \/ board'.st = board.st /\ board'.gps = board.gps
         \/ /\ BoardRead /\ Head(tx) = "wardrive" /\ board.st = 0 /\ ~board.gps
            /\ board'.st = 1 /\ ~board'.gps
         \/ /\ BoardRead /\ Head(tx) \in {"stopscan", "gpsdata", "reboot"} /\ board'.st = 0
<1>0. LiteTypeOK /\ board \in BoardSet
  BY AskTypes
<1>1. CASE BoardRead
  <2>1. CASE board' = [board EXCEPT !.st = 1, !.silent = TRUE, !.ap = 0]
             /\ board.st = 0 /\ ~board.gps /\ Head(tx) = "wardrive"
    BY <1>0, <1>1, <2>1 DEF BoardSet
  <2>2. CASE board' = [board EXCEPT !.st = 0, !.silent = FALSE, !.gps = FALSE]
             /\ Head(tx) = "stopscan"
    BY <1>0, <1>1, <2>2 DEF BoardSet
  <2>3. CASE board' = Stream /\ Head(tx) = "gpsdata"
    BY <1>0, <1>1, <2>3 DEF BoardSet, Stream
  <2>4. CASE board' = [board EXCEPT !.st = 0, !.silent = FALSE, !.gps = FALSE, !.ap = 0,
                                    !.up = FALSE]
             /\ Head(tx) = "reboot"
    BY <1>0, <1>1, <2>4 DEF BoardSet
  <2>. QED BY <1>0, <1>1, <2>1, <2>2, <2>3, <2>4, ReadEffect
<1>2. CASE Boots \/ Announce \/ Row \/ Block
  BY <1>0, <1>2, SpeakEffect DEF BoardSet
<1>3. CASE ~BoardStep
  <2>1. UNCHANGED board
    BY <1>3, BoardFrame DEF Next, Take, Apply, Lose, vars, outside
  <2>. QED BY <2>1
<1>. QED BY <1>1, <1>2, <1>3 DEF BoardStep

\* What goes to the board beside status and poi commands, and from where.
LEMMA OrderSends ==
  ASSUME OrderInv, Orderly, [Next]_vars
  PROVE  /\ "wardrive" \in Calls' =>
              "wardrive" \in Calls \/ (TickPrestart /\ PrestartEnds /\ ~app'.prestart)
         /\ "stopscan" \in Calls' =>
              \/ "stopscan" \in Calls \/ OnGps \/ app.prestart \/ OkDash
              \/ TickRecover /\ RecRetries
         /\ OnGps' => OnGps \/ (OkGps /\ GpsStart)
         /\ app'.prestart => app.prestart \/ OkDash \/ (TickRecover /\ RecRetries)
<1>0. AskInv /\ NoCmd \notin Command /\ app \in AppSet
  BY OrderFacts
<1>1. CASE TickPrestart
  <2>1. app.prestart
    BY <1>1 DEF TickPrestart, PrestartRetry, PrestartEnds
  <2>2. UNCHANGED <<tx, gps>>
    BY <1>1 DEF TickPrestart
  <2>3. CASE PrestartRetry /\ QueueClearingStop
    <3>1. Offer("stopscan")
      BY <2>3 DEF QueueClearingStop
    <3>2. Calls' \subseteq Calls \cup {"stopscan"}
      BY <2>2, <3>1, CallsOffer
    <3>. QED BY <2>1, <2>2, <3>2 DEF OnGps, Sampling
  <2>4. CASE PrestartEnds /\ Offer("wardrive") /\ ~app'.prestart
    <3>1. Calls' \subseteq Calls \cup {"wardrive"}
      BY <2>2, <2>4, CallsOffer
    <3>. QED BY <1>1, <2>1, <2>2, <2>4, <3>1 DEF OnGps, Sampling
  <2>5. PrestartEnds /\ app' = [app EXCEPT !.prestart = FALSE, !.prestartOut = FALSE,
                                           !.clear = FALSE] => ~app'.prestart
    BY <1>0 DEF AppSet
  <2>. QED BY <1>1, <2>3, <2>4, <2>5 DEF TickPrestart
<1>2. CASE ~TickPrestart
  <2>1. "wardrive" \in Calls' => "wardrive" \in Calls
    BY <1>0, <1>2, CallsGrow DEF Command
  <2>2. LeaveDash => Calls' = Calls
    <3>. SUFFICES ASSUME LeaveDash PROVE Calls' = Calls
      OBVIOUS
    <3>1. UNCHANGED <<slot, tx>>
      BY <1>0, PatientSteps DEF LeaveDash
    <3>. QED BY <3>1, CallsSame
  <2>3. "stopscan" \in Calls' => \/ "stopscan" \in Calls \/ OnGps \/ app.prestart \/ OkDash
                                 \/ TickRecover /\ RecRetries
    BY <1>0, <1>2, <2>2, CallsGrow DEF Command, OnGps
  <2>4. OnGps' => OnGps \/ (OkGps /\ GpsStart)
    <3>1. CASE OkGps /\ ~GpsStart
      <4>1. UNCHANGED <<tx, gps>> /\ Offer("wardrivepoi")
        BY <3>1 DEF OkGps, PoiSend
      <4>2. Calls' \subseteq Calls \cup {"wardrivepoi"}
        BY <4>1, CallsOffer
      <4>. QED BY <4>1, <4>2 DEF OnGps, Sampling
    <3>2. CASE ~OkGps
      <4>1. "gpsdata" \in Calls' => "gpsdata" \in Calls
        BY <1>0, <3>2, CallsGrow DEF Command
      <4>. QED BY <1>0, <3>2, <4>1, SampleBegins DEF OnGps
    <3>. QED BY <3>1, <3>2
  <2>. QED BY <1>0, <2>1, <2>3, <2>4, StartSteps
<1>. QED BY <1>1, <1>2

LEMMA TxSame ==
  ASSUME [Next]_vars, ~Take, ~BoardRead, ~Lose
  PROVE  UNCHANGED tx
<1>1. CASE User \/ Tick \/ TickQual \/ Time
  BY <1>1, BoardFrame
<1>2. CASE Apply \/ Boots \/ Announce \/ Row \/ Block \/ UNCHANGED vars
  BY <1>2 DEF Apply, Boots, Announce, Row, Block, vars, link
<1>. QED BY <1>1, <1>2 DEF Next, BoardStep

\* Who else than the user and the prestart uses the slot.
LEMMA SlotSteps ==
  ASSUME AskInv, [Next]_vars, ~Take, ~User
  PROVE  \/ UNCHANGED slot
         \/ Offer("sigroam") \/ Offer("reboot")
         \/ TickPrestart \/ (TickRecover /\ RecRetries)
         \/ TickGps /\ Sampling /\ Offer("stopscan")
<1>1. CASE TickRecover
  BY <1>1 DEF TickRecover, Recover, RecRuns, RecWatches, RecChecks, RecAdopts,
              RecNoDiag, RecRetried, RecMisses, RecUp, RecAsksAgain, RecRebootsAgain
<1>2. CASE TickGps
  BY <1>2 DEF TickGps, GpsClose, GpsTurnsSlow, GpsConfirmed, GpsRefuted, BlockSeen,
              GpsGivesUp, Sampling
<1>3. CASE TickSync \/ TickSeed \/ TickScan \/ TickPostStop \/ TickPoi \/ TickQual
  BY <1>3 DEF TickSync, TickSeed, TickScan, TickPostStop, TickPoi, TickQual, link
<1>4. CASE Time \/ Apply \/ BoardStep \/ Lose \/ UNCHANGED vars
  BY <1>4, BoardFrame DEF Apply, BoardStep, BoardRead, Boots, Announce, Row, Block, Lose,
                          vars, link
<1>. QED BY <1>1, <1>2, <1>3, <1>4 DEF Next, Tick

\* What ends a prestart: its stop was answered, or its window is over.
LEMMA ClearSteps ==
  ASSUME AskInv, [Next]_vars, app'.prestart, app'.clear \/ app'.prestartOut
  PROVE  \/ app.prestart /\ (app.clear \/ app.prestartOut)
         \/ PrestartTime
         \/ Apply /\ Head(rx).k = "wifiStop"
<1>0. app \in AppSet
  BY AskTypes
<1>1. CASE TickRecover
  <2>1. CASE RecRetries
    BY <1>0, <2>1 DEF RecRetries, AppSet
  <2>2. CASE RecAdopts \/ RecUp
    BY <1>0, <2>2 DEF RecAdopts, RecUp, AppSet
  <2>3. CASE ~RecRetries /\ ~RecAdopts /\ ~RecUp
    BY <1>1, <2>3 DEF TickRecover, Recover, RecRuns, RecWatches, RecChecks, RecNoDiag,
                      RecRetried, RecMisses, RecAsksAgain, RecRebootsAgain
  <2>. QED BY <2>1, <2>2, <2>3
<1>2. CASE TickPrestart
  BY <1>0, <1>2 DEF TickPrestart, AppSet
<1>3. CASE TickSync \/ TickSeed \/ TickGps \/ TickScan \/ TickPostStop \/ TickPoi \/ TickQual
  BY <1>0, <1>3 DEF TickSync, TickSeed, TickGps, TickScan, TickPostStop, TickPoi, TickQual,
                    AppSet
<1>4. CASE OkDash
  <2>1. CASE OkCancels /\ ToggleStart
    BY <1>0, <2>1 DEF ToggleStart, AppSet
  <2>2. CASE OkCancels /\ ToggleStop
    BY <1>0, <2>2 DEF ToggleStop, AppSet
  <2>3. CASE OkReboots \/ (OkCancels /\ ToggleNot)
    BY <2>3 DEF OkReboots, ToggleNot
  <2>. QED BY <1>4, <2>1, <2>2, <2>3 DEF OkDash, OkCancels, Toggle
<1>5. CASE OkGps \/ EnterDash \/ LeaveDash
  BY <1>0, <1>5 DEF OkGps, EnterDash, LeaveDash, AppSet
<1>6. CASE Time
  BY <1>0, <1>6 DEF Time, ScanTime, RecTime, GpsTime, PoiTime
<1>7. CASE Apply
  <2>1. CASE ApplySession(Head(rx))
    BY <1>0, <1>7, <2>1 DEF ApplySession, AppSet
  <2>2. CASE ApplyStatus(Head(rx)) \/ ApplyOther(Head(rx))
    BY <1>0, <2>2 DEF ApplyStatus, SessSeen, ApplyOther, AppSet
  <2>. QED BY <1>7, <2>1, <2>2 DEF Apply
<1>8. CASE Take \/ BoardStep \/ Lose \/ UNCHANGED vars
  BY <1>8 DEF Take, BoardStep, BoardRead, Boots, Announce, Row, Block, Lose, vars, gui
<1>. QED BY <1>1, <1>2, <1>3, <1>4, <1>5, <1>6, <1>7, <1>8 DEF Next, Tick, User

\* A stop, gpsdata and a reboot end what the board does, unless it is down.
LEMMA ReadStops ==
  ASSUME AskInv, BoardRead, Head(tx) \in {"stopscan", "gpsdata", "reboot"}
  PROVE  board'.st = 0
<1>0. LiteTypeOK /\ LinesTrue /\ board \in BoardSet
  BY AskTypes
<1>1. CASE ~board.up /\ UNCHANGED board
  BY <1>0, <1>1 DEF LinesTrue
<1>2. CASE board' = [board EXCEPT !.st = 0, !.silent = FALSE, !.gps = FALSE]
  BY <1>0, <1>2 DEF BoardSet
<1>3. CASE board' = Stream
  BY <1>0, <1>3 DEF BoardSet, Stream
<1>4. CASE board' = [board EXCEPT !.st = 0, !.silent = FALSE, !.gps = FALSE, !.ap = 0,
                                  !.up = FALSE]
  BY <1>0, <1>4 DEF BoardSet
<1>. QED BY <1>0, <1>1, <1>2, <1>3, <1>4, ReadEffect

LEMMA OrderKept == OrderInv /\ [Next]_vars => OrderInv'
<1>. SUFFICES ASSUME OrderInv, [Next]_vars, Orderly'
              PROVE  /\ app'.prestart => "wardrive" \notin Calls'
                     /\ "wardrive" \in Calls' => board'.st = 0
                     /\ StartLast'
                     /\ board'.st = 1 /\ (app'.prestart \/ "stopscan" \in Calls' \/ OnGps') =>
                          StopsAhead'
                     /\ app'.prestart /\ (app'.clear \/ app'.prestartOut) => board'.st = 0
                     /\ board'.gps => board'.st = 0
  BY SafeKept DEF OrderInv, OrderTrue
<1>0. /\ AskInv /\ LiteTypeOK /\ LinesTrue /\ StartFlags /\ AskTrue
      /\ app \in AppSet /\ rec \in RecSet /\ board \in BoardSet /\ NoCmd \notin Command
      /\ Orderly /\ ~Lose
  BY OrderFacts, OrderlyKept
<1>1. /\ app.prestart => "wardrive" \notin Calls
      /\ "wardrive" \in Calls => board.st = 0
      /\ StartLast
      /\ board.st = 1 /\ (app.prestart \/ "stopscan" \in Calls \/ OnGps) => StopsAhead
      /\ app.prestart /\ (app.clear \/ app.prestartOut) => board.st = 0
      /\ board.gps => board.st = 0
      /\ OnGps => ~StartWay /\ Restful
  BY <1>0, OrderFacts DEF OrderInv, OrderTrue
<1>2. User \/ Time => Passing
  BY <1>0, PatientSteps
<1>3. Passing => Calls = {NoCmd} /\ ~StopsAhead /\ tx = <<>> /\ Free
  BY <1>0, PatientSteps
<1>4. TickRecover /\ RecRetries => "wardrive" \notin Calls /\ board.st = 0
  BY <1>0 DEF AskTrue, Asking, RecRetries
<1>5. /\ "wardrive" \in Calls' =>
           "wardrive" \in Calls \/ (TickPrestart /\ PrestartEnds /\ ~app'.prestart)
      /\ "stopscan" \in Calls' =>
           \/ "stopscan" \in Calls \/ OnGps \/ app.prestart \/ OkDash
           \/ TickRecover /\ RecRetries
      /\ OnGps' => OnGps \/ (OkGps /\ GpsStart)
      /\ app'.prestart => app.prestart \/ OkDash \/ (TickRecover /\ RecRetries)
  BY <1>0, OrderSends
<1>6. \/ board'.st = board.st /\ board'.gps = board.gps
      \/ /\ BoardRead /\ Head(tx) = "wardrive" /\ board.st = 0 /\ ~board.gps
         /\ board'.st = 1 /\ ~board'.gps
      \/ /\ BoardRead /\ Head(tx) \in {"stopscan", "gpsdata", "reboot"} /\ board'.st = 0
  BY <1>0, BoardSteps
<1>7. BoardRead => /\ UNCHANGED <<app, gps, slot>> /\ Head(tx) \in Calls
                   /\ Calls' \subseteq Calls
  BY <1>0, ReadEffect DEF gui
\* A start, once read, is the last of its kind.
<1>8. BoardRead /\ Head(tx) = "wardrive" =>
        /\ "wardrive" \notin Calls' /\ "stopscan" \notin Calls'
        /\ ~app'.prestart /\ ~OnGps'
  <2>. SUFFICES ASSUME BoardRead, Head(tx) = "wardrive"
                PROVE  /\ "wardrive" \notin Calls' /\ "stopscan" \notin Calls'
                       /\ ~app'.prestart /\ ~OnGps'
    OBVIOUS
  <2>1. "wardrive" \in Calls
    BY <1>7
  <2>2. ~app.prestart /\ ~OnGps
    BY <1>1, <2>1 DEF StartWay
  <2>3. "wardrive" \notin Calls' /\ "stopscan" \notin Calls'
    BY <1>0, <1>1, LastSteps
  <2>. QED BY <1>7, <2>2, <2>3 DEF OnGps, Sampling
<1>9. OkDash => Calls = {NoCmd}
  BY <1>2, <1>3 DEF User
<1>10. app'.prestart => "wardrive" \notin Calls'
  BY <1>0, <1>1, <1>4, <1>5, <1>9 DEF Command
<1>11. "wardrive" \in Calls' => board'.st = 0
  BY <1>1, <1>5, <1>6, <1>7, <1>8 DEF PrestartEnds, TickPrestart, BoardStep
<1>12. StartLast'
  <2>1. CASE Take \/ BoardRead
    BY <1>0, <1>1, <2>1, LastSteps
  <2>2. CASE "wardrive" \notin Calls /\ ~Take /\ ~BoardRead
    <3>1. UNCHANGED tx
      BY <1>0, <2>2, TxSame
    <3>. QED BY <1>0, <2>2, <3>1, LastSteps
  <2>3. CASE "wardrive" \in Calls /\ ~Take /\ ~BoardRead
    <3>1. UNCHANGED tx
      BY <1>0, <2>3, TxSame
    <3>2. ~User /\ ~Time /\ ~app.prestart /\ ~Sampling
      BY <1>0, <1>1, <1>2, <1>3, <2>3 DEF Command, OnGps, StartWay
    <3>3. ~ (TickRecover /\ RecRetries) /\ ~TickPrestart
      BY <1>4, <2>3, <3>2 DEF TickPrestart, PrestartRetry, PrestartEnds
    <3>4. UNCHANGED slot \/ Offer("sigroam") \/ Offer("reboot")
      BY <1>0, <2>3, <3>2, <3>3, SlotSteps
    <3>5. UNCHANGED slot \/ slot' \notin {"stopscan", "wardrive"}
      BY <3>4 DEF Offer
    <3>. QED BY <1>0, <1>1, <3>1, <3>5, LastSteps
  <2>. QED BY <2>1, <2>2, <2>3
<1>13. ASSUME board'.st = 1, app'.prestart \/ "stopscan" \in Calls' \/ OnGps'
       PROVE  StopsAhead'
  <2>1. CASE Passing
    <3>1. board'.st = board.st /\ ~app.prestart /\ "stopscan" \notin Calls /\ ~OnGps
      BY <1>0, <1>1, <1>3, <1>6, <1>13, <2>1 DEF BoardRead, Command
    <3>2. OkDash \/ (OkGps /\ GpsStart)
      BY <1>5, <1>10, <1>13, <3>1, <1>4
    <3>3. UNCHANGED tx /\ tx = <<>> /\ Free
      BY <1>3, <2>1, <3>2 DEF OkDash, OkGps
    <3>4. CASE OkGps /\ GpsStart
      BY <3>3, <3>4 DEF OkGps, GpsStart, Offer, StopsAhead
    <3>5. CASE OkDash
      <4>1. \/ UNCHANGED <<app, gps>> /\ Offer("reboot")
            \/ UNCHANGED <<slot, app, gps>>
            \/ Offer("stopscan")
        BY <3>5 DEF OkDash, OkReboots, OkCancels, Toggle, ToggleStop, ToggleStart, ToggleNot,
                    QueueCmd, QueueClearingStop
      <4>2. Offer("reboot") => Calls' \subseteq Calls \cup {"reboot"}
        BY <3>3, CallsOffer
      <4>3. UNCHANGED slot => Calls' = Calls
        BY <3>3, CallsSame
      <4>4. Offer("stopscan")
        BY <1>13, <3>1, <4>1, <4>2, <4>3 DEF OnGps, Sampling
      <4>. QED BY <3>3, <4>4 DEF Offer, StopsAhead
    <3>. QED BY <3>2, <3>4, <3>5
  <2>2. CASE ~Passing
    <3>1. ~User /\ ~Time /\ ~ (TickRecover /\ RecRetries /\ board.st = 1)
      BY <1>2, <1>4, <2>2
    <3>2. board.st = 1
      <4>1. CASE board'.st = board.st
        BY <1>13, <4>1
      <4>2. CASE BoardRead /\ Head(tx) = "wardrive"
        BY <1>8, <1>13, <4>2
      <4>. QED BY <1>6, <1>13, <4>1, <4>2
    <3>3. StopsAhead
      BY <1>1, <1>5, <1>13, <3>1, <3>2 DEF User
    <3>4. CASE BoardRead
      <4>1. Head(tx) \in {"stopscan", "gpsdata"}
        BY <1>0, <3>3, <3>4, AheadSteps
      <4>2. board'.st = 0
        BY <1>0, <3>2, <3>4, <4>1, ReadStops
      <4>. QED BY <1>13, <4>2
    <3>5. CASE Take
      BY <1>0, <3>3, <3>5, AheadSteps
    <3>6. CASE ~BoardRead /\ ~Take
      <4>1. UNCHANGED tx
        BY <1>0, <3>6, TxSame
      <4>2. UNCHANGED slot \/ \E c : Offer(c)
        BY <1>0, <3>1, <3>6, SlotSteps DEF TickPrestart, TickGps, RecRetries, QueueCmd,
           QueueClearingStop, GpsClose, GpsTurnsSlow, GpsConfirmed, GpsRefuted
      <4>. QED BY <1>0, <3>3, <4>1, <4>2, AheadSteps
    <3>. QED BY <3>4, <3>5, <3>6
  <2>. QED BY <2>1, <2>2
<1>14. ASSUME app'.prestart, app'.clear \/ app'.prestartOut PROVE board'.st = 0
  <2>1. board.st = 0
    <3>1. CASE app.prestart /\ (app.clear \/ app.prestartOut)
      BY <1>1, <3>1
    <3>2. CASE PrestartTime
      <4>1. Passing /\ app.prestart
        BY <3>2 DEF PrestartTime
      <4>. QED BY <1>0, <1>1, <1>3, <4>1 DEF BoardSet
    <3>3. CASE Apply /\ Head(rx).k = "wifiStop"
      BY <1>0, <3>3, ApplyEffect DEF LinesTrue
    <3>. QED BY <1>0, <1>14, <3>1, <3>2, <3>3, ClearSteps
  <2>. QED BY <1>6, <1>8, <1>14, <2>1
<1>15. board'.gps => board'.st = 0
  BY <1>1, <1>6
<1>. QED BY <1>10, <1>11, <1>12, <1>13, <1>14, <1>15

\* Only the board takes a command off the line, and only the app a line.
LEMMA CallsStay ==
  ASSUME AskInv, [Next]_vars, ~BoardRead, ~Lose
  PROVE  Calls \ {NoCmd} \subseteq Calls'
<1>0. LiteTypeOK
  BY AskTypes
<1>1. CASE Take
  BY <1>0, <1>1, CallsTake
<1>2. CASE ~Take
  <2>1. UNCHANGED tx
    BY <1>2, TxSame
  <2>2. UNCHANGED slot \/ \E c : Offer(c)
    <3>1. CASE User
      BY <3>1 DEF User, OkDash, OkReboots, OkCancels, Toggle, ToggleStop, ToggleStart, ToggleNot,
                  QueueCmd, QueueClearingStop, OkGps, GpsStart, PoiSend, EnterDash, LeaveDash,
                  GpsAbort
    <3>2. CASE ~User
      <4>1. TickPrestart \/ (TickRecover /\ RecRetries) => \E c : Offer(c)
        BY DEF TickPrestart, RecRetries, QueueCmd, QueueClearingStop
      <4>. QED BY <1>2, <3>2, <4>1, SlotSteps
    <3>. QED BY <3>1, <3>2
  <2>. QED BY <2>1, <2>2, CallsSame, CallsOffer
<1>. QED BY <1>1, <1>2

LEMMA LinesStay ==
  ASSUME AskInv, [Next]_vars, ~BoardRead, ~Lose
  PROVE  Lines \subseteq Lines' \/ (Apply /\ Lines = Lines' \cup {Head(rx)})
<1>0. LiteTypeOK
  BY AskTypes
<1>1. CASE Apply
  BY <1>0, <1>1, ApplyEffect
<1>2. CASE Boots \/ Announce \/ Row \/ Block
  BY <1>0, <1>2, SpeakEffect
<1>3. CASE ~Apply /\ ~BoardStep
  <2>1. UNCHANGED rx
    BY <1>3, BoardFrame DEF Next, Take, vars, link
  <2>. QED BY <1>3, <2>1, LinesSame
<1>. QED BY <1>1, <1>2, <1>3 DEF BoardStep

\* The question the screen was entered with, or the adoption of a recovery,
\* is not yet acted upon: no start is under way, and the answer is on its way.
SyncTrue ==
    Orderly /\ app.sync =>
      /\ rec.phase = "Off" \/ (rec.phase = "Watch" /\ ~rec.due)
      /\ ~StartWay
      /\ app.syncMoved \/ /\ board.up /\ "reboot" \notin Calls
                          /\ "sigroam" \in Calls \/ Said("diag")

SyncInv == OrderInv /\ SyncTrue

LEMMA SyncInit == Init => SyncInv
<1>. SUFFICES ASSUME Init PROVE SyncInv
  OBVIOUS
<1>. QED BY OrderInit DEF SyncInv, SyncTrue, Init

\* Where the question begins, and where it is answered.
LEMMA SyncSteps ==
  ASSUME AskInv, [Next]_vars, app'.sync
  PROVE  /\ \/ EnterDash
            \/ TickRecover /\ RecAdopts
            \/ app.sync /\ (app.syncMoved => app'.syncMoved)
         /\ Apply /\ Head(rx).k = "diag" => app'.syncMoved
<1>0. app \in AppSet
  BY AskTypes
<1>9. Apply /\ Head(rx).k = "diag" => app'.syncMoved
  BY <1>0 DEF Apply, ApplySession, ApplyStatus, SessSeen, ApplyOther, AppSet
<1>. SUFFICES \/ EnterDash
              \/ TickRecover /\ RecAdopts
              \/ app.sync /\ (app.syncMoved => app'.syncMoved)
  BY <1>9
<1>1. CASE TickRecover /\ ~RecAdopts
  <2>1. CASE RecRetries \/ RecUp
    BY <1>0, <2>1 DEF RecRetries, RecUp, AppSet
  <2>2. CASE ~RecRetries /\ ~RecUp
    BY <1>1, <2>2 DEF TickRecover, Recover, RecRuns, RecWatches, RecChecks, RecNoDiag,
                      RecRetried, RecMisses, RecAsksAgain, RecRebootsAgain
  <2>. QED BY <1>1, <2>1, <2>2
<1>2. CASE TickPrestart \/ TickSeed \/ TickGps \/ TickScan \/ TickPostStop \/ TickPoi
           \/ TickQual \/ TickSync
  <2>1. app'.sync = app.sync /\ app'.syncMoved = app.syncMoved
    BY <1>0, <1>2 DEF TickPrestart, TickSeed, TickGps, TickScan, TickPostStop, TickPoi, TickQual,
                      TickSync, AppSet, link
  <2>. QED BY <2>1
<1>3. CASE OkDash
  <2>1. CASE OkCancels /\ ToggleStart
    BY <1>0, <2>1 DEF ToggleStart, AppSet
  <2>2. CASE OkCancels /\ ToggleStop
    BY <1>0, <2>2 DEF ToggleStop, AppSet
  <2>3. CASE OkReboots \/ (OkCancels /\ ToggleNot)
    BY <2>3 DEF OkReboots, ToggleNot
  <2>. QED BY <1>3, <2>1, <2>2, <2>3 DEF OkDash, OkCancels, Toggle
<1>4. CASE OkGps \/ LeaveDash
  BY <1>0, <1>4 DEF OkGps, LeaveDash
<1>6. CASE Time
  BY <1>0, <1>6 DEF Time, ScanTime, PrestartTime, RecTime, GpsTime, PoiTime, AppSet
<1>7. CASE Apply
  <2>1. CASE ApplySession(Head(rx))
    BY <1>0, <1>7, <2>1 DEF ApplySession, AppSet
  <2>2. CASE ApplyStatus(Head(rx)) \/ ApplyOther(Head(rx))
    BY <1>0, <2>2 DEF ApplyStatus, SessSeen, ApplyOther, AppSet
  <2>. QED BY <1>7, <2>1, <2>2 DEF Apply
<1>8. CASE Take \/ BoardStep \/ Lose \/ UNCHANGED vars
  BY <1>8 DEF Take, BoardStep, BoardRead, Boots, Announce, Row, Block, Lose, vars, gui
<1>. QED BY <1>1, <1>2, <1>3, <1>4, <1>6, <1>7, <1>8 DEF Next, Tick, User

\* The user does not act, nor does a window of the recovery end, in between.
LEMMA SyncWaits ==
  ASSUME SyncInv, Orderly, Passing, scene = "dash"
  PROVE  ~app.sync
<1>1. AskInv
  BY OrderFacts DEF SyncInv
<1>2. ~Due(2) /\ Calls = {NoCmd} /\ Lines = {}
  BY <1>1, QuietFacts
<1>3. ~ (app.sync /\ app.syncMoved)
  BY <1>2 DEF Due
<1>. QED BY <1>2, <1>3 DEF SyncInv, SyncTrue, Said, NoCmd

LEMMA SyncKept == SyncInv /\ [Next]_vars => SyncInv'
<1>. SUFFICES ASSUME SyncInv, [Next]_vars, Orderly', app'.sync
              PROVE  /\ rec'.phase = "Off" \/ (rec'.phase = "Watch" /\ ~rec'.due)
                     /\ ~StartWay'
                     /\ app'.syncMoved \/ /\ board'.up /\ "reboot" \notin Calls'
                                          /\ "sigroam" \in Calls' \/ Said("diag")'
  BY OrderKept DEF SyncInv, SyncTrue
<1>0. /\ AskInv /\ LiteTypeOK /\ StartFlags /\ AskTrue /\ Orderly /\ ~Lose
      /\ app \in AppSet /\ rec \in RecSet /\ scan \in ScanSet /\ board \in BoardSet
      /\ NoCmd \notin Command /\ scene \in {"menu", "dash"} /\ OrderInv
  BY OrderFacts, OrderlyKept DEF SyncInv
<1>1. CASE EnterDash
  <2>1. /\ UNCHANGED <<tx, rec, board>> /\ Offer("sigroam") /\ scene = "menu"
        /\ ~app'.prestart
    BY <1>0, <1>1 DEF EnterDash, AppSet
  <2>2. Calls = {NoCmd} /\ Free /\ board.up
    BY <1>0, <1>1, PatientSteps DEF User
  <2>3. Calls' \subseteq {NoCmd, "sigroam"} /\ "sigroam" \in Calls'
    BY <2>1, <2>2, CallsOffer
  <2>4. rec.phase = "Off"
    BY <1>0, <2>1 DEF StartFlags
  <2>. QED BY <1>0, <2>1, <2>2, <2>3, <2>4 DEF StartWay, NoCmd
<1>2. CASE TickRecover /\ RecAdopts
  <2>1. /\ rec'.phase = "Off" /\ app'.prestart = app.prestart /\ app'.syncMoved
        /\ UNCHANGED <<slot, tx>>
    BY <1>0, <1>2 DEF TickRecover, RecAdopts, RecOff, RecSet, AppSet
  <2>2. rec.phase = "Check"
    BY <1>2 DEF RecAdopts
  <2>3. ~app.prestart /\ "wardrive" \notin Calls
    BY <1>0, <2>2 DEF StartFlags, AskTrue, Asking
  <2>4. Calls' = Calls
    BY <2>1, CallsSame
  <2>. QED BY <2>1, <2>3, <2>4 DEF StartWay
<1>3. CASE app.sync /\ (app.syncMoved => app'.syncMoved)
  <2>1. /\ rec.phase = "Off" \/ (rec.phase = "Watch" /\ ~rec.due)
        /\ ~StartWay
        /\ app.syncMoved \/ /\ board.up /\ "reboot" \notin Calls
                            /\ "sigroam" \in Calls \/ Said("diag")
    BY <1>0, <1>3 DEF SyncInv, SyncTrue
  <2>2. ~OkDash /\ ~OkGps /\ ~LeaveDash /\ ~RecTime
    <3>1. OkDash \/ OkGps \/ LeaveDash => scene = "dash" /\ Passing
      BY <1>0, PatientSteps DEF OkDash, OkGps, LeaveDash, User
    <3>2. RecTime => scene = "dash" /\ Passing
      BY <1>0 DEF RecTime, StartFlags
    <3>. QED BY <1>0, <1>3, <3>1, <3>2, SyncWaits
  <2>3. ~ (TickRecover /\ (RecRetries \/ RecRebootsAgain)) /\ ~TickPrestart
    BY <2>1 DEF RecRetries, RecRebootsAgain, TickPrestart, PrestartRetry, PrestartEnds, StartWay
  <2>4. rec'.phase = "Off" \/ (rec'.phase = "Watch" /\ ~rec'.due)
    <3>1. CASE Apply
      <4>1. rec'.phase = rec.phase /\ rec'.due = rec.due
        BY <1>0, <3>1 DEF Apply, ApplySession, ApplyStatus, SessSeen, ApplyOther, RecSet
      <4>. QED BY <2>1, <4>1
    <3>2. CASE TickRecover
      <4>1. RecRuns \/ RecWatches
        BY <2>1, <3>2 DEF TickRecover, Recover, RecChecks, RecAdopts, RecRetries,
                          RecNoDiag, RecRetried, RecMisses, RecUp, RecAsksAgain, RecRebootsAgain
      <4>. QED BY <1>0, <4>1 DEF RecRuns, RecWatches, RecOff, RecSet
    <3>3. CASE ~Apply /\ ~TickRecover
      BY <2>1, <2>2, <3>3, RecSame
    <3>. QED BY <3>1, <3>2, <3>3
  <2>5. ~StartWay'
    BY <1>0, <2>1, <2>2, <2>3, OrderSends DEF StartWay
  <2>6. ASSUME ~app'.syncMoved
        PROVE  /\ board'.up /\ "reboot" \notin Calls'
               /\ "sigroam" \in Calls' \/ Said("diag")'
    <3>1. board.up /\ "reboot" \notin Calls /\ ("sigroam" \in Calls \/ Said("diag"))
      BY <1>3, <2>1, <2>6
    <3>2. "reboot" \notin Calls'
      BY <1>0, <2>2, <2>3, <3>1, CallsGrow DEF Command
    <3>3. board'.up
      <4>1. CASE BoardRead
        <5>1. Head(tx) # "reboot"
          BY <1>0, <3>1, <4>1, ReadEffect
        <5>. QED BY <1>0, <3>1, <4>1, <5>1, ReadEffect DEF BoardSet, Stream
      <4>2. CASE Boots \/ Announce \/ Row \/ Block
        BY <1>0, <3>1, <4>2, SpeakEffect DEF BoardSet
      <4>3. CASE ~BoardStep
        <5>1. UNCHANGED board
          BY <4>3, BoardFrame DEF Next, Take, Apply, Lose, vars, outside
        <5>. QED BY <3>1, <5>1
      <4>. QED BY <4>1, <4>2, <4>3 DEF BoardStep
    <3>4. "sigroam" \in Calls' \/ Said("diag")'
      <4>1. CASE BoardRead
        <5>1. Lines = {} /\ Calls = Calls' \cup {Head(tx)}
          BY <1>0, <4>1, ReadEffect
        <5>2. Head(tx) = "sigroam" => Said("diag")'
          BY <1>0, <3>1, <4>1, ReadEffect, LineFields DEF Said
        <5>. QED BY <3>1, <5>1, <5>2 DEF Said
      <4>2. CASE ~BoardRead
        <5>1. "sigroam" \in Calls => "sigroam" \in Calls'
          BY <1>0, <4>2, CallsStay DEF Command
        <5>2. Said("diag") => Said("diag")'
          <6>1. Apply => Head(rx).k # "diag"
            BY <1>0, <2>6, SyncSteps
          <6>. QED BY <1>0, <4>2, <6>1, LinesStay DEF Said
        <5>. QED BY <3>1, <5>1, <5>2
      <4>. QED BY <4>1, <4>2
    <3>. QED BY <3>2, <3>3, <3>4
  <2>. QED BY <2>4, <2>5, <2>6
<1>. QED BY <1>0, <1>1, <1>2, <1>3, SyncSteps

\* What a line does to the session, and the pending command learns of it.
LEMMA SessionLines ==
  ASSUME AskInv, Apply
  PROVE  /\ scan'.pending = scan.pending /\ scan'.isStart = scan.isStart
         /\ scan.revRose => scan'.revRose
         /\ scan.pending /\ model'.session # model.session => scan'.revRose
         /\ CASE Head(rx).k = "started" -> model'.session = "Running"
              [] Head(rx).k = "wifiStop" -> model'.session = "Stopped"
              [] Head(rx).k = "gpsStop" ->
                   model'.session = IF model.session = "Running" THEN "Stopped" ELSE model.session
              [] Head(rx).k = "row" ->
                   model'.session = IF model.session = "Idle" THEN "Running" ELSE model.session
              [] OTHER -> model'.session = model.session
<1>. DEFINE l == Head(rx)
<1>0. model \in ModelSet /\ scan \in ScanSet
  BY AskTypes
<1>1. model.session \in Session
  BY <1>0 DEF ModelSet
<1>2. ASSUME NEW s, SessionTo(s)
      PROVE  /\ scan'.pending = scan.pending /\ scan'.isStart = scan.isStart
             /\ scan.revRose => scan'.revRose
             /\ scan.pending /\ s # model.session => scan'.revRose
  BY <1>0, <1>2 DEF SessionTo, ScanSet
<1>3. Apply
  OBVIOUS
<1>. HIDE DEF l
<1>4. CASE l.k = "started"
  <2>1. SessionStarts
    BY <1>3, <1>4 DEF Apply, ApplySession, ApplyStatus, SessSeen, ApplyOther, l
  <2>2. model'.session = "Running"
    BY <1>0, <2>1 DEF SessionStarts, ModelSet
  <2>3. SessionTo("Running")
    BY <2>1 DEF SessionStarts
  <2>. QED BY <1>2, <1>4, <2>2, <2>3 DEF l
<1>5. CASE l.k \in {"wifiStop", "gpsStop"}
  <2>1. SessionStops(l.k)
    BY <1>3, <1>5 DEF Apply, ApplySession, ApplyStatus, SessSeen, ApplyOther, l
  <2>. DEFINE s == IF l.k = "wifiStop" \/ model.session = "Running"
                   THEN Stopped(model.session, "generic") ELSE model.session
  <2>2. s = IF l.k = "wifiStop" \/ model.session = "Running" THEN "Stopped" ELSE model.session
    BY <1>1 DEF Stopped, Session
  <2>3. model' = [model EXCEPT !.session = s] /\ SessionTo(s)
    BY <2>1 DEF SessionStops
  <2>. HIDE DEF s
  <2>4. model'.session = s
    BY <1>0, <2>3 DEF ModelSet
  <2>. QED BY <1>2, <1>5, <2>2, <2>3, <2>4 DEF l
<1>6. CASE l.k = "row"
  <2>. DEFINE s == RowSeen(model.session, "generic")
  <2>1. s = IF model.session = "Idle" THEN "Running" ELSE model.session
    BY DEF RowSeen, Started
  <2>2. model' = [CountRow(model) EXCEPT !.session = s] /\ SessionTo(s)
    BY <1>3, <1>6 DEF Apply, ApplySession, ApplyStatus, SessSeen, ApplyOther, l
  <2>. HIDE DEF s
  <2>3. model'.session = s
    BY <1>0, <2>2 DEF ModelSet, CountRow
  <2>. QED BY <1>2, <1>6, <2>1, <2>2, <2>3 DEF l
<1>7. CASE l.k \notin {"started", "wifiStop", "gpsStop", "row"}
  <2>1. ApplyStatus(l) \/ ApplyOther(l)
    BY <1>3, <1>7 DEF Apply, ApplySession, l
  <2>2. /\ model'.session = model.session /\ scan'.revRose = scan.revRose
        /\ scan'.pending = scan.pending /\ scan'.isStart = scan.isStart
    BY <1>0, <2>1 DEF ApplyStatus, SessSeen, ApplyOther, ModelSet, ScanSet
  <2>. QED BY <1>7, <2>2 DEF l
<1>. QED BY <1>4, <1>5, <1>6, <1>7

\* Beside the lines, only an adoption changes the session.
LEMMA SessionSteps ==
  ASSUME AskInv, [Next]_vars, ~Apply
  PROVE  \/ UNCHANGED model
         \/ EnterDash /\ model' = [model EXCEPT !.sessMoved = FALSE]
         \/ TickSeed /\ SeedDue /\ model' = [model EXCEPT !.ap = model.sessAp]
         \/ /\ TickSync /\ app.sync /\ ~scan.pending /\ ~scan'.pending
            /\ SessionStarts /\ model.session # "Running"
<1>0. scan \in ScanSet
  BY AskTypes
<1>1. CASE TickSync /\ SyncAct = "Adopt"
  <2>1. app.sync /\ SessionStarts
    BY <1>1 DEF TickSync, At, Due
  <2>2. ~scan.pending /\ model.session # "Running"
    BY <1>1 DEF SyncAct, PeerSync
  <2>3. ~scan'.pending
    BY <1>0, <2>1, <2>2 DEF SessionStarts, SessionTo, ScanSet
  <2>. QED BY <1>1, <2>1, <2>2, <2>3
<1>2. CASE (TickSync /\ SyncAct # "Adopt") \/ TickRecover \/ TickGps \/ TickScan \/ TickPostStop
           \/ TickPrestart \/ TickPoi \/ TickQual
  BY <1>2 DEF TickSync, TickRecover, TickGps, TickScan, TickPostStop, TickPrestart, TickPoi,
              TickQual
<1>3. CASE TickSeed
  <2>1. SeedDue
    BY <1>3 DEF TickSeed, At, Due
  <2>2. model' = [model EXCEPT !.ap = model.sessAp]
    BY <1>3 DEF TickSeed
  <2>. QED BY <1>3, <2>1, <2>2
<1>4. CASE User
  BY <1>4 DEF User, OkDash, OkGps, EnterDash, LeaveDash
<1>5. CASE Time \/ Take \/ BoardStep \/ Lose \/ UNCHANGED vars
  BY <1>5, BoardFrame DEF Take, BoardStep, BoardRead, Boots, Announce, Row, Block, Lose, vars
<1>. QED BY <1>1, <1>2, <1>3, <1>4, <1>5 DEF Next, Tick

\* A start that is pending: it was, or the prestart has sent it.
LEMMA PendingStarts ==
  ASSUME AskInv, [Next]_vars, scan'.pending, scan'.isStart
  PROVE  \/ scan.pending /\ scan.isStart /\ (scan.revRose => scan'.revRose)
         \/ TickPrestart /\ PrestartEnds
<1>0. scan \in ScanSet
  BY AskTypes
<1>1. CASE Apply
  BY <1>1, SessionLines
<1>2. CASE TickRecover
  <2>1. ~RecRetries
    BY DEF RecRetries, QueueCmd, Queued
  <2>2. ~RecAdopts /\ ~RecUp
    BY <1>0 DEF RecAdopts, RecUp, ScanSet
  <2>. QED BY <1>2, <2>1, <2>2 DEF TickRecover, Recover, RecRuns, RecWatches, RecChecks, RecNoDiag,
                      RecRetried, RecMisses, RecAsksAgain, RecRebootsAgain
<1>3. CASE TickSync
  BY <1>0, <1>3 DEF TickSync, SessionStarts, SessionTo, ScanSet
<1>4. CASE TickScan
  BY <1>0, <1>4 DEF TickScan, ScanEnds, ScanSet
<1>5. CASE TickPrestart
  <2>1. ~QueueClearingStop
    BY DEF QueueClearingStop, Queued
  <2>. QED BY <1>5, <2>1 DEF TickPrestart
<1>6. CASE TickSeed \/ TickGps \/ TickPostStop \/ TickPoi \/ TickQual
  BY <1>6 DEF TickSeed, TickGps, TickPostStop, TickPoi, TickQual
<1>7. CASE OkDash
  <2>1. UNCHANGED scan \/ QueueCmd(FALSE) \/ QueueClearingStop
    BY <1>7 DEF OkDash, OkReboots, OkCancels, Toggle, ToggleStop, ToggleStart, ToggleNot
  <2>. QED BY <2>1 DEF QueueCmd, QueueClearingStop, Queued
<1>8. CASE OkGps \/ EnterDash \/ LeaveDash
  BY <1>8 DEF OkGps, EnterDash, LeaveDash
<1>9. CASE Time
  BY <1>0, <1>9 DEF Time, ScanTime, PrestartTime, RecTime, GpsTime, PoiTime, ScanSet
<1>10. CASE Take \/ BoardStep \/ Lose \/ UNCHANGED vars
  BY <1>10 DEF Take, BoardStep, BoardRead, Boots, Announce, Row, Block, Lose, vars, gui
<1>. QED BY <1>1, <1>2, <1>3, <1>4, <1>5, <1>6, <1>7, <1>8, <1>9, <1>10 DEF Next, Tick, User

\* While a start is on its way to a board that does not scan, a session that
\* runs is about to be told of the stop; and a start that is pending has seen
\* the session begin, or the stop before it is still to be told.
RunsTrue ==
    Orderly =>
      /\ StartWay /\ board.st = 0 /\ Scanning => Said("wifiStop")
      /\ scan.pending /\ scan.isStart /\ Scanning => scan.revRose \/ Said("wifiStop")

RunsInv == SyncInv /\ RunsTrue

LEMMA RunsInit == Init => RunsInv
<1>. SUFFICES ASSUME Init PROVE RunsInv
  OBVIOUS
<1>1. ~Scanning
  BY DEF Init, Scanning
<1>. QED BY <1>1, SyncInit DEF RunsInv, RunsTrue

LEMMA RunsFacts ==
  ASSUME RunsInv
  PROVE  /\ SyncInv /\ OrderInv /\ AskInv
         /\ Orderly =>
              /\ StartWay /\ board.st = 0 /\ Scanning => Said("wifiStop")
              /\ scan.pending /\ scan.isStart /\ Scanning => scan.revRose \/ Said("wifiStop")
  BY OrderFacts DEF RunsInv, SyncInv, RunsTrue

\* What OK on the scan tab does with a session that runs is no start.
LEMMA StartIdle ==
  ASSUME RunsInv, Orderly, Passing, OkAct = "SendStart"
  PROVE  ~Scanning
<1>0. AskInv /\ scan \in ScanSet
  BY RunsFacts, AskTypes
<1>1. ~Said("wifiStop")
  BY <1>0, PatientSteps DEF Said
<1>2. scan.pending /\ scan.isStart /\ Scanning => scan.revRose
  BY <1>1, RunsFacts
<1>3. SUFFICES ASSUME Scanning PROVE FALSE
  OBVIOUS
<1>4. Ui \in {"Idle", "StartFailed"}
  BY DEF OkAct, RetryUnconfirmed, OnOkGated, OnOk
<1>5. ~ (scan.pending /\ ~scan.isStart /\ Confirmed(scan, model.session))
  BY <1>3 DEF Confirmed, Scanning
<1>6. scan.pending /\ scan.isStart => Confirmed(scan, model.session)
  BY <1>2, <1>3 DEF Confirmed, Scanning
<1>. QED BY <1>0, <1>3, <1>4, <1>5, <1>6 DEF Ui, Eval, Scanning, ScanSet

\* A stop that is told is told until it is read.
LEMMA StopTold ==
  ASSUME AskInv, [Next]_vars, ~Lose, NEW k, Said(k), ~ (Apply /\ Head(rx).k = k)
  PROVE  Said(k)' /\ ~BoardRead
<1>1. ~BoardRead
  BY AskTypes, ReadEffect DEF Said
<1>. QED BY <1>1, LinesStay DEF Said

LEMMA RunsKept == RunsInv /\ [Next]_vars => RunsInv'
<1>. SUFFICES ASSUME RunsInv, [Next]_vars, Orderly', Scanning'
              PROVE  /\ StartWay' /\ board'.st = 0 => Said("wifiStop")'
                     /\ scan'.pending /\ scan'.isStart => scan'.revRose \/ Said("wifiStop")'
  BY SyncKept DEF RunsInv, RunsTrue
<1>0. /\ AskInv /\ SyncInv /\ OrderInv /\ LinesTrue /\ Orderly /\ ~Lose
      /\ scan \in ScanSet /\ board \in BoardSet /\ model \in ModelSet /\ app \in AppSet
      /\ LiteTypeOK
  BY RunsFacts, OrderFacts, OrderlyKept
<1>1. /\ StartWay /\ board.st = 0 /\ Scanning => Said("wifiStop")
      /\ scan.pending /\ scan.isStart /\ Scanning => scan.revRose \/ Said("wifiStop")
  BY <1>0, RunsFacts
<1>2. model'.session = "Running"
  BY DEF Scanning
<1>3. Said("wifiStop") => Said("wifiStop")'
  <2>1. ~ (Apply /\ Head(rx).k = "wifiStop")
    BY <1>0, <1>2, SessionLines
  <2>. QED BY <1>0, <2>1, StopTold
<1>4. ~Scanning =>
        \/ Apply /\ Head(rx).k \in {"started", "row"}
           /\ (scan.pending => scan'.revRose)
        \/ app.sync /\ ~scan.pending /\ ~scan'.pending
  <2>. SUFFICES ASSUME model.session # "Running"
                PROVE  \/ Apply /\ Head(rx).k \in {"started", "row"}
                          /\ (scan.pending => scan'.revRose)
                       \/ app.sync /\ ~scan.pending /\ ~scan'.pending
    BY DEF Scanning
  <2>1. CASE Apply
    BY <1>0, <1>2, <2>1, SessionLines
  <2>2. CASE ~Apply
    <3>1. model'.session = model.session \/ (app.sync /\ ~scan.pending /\ ~scan'.pending)
      BY <1>0, <2>2, SessionSteps DEF ModelSet
    <3>. QED BY <1>2, <3>1
  <2>. QED BY <2>1, <2>2
<1>5. ASSUME scan'.pending, scan'.isStart PROVE scan'.revRose \/ Said("wifiStop")'
  <2>1. CASE TickPrestart /\ PrestartEnds
    <3>1. UNCHANGED <<model, rx>> /\ app.prestart
      BY <2>1 DEF TickPrestart, PrestartEnds
    <3>2. Scanning
      BY <1>2, <3>1 DEF Scanning
    <3>3. board.st = 0
      BY <1>0, <2>1 DEF OrderInv, OrderTrue, PrestartEnds
    <3>. QED BY <1>1, <1>3, <3>1, <3>2, <3>3 DEF StartWay
  <2>2. CASE scan.pending /\ scan.isStart /\ (scan.revRose => scan'.revRose)
    BY <1>1, <1>3, <1>4, <2>2
  <2>. QED BY <1>0, <1>5, <2>1, <2>2, PendingStarts
<1>6. ASSUME StartWay', board'.st = 0 PROVE Said("wifiStop")'
  <2>1. StartWay \/ OkDash \/ (TickRecover /\ RecRetries)
    BY <1>0, <1>6, OrderSends DEF StartWay, PrestartEnds
  <2>2. Scanning
    <3>. SUFFICES ASSUME ~Scanning PROVE FALSE
      OBVIOUS
    <3>1. CASE Apply /\ Head(rx).k \in {"started", "row"}
      <4>1. board.st = 1 /\ UNCHANGED board
        BY <1>0, <3>1, ApplyEffect DEF LinesTrue, outside
      <4>. QED BY <1>6, <4>1
    <3>2. CASE app.sync
      <4>1. ~StartWay /\ rec.phase # "Check"
        BY <1>0, <3>2 DEF SyncInv, SyncTrue
      <4>2. ~OkDash
        BY <1>0, <3>2, PatientSteps, SyncWaits DEF OkDash, User
      <4>. QED BY <2>1, <4>1, <4>2 DEF RecRetries
    <3>. QED BY <1>4, <3>1, <3>2
  <2>3. CASE StartWay /\ board.st = 0
    BY <1>1, <1>3, <2>2, <2>3
  <2>4. CASE StartWay /\ board.st # 0
    <3>1. BoardRead /\ board.st = 1
      BY <1>0, <1>6, <2>4, BoardSteps DEF BoardSet
    <3>2. StopsAhead
      BY <1>0, <2>4, <3>1 DEF OrderInv, OrderTrue, StartWay
    <3>3. Head(tx) \in {"stopscan", "gpsdata"} /\ Head(tx) \in Calls
      BY <1>0, <3>1, <3>2, AheadSteps, ReadEffect
    <3>4. ~OnGps
      BY <1>0, <2>4, OrderFacts
    <3>5. Head(tx) = "stopscan" /\ board.up /\ ~board.gps
      BY <1>0, <3>1, <3>3, <3>4 DEF OnGps, OrderInv, OrderTrue, LinesTrue
    <3>6. Lines' = {Line("wifiStop")}
      BY <1>0, <3>1, <3>5, ReadEffect
    <3>. QED BY <3>6, LineFields DEF Said
  <2>5. CASE ~StartWay
    <3>1. OkDash /\ app'.prestart /\ ~app.prestart
      BY <1>0, <1>6, <2>1, <2>2, <2>5, OrderSends DEF StartWay, PrestartEnds, RecRetries
    <3>2. Passing
      BY <1>0, <3>1, PatientSteps DEF User
    <3>3. ~ToggleStop
      BY <1>0, <3>1 DEF ToggleStop, AppSet
    <3>4. ToggleStart
      BY <3>1, <3>3 DEF OkDash, OkReboots, OkCancels, Toggle, ToggleNot
    <3>5. OkAct = "SendStart"
      BY <3>4 DEF ToggleStart
    <3>. QED BY <1>0, <2>2, <3>2, <3>5, StartIdle
  <2>. QED BY <2>3, <2>4, <2>5
<1>. QED BY <1>5, <1>6

-----------------------------------------------------------------------------
(* The access points counted, by the board and by the screen.              *)

\* What a line does to the counts.
LEMMA CountLines ==
  ASSUME AskInv, Apply
  PROVE  /\ model'.ap = IF Head(rx).k = "started" /\ model.session = "Stopped" THEN 0
                        ELSE IF Head(rx).k = "row" /\ model.ap <= MaxRows THEN model.ap + 1
                        ELSE model.ap
         /\ model'.sessMoved = (Head(rx).k = "sess" \/ model.sessMoved)
         /\ model'.sessAp = IF Head(rx).k = "sess" THEN Head(rx).n ELSE model.sessAp
         /\ model'.sessOn = IF Head(rx).k = "sess" THEN Head(rx).on ELSE model.sessOn
<1>. DEFINE l == Head(rx)
<1>0. model \in ModelSet /\ l \in LineSet /\ MaxRows \in Nat
  BY AskTypes, ApplyEffect, LiteDashAssumption
<1>1. Apply
  OBVIOUS
<1>. HIDE DEF l
<1>2. CASE l.k = "started"
  <2>1. SessionStarts
    BY <1>1, <1>2 DEF Apply, ApplySession, ApplyStatus, SessSeen, ApplyOther, l
  <2>2. /\ model'.ap = IF model.session = "Stopped" THEN 0 ELSE model.ap
        /\ model'.sessMoved = model.sessMoved /\ model'.sessAp = model.sessAp
        /\ model'.sessOn = model.sessOn
    BY <1>0, <2>1 DEF SessionStarts, ModelSet
  <2>. QED BY <1>0, <1>2, <2>2 DEF l, ModelSet
<1>3. CASE l.k \in {"wifiStop", "gpsStop"}
  <2>1. SessionStops(l.k)
    BY <1>1, <1>3 DEF Apply, ApplySession, ApplyStatus, SessSeen, ApplyOther, l
  <2>. DEFINE s == IF l.k = "wifiStop" \/ model.session = "Running"
                   THEN Stopped(model.session, "generic") ELSE model.session
  <2>2. model' = [model EXCEPT !.session = s]
    BY <2>1 DEF SessionStops
  <2>. HIDE DEF s
  <2>3. /\ model'.ap = model.ap /\ model'.sessMoved = model.sessMoved
        /\ model'.sessAp = model.sessAp /\ model'.sessOn = model.sessOn
    BY <1>0, <2>2 DEF ModelSet
  <2>. QED BY <1>0, <1>3, <2>3 DEF l, ModelSet
<1>4. CASE l.k = "row"
  <2>. DEFINE s == RowSeen(model.session, "generic")
  <2>1. model' = [CountRow(model) EXCEPT !.session = s]
    BY <1>1, <1>4 DEF Apply, ApplySession, ApplyStatus, SessSeen, ApplyOther, l
  <2>. HIDE DEF s
  <2>2. /\ model'.ap = IF model.ap > MaxRows THEN model.ap ELSE model.ap + 1
        /\ model'.sessMoved = model.sessMoved
        /\ model'.sessAp = model.sessAp /\ model'.sessOn = model.sessOn
    BY <1>0, <2>1 DEF ModelSet, CountRow
  <2>. QED BY <1>0, <1>4, <2>2 DEF l, ModelSet
<1>5. CASE l.k = "sess"
  <2>1. model' = SessSeen(model, l)
    BY <1>1, <1>5 DEF Apply, ApplySession, ApplyStatus, ApplyOther, l
  <2>2. model'.ap = model.ap /\ model'.sessMoved /\ model'.sessAp = l.n /\ model'.sessOn = l.on
    BY <1>0, <2>1 DEF ModelSet, SessSeen
  <2>3. model'.sessMoved = TRUE
    BY <1>0, <2>1 DEF ModelSet, SessSeen
  <2>. QED BY <1>0, <1>5, <2>2, <2>3 DEF l, ModelSet
<1>6. CASE l.k \notin {"started", "wifiStop", "gpsStop", "row", "sess"}
  <2>1. UNCHANGED model \/ \E st \in {0, 1} : model' = [model EXCEPT !.diagSt = st]
                        \/ model' = [model EXCEPT !.blocks = TRUE]
    BY <1>1, <1>6 DEF Apply, ApplySession, ApplyStatus, SessSeen, ApplyOther, l
  <2>2. /\ model'.ap = model.ap /\ model'.sessMoved = model.sessMoved
        /\ model'.sessAp = model.sessAp /\ model'.sessOn = model.sessOn
    BY <1>0, <2>1 DEF ModelSet
  <2>. QED BY <1>0, <1>6, <2>2 DEF l, ModelSet
<1>. QED BY <1>2, <1>3, <1>4, <1>5, <1>6

\* Beside the lines: an adoption, the totals taken over, and the question of
\* a screen that is entered.
LEMMA CountSteps ==
  ASSUME AskInv, [Next]_vars, ~Apply
  PROVE  /\ model'.sessAp = model.sessAp /\ model'.sessOn = model.sessOn
         /\ model'.sessMoved => model.sessMoved
         /\ \/ model'.ap = model.ap /\ model'.session = model.session
            \/ /\ SeedDue /\ model'.ap = model.sessAp /\ model'.session = model.session
            \/ /\ app.sync /\ model.session # "Running" /\ model'.session = "Running"
               /\ model'.ap = IF model.session = "Stopped" THEN 0 ELSE model.ap
<1>0. model \in ModelSet
  BY AskTypes
<1>1. CASE UNCHANGED model
  BY <1>1
<1>2. CASE model' = [model EXCEPT !.sessMoved = FALSE]
  BY <1>0, <1>2 DEF ModelSet
<1>3. CASE SeedDue /\ model' = [model EXCEPT !.ap = model.sessAp]
  BY <1>0, <1>3 DEF ModelSet
<1>4. CASE app.sync /\ SessionStarts /\ model.session # "Running"
  BY <1>0, <1>4 DEF ModelSet, SessionStarts
<1>. QED BY <1>1, <1>2, <1>3, <1>4, SessionSteps

\* What is on the line and what the board counts, step by step.
LEMMA BoardCounts ==
  ASSUME AskInv, LiteTypeOK', [Next]_vars, ~Lose, ~BoardRead
  PROVE  \/ /\ Row /\ Rows' = Rows + 1 /\ board'.ap = board.ap + 1
            /\ board'.st = board.st /\ board.st = 1 /\ ~board.silent /\ board'.silent = board.silent
            /\ Lines' = Lines \cup {Line("row")}
         \/ /\ Apply /\ UNCHANGED board
            /\ Rows' = IF Head(rx).k = "row" THEN Rows - 1 ELSE Rows
         \/ /\ Rows' = Rows /\ board'.ap = board.ap /\ board'.st = board.st
            /\ board'.silent => board.silent
<1>0. LiteTypeOK /\ board \in BoardSet
  BY AskTypes
<1>1. CASE Row
  <2>1. Rows' = Rows + 1
    BY <1>0, <1>1, RowsSteps
  <2>2. /\ board' = [board EXCEPT !.ap = @ + 1] /\ board.st = 1 /\ ~board.silent
        /\ Say(<<Line("row")>>)
    BY <1>1 DEF Row
  <2>3. Lines' = Lines \cup {Line("row")}
    BY <1>0, <2>2, LinesOf DEF LineKind
  <2>4. board'.ap = board.ap + 1 /\ board'.st = board.st /\ board'.silent = board.silent
    BY <1>0, <2>2 DEF BoardSet
  <2>. QED BY <1>1, <2>1, <2>2, <2>3, <2>4
<1>2. CASE Apply
  BY <1>0, <1>2, RowsSteps, ApplyEffect DEF outside
<1>3. CASE Boots \/ Announce \/ Block
  <2>1. Rows' = Rows
    BY <1>0, <1>3, RowsSteps
  <2>2. board'.ap = board.ap /\ board'.st = board.st /\ (board'.silent => board.silent)
    BY <1>0, <1>3 DEF Boots, Announce, Block, BoardSet, outside
  <2>. QED BY <2>1, <2>2
<1>4. CASE ~Apply /\ ~BoardStep
  <2>1. UNCHANGED <<rx, board>>
    BY <1>4, BoardFrame DEF Next, Take, vars, link, outside
  <2>. QED BY <1>0, <2>1, RowsSteps
<1>. QED BY <1>1, <1>2, <1>3, <1>4 DEF BoardStep

\* And when it reads.
LEMMA ReadCounts ==
  ASSUME AskInv, LiteTypeOK', BoardRead
  PROVE  /\ Rows' = 0 /\ Lines = {} /\ UNCHANGED <<gui, model, slot>>
         /\ \/ UNCHANGED board
            \/ /\ Head(tx) = "wardrive" /\ board.st = 0 /\ "wardrive" \in Calls
               /\ board'.ap = 0 /\ board'.st = 1
            \/ board'.st = 0 /\ ~board'.silent
<1>0. LiteTypeOK /\ board \in BoardSet
  BY AskTypes
<1>1. Rows' = 0 /\ Lines = {} /\ UNCHANGED <<gui, model, slot>> /\ Head(tx) \in Calls
  BY <1>0, RowsSteps, ReadEffect
<1>. QED BY <1>0, <1>1, ReadBoard

\* The rows on the way are of this scan, and a session not begun has no count.
CountBase ==
    Orderly =>
      /\ board.silent => board.ap = 0
      /\ board.st = 1 => Rows <= board.ap
      /\ model.session = "Idle" => model.ap = 0
      /\ model.session = "Idle" /\ board.st = 1 /\ board.ap > 0 => Said("row")

BaseInv == RunsInv /\ CountBase

LEMMA BaseInit == Init => BaseInv
<1>. SUFFICES ASSUME Init PROVE BaseInv
  OBVIOUS
<1>1. RunsInv /\ LiteTypeOK
  BY RunsInit, TypeInit
<1>2. ~board.silent /\ board.ap = 0 /\ model.ap = 0 /\ rx = <<>>
  BY DEF Init
<1>3. Rows = 0
  BY <1>1, <1>2, RowsNat, NoLines DEF Said
<1>. QED BY <1>1, <1>2, <1>3 DEF BaseInv, CountBase

LEMMA BaseKept == BaseInv /\ [Next]_vars => BaseInv'
<1>. SUFFICES ASSUME BaseInv, [Next]_vars, Orderly'
              PROVE  /\ board'.silent => board'.ap = 0
                     /\ board'.st = 1 => Rows' <= board'.ap
                     /\ model'.session = "Idle" => model'.ap = 0
                     /\ model'.session = "Idle" /\ board'.st = 1 /\ board'.ap > 0 => Said("row")'
  BY RunsKept DEF BaseInv, CountBase
<1>0. /\ AskInv /\ LiteTypeOK /\ LiteTypeOK' /\ LinesTrue /\ Orderly /\ ~Lose
      /\ board \in BoardSet /\ model \in ModelSet /\ MaxRows \in Nat /\ Rows \in Nat
  <2>1. AskInv /\ LiteTypeOK
    BY RunsFacts, AskTypes DEF BaseInv
  <2>. QED BY <2>1, AskTypes, OrderlyKept, TypeKept, RowsNat, LiteDashAssumption
<1>1. /\ board.silent => board.ap = 0
      /\ board.st = 1 => Rows <= board.ap
      /\ model.session = "Idle" => model.ap = 0
      /\ model.session = "Idle" /\ board.st = 1 /\ board.ap > 0 => Said("row")
  BY <1>0 DEF BaseInv, CountBase
<1>2. board.st \in {0, 1} /\ board.ap \in Nat
  BY <1>0 DEF BoardSet
<1>3. model'.session = "Idle" => /\ model.session = "Idle" /\ model'.ap = model.ap
                                 /\ ~ (Apply /\ Head(rx).k = "row")
  <2>1. CASE Apply
    <3>1. model'.session = "Idle" => model.session = "Idle" /\ Head(rx).k # "row"
      BY <1>0, <2>1, SessionLines DEF ModelSet
    <3>2. Head(rx).k # "row" /\ model.session # "Stopped" => model'.ap = model.ap
      BY <1>0, <2>1, CountLines
    <3>. QED BY <3>1, <3>2
  <2>2. CASE ~Apply
    <3>1. ~ (SeedDue /\ model.session = "Idle")
      BY DEF SeedDue
    <3>. QED BY <1>0, <2>2, <3>1, CountSteps
  <2>. QED BY <2>1, <2>2
<1>4. CASE BoardRead
  <2>1. /\ Rows' = 0 /\ Lines = {} /\ UNCHANGED <<gui, model, slot>>
        /\ \/ UNCHANGED board
           \/ /\ Head(tx) = "wardrive" /\ board.st = 0 /\ "wardrive" \in Calls
              /\ board'.ap = 0 /\ board'.st = 1
           \/ board'.st = 0 /\ ~board'.silent
    BY <1>0, <1>4, ReadCounts
  <2>2. ~Said("row")
    BY <2>1 DEF Said
  <2>. QED BY <1>1, <1>2, <2>1, <2>2
<1>5. CASE ~BoardRead
  <2>1. \/ /\ Row /\ Rows' = Rows + 1 /\ board'.ap = board.ap + 1
           /\ board'.st = board.st /\ board.st = 1 /\ ~board.silent
           /\ board'.silent = board.silent /\ Lines' = Lines \cup {Line("row")}
        \/ /\ Apply /\ UNCHANGED board
           /\ Rows' = IF Head(rx).k = "row" THEN Rows - 1 ELSE Rows
        \/ /\ Rows' = Rows /\ board'.ap = board.ap /\ board'.st = board.st
           /\ board'.silent => board.silent
    BY <1>0, <1>5, BoardCounts
  <2>2. ASSUME Said("row"), model'.session = "Idle" PROVE Said("row")'
    BY <1>0, <1>3, <2>2, StopTold
  <2>3. Lines' = Lines \cup {Line("row")} => Said("row")'
    BY LineFields DEF Said
  <2>. QED BY <1>0, <1>1, <1>2, <1>3, <2>1, <2>2, <2>3
<1>. QED BY <1>4, <1>5

-----------------------------------------------------------------------------
(* The totals of a status that says the board scans.                       *)

\* They are with the app, or on their way to it.
Stale == model.sessOn /\ model.sessAp > 0
Seen == Stale \/ \E l \in Lines : l.k = "sess" /\ l.on /\ l.n > 0

\* Nothing but a stop and its confirmation is under way.
Rest == /\ rec.phase = "Off" /\ ~app.sync /\ scene = "dash" /\ board.up
        /\ ~ (scan.pending /\ scan.isStart)

\* There is one stop on its way, in front of everything else.
OneStop == \/ slot = "stopscan" /\ tx = <<>>
           \/ /\ tx # <<>> /\ Head(tx) = "stopscan" /\ slot # "stopscan"
              /\ \A i \in 2..Len(tx) : tx[i] # "stopscan"

StopSaid == Said("wifiStop") \/ Said("gpsStop")

\* The user stops the scan.
UserStop == /\ Rest /\ scan.pending
            /\ Calls \subseteq {NoCmd, "sigroam", "stopscan"}
            /\ "stopscan" \in Calls => OneStop /\ ~StopSaid

\* The scan is stopped, and the status that says so is asked for.
Cleans == /\ board.st = 0 /\ Rest /\ Calls \subseteq {NoCmd, "sigroam"}
          /\ \/ scan.pending /\ scan.revRose /\ model.session = "Stopped"
             \/ "sigroam" \in Calls
             \/ Said("sess")

\* Totals of a scan that is over are replaced before a start is sent.
SeenTrue ==
    Orderly =>
      /\ \A l \in Lines : l.k = "sess" /\ l.on /\ l.n > 0 => Scanning
      /\ Seen => ~StartWay /\ ~OnGps
      /\ Seen /\ ~Scanning => Cleans
      /\ Seen /\ Scanning /\ ("stopscan" \in Calls \/ StopSaid) => UserStop

\* What the screen counts, or is about to count, the board has found.
CountTrue ==
    Orderly =>
      /\ Scanning /\ board.st = 1 => model.ap + Rows <= board.ap
      /\ board.st = 1 /\ model.sessOn => model.sessAp + Rows <= board.ap
      /\ \A l \in Lines : l.k = "sess" /\ l.on => l.n + Rows <= board.ap

CountInv == BaseInv /\ SeenTrue /\ CountTrue

LEMMA CountInit == Init => CountInv
<1>. SUFFICES ASSUME Init PROVE CountInv
  OBVIOUS
<1>1. BaseInv /\ Lines = {}
  BY BaseInit, NoLines DEF Init
<1>2. /\ ~Scanning /\ rx = <<>> /\ board.ap = 0
      /\ model.sessOn => model.sessAp = 0
  <2>1. PICK st \in {0, board.st}, seen \in BOOLEAN, n \in {0, MaxRows} :
          /\ n # 0 => seen /\ st = 0
          /\ model = [session |-> "Idle", diagSt |-> st, ap |-> 0, blocks |-> FALSE,
                      sessSeen |-> seen, sessMoved |-> FALSE, sessAp |-> n,
                      sessOn |-> seen /\ st = 1]
    BY Zenon DEF Init
  <2>. DEFINE on == seen /\ st = 1
  <2>2. on => n = 0
    BY <2>1
  <2>3. model = [session |-> "Idle", diagSt |-> st, ap |-> 0, blocks |-> FALSE,
                 sessSeen |-> seen, sessMoved |-> FALSE, sessAp |-> n, sessOn |-> on]
    BY <2>1, Zenon
  <2>. HIDE DEF on
  <2>4. model.session = "Idle" /\ model.sessAp = n /\ model.sessOn = on
    BY <2>3
  <2>. QED BY <2>2, <2>4 DEF Init, Scanning
<1>3. Rows = 0
  <2>1. LiteTypeOK
    BY TypeInit
  <2>2. ~Said("row")
    BY <1>1 DEF Said
  <2>. QED BY <2>1, <2>2, RowsNat
<1>4. ~Stale
  BY <1>2 DEF Stale
<1>. QED BY <1>1, <1>2, <1>3, <1>4 DEF CountInv, SeenTrue, CountTrue, Seen

LEMMA CountFacts ==
  ASSUME CountInv
  PROVE  /\ BaseInv /\ RunsInv /\ SyncInv /\ OrderInv /\ AskInv /\ LiteTypeOK /\ LinesTrue
         /\ AgreeWaits /\ Rows \in Nat /\ MaxRows \in Nat
         /\ scan \in ScanSet /\ app \in AppSet /\ rec \in RecSet /\ model \in ModelSet
         /\ board \in BoardSet /\ tx \in Seq(Command) /\ NoCmd \notin Command
         /\ scene \in {"menu", "dash"}
<1>1. BaseInv /\ RunsInv /\ SyncInv /\ OrderInv /\ AskInv
  BY RunsFacts DEF CountInv, BaseInv
<1>. QED BY <1>1, OrderFacts, RowsNat, LiteDashAssumption

LEMMA SeenFacts ==
  ASSUME CountInv, Orderly
  PROVE  /\ \A l \in Lines : l.k = "sess" /\ l.on /\ l.n > 0 => Scanning
         /\ Seen => ~StartWay /\ ~OnGps
         /\ Seen /\ ~Scanning => Cleans
         /\ Seen /\ Scanning /\ ("stopscan" \in Calls \/ StopSaid) => UserStop
         /\ Scanning /\ board.st = 1 => model.ap + Rows <= board.ap
         /\ board.st = 1 /\ model.sessOn => model.sessAp + Rows <= board.ap
         /\ \A l \in Lines : l.k = "sess" /\ l.on => l.n + Rows <= board.ap
         /\ board.silent => board.ap = 0
         /\ board.st = 1 => Rows <= board.ap
         /\ model.session = "Idle" => model.ap = 0
         /\ model.session = "Idle" /\ board.st = 1 /\ board.ap > 0 => Said("row")
  BY DEF CountInv, SeenTrue, CountTrue, BaseInv, CountBase

\* Neither lasts until the user acts.
LEMMA CleansWaits ==
  ASSUME CountInv, Orderly, Passing, scene = "dash"
  PROVE  /\ Seen => Scanning
         /\ ~StopSaid /\ "stopscan" \notin Calls
<1>1. ~Due(5) /\ Calls = {NoCmd} /\ Lines = {}
  BY QuietFacts
<1>2. ~ConfirmedNow
  BY <1>1 DEF Due
<1>3. ~Cleans
  BY <1>1, <1>2 DEF Cleans, ConfirmedNow, Confirmed, Rest, Said, NoCmd
<1>. QED BY <1>1, <1>3, SeenFacts DEF StopSaid, Said, NoCmd

LEMMA UpStays ==
  ASSUME AskInv, [Next]_vars, board.up, "reboot" \notin Calls
  PROVE  board'.up
<1>0. LiteTypeOK /\ board \in BoardSet
  BY AskTypes
<1>1. CASE BoardRead
  <2>1. Head(tx) # "reboot"
    BY <1>0, <1>1, ReadEffect
  <2>. QED BY <1>0, <1>1, <2>1, ReadEffect DEF BoardSet, Stream
<1>2. CASE Boots \/ Announce \/ Row \/ Block
  BY <1>0, <1>2, SpeakEffect DEF BoardSet
<1>3. CASE ~BoardStep
  <2>1. UNCHANGED board
    BY <1>3, BoardFrame DEF Next, Take, Apply, Lose, vars, outside
  <2>. QED BY <2>1
<1>. QED BY <1>1, <1>2, <1>3 DEF BoardStep

\* In a rest only the handler of the confirmation drops what is pending.
LEMMA RestSteps ==
  ASSUME AskInv, [Next]_vars, Rest, ~StartWay, ~User, ~Time, "reboot" \notin Calls
  PROVE  /\ Rest'
         /\ ~TickRecover /\ ~TickPrestart /\ ~TickSync
         /\ \/ scan'.pending = scan.pending /\ (scan.revRose => scan'.revRose)
            \/ TickScan /\ ConfirmedNow /\ ~scan.isStart /\ ~app.prestart
<1>0. scan \in ScanSet /\ app \in AppSet /\ rec \in RecSet
  BY AskTypes
<1>1. ~TickRecover
  BY DEF Rest, TickRecover, Recover, RecRuns, RecWatches, RecChecks, RecAdopts, RecRetries,
         RecNoDiag, RecRetried, RecMisses, RecUp, RecAsksAgain, RecRebootsAgain, Accepted
<1>2. ~TickPrestart
  BY DEF StartWay, TickPrestart, PrestartRetry, PrestartEnds
<1>3. ~TickSync
  <2>1. TickSync => Due(2)
    BY DEF TickSync, At
  <2>2. Due(2) => app.sync
    BY DEF Due
  <2>. QED BY <2>1, <2>2 DEF Rest
<1>4. board'.up
  BY UpStays DEF Rest
<1>5. ~app'.sync
  BY <1>1, SyncSteps DEF Rest, User
<1>6. ~ (scan'.pending /\ scan'.isStart)
  BY <1>2, PendingStarts DEF Rest
<1>7. rec'.phase = "Off"
  <2>1. CASE Apply
    <3>1. rec'.phase = rec.phase
      BY <1>0, <2>1 DEF Apply, ApplySession, ApplyStatus, SessSeen, ApplyOther, RecSet
    <3>. QED BY <3>1 DEF Rest
  <2>2. CASE ~Apply
    <3>1. UNCHANGED rec
      BY <1>1, <2>2, RecSame DEF User, Time
    <3>. QED BY <3>1 DEF Rest
  <2>. QED BY <2>1, <2>2
<1>8. CASE Apply
  <2>1. UNCHANGED scene
    BY <1>8 DEF Apply
  <2>2. scan'.pending = scan.pending /\ (scan.revRose => scan'.revRose)
    BY <1>8, SessionLines
  <2>. QED BY <1>1, <1>2, <1>3, <1>4, <1>5, <1>6, <1>7, <2>1, <2>2 DEF Rest
<1>9. CASE TickScan
  <2>1. UNCHANGED scene /\ ConfirmedNow
    BY <1>9 DEF TickScan, At, Due
  <2>2. ~scan.isStart /\ ~app.prestart
    BY <2>1 DEF ConfirmedNow, Confirmed, Rest, StartWay
  <2>. QED BY <1>1, <1>2, <1>3, <1>4, <1>5, <1>6, <1>7, <1>9, <2>1, <2>2 DEF Rest
<1>10. CASE ~Apply /\ ~TickScan
  <2>1. CASE TickSeed \/ TickGps \/ TickPostStop \/ TickPoi \/ TickQual
    <3>1. UNCHANGED <<scene, scan>>
      BY <2>1 DEF TickSeed, TickGps, TickPostStop, TickPoi, TickQual
    <3>. QED BY <1>1, <1>2, <1>3, <1>4, <1>5, <1>6, <1>7, <3>1 DEF Rest
  <2>2. CASE Take \/ BoardStep \/ Lose \/ UNCHANGED vars
    <3>1. UNCHANGED <<scene, scan>>
      BY <2>2 DEF Take, BoardStep, BoardRead, Boots, Announce, Row, Block, Lose, vars, gui
    <3>. QED BY <1>1, <1>2, <1>3, <1>4, <1>5, <1>6, <1>7, <3>1 DEF Rest
  <2>. QED BY <1>1, <1>2, <1>3, <1>10, <2>1, <2>2 DEF Next, Tick
<1>. QED BY <1>8, <1>9, <1>10

\* What has been seen was, or the board has just been asked while it scans.
LEMMA SeenSteps ==
  ASSUME CountInv, [Next]_vars, Orderly, Orderly', Seen'
  PROVE  \/ Seen
         \/ /\ BoardRead /\ Head(tx) = "sigroam" /\ board.st = 1 /\ Lines = {} /\ Scanning
            /\ UNCHANGED <<gui, model, slot, board>> /\ Calls' \subseteq Calls
            /\ ~StartWay /\ ~OnGps /\ "stopscan" \notin Calls
            /\ \A l \in Lines' : l.k \in {"diag", "sess"}
<1>0. AskInv /\ LiteTypeOK /\ board \in BoardSet /\ model \in ModelSet /\ ~Lose
  BY CountFacts, OrderlyKept
<1>1. CASE BoardRead
  <2>1. ASSUME ~Seen
        PROVE  /\ Head(tx) = "sigroam" /\ board.up /\ board.st = 1 /\ board.ap > 0
               /\ UNCHANGED board
               /\ Lines' = {LineOf("diag", 0, board.st = 1),
                            LineOf("sess", board.ap, board.st = 1)}
    <3>1. ~Stale' /\ Lines = {}
      BY <1>0, <1>1, <2>1, ReadEffect DEF Seen, Stale
    <3>2. PICK l \in Lines' : l.k = "sess" /\ l.on /\ l.n > 0
      BY <3>1 DEF Seen
    <3>3. /\ Head(tx) = "sigroam" /\ board.up /\ UNCHANGED board
          /\ Lines' = {LineOf("diag", 0, board.st = 1), LineOf("sess", board.ap, board.st = 1)}
      BY <1>0, <1>1, <3>2, ReadEffect, LineFields
    <3>4. board.st = 1 /\ l.n = board.ap
      <4>. DEFINE on == board.st = 1
      <4>1. l = LineOf("sess", board.ap, on)
        BY <3>2, <3>3, LineFields
      <4>2. LineOf("sess", board.ap, on).n = board.ap /\ LineOf("sess", board.ap, on).on = on
        <5>. HIDE DEF on
        <5>. QED BY DEF LineOf
      <4>3. l.n = board.ap /\ l.on = on
        <5>. HIDE DEF on
        <5>. QED BY <4>1, <4>2, Zenon
      <4>4. l.on => board.st = 1
        BY <4>3, Zenon
      <4>. QED BY <3>2, <4>3, <4>4
    <3>. QED BY <3>2, <3>3, <3>4
  <2>2. CASE ~Seen
    <3>1. /\ Lines = {} /\ UNCHANGED <<gui, model, slot>> /\ Calls' \subseteq Calls
          /\ tx # <<>>
      BY <1>0, <1>1, ReadEffect DEF BoardRead
    <3>2. Scanning
      <4>1. ~board.silent /\ ~Said("started") /\ ~Said("row")
        BY <2>1, <2>2, <3>1, SeenFacts DEF Said
      <4>2. model.session # "Idle"
        BY <2>1, <2>2, <4>1, SeenFacts
      <4>. QED BY <2>1, <2>2, <4>1, <4>2, CountFacts
                  DEF AgreeWaits, Told, LaunchWaits, Launch, Orderly, Scanning
    <3>3. ~StopsAhead
      BY <1>0, <1>1, <2>1, <2>2, AheadSteps
    <3>4. ~StartWay /\ ~OnGps /\ "stopscan" \notin Calls
      <4>1. OrderTrue
        BY CountFacts DEF OrderInv
      <4>2. "wardrive" \notin Calls
        BY <2>1, <2>2, <4>1 DEF OrderTrue
      <4>3. ~app.prestart /\ ~OnGps /\ "stopscan" \notin Calls
        BY <2>1, <2>2, <3>3, <4>1 DEF OrderTrue
      <4>. QED BY <4>2, <4>3 DEF StartWay
    <3>. QED BY <1>1, <2>1, <2>2, <3>1, <3>2, <3>4, LineFields
  <2>. QED BY <2>2
<1>2. CASE ~BoardRead
  <2>1. \A l \in Lines' : l.k = "sess" => l \in Lines
    <3>1. CASE Boots \/ Announce \/ Row \/ Block
      BY <1>0, <3>1, SpeakEffect, LineFields
    <3>2. CASE Apply
      BY <1>0, <3>2, ApplyEffect
    <3>3. CASE ~BoardStep /\ ~Apply
      <4>1. UNCHANGED rx
        BY <1>0, <3>3, BoardFrame DEF Next, Take, vars, link
      <4>. QED BY <4>1, LinesSame
    <3>. QED BY <1>2, <3>1, <3>2, <3>3 DEF BoardStep
  <2>2. Stale' => Seen
    <3>1. CASE Apply
      <4>1. Head(rx) \in Lines
        BY <1>0, <3>1, ApplyEffect
      <4>. QED BY <1>0, <3>1, <4>1, CountLines DEF Stale, Seen
    <3>2. CASE ~Apply
      BY <1>0, <3>2, CountSteps DEF Stale, Seen
    <3>. QED BY <3>1, <3>2
  <2>. QED BY <2>1, <2>2 DEF Seen
<1>. QED BY <1>1, <1>2

\* Meanwhile the status is all that is asked for.
LEMMA QuietCalls ==
  ASSUME AskInv, [Next]_vars, Rest, ~StartWay, ~OnGps, ~User, ~Time, "reboot" \notin Calls
  PROVE  /\ Calls' \subseteq Calls \cup {NoCmd, "sigroam"}
         /\ ~Take => UNCHANGED slot \/ Offer("sigroam") \/ Offer("reboot")
<1>1. ~TickRecover /\ ~TickPrestart
  BY RestSteps
<1>2. ~Sampling
  BY DEF OnGps
<1>3. Calls' \subseteq Calls \cup {NoCmd, "sigroam"}
  BY <1>1, <1>2, CallsGrow DEF User
<1>. QED BY <1>1, <1>2, <1>3, SlotSteps

\* While the scan is not over the confirmation of its stop is waited for.
LEMMA CleansKept ==
  ASSUME CountInv, [Next]_vars, Orderly, Orderly', Seen, ~Scanning, Seen', ~Scanning'
  PROVE  Cleans'
<1>0. /\ AskInv /\ LiteTypeOK /\ LinesTrue /\ scan \in ScanSet /\ model \in ModelSet
      /\ tx \in Seq(Command) /\ NoCmd \notin Command /\ ~Lose
  BY CountFacts, OrderlyKept
<1>1. /\ board.st = 0 /\ Rest /\ Calls \subseteq {NoCmd, "sigroam"}
      /\ \/ scan.pending /\ scan.revRose /\ model.session = "Stopped"
         \/ "sigroam" \in Calls
         \/ Said("sess")
      /\ ~StartWay /\ ~OnGps
  BY SeenFacts DEF Cleans
<1>2. ~User /\ ~Time
  <2>1. ~ (Passing /\ scene = "dash")
    BY CleansWaits
  <2>. QED BY <1>0, <1>1, <2>1, PatientSteps DEF Rest
<1>3. "reboot" \notin Calls /\ "wardrive" \notin Calls
  BY <1>1 DEF NoCmd
<1>4. /\ Rest' /\ ~TickRecover /\ ~TickPrestart /\ ~TickSync
      /\ \/ scan'.pending = scan.pending /\ (scan.revRose => scan'.revRose)
         \/ TickScan /\ ConfirmedNow /\ ~scan.isStart /\ ~app.prestart
  BY <1>0, <1>1, <1>2, <1>3, RestSteps
<1>5. board'.st = 0
  BY <1>0, <1>1, <1>3, StaysIdle
<1>6. Calls' \subseteq {NoCmd, "sigroam"}
  BY <1>0, <1>1, <1>2, <1>3, QuietCalls
<1>7. CASE scan.pending /\ scan.revRose /\ model.session = "Stopped"
  <2>1. CASE TickScan /\ ~scan.isStart /\ ~app.prestart
    <3>1. Offer("sigroam") /\ UNCHANGED tx
      BY <2>1 DEF TickScan
    <3>2. "sigroam" \in Calls'
      <4>1. slot \in {NoCmd, "sigroam"}
        BY <1>1 DEF Calls
      <4>2. slot' = "sigroam"
        BY <3>1, <4>1 DEF Offer, Free
      <4>. QED BY <4>2 DEF Calls
    <3>. QED BY <1>4, <1>5, <1>6, <3>2 DEF Cleans
  <2>2. CASE scan'.pending = scan.pending /\ (scan.revRose => scan'.revRose)
    <3>1. model'.session = "Stopped"
      <4>1. CASE Apply
        <5>1. Head(rx).k # "started"
          BY <1>0, <1>1, <4>1, ApplyEffect DEF LinesTrue
        <5>. QED BY <1>0, <1>7, <4>1, <5>1, SessionLines
      <4>2. CASE ~Apply
        <5>1. ~app.sync
          BY <1>1 DEF Rest
        <5>. QED BY <1>0, <1>7, <4>2, <5>1, CountSteps
      <4>. QED BY <4>1, <4>2
    <3>. QED BY <1>4, <1>5, <1>6, <1>7, <2>2, <3>1 DEF Cleans
  <2>. QED BY <1>4, <2>1, <2>2
<1>8. CASE "sigroam" \in Calls
  <2>1. CASE BoardRead /\ Head(tx) = "sigroam"
    <3>1. Lines' = {LineOf("diag", 0, board.st = 1), LineOf("sess", board.ap, board.st = 1)}
      BY <1>0, <1>1, <2>1, ReadEffect DEF Rest
    <3>2. Said("sess")'
      BY <3>1, LineFields DEF Said
    <3>. QED BY <1>4, <1>5, <1>6, <3>2 DEF Cleans
  <2>2. CASE BoardRead /\ Head(tx) # "sigroam"
    <3>1. "sigroam" \in Calls'
      BY <1>0, <1>8, <2>2, ReadEffect
    <3>. QED BY <1>4, <1>5, <1>6, <3>1 DEF Cleans
  <2>3. CASE ~BoardRead
    <3>1. "sigroam" \in Calls'
      BY <1>0, <1>8, <2>3, CallsStay DEF NoCmd
    <3>. QED BY <1>4, <1>5, <1>6, <3>1 DEF Cleans
  <2>. QED BY <2>1, <2>2, <2>3
<1>9. CASE Said("sess")
  <2>1. ~ (Apply /\ Head(rx).k = "sess")
    <3>. SUFFICES ASSUME Apply, Head(rx).k = "sess" PROVE FALSE
      OBVIOUS
    <3>1. Head(rx) \in Lines /\ Head(rx) \in LineSet /\ Lines' \subseteq Lines
      BY <1>0, ApplyEffect
    <3>2. \A l \in Lines : l.k = "sess" => ~l.on
      BY <1>0, <1>1 DEF LinesTrue
    <3>3. model'.sessOn = Head(rx).on
      BY <1>0, CountLines
    <3>4. ~Stale'
      BY <3>1, <3>2, <3>3 DEF Stale
    <3>. QED BY <3>1, <3>2, <3>4 DEF Seen
  <2>2. Said("sess")'
    BY <1>0, <1>9, <2>1, StopTold
  <2>. QED BY <1>4, <1>5, <1>6, <2>2 DEF Cleans
<1>. QED BY <1>1, <1>7, <1>8, <1>9

\* A scan that ends was stopped by the user, who is told so.
LEMMA CleansBegins ==
  ASSUME CountInv, [Next]_vars, Orderly, Orderly', Seen, Scanning, ~Scanning'
  PROVE  Cleans'
<1>0. /\ AskInv /\ LiteTypeOK /\ LinesTrue /\ scan \in ScanSet /\ model \in ModelSet
      /\ rec \in RecSet /\ ~Lose
  BY CountFacts, OrderlyKept
<1>1. Apply /\ Head(rx).k \in {"wifiStop", "gpsStop"}
  <2>1. Apply
    BY <1>0, CountSteps DEF Scanning
  <2>. QED BY <1>0, <2>1, SessionLines DEF Scanning
<1>2. /\ Head(rx) \in Lines /\ board.st = 0 /\ UNCHANGED <<scene, board>> /\ Calls' = Calls
  BY <1>0, <1>1, ApplyEffect DEF LinesTrue, outside
<1>3. StopSaid
  BY <1>1, <1>2 DEF StopSaid, Said
<1>4. UserStop
  BY <1>3, SeenFacts
<1>5. /\ Rest /\ scan.pending /\ Calls \subseteq {NoCmd, "sigroam"}
  BY <1>3, <1>4 DEF UserStop
<1>6. ~StartWay /\ "reboot" \notin Calls /\ ~User /\ ~Time
  <2>1. ~StartWay /\ "reboot" \notin Calls
    BY <1>5, SeenFacts DEF NoCmd
  <2>2. ~Passing
    BY <1>0, <1>2, PatientSteps
  <2>. QED BY <1>0, <2>1, <2>2, PatientSteps
<1>7. Rest'
  BY <1>0, <1>5, <1>6, RestSteps
<1>8. scan'.pending /\ scan'.revRose /\ model'.session = "Stopped"
  <2>1. model.session = "Running" /\ model'.session # "Running"
    BY DEF Scanning
  <2>2. model'.session = "Stopped"
    BY <1>0, <1>1, <2>1, SessionLines
  <2>. QED BY <1>0, <1>1, <1>5, <2>1, <2>2, SessionLines
<1>. QED BY <1>2, <1>5, <1>7, <1>8 DEF Cleans

\* The only stop on its way stays so, and once read is on its way no more.
LEMMA OneStopKept ==
  ASSUME AskInv, [Next]_vars, ~Lose, ~User, ~Time, OneStop,
         ~Take => UNCHANGED slot \/ Offer("sigroam") \/ Offer("reboot")
  PROVE  OneStop' \/ (BoardRead /\ "stopscan" \notin Calls')
<1>0. LiteTypeOK /\ tx \in Seq(Command) /\ slot \in Command \cup {NoCmd}
  BY AskTypes, TypeParts
<1>1. CASE Take
  <2>1. tx' = Append(tx, slot) /\ slot' = NoCmd /\ slot \in Command /\ Len(tx) \in Nat
    BY <1>0, <1>1 DEF Take, Free
  <2>2. /\ tx' # <<>> /\ Len(tx') = Len(tx) + 1 /\ tx'[Len(tx) + 1] = slot
        /\ \A i \in 1..Len(tx) : tx'[i] = tx[i]
        /\ Head(tx') = tx'[1] /\ (tx # <<>> => Len(tx) # 0 /\ Head(tx) = tx[1])
        /\ (tx = <<>> => Len(tx) = 0)
    BY <1>0, <2>1
  <2>3. CASE slot = "stopscan" /\ tx = <<>>
    BY <2>1, <2>2, <2>3 DEF OneStop, NoCmd
  <2>4. CASE /\ tx # <<>> /\ Head(tx) = "stopscan" /\ slot # "stopscan"
             /\ \A i \in 2..Len(tx) : tx[i] # "stopscan"
    <3>1. Head(tx') = "stopscan"
      BY <2>1, <2>2, <2>4
    <3>2. ASSUME NEW i \in 2..Len(tx') PROVE tx'[i] # "stopscan"
      <4>1. CASE i = Len(tx) + 1
        BY <2>2, <2>4, <4>1
      <4>2. CASE i # Len(tx) + 1
        <5>1. i \in 2..Len(tx) /\ i \in 1..Len(tx)
          BY <2>1, <2>2, <3>2, <4>2
        <5>. QED BY <2>2, <2>4, <5>1
      <4>. QED BY <4>1, <4>2
    <3>. QED BY <2>1, <2>2, <3>1, <3>2 DEF OneStop, NoCmd
  <2>. QED BY <2>3, <2>4 DEF OneStop
<1>2. CASE BoardRead
  <2>1. /\ tx # <<>> /\ UNCHANGED slot /\ Len(tx) \in Nat \ {0} /\ Len(tx') = Len(tx) - 1
        /\ \A i \in 1..Len(tx') : tx'[i] = tx[i + 1] /\ i + 1 \in 1..Len(tx)
    BY <1>0, <1>2, TailShift DEF BoardRead
  <2>2. /\ slot # "stopscan" /\ \A i \in 2..Len(tx) : tx[i] # "stopscan"
    BY <2>1 DEF OneStop
  <2>3. \A i \in 1..Len(tx') : tx'[i] # "stopscan"
    BY <2>1, <2>2
  <2>. QED BY <1>2, <2>1, <2>2, <2>3 DEF Calls
<1>3. CASE ~Take /\ ~BoardRead
  <2>1. UNCHANGED tx
    BY <1>3, TxSame
  <2>2. UNCHANGED slot \/ (Free /\ slot' # "stopscan")
    BY <1>3 DEF Offer
  <2>. QED BY <2>1, <2>2 DEF OneStop, Free, NoCmd
<1>. QED BY <1>1, <1>2, <1>3

\* A stop is told by a board that has read one.
LEMMA StopSays ==
  ASSUME AskInv, [Next]_vars, ~Lose, StopSaid'
  PROVE  StopSaid \/ (BoardRead /\ Head(tx) = "stopscan" /\ "stopscan" \in Calls)
<1>0. LiteTypeOK
  BY AskTypes
<1>1. CASE BoardRead
  BY <1>0, <1>1, ReadEffect, LineFields DEF StopSaid, Said
<1>2. CASE Boots \/ Announce \/ Row \/ Block
  BY <1>0, <1>2, SpeakEffect, LineFields DEF StopSaid, Said
<1>3. CASE Apply
  BY <1>0, <1>3, ApplyEffect DEF StopSaid, Said
<1>4. CASE ~BoardStep /\ ~Apply
  <2>1. UNCHANGED rx
    BY <1>4, BoardFrame DEF Next, Take, vars, link
  <2>. QED BY <2>1, LinesSame DEF StopSaid, Said
<1>. QED BY <1>1, <1>2, <1>3, <1>4 DEF BoardStep

\* A stop of the user is waited for.
LEMMA UserStopKept ==
  ASSUME CountInv, [Next]_vars, Orderly, Orderly', Seen, Scanning, Scanning',
         "stopscan" \in Calls \/ StopSaid
  PROVE  UserStop'
<1>0. /\ AskInv /\ scan \in ScanSet /\ NoCmd \notin Command /\ ~Lose
  BY CountFacts, OrderlyKept
<1>1. UserStop /\ ~StartWay /\ ~OnGps
  BY SeenFacts
<1>2. Rest /\ scan.pending /\ Calls \subseteq {NoCmd, "sigroam", "stopscan"}
  BY <1>1 DEF UserStop
<1>3. ~User /\ ~Time
  <2>1. ~ (Passing /\ scene = "dash")
    BY CleansWaits
  <2>. QED BY <1>0, <1>2, <2>1, PatientSteps DEF Rest
<1>4. "reboot" \notin Calls
  BY <1>2 DEF NoCmd
<1>5. /\ Rest'
      /\ \/ scan'.pending = scan.pending
         \/ TickScan /\ ConfirmedNow /\ ~scan.isStart
  BY <1>0, <1>1, <1>2, <1>3, <1>4, RestSteps
<1>6. scan'.pending
  BY <1>2, <1>5 DEF ConfirmedNow, Confirmed, Scanning
<1>7. /\ Calls' \subseteq {NoCmd, "sigroam", "stopscan"}
      /\ "stopscan" \in Calls' => "stopscan" \in Calls
      /\ ~Take => UNCHANGED slot \/ Offer("sigroam") \/ Offer("reboot")
  BY <1>0, <1>1, <1>2, <1>3, <1>4, QuietCalls DEF NoCmd
<1>8. ASSUME "stopscan" \in Calls' PROVE OneStop' /\ ~StopSaid'
  <2>1. OneStop /\ ~StopSaid
    BY <1>1, <1>7, <1>8 DEF UserStop
  <2>2. OneStop'
    BY <1>0, <1>3, <1>7, <1>8, <2>1, OneStopKept
  <2>3. ~ (BoardRead /\ Head(tx) = "stopscan")
    <3>. SUFFICES ASSUME BoardRead, Head(tx) = "stopscan" PROVE FALSE
      OBVIOUS
    <3>1. /\ tx # <<>> /\ tx \in Seq(Command) /\ UNCHANGED slot
          /\ \A i \in 1..Len(tx') : tx'[i] = tx[i + 1] /\ i + 1 \in 1..Len(tx)
          /\ Len(tx) \in Nat
      BY CountFacts, TailShift DEF BoardRead
    <3>2. slot # "stopscan" /\ \A i \in 2..Len(tx) : tx[i] # "stopscan"
      BY <2>1, <3>1 DEF OneStop
    <3>3. \A i \in 1..Len(tx') : tx'[i] # "stopscan"
      <4>. SUFFICES ASSUME NEW i \in 1..Len(tx') PROVE tx'[i] # "stopscan"
        OBVIOUS
      <4>1. i + 1 \in 2..Len(tx) /\ tx'[i] = tx[i + 1]
        BY <3>1
      <4>. QED BY <3>2, <4>1
    <3>. QED BY <1>8, <3>1, <3>2, <3>3 DEF Calls
  <2>. QED BY <1>0, <2>1, <2>2, <2>3, StopSays
<1>. QED BY <1>5, <1>6, <1>7, <1>8 DEF UserStop

\* A scan whose totals were seen is stopped by the user only.
LEMMA UserStops ==
  ASSUME CountInv, [Next]_vars, Orderly, Orderly', Seen, Scanning,
         "stopscan" \notin Calls, ~StopSaid, "stopscan" \in Calls' \/ StopSaid'
  PROVE  UserStop'
<1>0. /\ AskInv /\ OrderInv /\ SyncInv /\ RunsInv /\ app \in AppSet /\ rec \in RecSet
      /\ board \in BoardSet /\ NoCmd \notin Command /\ ~Lose
  BY CountFacts, OrderlyKept
<1>1. ~StartWay /\ ~OnGps
  BY SeenFacts
<1>2. "stopscan" \in Calls'
  BY <1>0, StopSays
<1>3. OkDash
  BY <1>0, <1>1, <1>2, OrderSends DEF StartWay, RecRetries
<1>4. /\ Passing /\ scene = "dash" /\ Calls = {NoCmd} /\ Lines = {} /\ Free /\ tx = <<>>
      /\ board.up
  BY <1>0, <1>3, PatientSteps DEF OkDash, User
<1>5. UNCHANGED <<tx, rx, scene, board>>
  BY <1>3 DEF OkDash
<1>6. ToggleStop /\ rec' = RecOff
  <2>1. ~OkReboots
    <3>. SUFFICES ASSUME OkReboots PROVE FALSE
      OBVIOUS
    <3>1. Offer("reboot")
      BY DEF OkReboots
    <3>2. Calls' \subseteq Calls \cup {"reboot"}
      BY <1>5, <3>1, CallsOffer
    <3>. QED BY <1>2, <3>2
  <2>2. ~ToggleStart
    BY <1>0, <1>4, StartIdle DEF ToggleStart
  <2>3. ~ToggleNot
    <3>. SUFFICES ASSUME ToggleNot PROVE FALSE
      OBVIOUS
    <3>1. UNCHANGED <<slot, tx>>
      BY <1>5 DEF ToggleNot
    <3>. QED BY <1>2, <3>1, CallsSame
  <2>. QED BY <1>3, <2>1, <2>2, <2>3 DEF OkDash, OkCancels, Toggle
<1>7. /\ Offer("stopscan") /\ scan' = Queued(scan.pending, FALSE)
      /\ app' = [app EXCEPT !.prestart = FALSE, !.prestartOut = FALSE]
  BY <1>6 DEF ToggleStop, QueueCmd
<1>8. scan'.pending /\ ~scan'.isStart
  BY <1>4, <1>7 DEF Queued
<1>9. rec'.phase = "Off" /\ app'.sync = app.sync
  BY <1>0, <1>6, <1>7 DEF RecOff, RecSet, AppSet
<1>10. ~app.sync
  BY <1>0, <1>4, SyncWaits
<1>11. Rest'
  BY <1>4, <1>5, <1>8, <1>9, <1>10 DEF Rest
<1>12. slot' = "stopscan" /\ tx' = <<>> /\ Lines' = {}
  BY <1>4, <1>5, <1>7, LinesSame DEF Offer
<1>13. Calls' = {"stopscan"}
  BY <1>12, NoCalls DEF Calls
<1>. QED BY <1>8, <1>11, <1>12, <1>13 DEF UserStop, OneStop, StopSaid, Said

LEMMA SeenKept ==
  ASSUME CountInv, [Next]_vars
  PROVE  SeenTrue'
<1>. SUFFICES ASSUME Orderly'
              PROVE  /\ \A l \in Lines' : l.k = "sess" /\ l.on /\ l.n > 0 => Scanning'
                     /\ Seen' => ~StartWay' /\ ~OnGps'
                     /\ Seen' /\ ~Scanning' => Cleans'
                     /\ Seen' /\ Scanning' /\ ("stopscan" \in Calls' \/ StopSaid') => UserStop'
  BY DEF SeenTrue
<1>0. /\ AskInv /\ OrderInv /\ RunsInv /\ LiteTypeOK /\ LinesTrue /\ Orderly /\ ~Lose
      /\ app \in AppSet /\ model \in ModelSet /\ board \in BoardSet
      /\ LinesTrue'
  BY CountFacts, OrderlyKept, AskKept, AskTypes DEF AskInv, LineInv
<1>1. CASE ~Seen /\ Seen'
  <2>1. /\ BoardRead /\ Scanning /\ UNCHANGED <<gui, model, slot, board>> /\ Calls' \subseteq Calls
        /\ ~StartWay /\ ~OnGps /\ "stopscan" \notin Calls
        /\ \A l \in Lines' : l.k \in {"diag", "sess"}
    BY <1>0, <1>1, SeenSteps
  <2>2. Scanning' /\ ~StartWay' /\ ~OnGps'
    BY <2>1 DEF Scanning, StartWay, OnGps, Sampling, gui
  <2>3. "stopscan" \notin Calls' /\ ~StopSaid'
    BY <2>1 DEF StopSaid, Said
  <2>. QED BY <2>2, <2>3
<1>2. CASE Seen /\ Seen'
  <2>1. ~StartWay /\ ~OnGps
    BY <1>0, <1>2, SeenFacts
  <2>2. Passing /\ scene = "dash" => Scanning
    BY <1>0, <1>2, CleansWaits
  <2>3. ~StartWay'
    <3>1. ~ (TickRecover /\ RecRetries)
      <4>. SUFFICES ASSUME RecRetries PROVE FALSE
        OBVIOUS
      <4>1. rec.phase = "Check" /\ ~Scanning
        BY DEF RecRetries
      <4>. QED BY <1>0, <1>2, <4>1, SeenFacts DEF Cleans, Rest
    <3>2. ~ (OkDash /\ app'.prestart)
      <4>. SUFFICES ASSUME OkDash, app'.prestart PROVE FALSE
        OBVIOUS
      <4>1. Passing /\ scene = "dash" /\ ~app.prestart
        BY <1>0, PatientSteps DEF OkDash, User
      <4>2. ~ToggleStop
        BY <1>0 DEF ToggleStop, AppSet
      <4>3. ToggleStart
        BY <4>1, <4>2 DEF OkDash, OkReboots, OkCancels, Toggle, ToggleNot
      <4>4. OkAct = "SendStart"
        BY <4>3 DEF ToggleStart
      <4>. QED BY <1>0, <2>2, <4>1, <4>4, StartIdle
    <3>. QED BY <1>0, <2>1, <3>1, <3>2, OrderSends DEF StartWay, PrestartEnds
  <2>4. ~OnGps'
    <3>1. ~ (OkGps /\ GpsStart)
      <4>. SUFFICES ASSUME OkGps, GpsStart PROVE FALSE
        OBVIOUS
      <4>1. Passing /\ scene = "dash"
        BY <1>0, PatientSteps DEF OkGps, User
      <4>. QED BY <2>2, <4>1 DEF GpsStart, GpsGate, Scanning
    <3>. QED BY <1>0, <2>1, <3>1, OrderSends
  <2>5. Scanning' => Scanning
    <3>. SUFFICES ASSUME ~Scanning, Scanning' PROVE FALSE
      OBVIOUS
    <3>1. board.st = 0 /\ ~app.sync
      BY <1>0, <1>2, SeenFacts DEF Cleans, Rest
    <3>2. CASE Apply
      <4>1. Head(rx).k \in {"started", "row"}
        BY <1>0, <3>2, SessionLines DEF Scanning
      <4>. QED BY <1>0, <3>1, <3>2, <4>1, ApplyEffect DEF LinesTrue
    <3>3. CASE ~Apply
      BY <1>0, <3>1, <3>3, CountSteps DEF Scanning
    <3>. QED BY <3>2, <3>3
  <2>6. ~Scanning' => Cleans'
    BY <1>0, <1>2, CleansKept, CleansBegins
  <2>7. ASSUME Scanning', "stopscan" \in Calls' \/ StopSaid' PROVE UserStop'
    <3>1. CASE "stopscan" \in Calls \/ StopSaid
      BY <1>0, <1>2, <2>5, <2>7, <3>1, UserStopKept
    <3>2. CASE "stopscan" \notin Calls /\ ~StopSaid
      BY <1>0, <1>2, <2>5, <2>7, <3>2, UserStops
    <3>. QED BY <3>1, <3>2
  <2>8. ASSUME NEW l \in Lines', l.k = "sess", l.on, l.n > 0 PROVE Scanning'
    <3>1. board'.st = 1
      BY <1>0, <2>8 DEF LinesTrue
    <3>. QED BY <2>6, <3>1 DEF Cleans
  <2>. QED BY <2>3, <2>4, <2>6, <2>7, <2>8
<1>3. CASE ~Seen'
  BY <1>3 DEF Seen
<1>. QED BY <1>1, <1>2, <1>3

LEMMA CountKept == CountInv /\ [Next]_vars => CountInv'
<1>. SUFFICES ASSUME CountInv, [Next]_vars, Orderly'
              PROVE  /\ Scanning' /\ board'.st = 1 => model'.ap + Rows' <= board'.ap
                     /\ board'.st = 1 /\ model'.sessOn =>
                          model'.sessAp + Rows' <= board'.ap
                     /\ \A l \in Lines' : l.k = "sess" /\ l.on => l.n + Rows' <= board'.ap
  BY BaseKept, SeenKept DEF CountInv, CountTrue
<1>0. /\ AskInv /\ LiteTypeOK /\ LinesTrue /\ Orderly /\ ~Lose /\ Rows \in Nat
      /\ model \in ModelSet /\ board \in BoardSet /\ MaxRows \in Nat
      /\ LiteTypeOK' /\ LinesTrue'
  <2>1. AskInv' /\ LiteTypeOK'
    BY CountFacts, AskKept, TypeKept
  <2>. QED BY <2>1, CountFacts, OrderlyKept DEF AskInv, LineInv
<1>1. /\ Scanning /\ board.st = 1 => model.ap + Rows <= board.ap
      /\ board.st = 1 /\ model.sessOn => model.sessAp + Rows <= board.ap
      /\ \A l \in Lines : l.k = "sess" /\ l.on => l.n + Rows <= board.ap
      /\ board.st = 1 => Rows <= board.ap
      /\ model.session = "Idle" => model.ap = 0
  BY <1>0, SeenFacts
<1>2. /\ board.st \in {0, 1} /\ board.ap \in Nat /\ model.ap \in Nat /\ model.sessAp \in Nat
      /\ model.session \in {"Idle", "Running", "Stopped"}
  BY <1>0 DEF BoardSet, ModelSet, Session
<1>3. CASE BoardRead
  <2>1. /\ Rows' = 0 /\ Lines = {} /\ UNCHANGED <<gui, model, slot>>
        /\ \/ UNCHANGED board
           \/ /\ Head(tx) = "wardrive" /\ board.st = 0 /\ "wardrive" \in Calls
              /\ board'.ap = 0 /\ board'.st = 1
           \/ board'.st = 0 /\ ~board'.silent
    BY <1>0, <1>3, ReadCounts
  <2>2. \A l \in Lines' : l.k = "sess" /\ l.on => l.n <= board'.ap
    <3>. SUFFICES ASSUME NEW l \in Lines', l.k = "sess", l.on PROVE l.n <= board'.ap
      OBVIOUS
    <3>1. UNCHANGED board /\ l = LineOf("sess", board.ap, board.st = 1)
      BY <1>0, <1>3, ReadEffect, LineFields
    <3>2. l.n = board.ap
      BY <3>1 DEF LineOf
    <3>. QED BY <1>2, <3>1, <3>2
  <2>3. CASE board'.st = 0
    <3>1. \A l \in Lines' : ~ (l.k = "sess" /\ l.on)
      BY <1>0, <2>3 DEF LinesTrue
    <3>. QED BY <2>3, <3>1
  <2>4. CASE UNCHANGED board
    <3>1. \A l \in Lines' : l.k = "sess" /\ l.on => l.n + Rows' <= board'.ap
      <4>. SUFFICES ASSUME NEW l \in Lines', l.k = "sess", l.on PROVE l.n + Rows' <= board'.ap
        OBVIOUS
      <4>1. l.n \in Nat
        <5>1. rx' \in Seq(LineSet)
          BY <1>0, TypePartsNext
        <5>2. l \in LineSet
          BY <5>1 DEF Lines
        <5>. QED BY <1>0, <5>2 DEF LineSet
      <4>2. l.n <= board'.ap
        BY <2>2
      <4>. QED BY <1>2, <2>1, <2>4, <4>1, <4>2
    <3>. QED BY <1>0, <1>1, <1>2, <2>1, <2>4, <3>1 DEF Scanning
  <2>5. CASE Head(tx) = "wardrive" /\ board.st = 0 /\ "wardrive" \in Calls /\ board'.ap = 0
    <3>1. ~Said("wifiStop")
      BY <2>1 DEF Said
    <3>2. ~Scanning
      BY <1>0, <2>5, <3>1, CountFacts, RunsFacts DEF StartWay
    <3>3. ~Stale
      BY <1>0, <2>5, SeenFacts DEF StartWay, Seen
    <3>4. \A l \in Lines' : l.k # "sess"
      BY <1>0, <1>3, <2>5, ReadEffect, LineFields
    <3>5. model'.sessOn => model'.sessAp = 0
      BY <1>2, <2>1, <3>3 DEF Stale
    <3>. QED BY <2>1, <2>5, <3>2, <3>4, <3>5 DEF Scanning
  <2>. QED BY <2>1, <2>3, <2>4, <2>5
<1>4. CASE ~BoardRead
  <2>1. \/ /\ Row /\ Rows' = Rows + 1 /\ board'.ap = board.ap + 1
           /\ board'.st = board.st /\ board.st = 1 /\ ~board.silent
           /\ board'.silent = board.silent /\ Lines' = Lines \cup {Line("row")}
        \/ /\ Apply /\ UNCHANGED board
           /\ Rows' = IF Head(rx).k = "row" THEN Rows - 1 ELSE Rows
        \/ /\ Rows' = Rows /\ board'.ap = board.ap /\ board'.st = board.st
           /\ board'.silent => board.silent
    BY <1>0, <1>4, BoardCounts
  <2>2. \A l \in Lines' : l.k = "sess" => l \in Lines
    <3>1. CASE Boots \/ Announce \/ Row \/ Block
      BY <1>0, <3>1, SpeakEffect, LineFields
    <3>2. CASE Apply
      BY <1>0, <3>2, ApplyEffect
    <3>3. CASE ~BoardStep /\ ~Apply
      <4>1. UNCHANGED rx
        BY <1>0, <3>3, BoardFrame DEF Next, Take, vars, link
      <4>. QED BY <4>1, LinesSame
    <3>. QED BY <1>4, <3>1, <3>2, <3>3 DEF BoardStep
  <2>3. \A l \in Lines : l.n \in Nat
    <3>1. rx \in Seq(LineSet)
      BY <1>0, TypeParts
    <3>2. \A l \in Lines : l \in LineSet
      BY <3>1 DEF Lines
    <3>. QED BY <1>0, <3>2 DEF LineSet
  <2>4. CASE Apply
    <3>1. /\ Head(rx) \in Lines /\ UNCHANGED board
          /\ Rows' = IF Head(rx).k = "row" THEN Rows - 1 ELSE Rows
      BY <1>0, <2>4, RowsSteps, ApplyEffect DEF outside
    <3>2. Head(rx).k = "row" => Rows # 0
      BY <1>0, <2>4, RowsNext DEF Apply
    <3>3. Rows' <= Rows /\ Rows' \in Nat
      BY <1>0, <3>1, <3>2
    <3>4. \A l \in Lines' : l.k = "sess" /\ l.on => l.n + Rows' <= board'.ap
      <4>. SUFFICES ASSUME NEW l \in Lines', l.k = "sess", l.on PROVE l.n + Rows' <= board'.ap
        OBVIOUS
      <4>1. l \in Lines /\ l.n \in Nat /\ l.n + Rows <= board.ap
        BY <1>1, <2>2, <2>3
      <4>. QED BY <1>0, <1>2, <3>1, <3>3, <4>1
    <3>5. ASSUME board'.st = 1, model'.sessOn
          PROVE  model'.sessAp + Rows' <= board'.ap
      <4>1. CASE Head(rx).k = "sess"
        <5>1. model'.sessAp = Head(rx).n /\ model'.sessOn = Head(rx).on
          BY <1>0, <2>4, <4>1, CountLines
        <5>2. Head(rx).n \in Nat /\ Head(rx).n + Rows <= board.ap
          BY <1>1, <2>3, <3>1, <3>5, <4>1, <5>1
        <5>. QED BY <1>0, <1>2, <3>1, <3>3, <5>1, <5>2
      <4>2. CASE Head(rx).k # "sess"
        <5>1. model'.sessAp = model.sessAp /\ model.sessOn
          BY <1>0, <2>4, <3>5, <4>2, CountLines
        <5>2. model.sessAp + Rows <= board.ap
          BY <1>1, <3>1, <3>5, <5>1
        <5>. QED BY <1>0, <1>2, <3>1, <3>3, <5>1, <5>2
      <4>. QED BY <4>1, <4>2
    <3>6. ASSUME Scanning', board'.st = 1 PROVE model'.ap + Rows' <= board'.ap
      <4>1. /\ model'.ap = IF Head(rx).k = "started" /\ model.session = "Stopped" THEN 0
                           ELSE IF Head(rx).k = "row" /\ model.ap <= MaxRows THEN model.ap + 1
                           ELSE model.ap
            /\ board.st = 1
        BY <1>0, <2>4, <3>1, <3>6, CountLines
      <4>2. CASE Scanning
        BY <1>0, <1>1, <1>2, <3>1, <3>2, <4>1, <4>2 DEF Scanning
      <4>3. CASE ~Scanning
        <5>1. \/ Head(rx).k = "started"
              \/ Head(rx).k = "row" /\ model.session = "Idle"
          BY <1>0, <1>2, <2>4, <3>6, <4>3, SessionLines DEF Scanning
        <5>. QED BY <1>0, <1>1, <1>2, <3>1, <3>2, <4>1, <4>3, <5>1 DEF Scanning
      <4>. QED BY <4>2, <4>3
    <3>. QED BY <3>4, <3>5, <3>6
  <2>5. CASE ~Apply
    <3>. DEFINE d == Rows' - Rows
    <3>1. /\ Rows' = Rows + d /\ board'.ap = board.ap + d /\ board'.st = board.st /\ d \in {0, 1}
      BY <1>0, <1>2, <2>1, <2>5
    <3>. HIDE DEF d
    <3>2. \A l \in Lines' : l.k = "sess" /\ l.on => l.n + Rows' <= board'.ap
      <4>. SUFFICES ASSUME NEW l \in Lines', l.k = "sess", l.on PROVE l.n + Rows' <= board'.ap
        OBVIOUS
      <4>1. l \in Lines /\ l.n \in Nat /\ l.n + Rows <= board.ap
        BY <1>1, <2>2, <2>3
      <4>. QED BY <1>0, <1>2, <3>1, <4>1
    <3>3. /\ model'.sessAp = model.sessAp /\ model'.sessOn = model.sessOn
          /\ model'.sessMoved => model.sessMoved
          /\ \/ model'.ap = model.ap /\ model'.session = model.session
             \/ /\ SeedDue /\ model'.ap = model.sessAp /\ model'.session = model.session
             \/ /\ app.sync /\ model.session # "Running" /\ model'.session = "Running"
                /\ model'.ap = IF model.session = "Stopped" THEN 0 ELSE model.ap
      BY <1>0, <2>5, CountSteps
    <3>4. ASSUME board'.st = 1, model'.sessOn
          PROVE  model'.sessAp + Rows' <= board'.ap
      <4>1. model.sessAp + Rows <= board.ap
        BY <1>1, <3>1, <3>3, <3>4
      <4>. QED BY <1>0, <1>2, <3>1, <3>3, <4>1
    <3>5. ASSUME Scanning', board'.st = 1 PROVE model'.ap + Rows' <= board'.ap
      <4>1. model'.ap \in Nat /\ model'.ap + Rows <= board.ap
        <5>1. CASE model'.ap = model.ap /\ model'.session = model.session
          BY <1>1, <1>2, <3>1, <3>5, <5>1 DEF Scanning
        <5>2. CASE SeedDue /\ model'.ap = model.sessAp
          BY <1>1, <1>2, <3>1, <3>5, <5>2 DEF SeedDue
        <5>3. CASE /\ model.session # "Running"
                   /\ model'.ap = IF model.session = "Stopped" THEN 0 ELSE model.ap
          BY <1>0, <1>1, <1>2, <3>1, <3>5, <5>3
        <5>. QED BY <3>3, <5>1, <5>2, <5>3
      <4>. QED BY <1>0, <1>2, <3>1, <4>1
    <3>. QED BY <3>2, <3>4, <3>5
  <2>. QED BY <2>4, <2>5
<1>. QED BY <1>3, <1>4

\* The screen counts no access point twice, nor, once a status was given during
\* this scan, one of an earlier scan: what the board has found and what is on
\* the way to the app are weighed against what apply_ap, sr_sess_seed and a
\* session that starts leave in the counter, and against the board's own total,
\* which is what a Lite Dash shows (scene_dash.c:85-90).
THEOREM CountsAreHonest == Spec => []CountsHonest
<1>1. Init => CountInv
  BY CountInit
<1>2. CountInv /\ [Next]_vars => CountInv'
  BY CountKept
<1>3. CountInv => CountsHonest
  <2>. SUFFICES ASSUME CountInv, model.session = "Running", board.st = 1, rx = <<>>, Orderly
                PROVE  /\ model.ap <= board.ap
                       /\ (model.sessSeen => model.sessOn) => Shown <= board.ap
    BY DEF CountsHonest, Orderly
  <2>1. /\ model.ap + Rows <= board.ap /\ Rows \in Nat
        /\ model.sessOn => model.sessAp + Rows <= board.ap
    BY CountFacts, SeenFacts DEF Scanning
  <2>2. model.ap \in Nat /\ board.ap \in Nat /\ model.sessAp \in Nat
    BY CountFacts DEF ModelSet, BoardSet
  <2>3. /\ model.ap <= board.ap
        /\ model.sessOn => model.sessAp <= board.ap
    BY <2>1, <2>2
  <2>. QED BY <2>3 DEF Shown
<1>. QED BY <1>1, <1>2, <1>3, PTL DEF Spec
=============================================================================
