--------------------------- MODULE DashAgree_proofs --------------------------
(***************************************************************************)
(* When nothing is on its way, the Dash and the board agree on whether a   *)
(* scan runs: for every stock board that was idle at launch and any user   *)
(* who takes no samples of it, and for every -sigroam- board, whatever it  *)
(* was left doing, and a user who waits.  Answers may be as late as they   *)
(* like.                                                                   *)
(*                                                                         *)
(* What a session will be once the lines on the way are applied            *)
(* (RunsAfter) is true of the board at all times.  A stock peer needs no   *)
(* more.  A -sigroam- board also answers with Diag:, from which a scan is  *)
(* adopted that no line announced: the invariant then says what else may   *)
(* be on the way while a Diag: is (OneCall, LinesFresh), that the answer   *)
(* is still true when the tick looks at it (DiagFresh), that it comes      *)
(* (SyncWaits), and that until then nobody starts or stops (AdoptionDue).  *)
(* A GPS sample, and the stopscan that ends it, come only while the board  *)
(* idles and nothing will start it (Idling, SampleIdle): the second half   *)
(* of NoBlindStop.                                                         *)
(*                                                                         *)
(* A confirmation is true.  While a stop is awaited nothing may start a    *)
(* scan (StopAwaited); while a start is, all that would confirm it is true *)
(* already, or else nothing would (StartAwaited); and a prestart begins    *)
(* with no scan known or on its way (PrestartCalm).  For that, OK must     *)
(* find the session and the board in agreement when it is pressed.         *)
(***************************************************************************)
EXTENDS DashScan_proofs

\* The plays judged, of those SettledAgree speaks of: a stock board is idle at
\* launch, as it has no Diag: to be adopted from, and gives no samples; a
\* -sigroam- board has a patient user.
JudgedPlays ==
    \A p \in Plays :
        ~p.lossy =>
            IF p.kind = "generic" THEN ~p.handover /\ ~p.gpsTab ELSE p.patient

Judged ==
    ~board.lossy /\ IF board.kind = "generic" THEN ~board.gpsTab ELSE board.patient

-----------------------------------------------------------------------------
\* Without the GPS tab nothing samples or streams, and no board that scans does.
Streams ==
    /\ ~board.gpsTab =>
         ~Sampling /\ ~Sent("gpsdata") /\ ~board.gps /\ ~Said("gpsStop")
    /\ board.gps => board.st # 1

LEMMA StreamsInit == Init => Streams
<1>. SUFFICES ASSUME Init PROVE Streams
  OBVIOUS
<1>1. rx = <<>> /\ tx = <<>> /\ slot = NoCmd /\ ~board.gps
  BY DEF Init, BoardInit
<1>2. ~Sampling
  BY DEF Init, Sampling, GpsRest
<1>. QED BY <1>1, <1>2 DEF Streams, Sent, Said, NoCmd

\* Without the tab the GUI takes no sample.
LEMMA NoSampleGui ==
  ASSUME TypeOK, Gui, ~board.gpsTab, ~Sampling
  PROVE  ~Sampling' /\ (slot' = "gpsdata" => slot = "gpsdata")
<1>0. gps \in Gps
  BY DEF TypeOK
<1>1. ~GpsStart /\ ~TickGps
  <2>1. TickGps => Due(3)
    BY DEF TickGps, At
  <2>2. ~Due(3)
    BY DEF Due
  <2>. QED BY <2>1, <2>2 DEF GpsStart
<1>2. CASE User
  <2>1. gps' = gps \/ gps' = GpsRest
    BY <1>1, <1>2 DEF User, OkPress, EnterDash, EnterProbe, Leave, GpsAbort
  <2>3. ~Sampling'
    BY <2>1 DEF GpsRest, Sampling
  <2>2. slot' = "gpsdata" => slot = "gpsdata"
    BY <1>1, <1>2
    DEF User, OkPress, OkStop, OkStartNow, OkStartAfterClear, QueueCmd, QueueClearingStop,
        EnterDash, EnterProbe, HsInfo, Leave, GpsAbort, Offer, StatusCmd, NoCmd
  <2>. QED BY <2>2, <2>3
<1>3. CASE GuiTick
  <2>1. ~Sampling'
    <3>1. CASE TickSync
      BY <1>0, <3>1 DEF TickSync, SessionStarts, Sampling, Gps
    <3>. QED
      BY <1>1, <1>3, <3>1
      DEF GuiTick, TickIdent, TickScan, TickPostStop, TickPrestart, TickProbe, TickQual,
          HsRetry, HsStop, HsSigroam, Sampling
  <2>2. slot' = "gpsdata" => slot = "gpsdata"
    BY <1>1, <1>3
    DEF GuiTick, TickSync, TickIdent, TickScan, ScanRefused, ScanStarted, ScanStopped,
        TickPostStop, TickPrestart, QueueClearingStop, TickProbe, TickQual, HsRetry, HsInfo,
        HsStop, HsSigroam, link, Offer, StatusCmd, NoCmd
  <2>. QED BY <2>1, <2>2
<1>4. CASE Elapse \/ UNCHANGED vars
  BY <1>0, <1>4 DEF Elapse, link, vars, Sampling, Gps
<1>. QED BY <1>2, <1>3, <1>4 DEF Gui

\* What a board may do to its stream, and to its scan by it.
LEMMA StreamRead ==
  ASSUME TypeOK, Streams, Outside
  PROVE  /\ board'.gps => board.gps \/ (BoardRead /\ Head(tx) = "gpsdata")
         /\ board'.gps => board'.st # 1
<1>0. board \in Board
  BY DEF TypeOK
<1>1. CASE BoardRead
  <2>1. CASE ReadWardrive
    BY <1>0, <2>1 DEF ReadWardrive, Streams, Board
  <2>2. CASE ReadStopscan
    <3>1. board' = board \/ \E st \in BoardState : board' = Ended(st)
      BY <1>0, <2>2 DEF ReadStopscan, Board, BoardState
    <3>2. \A st \in BoardState : ~Ended(st).gps
      BY <1>0 DEF Ended, Board
    <3>. QED BY <3>1, <3>2 DEF Streams
  <2>3. CASE ReadInfo \/ ReadSigroam
    BY <1>0, <2>3 DEF ReadInfo, ReadSigroam, Streams, Board
  <2>4. CASE ReadGpsdata
    <3>1. board.gps => board.st # 1
      BY DEF Streams
    <3>2. board' = board \/ board'.st \in {0, 4}
      BY <1>0, <2>4 DEF ReadGpsdata, Board
    <3>. QED BY <1>1, <2>4, <3>1, <3>2 DEF ReadGpsdata
  <2>. QED BY <1>1, <2>1, <2>2, <2>3, <2>4 DEF BoardRead
<1>2. CASE Announce \/ Seal
  BY <1>0, <1>2 DEF Announce, Seal, Streams, Board
<1>3. CASE Take \/ Apply \/ Row \/ Block
  BY <1>3 DEF Take, Apply, Row, Block, Streams
<1>. QED BY <1>1, <1>2, <1>3 DEF Outside

LEMMA StreamsKept ==
  ASSUME TypeOK, Streams, [Next]_vars
  PROVE  Streams'
<1>0. board'.gpsTab = board.gpsTab
  BY RunKept
<1>1. CASE Gui
  <2>1. tx' = tx /\ rx' = rx /\ board' = board
    BY <1>1, GuiLines
  <2>2. Said("gpsStop")' <=> Said("gpsStop")
    BY <2>1 DEF Said
  <2>3. ~board.gpsTab => ~Sampling' /\ ~Sent("gpsdata")'
    BY <1>1, <2>1, NoSampleGui DEF Streams, Sent
  <2>. QED BY <2>1, <2>2, <2>3 DEF Streams
<1>2. CASE Outside
  <2>1. Sampling' <=> Sampling
    BY <1>2, OutsideApp
  <2>2. Sent("gpsdata")' => Sent("gpsdata")
    <3>1. CASE Take
      BY <3>1, SentTaken DEF Command
    <3>2. CASE BoardRead
      BY <3>2, SentLess DEF BoardRead
    <3>. QED BY <1>2, <3>1, <3>2 DEF Outside, Apply, Announce, Row, Block, Seal, link, Sent
  <2>3. Said("gpsStop")' => Said("gpsStop") \/ board.gps
    <3>1. CASE BoardRead \/ Announce \/ Row \/ Block
      BY <3>1, SaidNow
    <3>2. CASE Apply
      BY <3>2, TailShift DEF Apply, TypeOK, Said
    <3>3. CASE Take \/ Seal
      BY <3>3 DEF Take, Seal, link, Said
    <3>. QED BY <1>2, <3>1, <3>2, <3>3 DEF Outside
  <2>4. BoardRead => Sent(Head(tx))
    BY SentLess DEF BoardRead
  <2>. QED BY <1>0, <1>2, <2>1, <2>2, <2>3, <2>4, StreamRead DEF Streams
<1>3. CASE Lose
  <2>1. Sampling' = Sampling /\ slot' = slot /\ board' = board
    BY <1>3 DEF Lose, gui, Sampling
  <2>2. Sent("gpsdata")' => Sent("gpsdata")
    <3>1. CASE tx # <<>> /\ tx' = Tail(tx)
      BY <2>1, <3>1, SentLess
    <3>2. CASE tx' = tx
      BY <2>1, <3>2 DEF Sent
    <3>. QED BY <1>3, <3>1, <3>2 DEF Lose
  <2>3. Said("gpsStop")' => Said("gpsStop")
    <3>1. CASE rx # <<>> /\ rx' = Tail(rx)
      BY <3>1, TailShift DEF TypeOK, Said
    <3>2. CASE rx' = rx
      BY <3>2 DEF Said
    <3>. QED BY <1>3, <3>1, <3>2 DEF Lose
  <2>. QED BY <2>1, <2>2, <2>3 DEF Streams
<1>. QED BY <1>1, <1>2, <1>3 DEF Next, Gui, Outside, Worker, BoardStep

-----------------------------------------------------------------------------
\* The session runs, once all that is on the way is applied.
RunsAfter ==
    \/ \E i \in 1..Len(rx) : /\ rx[i].kind = "started"
                             /\ \A j \in (i + 1)..Len(rx) : rx[j].kind # "stopped"
    \/ /\ model.session = "Running"
       /\ \A i \in 1..Len(rx) : rx[i].kind # "stopped"

\* What the lines claim of a scan is true, also what a row claims.
Claims ==
    /\ board.silent => board.st = 1
    /\ RunsAfter => board.st = 1
    /\ \A i \in 1..Len(rx) : rx[i].kind = "row" =>
         board.st = 1 \/ \E j \in (i + 1)..Len(rx) : rx[j].kind = "stopped"

\* A stock board announces its scans, and sends no Diag:.
StockTrack ==
    /\ board.st = 1 /\ ~board.silent => RunsAfter
    /\ ~model.diagSeen
    /\ \A i \in 1..Len(rx) : rx[i].kind # "diag"

-----------------------------------------------------------------------------
(* A -sigroam- board, and a user who waits.                                *)

Call == {"wardrive", "stopscan"}

NoCall == slot \notin Call /\ \A i \in 1..Len(tx) : tx[i] \notin Call

\* Of what is on the way from the board, nothing answers a command.
NoAnswer == \A i \in 1..Len(rx) : rx[i].kind = "block"

\* The board does not scan, and nothing will make it, or says that it does.
Idling ==
    /\ board.st # 1 /\ ~board.silent /\ model.session # "Running"
    /\ ~Sent("wardrive") /\ ~Said("started") /\ ~Said("row")

\* A start or a stop is alone on its way, but for what is sent behind it and
\* for a stream's blocks ...
CallAlone ==
    /\ slot \in Call => tx = <<>> /\ NoAnswer /\ ~board.silent
    /\ \A i \in 1..Len(tx) :
         tx[i] \in Call => i = 1 /\ NoAnswer /\ ~board.silent /\ slot \notin Call

\* ... or it is the stop of a board that idles, which changes nothing.
OneCall == Idling \/ CallAlone

LinesFresh ==
    \A i \in 1..Len(rx) :
      /\ rx[i].kind = "stopped" => board.st # 1
      /\ rx[i].kind = "diag" => (rx[i].st = 1 <=> board.st = 1)
      /\ rx[i].kind = "firmware" => i < Len(rx) /\ rx[i + 1].kind = "diag"

\* The answer the tick of the Dash is about to look at.
Answer == app.sync /\ moved.sync /\ model.diagSeen

DiagFresh == Answer => (NoCall \/ Idling) /\ (model.diagSt = 1 <=> board.st = 1)

SyncWaits ==
    app.sync => \/ slot = "info"
                \/ \E i \in 1..Len(tx) : tx[i] = "info"
                \/ \E i \in 1..Len(rx) : rx[i].kind = "diag"
                \/ Answer

\* A scan from before the launch, not adopted yet.
Unadopted == board.st = 1 /\ ~board.silent /\ ~RunsAfter

AdoptionDue == Unadopted => NoCall /\ ~scan.pending /\ (scene = "dash" => app.sync)

\* A sample is taken, and ended, while the board idles.
SampleIdle == Sampling \/ Said("gpsStop") => Idling

OwnTrack ==
    OneCall /\ LinesFresh /\ DiagFresh /\ SyncWaits /\ AdoptionDue /\ SampleIdle

Agree ==
    Judged => /\ Claims
              /\ board.kind = "generic" => StockTrack
              /\ board.kind = "sigroam" => OwnTrack

AInv == IInv /\ Streams /\ Agree

-----------------------------------------------------------------------------
LEMMA AgreeFromIdle ==
  ASSUME Init, Judged /\ board.kind = "generic" => board.st # 1
  PROVE  Agree
<1>. SUFFICES ASSUME Judged
              PROVE  /\ Claims
                     /\ board.kind = "generic" => StockTrack
                     /\ board.kind = "sigroam" => OwnTrack
  BY DEF Agree
<1>1. rx = <<>> /\ tx = <<>> /\ slot = NoCmd /\ ~board.silent
  BY DEF Init, BoardInit
<1>2. Len(rx) = 0 /\ Len(tx) = 0
  BY <1>1
<1>3. ~RunsAfter
  BY <1>2 DEF RunsAfter, Init
<1>4. ~app.sync /\ ~scan.pending /\ scene = "menu" /\ ~model.diagSeen /\ ~Sampling
  BY DEF Init, Sampling, GpsRest
<1>5. Claims
  BY <1>1, <1>2, <1>3 DEF Claims
<1>6. board.kind = "generic" => StockTrack
  BY <1>2, <1>4 DEF StockTrack
<1>7. NoCall
  BY <1>1, <1>2 DEF NoCall, Call, NoCmd
<1>8. OwnTrack
  BY <1>1, <1>2, <1>4, <1>7
  DEF OwnTrack, OneCall, CallAlone, LinesFresh, DiagFresh, Answer, SyncWaits, AdoptionDue,
      SampleIdle, Said, Call, NoCmd
<1>. QED BY <1>5, <1>6, <1>8

\* What a play says of a run stays true of it.
LEMMA PlayOfRun ==
  ASSUME Init
  PROVE  \E p \in Plays : /\ p.kind = board.kind /\ p.lossy = board.lossy
                          /\ p.patient = board.patient /\ p.gpsTab = board.gpsTab
                          /\ ~p.handover => board.st = 0
<1>1. PICK p \in Plays : /\ \A f \in DOMAIN p \ {"handover"} : board[f] = p[f]
                         /\ ~p.handover => board.st = 0 /\ ~board.showInfo
  BY DEF Init, BoardInit
<1>2. p \in Play
  BY DashScanAssumption
<1>3. /\ p.kind = board.kind /\ p.lossy = board.lossy
      /\ p.patient = board.patient /\ p.gpsTab = board.gpsTab
  BY <1>1, <1>2 DEF Play
<1>. QED BY <1>1, <1>3

LEMMA AgreeInit == JudgedPlays /\ Init => Agree
<1>. SUFFICES ASSUME JudgedPlays, Init, Judged, board.kind = "generic" PROVE board.st # 1
  BY AgreeFromIdle
<1>1. PICK p \in Plays : /\ p.kind = board.kind /\ p.lossy = board.lossy
                         /\ p.patient = board.patient /\ p.gpsTab = board.gpsTab
                         /\ ~p.handover => board.st = 0
  BY PlayOfRun
<1>2. ~p.lossy /\ ~p.gpsTab /\ p.kind = "generic"
  BY <1>1 DEF Judged
<1>3. ~p.handover
  BY <1>2 DEF JudgedPlays
<1>. QED BY <1>1, <1>3

-----------------------------------------------------------------------------
(* The GUI: what leaves the lines and the board alone.                     *)

LEMMA LinesKept ==
  ASSUME Claims, rx' = rx, board' = board, model'.session = model.session
  PROVE  /\ Claims'
         /\ RunsAfter' <=> RunsAfter
         /\ Unadopted' <=> Unadopted
<1>1. RunsAfter' <=> RunsAfter
  BY DEF RunsAfter
<1>. QED BY <1>1 DEF Claims, Unadopted

\* A board that idles goes on idling while nobody sends it a start.
LEMMA IdlingKept ==
  ASSUME Idling, rx' = rx, tx' = tx, board' = board, model'.session = model.session,
         slot' = slot \/ slot' # "wardrive"
  PROVE  Idling'
<1>1. ~Sent("wardrive")' /\ ~Said("started")' /\ ~Said("row")'
  BY DEF Idling, Sent, Said
<1>. QED BY <1>1 DEF Idling

\* A step of the GUI that starts nothing, and stops nothing but a board that
\* idles.  If it wants an answer to adopt from, it asks for one.
LEMMA QuietStep ==
  ASSUME Agree, rx' = rx, tx' = tx, board' = board,
         model'.session = model.session, model'.diagSeen = model.diagSeen,
         model'.diagSt = model.diagSt,
         board.kind = "sigroam" =>
            /\ \/ slot' = slot \/ (slot = NoCmd /\ slot' \in {"info", "sigroam"})
               \/ slot = NoCmd /\ Idling /\ slot' # "wardrive"
            /\ Sampling' => Sampling \/ Idling
            /\ Answer' => Answer
            /\ \/ app'.sync = app.sync /\ (Answer => Answer') /\ (scene' = "dash" => scene = "dash")
               \/ app'.sync /\ slot' = "info"
            /\ scan'.pending => scan.pending
  PROVE  Agree'
<1>. SUFFICES ASSUME Judged
              PROVE  /\ Claims'
                     /\ board.kind = "generic" => StockTrack'
                     /\ board.kind = "sigroam" => OwnTrack'
  BY DEF Agree, Judged
<1>1. Claims /\ (board.kind = "generic" => StockTrack) /\ (board.kind = "sigroam" => OwnTrack)
  BY DEF Agree
<1>2. Claims' /\ (RunsAfter' <=> RunsAfter) /\ (Unadopted' <=> Unadopted)
  BY <1>1, LinesKept
<1>3. ASSUME board.kind = "generic" PROVE StockTrack'
  BY <1>1, <1>2, <1>3 DEF StockTrack
<1>4. ASSUME board.kind = "sigroam" PROVE OwnTrack'
  <2>0. OneCall /\ LinesFresh /\ DiagFresh /\ SyncWaits /\ AdoptionDue /\ SampleIdle
    BY <1>1, <1>4 DEF OwnTrack
  <2>1. \/ slot' = slot \/ (slot = NoCmd /\ slot' \in {"info", "sigroam"})
        \/ slot = NoCmd /\ Idling /\ slot' # "wardrive"
    BY <1>4
  <2>2. Idling => Idling'
    BY <2>1, IdlingKept
  <2>3. NoCall => NoCall' \/ Idling'
    BY <2>1, <2>2 DEF NoCall, Call
  <2>4. CallAlone => CallAlone' \/ Idling'
    BY <2>1, <2>2 DEF CallAlone, NoAnswer, Call
  <2>5. OneCall' /\ LinesFresh'
    BY <2>0, <2>2, <2>4 DEF OneCall, LinesFresh
  <2>6. DiagFresh'
    BY <1>4, <2>0, <2>2, <2>3 DEF DiagFresh
  <2>7. SyncWaits'
    BY <1>4, <2>0, <2>1 DEF SyncWaits, NoCmd
  <2>8. AdoptionDue'
    BY <1>2, <1>4, <2>0, <2>3 DEF AdoptionDue, Unadopted, Idling
  <2>9. SampleIdle'
    <3>1. Said("gpsStop")' <=> Said("gpsStop")
      BY DEF Said
    <3>. QED BY <1>4, <2>0, <2>2, <3>1 DEF SampleIdle
  <2>. QED BY <2>5, <2>6, <2>7, <2>8, <2>9 DEF OwnTrack
<1>. QED BY <1>2, <1>3, <1>4

\* No prestart and no probe of a stock board against -sigroam- firmware.
LEMMA OwnNever ==
  ASSUME IInv, board.kind = "sigroam"
  PROVE  ~TickPrestart /\ ~TickProbe /\ ~HsStop /\ ~HsSigroam /\ ~OkStartAfterClear
<1>1. ~TickPrestart
  BY DEF IInv, PeerKnown, TickPrestart, PrestartRetry, PrestartEnds
<1>2. ~ShouldProbe(model.fw)
  BY DEF IInv, PeerKnown, ShouldProbe
<1>3. ~TickProbe /\ ~HsStop /\ ~HsSigroam
  <2>1. ~Due(7)
    BY <1>2 DEF Due
  <2>2. ~TickProbe
    BY <2>1 DEF TickProbe, At
  <2>. QED BY <1>2, <2>2 DEF HsStop, HsStopDue, HsSigroam, HsSigroamDue
<1>4. ~OkStartAfterClear
  BY DEF IInv, PeerKnown, OkStartAfterClear, ShowInfoClear
<1>. QED BY <1>1, <1>3, <1>4

LEMMA AgreeTickScan == AInv /\ TickScan => Agree'
<1>. SUFFICES ASSUME AInv, TickScan PROVE Agree'
  OBVIOUS
<1>1. /\ rx' = rx /\ tx' = tx /\ board' = board /\ model' = model /\ scene' = scene
      /\ scan'.pending => scan.pending
      /\ app'.sync = app.sync /\ moved'.sync = moved.sync /\ Sampling' = Sampling
  BY DEF TickScan, ScanRefused, ScanStarted, ScanStopped, ScanEnds, AInv, IInv, TypeOK,
         ScanCtx, App, Moved, Sampling
<1>2. slot' = slot \/ (slot = NoCmd /\ slot' \in {"info", "sigroam"})
  BY DEF TickScan, ScanRefused, ScanStarted, ScanStopped, Offer, Free, StatusCmd, NoCmd
<1>. QED BY <1>1, <1>2, QuietStep DEF AInv, Answer

\* The handlers that change neither the session nor what is adopted from.
LEMMA AgreeTick ==
  AInv /\ (TickPostStop \/ TickPrestart \/ TickProbe \/ TickQual \/ HsRetry \/ HsStop
            \/ HsSigroam \/ EnterProbe \/ Elapse) => Agree'
<1>. SUFFICES ASSUME AInv,
                     TickPostStop \/ TickPrestart \/ TickProbe \/ TickQual \/ HsRetry \/ HsStop
                       \/ HsSigroam \/ EnterProbe \/ Elapse
              PROVE  Agree'
  OBVIOUS
<1>. USE DEF AInv, IInv, TypeOK
<1>1. /\ rx' = rx /\ tx' = tx /\ board' = board
      /\ model'.session = model.session /\ model'.diagSeen = model.diagSeen
      /\ model'.diagSt = model.diagSt
  BY DEF TickPostStop, TickPrestart, TickProbe, TickQual, HsRetry, HsStop, HsSigroam,
         EnterProbe, Elapse, link, Model
<1>2. ASSUME board.kind = "sigroam"
      PROVE  /\ slot' = slot \/ (slot = NoCmd /\ slot' \in {"info", "sigroam"})
             /\ app'.sync = app.sync /\ moved'.sync = moved.sync
             /\ scan'.pending => scan.pending
             /\ scene' = "dash" => scene = "dash"
             /\ Sampling' <=> Sampling
  <2>1. TickPostStop \/ TickQual \/ HsRetry \/ EnterProbe \/ Elapse
    BY <1>2, OwnNever
  <2>2. slot' = slot \/ (slot = NoCmd /\ slot' \in {"info", "sigroam"})
    BY <2>1 DEF TickPostStop, TickQual, HsRetry, EnterProbe, HsInfo, Elapse, Offer,
                Free, StatusCmd, NoCmd, link
  <2>3. scan'.pending => scan.pending
    BY <2>1 DEF TickPostStop, TickQual, HsRetry, EnterProbe, Elapse, ScanCtx
  <2>4. scene' = "dash" => scene = "dash"
    BY <2>1 DEF TickPostStop, TickQual, HsRetry, EnterProbe, Elapse
  <2>5. app'.sync = app.sync
    BY <2>1 DEF TickPostStop, TickQual, HsRetry, EnterProbe, HsInfo, Elapse, App
  <2>6. moved'.sync = moved.sync
    BY <2>1 DEF TickPostStop, TickQual, HsRetry, EnterProbe, HsInfo, Elapse, Moved
  <2>7. Sampling' <=> Sampling
    BY <2>1 DEF TickPostStop, TickQual, HsRetry, EnterProbe, Elapse, Sampling, Gps
  <2>. QED BY <2>2, <2>3, <2>4, <2>5, <2>6, <2>7
<1>. QED BY <1>1, <1>2, QuietStep DEF Answer

\* A sample is closed in front of a board that idles.
LEMMA AgreeTickGps == AInv /\ TickGps => Agree'
<1>. SUFFICES ASSUME AInv, TickGps PROVE Agree'
  OBVIOUS
<1>1. /\ rx' = rx /\ tx' = tx /\ board' = board /\ model' = model /\ scene' = scene
      /\ scan' = scan /\ app' = app /\ moved' = moved
  BY DEF TickGps
<1>2. Sampling
  <2>1. Due(3)
    BY DEF TickGps, At
  <2>. QED BY <2>1 DEF Due
<1>3. slot' = slot \/ (slot = NoCmd /\ slot' = "stopscan")
  BY DEF TickGps, GpsClose, GpsEnds, Offer, Free
<1>4. CASE Judged /\ board.kind = "sigroam"
  <2>1. Idling
    BY <1>2, <1>4 DEF AInv, Agree, OwnTrack, SampleIdle
  <2>. QED BY <1>1, <1>2, <1>3, <2>1, QuietStep DEF AInv, Answer
<1>5. CASE Judged /\ board.kind # "sigroam"
  BY <1>1, <1>5, QuietStep DEF AInv
<1>6. CASE ~Judged
  BY <1>1, <1>6 DEF Agree, Judged
<1>. QED BY <1>4, <1>5, <1>6

LEMMA AgreeTickIdent == AInv /\ TickIdent => Agree'
<1>. SUFFICES ASSUME AInv, TickIdent PROVE Agree'
  OBVIOUS
<1>. USE DEF AInv, IInv, TypeOK
<1>1. /\ rx' = rx /\ tx' = tx /\ board' = board /\ model' = model /\ scan' = scan
      /\ scene' = scene /\ Sampling' = Sampling
  BY DEF TickIdent, Sampling
<1>2. slot' = slot \/ (slot = NoCmd /\ slot' \in {"info", "sigroam"})
  BY DEF TickIdent, Offer, Free
<1>3. /\ Answer' <=> Answer
      /\ app'.sync = app.sync \/ (app'.sync /\ slot' = "info")
  <2>1. CASE IdentKnown /\ app' = [app EXCEPT !.ident = FALSE] /\ UNCHANGED <<slot, moved>>
    BY <1>1, <2>1 DEF Answer, App
  <2>2. CASE Free /\ slot' = "info"
             /\ app' = [app EXCEPT !.identSends = @ + 1, !.identDue = FALSE, !.sync = TRUE]
             /\ moved' = [moved EXCEPT !.sync = @ /\ app.sync]
    BY <1>1, <2>2 DEF Answer, App, Moved
  <2>3. CASE ~Free /\ app' = [app EXCEPT !.identSends = 2]
             /\ moved' = [moved EXCEPT !.sync = @ /\ app.sync]
    BY <1>1, <2>3 DEF Answer, App, Moved
  <2>. QED BY <2>1, <2>2, <2>3 DEF TickIdent, Offer
<1>. QED BY <1>1, <1>2, <1>3, QuietStep

\* What is adopted scans: the Diag: was answered since, and is still true.
LEMMA AgreeTickSync == AInv /\ TickSync => Agree'
<1>. SUFFICES ASSUME AInv, TickSync, Judged
              PROVE  /\ Claims'
                     /\ board.kind = "generic" => StockTrack'
                     /\ board.kind = "sigroam" => OwnTrack'
  BY DEF Agree, Judged, TickSync
<1>. USE DEF AInv, IInv, TypeOK
<1>1. Claims /\ (board.kind = "generic" => StockTrack) /\ (board.kind = "sigroam" => OwnTrack)
  BY DEF Agree
<1>2. app.sync /\ moved.sync /\ SyncAct # "Wait"
  <2>1. Due(1)
    BY DEF TickSync, At
  <2>. QED BY <2>1 DEF Due
<1>3. model.diagSeen
  BY <1>2 DEF SyncAct, PeerSync, Model
<1>4. board.kind = "sigroam" /\ OwnTrack
  BY <1>1, <1>3 DEF StockTrack, Board, Kind
<1>5. (NoCall \/ Idling) /\ (model.diagSt = 1 <=> board.st = 1)
  BY <1>2, <1>3, <1>4 DEF OwnTrack, DiagFresh, Answer
<1>6. /\ rx' = rx /\ tx' = tx /\ slot' = slot /\ board' = board
      /\ ~app'.sync /\ (Sampling' <=> Sampling)
  BY DEF TickSync, SessionStarts, link, App, Sampling, Gps
<1>7. model'.session = IF SyncAct = "Adopt" THEN "Running" ELSE model.session
  BY DEF TickSync, SessionStarts, Started, Model
<1>8. SyncAct = "Adopt" => board.st = 1
  BY <1>5 DEF SyncAct, PeerSync
<1>9. Claims'
  <2>1. CASE SyncAct = "Adopt"
    BY <1>1, <1>6, <1>8, <2>1 DEF Claims
  <2>2. CASE SyncAct # "Adopt"
    BY <1>1, <1>6, <1>7, <2>2, LinesKept
  <2>. QED BY <2>1, <2>2
<1>10. ~Unadopted'
  <2>. SUFFICES ASSUME Unadopted' PROVE FALSE
    OBVIOUS
  <2>1. board.st = 1
    BY <1>6 DEF Unadopted
  <2>2. \A i \in 1..Len(rx) : rx[i].kind # "stopped"
    BY <1>4, <2>1 DEF OwnTrack, LinesFresh
  <2>3. model'.session # "Running"
    BY <1>6, <2>2 DEF Unadopted, RunsAfter
  <2>4. SyncAct # "Adopt" /\ model.session # "Running"
    BY <1>7, <2>3
  <2>5. Unadopted
    BY <1>1, <1>6, <1>7, <2>4, LinesKept
  <2>6. ~scan.pending
    BY <1>4, <2>5 DEF OwnTrack, AdoptionDue
  <2>. QED BY <1>3, <1>5, <2>1, <2>4, <2>6 DEF SyncAct, PeerSync
<1>11. OwnTrack'
  <2>1. Idling => Idling'
    BY <1>6, <1>7, <1>8, IdlingKept DEF Idling
  <2>2. CallAlone => CallAlone'
    BY <1>6 DEF CallAlone, NoAnswer
  <2>3. OneCall' /\ LinesFresh'
    BY <1>4, <1>6, <2>1, <2>2 DEF OwnTrack, OneCall, LinesFresh
  <2>4. DiagFresh' /\ SyncWaits'
    BY <1>6 DEF DiagFresh, SyncWaits, Answer
  <2>5. SampleIdle'
    <3>1. Said("gpsStop")' <=> Said("gpsStop")
      BY <1>6 DEF Said
    <3>. QED BY <1>4, <1>6, <2>1, <3>1 DEF OwnTrack, SampleIdle
  <2>. QED BY <1>10, <2>3, <2>4, <2>5 DEF OwnTrack, AdoptionDue
<1>. QED BY <1>4, <1>9, <1>11

-----------------------------------------------------------------------------
(* The user.                                                               *)

LEMMA AgreeEnterDash == AInv /\ User /\ EnterDash => Agree'
<1>. SUFFICES ASSUME AInv, User, EnterDash PROVE Agree'
  OBVIOUS
<1>. USE DEF AInv, IInv, TypeOK
<1>1. /\ rx' = rx /\ tx' = tx /\ board' = board /\ model' = model /\ scan' = scan
      /\ Sampling' = Sampling
  BY DEF EnterDash, Sampling
<1>2. CASE Judged /\ board.kind = "sigroam"
  <2>1. Free
    BY <1>2 DEF Judged, User, Settled, Answered, Kind
  <2>2. ~moved'.sync
    BY DEF EnterDash, Moved
  <2>3. slot' = "info" /\ app'.sync
    <3>1. model.fw = "none" \/ StatusCmd(model.fw) = "info"
      BY <1>2 DEF PeerKnown, StatusCmd
    <3>. QED BY <2>1, <3>1 DEF EnterDash, Offer, App, NoCmd
  <2>4. slot = NoCmd
    BY <2>1 DEF Free
  <2>. QED BY <1>1, <2>2, <2>3, <2>4, QuietStep DEF Answer
<1>3. CASE Judged /\ board.kind # "sigroam"
  BY <1>1, <1>3, QuietStep
<1>4. CASE ~Judged
  BY <1>1, <1>4 DEF Agree, Judged
<1>. QED BY <1>2, <1>3, <1>4

\* When nothing is on its way, and nothing left to adopt.
LEMMA SettledOwn ==
  ASSUME AInv, Judged, board.kind = "sigroam", Settled
  PROVE  /\ slot = NoCmd /\ tx = <<>> /\ rx = <<>> /\ ~board.silent /\ ~Sampling
         /\ scene = "dash" => ~app.sync /\ ~Answer /\ ~Unadopted
<1>1. slot = NoCmd /\ tx = <<>> /\ rx = <<>> /\ ~board.silent /\ ~Sampling
  BY DEF Settled, Answered, Free
<1>2. ASSUME scene = "dash" PROVE ~app.sync /\ ~Answer /\ ~Unadopted
  <2>1. OwnTrack
    BY DEF AInv, Agree
  <2>2. ~Answer
    <3>1. ~Due(1)
      BY <1>2 DEF Settled, NoneDue
    <3>2. SyncAct # "Wait" \/ ~model.diagSeen
      BY DEF SyncAct, PeerSync
    <3>. QED BY <3>1, <3>2 DEF Answer, Due
  <2>3. ~app.sync
    BY <1>1, <2>1, <2>2 DEF OwnTrack, SyncWaits, NoCmd
  <2>. QED BY <1>2, <2>1, <2>2, <2>3 DEF OwnTrack, AdoptionDue
<1>. QED BY <1>1, <1>2

\* A user who waits acts when nothing is left to adopt.
LEMMA AgreeOkPress == AInv /\ User /\ OkPress => Agree'
<1>. SUFFICES ASSUME AInv, User, OkPress PROVE Agree'
  OBVIOUS
<1>1. /\ rx' = rx /\ tx' = tx /\ board' = board /\ model' = model /\ scene' = scene
      /\ Sampling' = Sampling /\ scene = "dash" /\ app \in App
  BY DEF OkPress, Sampling, AInv, IInv, TypeOK
<1>2. CASE Judged /\ board.kind = "sigroam"
  <2>1. Settled
    BY <1>2 DEF Judged, User
  <2>2. /\ slot = NoCmd /\ tx = <<>> /\ rx = <<>> /\ ~board.silent /\ ~Sampling
        /\ ~app.sync /\ ~Unadopted
    BY <1>1, <1>2, <2>1, SettledOwn
  <2>3. Claims
    BY <1>2 DEF AInv, Agree
  <2>7. OkStop \/ OkStartNow
    BY <1>2, OwnNever DEF OkPress, AInv
  <2>8. app'.sync = app.sync
    BY <1>1, <2>7 DEF OkStop, OkStartNow, App
  <2>9. Claims' /\ ~Unadopted'
    BY <1>1, <2>2, <2>3, LinesKept
  <2>10. OneCall' /\ LinesFresh'
    BY <1>1, <2>2 DEF OneCall, CallAlone, NoAnswer, LinesFresh
  <2>11. DiagFresh' /\ SyncWaits' /\ AdoptionDue'
    BY <2>2, <2>8, <2>9 DEF DiagFresh, SyncWaits, AdoptionDue, Answer
  <2>12. SampleIdle'
    BY <1>1, <2>2 DEF SampleIdle, Said
  <2>. QED BY <1>1, <1>2, <2>9, <2>10, <2>11, <2>12 DEF Agree, OwnTrack
<1>3. CASE Judged /\ board.kind # "sigroam"
  BY <1>1, <1>3, QuietStep DEF AInv
<1>4. CASE ~Judged
  BY <1>1, <1>4 DEF Agree, Judged
<1>. QED BY <1>2, <1>3, <1>4

\* He takes a sample while no session runs, and so in front of a board that
\* idles.
LEMMA AgreeGpsStart == AInv /\ User /\ GpsStart => Agree'
<1>. SUFFICES ASSUME AInv, User, GpsStart PROVE Agree'
  OBVIOUS
<1>1. /\ rx' = rx /\ tx' = tx /\ board' = board /\ model' = model /\ scene' = scene
      /\ scan' = scan /\ app' = app /\ moved' = moved
      /\ scene = "dash" /\ board.gpsTab
  BY DEF GpsStart
<1>2. CASE Judged /\ board.kind = "sigroam"
  <2>1. Settled
    BY <1>2 DEF Judged, User
  <2>2. /\ slot = NoCmd /\ tx = <<>> /\ rx = <<>> /\ ~board.silent
        /\ ~Unadopted
    BY <1>1, <1>2, <2>1, SettledOwn
  <2>3. model.session # "Running"
    BY DEF GpsStart, GpsGate
  <2>4. ~RunsAfter
    BY <2>2, <2>3 DEF RunsAfter
  <2>5. Idling
    BY <2>2, <2>3, <2>4 DEF Idling, Unadopted, Sent, Said, NoCmd
  <2>6. slot' = "gpsdata"
    BY <2>2 DEF GpsStart, Offer, Free
  <2>. QED BY <1>1, <2>2, <2>5, <2>6, QuietStep DEF AInv, Answer
<1>3. CASE Judged /\ board.kind # "sigroam"
  BY <1>1, <1>3, QuietStep DEF AInv
<1>4. CASE ~Judged
  BY <1>1, <1>4 DEF Agree, Judged
<1>. QED BY <1>2, <1>3, <1>4

\* He leaves no screen with a sample in flight.
LEMMA AgreeLeave == AInv /\ User /\ Leave => Agree'
<1>. SUFFICES ASSUME AInv, User, Leave PROVE Agree'
  OBVIOUS
<1>1. /\ rx' = rx /\ tx' = tx /\ board' = board /\ model' = model /\ scan' = scan
      /\ app' = app /\ moved' = moved /\ scene' = "menu" /\ ~Sampling'
  BY DEF Leave, GpsAbort, GpsRest, Sampling
<1>2. CASE Judged /\ board.kind = "sigroam"
  <2>1. ~Sampling
    BY <1>2, SettledOwn DEF Judged, User
  <2>2. slot' = slot
    BY <2>1 DEF Leave, GpsAbort
  <2>. QED BY <1>1, <2>2, QuietStep DEF AInv, Answer
<1>3. CASE Judged /\ board.kind # "sigroam"
  BY <1>1, <1>3, QuietStep DEF AInv
<1>4. CASE ~Judged
  BY <1>1, <1>4 DEF Agree, Judged
<1>. QED BY <1>2, <1>3, <1>4

-----------------------------------------------------------------------------
(* The worker.                                                             *)

LEMMA AgreeTake == AInv /\ Take => Agree'
<1>. SUFFICES ASSUME AInv, Take, Judged
              PROVE  /\ Claims'
                     /\ board.kind = "generic" => StockTrack'
                     /\ board.kind = "sigroam" => OwnTrack'
  BY DEF Agree, Judged, Take
<1>. USE DEF AInv, IInv, TypeOK
<1>1. Claims /\ (board.kind = "generic" => StockTrack) /\ (board.kind = "sigroam" => OwnTrack)
  BY DEF Agree
<1>2. /\ rx' = rx /\ board' = board /\ model' = model /\ scene' = scene /\ scan' = scan
      /\ app' = app /\ moved' = moved /\ slot' = NoCmd /\ Sampling' = Sampling
  BY DEF Take, gui, Sampling
<1>3. Claims' /\ (RunsAfter' <=> RunsAfter) /\ (Unadopted' <=> Unadopted)
  BY <1>1, <1>2, LinesKept
<1>4. ASSUME board.kind = "generic" PROVE StockTrack'
  BY <1>1, <1>2, <1>3, <1>4 DEF StockTrack
<1>5. ASSUME board.kind = "sigroam" PROVE OwnTrack'
  <2>1. slot \in Command
    BY DEF Take, Free
  <2>2. /\ Len(tx') = Len(tx) + 1 /\ Len(tx) \in Nat
        /\ \A i \in 1..Len(tx) : tx'[i] = tx[i]
        /\ tx'[Len(tx) + 1] = slot
    BY <2>1 DEF Take
  <2>3. \A i \in 1..Len(tx') : i = Len(tx) + 1 \/ i \in 1..Len(tx)
    BY <2>2
  <2>4. NoCmd \notin Call
    BY DEF NoCmd, Call
  <2>5. NoCall => NoCall'
    BY <1>2, <2>2, <2>3, <2>4 DEF NoCall
  <2>10. Idling => Idling'
    BY <1>2, SentTaken DEF Idling, Said, Command
  <2>6. ASSUME CallAlone PROVE CallAlone'
    <3>2. ASSUME NEW i \in 1..Len(tx'), tx'[i] \in Call
          PROVE  i = 1 /\ NoAnswer /\ ~board.silent
      <4>1. CASE i = Len(tx) + 1
        <5>1. tx = <<>> /\ NoAnswer /\ ~board.silent
          BY <2>2, <2>6, <3>2, <4>1 DEF CallAlone
        <5>. QED BY <4>1, <5>1
      <4>2. CASE i \in 1..Len(tx)
        BY <2>2, <2>6, <3>2, <4>2 DEF CallAlone
      <4>. QED BY <2>3, <4>1, <4>2
    <3>3. NoAnswer' <=> NoAnswer
      BY <1>2 DEF NoAnswer
    <3>. QED BY <1>2, <2>4, <3>2, <3>3 DEF CallAlone
  <2>7. LinesFresh' /\ DiagFresh' /\ OneCall'
    BY <1>1, <1>2, <1>5, <2>5, <2>6, <2>10
    DEF OwnTrack, OneCall, LinesFresh, DiagFresh, Answer
  <2>11. SampleIdle'
    BY <1>1, <1>2, <1>5, <2>10 DEF OwnTrack, SampleIdle, Said
  <2>8. SyncWaits'
    <3>1. slot = "info" => \E i \in 1..Len(tx') : tx'[i] = "info"
      BY <2>2
    <3>2. \A i \in 1..Len(tx) : i \in 1..Len(tx') /\ tx'[i] = tx[i]
      BY <2>2
    <3>. QED BY <1>1, <1>2, <1>5, <3>1, <3>2 DEF OwnTrack, SyncWaits, Answer
  <2>9. AdoptionDue'
    BY <1>1, <1>2, <1>3, <1>5, <2>5 DEF OwnTrack, AdoptionDue
  <2>. QED BY <2>7, <2>8, <2>9, <2>11 DEF OwnTrack
<1>. QED BY <1>3, <1>4, <1>5

\* What one line does to the session: it may start or stop, as the lines
\* said, but for a row on a session that was never told of its scan, and for
\* the end of a stream while a session runs.
LEMMA SessionAfter ==
  ASSUME TypeOK, Apply, rx[1].kind = "gpsStop" => model.session # "Running"
  PROVE  /\ model.session = "Running" /\ rx[1].kind # "stopped" => model'.session = "Running"
         /\ rx[1].kind = "started" => model'.session = "Running"
         /\ model'.session = "Running" =>
              rx[1].kind # "stopped" /\ (model.session = "Running" \/ rx[1].kind \in {"started", "row"})
<1>. DEFINE l == Head(rx)
<1>1. l = rx[1] /\ l \in Line
  BY TailShift DEF Apply, TypeOK
<1>2. ApplyLine(l) /\ model \in Model
  BY DEF Apply, TypeOK
<1>. HIDE DEF l
<1>3. CASE l.kind = "started"
  BY <1>1, <1>2, <1>3 DEF ApplyLine, SessionStarts, Started, Model
<1>4. CASE l.kind = "row"
  BY <1>1, <1>2, <1>4 DEF ApplyLine, SessionTo, RowSeen, Started, Model
<1>5. CASE l.kind = "stopped"
  BY <1>1, <1>2, <1>5 DEF ApplyLine, StoppedLine, SessionTo, Stopped, Model, Session
<1>6. CASE l.kind \in {"firmware", "diag", "busy", "block"}
  BY <1>1, <1>2, <1>6 DEF ApplyLine, Model
<1>7. CASE l.kind = "gpsStop"
  BY <1>1, <1>2, <1>7 DEF ApplyLine, StoppedLine, SessionTo, Model
<1>. QED BY <1>1, <1>3, <1>4, <1>5, <1>6, <1>7 DEF Line

LEMMA RunsApplied ==
  ASSUME TypeOK, Apply, rx[1].kind = "gpsStop" => model.session # "Running"
  PROVE  /\ RunsAfter => RunsAfter'
         /\ RunsAfter' => RunsAfter \/ (rx[1].kind = "row" /\
                                        \A i \in 2..Len(rx) : rx[i].kind # "stopped")
<1>0. rx \in Seq(Line) /\ rx # <<>> /\ rx' = Tail(rx)
  BY DEF Apply, TypeOK
<1>1. /\ Len(rx) \in Nat /\ 1 \in 1..Len(rx) /\ Len(rx') = Len(rx) - 1
      /\ \A i \in 1..Len(rx') : i + 1 \in 1..Len(rx) /\ rx'[i] = rx[i + 1]
      /\ \A k \in 1..Len(rx) : k = 1 \/ (k - 1 \in 1..Len(rx') /\ rx'[k - 1] = rx[k])
  BY <1>0, TailShift
<1>2. ASSUME RunsAfter PROVE RunsAfter'
  <2>1. CASE \E i \in 1..Len(rx) : /\ rx[i].kind = "started"
                                   /\ \A j \in (i + 1)..Len(rx) : rx[j].kind # "stopped"
    <3>1. PICK i \in 1..Len(rx) : /\ rx[i].kind = "started"
                                  /\ \A j \in (i + 1)..Len(rx) : rx[j].kind # "stopped"
      BY <2>1
    <3>2. CASE i = 1
      <4>1. model'.session = "Running"
        BY <3>1, <3>2, SessionAfter
      <4>2. \A j \in 1..Len(rx') : rx'[j].kind # "stopped"
        BY <1>1, <3>1, <3>2
      <4>. QED BY <4>1, <4>2 DEF RunsAfter
    <3>3. CASE i # 1
      <4>1. i - 1 \in 1..Len(rx') /\ rx'[i - 1].kind = "started"
        BY <1>1, <3>1, <3>3
      <4>2. \A j \in ((i - 1) + 1)..Len(rx') : rx'[j].kind # "stopped"
        <5>. TAKE j \in ((i - 1) + 1)..Len(rx')
        <5>1. j \in 1..Len(rx') /\ j + 1 \in (i + 1)..Len(rx)
          BY <1>1
        <5>. QED BY <1>1, <3>1, <5>1
      <4>. QED BY <4>1, <4>2 DEF RunsAfter
    <3>. QED BY <3>2, <3>3
  <2>2. CASE model.session = "Running" /\ \A i \in 1..Len(rx) : rx[i].kind # "stopped"
    <3>1. model'.session = "Running"
      BY <1>1, <2>2, SessionAfter
    <3>2. \A j \in 1..Len(rx') : rx'[j].kind # "stopped"
      BY <1>1, <2>2
    <3>. QED BY <3>1, <3>2 DEF RunsAfter
  <2>. QED BY <1>2, <2>1, <2>2 DEF RunsAfter
<1>3. ASSUME RunsAfter',
             ~ (rx[1].kind = "row" /\ \A i \in 2..Len(rx) : rx[i].kind # "stopped")
      PROVE  RunsAfter
  <2>1. CASE \E i \in 1..Len(rx') : /\ rx'[i].kind = "started"
                                    /\ \A j \in (i + 1)..Len(rx') : rx'[j].kind # "stopped"
    <3>1. PICK i \in 1..Len(rx') : /\ rx'[i].kind = "started"
                                   /\ \A j \in (i + 1)..Len(rx') : rx'[j].kind # "stopped"
      BY <2>1
    <3>2. i + 1 \in 1..Len(rx) /\ rx[i + 1].kind = "started"
      BY <1>1, <3>1
    <3>3. \A j \in ((i + 1) + 1)..Len(rx) : rx[j].kind # "stopped"
      <4>. TAKE j \in ((i + 1) + 1)..Len(rx)
      <4>1. j \in 1..Len(rx) /\ j # 1 /\ j - 1 \in (i + 1)..Len(rx')
        BY <1>1
      <4>. QED BY <1>1, <3>1, <4>1
    <3>. QED BY <3>2, <3>3 DEF RunsAfter
  <2>2. CASE model'.session = "Running" /\ \A i \in 1..Len(rx') : rx'[i].kind # "stopped"
    <3>1. \A i \in 2..Len(rx) : rx[i].kind # "stopped"
      BY <1>1, <2>2
    <3>2. /\ rx[1].kind # "stopped"
          /\ model.session = "Running" \/ rx[1].kind = "started"
      BY <1>3, <2>2, <3>1, SessionAfter
    <3>3. CASE model.session = "Running"
      BY <1>1, <3>1, <3>2, <3>3 DEF RunsAfter
    <3>4. CASE rx[1].kind = "started"
      BY <1>1, <3>1, <3>4 DEF RunsAfter
    <3>. QED BY <3>2, <3>3, <3>4
  <2>. QED BY <1>3, <2>1, <2>2 DEF RunsAfter
<1>. QED BY <1>2, <1>3

LEMMA AgreeApply == AInv /\ Apply => Agree'
<1>. SUFFICES ASSUME AInv, Apply, Judged
              PROVE  /\ Claims'
                     /\ board.kind = "generic" => StockTrack'
                     /\ board.kind = "sigroam" => OwnTrack'
  BY DEF Agree, Judged, Apply
<1>0. TypeOK /\ Claims
  BY DEF AInv, IInv, Agree
<1>1. (board.kind = "generic" => StockTrack) /\ (board.kind = "sigroam" => OwnTrack)
  BY DEF AInv, Agree
<1>2. /\ board' = board /\ tx' = tx /\ slot' = slot /\ scene' = scene
      /\ rx \in Seq(Line) /\ rx # <<>> /\ rx' = Tail(rx)
      /\ app \in App /\ model \in Model /\ moved \in Moved /\ scan \in ScanCtx
  BY <1>0 DEF Apply, TypeOK
<1>3. /\ Len(rx) \in Nat /\ rx[1] \in Line /\ 1 \in 1..Len(rx) /\ Head(rx) = rx[1]
      /\ Len(rx') = Len(rx) - 1
      /\ \A i \in 1..Len(rx') : i + 1 \in 1..Len(rx) /\ rx'[i] = rx[i + 1]
      /\ \A k \in 1..Len(rx) : k = 1 \/ (k - 1 \in 1..Len(rx') /\ rx'[k - 1] = rx[k])
  BY <1>2, TailShift
<1>4. app'.sync = app.sync
  BY <1>2 DEF Apply, App
<1>5. ApplyLine(rx[1])
  BY <1>3 DEF Apply
<1>6. rx[1].kind \notin {"firmware", "diag"} =>
         /\ model'.diagSeen = model.diagSeen /\ model'.diagSt = model.diagSt
         /\ moved'.sync = moved.sync
  BY <1>2, <1>3, <1>5 DEF ApplyLine, SessionStarts, StoppedLine, SessionTo, Line, Model, Moved
<1>7. rx[1].kind = "firmware" => ~model'.diagSeen
  BY <1>2, <1>5 DEF ApplyLine, Model
<1>8. rx[1].kind = "diag" =>
         model'.diagSeen /\ model'.diagSt = rx[1].st /\ moved'.sync = app.sync
  BY <1>2, <1>5 DEF ApplyLine, Model, Moved
<1>9. /\ scan'.pending = scan.pending
      /\ Sampling' <=> Sampling
  BY <1>0, OutsideApp DEF Outside
<1>13. \A k : Said(k)' => Said(k)
  BY <1>3 DEF Said
<1>14. rx[1].kind = "gpsStop" => model.session # "Running"
  <2>. SUFFICES ASSUME rx[1].kind = "gpsStop" PROVE model.session # "Running"
    OBVIOUS
  <2>1. Said("gpsStop")
    BY <1>3 DEF Said
  <2>2. CASE board.kind = "generic"
    BY <2>1, <2>2 DEF AInv, Streams, Judged
  <2>3. CASE board.kind = "sigroam"
    BY <1>1, <2>1, <2>3 DEF OwnTrack, SampleIdle, Idling
  <2>. QED BY <1>0, <2>2, <2>3 DEF TypeOK, Board, Kind
<1>10. Claims'
  <2>1. RunsAfter' => board.st = 1
    <3>1. CASE rx[1].kind = "row" /\ \A i \in 2..Len(rx) : rx[i].kind # "stopped"
      BY <1>0, <1>3, <3>1 DEF Claims
    <3>. QED BY <1>0, <1>14, <3>1, RunsApplied DEF Claims
  <2>2. ASSUME NEW i \in 1..Len(rx'), rx'[i].kind = "row", board.st # 1
        PROVE  \E j \in (i + 1)..Len(rx') : rx'[j].kind = "stopped"
    <3>1. i + 1 \in 1..Len(rx) /\ rx[i + 1].kind = "row"
      BY <1>3, <2>2
    <3>2. PICK j \in ((i + 1) + 1)..Len(rx) : rx[j].kind = "stopped"
      BY <1>0, <2>2, <3>1 DEF Claims
    <3>3. j \in 1..Len(rx) /\ j # 1 /\ j - 1 \in (i + 1)..Len(rx')
      BY <1>3, <3>2
    <3>. QED BY <1>3, <3>2, <3>3
  <2>. QED BY <1>0, <1>2, <2>1, <2>2 DEF Claims
<1>11. ASSUME board.kind = "generic" PROVE StockTrack'
  <2>1. rx[1].kind # "diag"
    BY <1>1, <1>3, <1>11 DEF StockTrack
  <2>2. ~model'.diagSeen
    BY <1>1, <1>3, <1>6, <1>7, <1>11, <2>1 DEF StockTrack, Line
  <2>3. \A i \in 1..Len(rx') : rx'[i].kind # "diag"
    BY <1>1, <1>3, <1>11 DEF StockTrack
  <2>. QED BY <1>0, <1>1, <1>2, <1>11, <1>14, <2>2, <2>3, RunsApplied DEF StockTrack
<1>12. ASSUME board.kind = "sigroam" PROVE OwnTrack'
  <2>0. OneCall /\ LinesFresh /\ DiagFresh /\ SyncWaits /\ AdoptionDue /\ SampleIdle
    BY <1>1, <1>12 DEF OwnTrack
  <2>1. NoCall => NoCall'
    BY <1>2 DEF NoCall
  <2>7. ASSUME Idling PROVE Idling'
    <3>1. model'.session # "Running"
      <4>1. rx[1].kind \notin {"started", "row"}
        BY <1>3, <2>7 DEF Idling, Said
      <4>. QED BY <1>0, <1>14, <2>7, <4>1, SessionAfter DEF Idling
    <3>2. ~Sent("wardrive")'
      BY <1>2, <2>7 DEF Idling, Sent
    <3>. QED BY <1>2, <1>13, <2>7, <3>1, <3>2 DEF Idling
  <2>8. CallAlone => CallAlone'
    <3>1. NoAnswer => NoAnswer'
      BY <1>3 DEF NoAnswer
    <3>. QED BY <1>2, <3>1 DEF CallAlone
  <2>9. rx[1].kind # "block" => NoCall' \/ Idling'
    <3>1. CASE CallAlone /\ rx[1].kind # "block"
      <4>1. ~NoAnswer
        BY <1>3, <3>1 DEF NoAnswer
      <4>2. NoCall
        BY <3>1, <4>1 DEF CallAlone, NoCall
      <4>. QED BY <2>1, <4>2
    <3>. QED BY <2>0, <2>7, <3>1 DEF OneCall
  <2>2. OneCall'
    BY <2>0, <2>7, <2>8 DEF OneCall
  <2>3. LinesFresh'
    <3>. SUFFICES ASSUME NEW i \in 1..Len(rx')
                  PROVE  /\ rx'[i].kind = "stopped" => board.st # 1
                         /\ rx'[i].kind = "diag" => (rx'[i].st = 1 <=> board.st = 1)
                         /\ rx'[i].kind = "firmware" => i < Len(rx') /\ rx'[i + 1].kind = "diag"
      BY <1>2 DEF LinesFresh
    <3>1. i + 1 \in 1..Len(rx) /\ rx'[i] = rx[i + 1]
      BY <1>3
    <3>2. i + 1 < Len(rx) => i + 1 \in 1..Len(rx') /\ rx'[i + 1] = rx[(i + 1) + 1]
      BY <1>3
    <3>. QED BY <1>3, <2>0, <3>1, <3>2 DEF LinesFresh
  <2>4. DiagFresh'
    <3>1. CASE rx[1].kind \notin {"firmware", "diag"}
      BY <1>2, <1>4, <1>6, <2>0, <2>1, <2>7, <3>1 DEF DiagFresh, Answer
    <3>2. CASE rx[1].kind = "firmware"
      BY <1>7, <3>2 DEF DiagFresh, Answer
    <3>3. CASE rx[1].kind = "diag"
      BY <1>2, <1>3, <1>8, <2>0, <2>9, <3>3 DEF DiagFresh, LinesFresh
    <3>. QED BY <3>1, <3>2, <3>3
  <2>5. SyncWaits'
    <3>. SUFFICES ASSUME app.sync, slot # "info", \A i \in 1..Len(tx) : tx[i] # "info"
                  PROVE  (\E i \in 1..Len(rx') : rx'[i].kind = "diag") \/ Answer'
      BY <1>2, <1>4 DEF SyncWaits
    <3>1. CASE rx[1].kind = "diag"
      BY <1>4, <1>8, <3>1 DEF Answer
    <3>2. CASE \E k \in 1..Len(rx) : rx[k].kind = "diag" /\ rx[1].kind # "diag"
      BY <1>3, <3>2
    <3>3. CASE Answer /\ rx[1].kind = "firmware"
      <4>1. 1 < Len(rx) /\ rx[1 + 1].kind = "diag"
        BY <1>3, <2>0, <3>3 DEF LinesFresh
      <4>. QED BY <1>3, <4>1
    <3>4. CASE Answer /\ rx[1].kind \notin {"firmware", "diag"}
      BY <1>4, <1>6, <3>4 DEF Answer
    <3>. QED BY <1>3, <2>0, <3>1, <3>2, <3>3, <3>4 DEF SyncWaits, Line
  <2>6. AdoptionDue'
    <3>1. Unadopted' => Unadopted
      BY <1>0, <1>2, <1>14, RunsApplied DEF Unadopted
    <3>. QED BY <1>2, <1>4, <1>9, <2>0, <2>1, <3>1 DEF AdoptionDue
  <2>10. SampleIdle'
    BY <1>9, <1>13, <2>0, <2>7 DEF SampleIdle
  <2>. QED BY <2>2, <2>3, <2>4, <2>5, <2>6, <2>10 DEF OwnTrack
<1>. QED BY <1>10, <1>11, <1>12

-----------------------------------------------------------------------------
(* The board.                                                              *)

\* A line that neither starts nor stops a session changes nothing of this.
Aside == {"firmware", "diag", "busy", "block", "gpsStop"}

LEMMA SaidAside ==
  ASSUME TypeOK, Claims, NEW t \in Seq(Line), rx' = rx \o t,
         \A i \in 1..Len(t) : t[i].kind \in Aside,
         model' = model, board'.st = board.st, board'.silent = board.silent
  PROVE  /\ Claims'
         /\ RunsAfter' <=> RunsAfter
         /\ Unadopted' <=> Unadopted
<1>1. /\ Len(rx) \in Nat /\ Len(t) \in Nat /\ Len(rx') = Len(rx) + Len(t)
      /\ \A i \in 1..Len(rx) : rx'[i] = rx[i]
      /\ \A k \in 1..Len(rx') :
           k \in 1..Len(rx) \/ rx'[k].kind \in {"firmware", "diag", "busy", "block", "gpsStop"}
  BY Appended DEF TypeOK, Aside
<1>. DEFINE StopIn(s, i) == \E j \in (i + 1)..Len(s) : s[j].kind = "stopped"
<1>2. \A k \in 1..Len(rx') : rx'[k].kind \in {"started", "stopped", "row"} =>
         k \in 1..Len(rx) /\ rx[k] = rx'[k]
  BY <1>1
<1>3. \A k \in 1..Len(rx) : k \in 1..Len(rx') /\ rx'[k] = rx[k]
  BY <1>1
<1>4. ASSUME NEW i \in Nat PROVE StopIn(rx', i) <=> StopIn(rx, i)
  <2>1. ASSUME NEW j \in (i + 1)..Len(rx'), rx'[j].kind = "stopped"
        PROVE  j \in (i + 1)..Len(rx) /\ rx[j].kind = "stopped"
    BY <1>1, <1>2, <2>1
  <2>2. ASSUME NEW j \in (i + 1)..Len(rx), rx[j].kind = "stopped"
        PROVE  j \in (i + 1)..Len(rx') /\ rx'[j].kind = "stopped"
    BY <1>1, <1>3, <2>2
  <2>. QED BY <2>1, <2>2
<1>. HIDE DEF StopIn
<1>5. RunsAfter <=> (\E i \in 1..Len(rx) : rx[i].kind = "started" /\ ~StopIn(rx, i))
                     \/ (model.session = "Running" /\ ~StopIn(rx, 0))
  <2>1. StopIn(rx, 0) <=> \E i \in 1..Len(rx) : rx[i].kind = "stopped"
    BY <1>1 DEF StopIn
  <2>2. \A i \in 1..Len(rx) :
          ~StopIn(rx, i) <=> \A j \in (i + 1)..Len(rx) : rx[j].kind # "stopped"
    BY <1>1 DEF StopIn
  <2>. QED BY <2>1, <2>2 DEF RunsAfter
<1>6. RunsAfter' <=> (\E i \in 1..Len(rx') : rx'[i].kind = "started" /\ ~StopIn(rx', i))
                      \/ (model.session = "Running" /\ ~StopIn(rx', 0))
  <2>1. StopIn(rx', 0) <=> \E i \in 1..Len(rx') : rx'[i].kind = "stopped"
    BY <1>1 DEF StopIn
  <2>2. \A i \in 1..Len(rx') :
          ~StopIn(rx', i) <=> \A j \in (i + 1)..Len(rx') : rx'[j].kind # "stopped"
    BY <1>1 DEF StopIn
  <2>. QED BY <2>1, <2>2 DEF RunsAfter
<1>7. RunsAfter' <=> RunsAfter
  BY <1>1, <1>2, <1>3, <1>4, <1>5, <1>6
<1>8. ASSUME NEW i \in 1..Len(rx'), rx'[i].kind = "row", board.st # 1
      PROVE  StopIn(rx', i)
  <2>1. i \in 1..Len(rx) /\ rx[i].kind = "row"
    BY <1>2, <1>8
  <2>2. StopIn(rx, i)
    BY <1>8, <2>1 DEF Claims, StopIn
  <2>. QED BY <1>4, <2>2
<1>9. Claims'
  BY <1>7, <1>8 DEF Claims, StopIn
<1>. QED BY <1>7, <1>9 DEF Unadopted

\* Behind a stop nothing runs, and no row counts.
LEMMA SaidStopped ==
  ASSUME TypeOK, rx' = rx \o Plain("stopped")
  PROVE  /\ ~RunsAfter'
         /\ \A i \in 1..Len(rx') : rx'[i].kind = "row" =>
              \E j \in (i + 1)..Len(rx') : rx'[j].kind = "stopped"
<1>1. Plain("stopped") \in Seq(Line) /\ Len(Plain("stopped")) = 1
      /\ Plain("stopped")[1].kind = "stopped"
  BY DEF Plain, Line, BoardState
<1>2. /\ Len(rx) \in Nat /\ Len(rx') = Len(rx) + 1
      /\ rx'[Len(rx) + 1].kind = "stopped"
  <2>. DEFINE p == Plain("stopped")
  <2>1. p \in Seq(Line) /\ Len(p) = 1 /\ p[1].kind = "stopped" /\ rx' = rx \o p
    BY <1>1
  <2>. HIDE DEF p
  <2>2. rx \in Seq(Line) /\ 1 \in 1..Len(p)
    BY <2>1 DEF TypeOK
  <2>3. /\ Len(rx) \in Nat /\ Len(rx \o p) = Len(rx) + Len(p)
        /\ \A i \in 1..Len(p) : (rx \o p)[Len(rx) + i] = p[i]
    BY <2>1, <2>2, Appended
  <2>. QED BY <2>1, <2>2, <2>3
<1>3. Len(rx') \in 1..Len(rx') /\ rx'[Len(rx')].kind = "stopped"
  BY <1>2
<1>4. \A i \in 1..Len(rx') : i = Len(rx') \/ Len(rx') \in (i + 1)..Len(rx')
  BY <1>2
<1>5. ~RunsAfter'
  BY <1>3, <1>4 DEF RunsAfter
<1>. QED BY <1>3, <1>4, <1>5

LEMMA AgreeReadStock ==
  ASSUME AInv, BoardRead, Judged, board.kind = "generic"
  PROVE  Claims' /\ StockTrack'
<1>. USE DEF AInv, IInv, TypeOK
<1>1. Claims /\ StockTrack
  BY DEF Agree
<1>2. model' = model /\ ~board.gps /\ ~ReadGpsdata
  <2>1. ~board.gpsTab
    BY DEF Judged
  <2>2. Head(tx) # "gpsdata"
    BY <2>1, SentLess DEF Streams, BoardRead
  <2>. QED BY <2>1, <2>2 DEF BoardRead, Streams, ReadGpsdata
<1>3. Plain("firmware") \in Seq(Line) /\ Plain("stopped") \in Seq(Line) /\ <<>> \in Seq(Line)
  BY DEF Plain, Line, BoardState
<1>4. \A i \in 1..Len(Plain("firmware")) : Plain("firmware")[i].kind = "firmware"
  BY DEF Plain
<1>5. \A i \in 1..Len(Plain("stopped")) : Plain("stopped")[i].kind # "diag"
  BY DEF Plain
<1>6. ASSUME NEW t \in Seq(Line), rx' = rx \o t, \A i \in 1..Len(t) : t[i].kind # "diag"
      PROVE  ~model'.diagSeen /\ \A i \in 1..Len(rx') : rx'[i].kind # "diag"
  <2>1. \A k \in 1..Len(rx') :
          k \in 1..Len(rx) \/ (k - Len(rx) \in 1..Len(t) /\ rx'[k] = t[k - Len(rx)])
    BY <1>6, Appended
  <2>2. \A k \in 1..Len(rx) : rx'[k] = rx[k]
    BY <1>6, Appended
  <2>. QED BY <1>1, <1>2, <1>6, <2>1, <2>2 DEF StockTrack
<1>7. CASE ReadWardrive
  <2>1. rx' = rx
    BY <1>3, <1>7 DEF ReadWardrive, Say
  <2>2. CASE board' = board
    BY <1>1, <1>2, <2>1, <2>2, LinesKept DEF StockTrack
  <2>3. CASE board' = [board EXCEPT !.st = 1, !.silent = TRUE, !.gps = FALSE]
    <3>1. board'.st = 1 /\ board'.silent
      BY <2>3 DEF Board
    <3>. QED BY <1>1, <1>2, <2>1, <3>1 DEF Claims, StockTrack
  <2>. QED BY <1>7, <2>2, <2>3 DEF ReadWardrive
<1>8. CASE ReadStopscan
  <2>1. board'.st = 0 /\ ~board'.silent /\ rx' = rx \o Plain("stopped")
    BY <1>2, <1>8 DEF ReadStopscan, Ended, Say, Board
  <2>2. Claims'
    BY <2>1, SaidStopped DEF Claims
  <2>3. ~model'.diagSeen /\ \A i \in 1..Len(rx') : rx'[i].kind # "diag"
    BY <1>3, <1>5, <1>6, <2>1
  <2>. QED BY <2>1, <2>2, <2>3 DEF StockTrack
<1>9. CASE ReadInfo
  <2>1. board'.st = board.st /\ board'.silent = board.silent /\ rx' = rx \o Plain("firmware")
    BY <1>9 DEF ReadInfo, Say, Board
  <2>2. Claims' /\ (RunsAfter' <=> RunsAfter)
    BY <1>1, <1>2, <1>3, <1>4, <2>1, SaidAside DEF Aside
  <2>. QED BY <1>1, <1>3, <1>4, <1>6, <2>1, <2>2 DEF StockTrack
<1>10. CASE ReadSigroam
  <2>1. rx' = rx /\ board' = board
    BY <1>3, <1>10 DEF ReadSigroam, Say
  <2>. QED BY <1>1, <1>2, <2>1, LinesKept DEF StockTrack
<1>. QED BY <1>2, <1>7, <1>8, <1>9, <1>10 DEF BoardRead

\* With lines or commands on the way, a start or a stop is not, but at the head.
LEMMA CallFirst ==
  ASSUME TypeOK, CallAlone, tx # <<>>, tx' = Tail(tx), slot' = slot
  PROVE  /\ NoCall'
         /\ tx[1] \notin Call => NoCall
         /\ tx[1] \in Call => ~NoCall /\ NoAnswer /\ ~board.silent
<1>1. /\ Len(tx) \in Nat /\ 1 \in 1..Len(tx) /\ Len(tx') = Len(tx) - 1
      /\ \A i \in 1..Len(tx') : i + 1 \in 1..Len(tx) /\ tx'[i] = tx[i + 1]
      /\ \A k \in 1..Len(tx) : k = 1 \/ (k - 1 \in 1..Len(tx') /\ tx'[k - 1] = tx[k])
  BY DEF TypeOK
<1>2. slot \notin Call
  BY DEF CallAlone
<1>3. \A i \in 1..Len(tx') : tx'[i] \notin Call
  BY <1>1 DEF CallAlone
<1>4. tx[1] \notin Call => NoCall
  BY <1>1, <1>2 DEF CallAlone, NoCall
<1>5. tx[1] \in Call => ~NoCall /\ NoAnswer /\ ~board.silent
  BY <1>1 DEF CallAlone, NoCall
<1>. QED BY <1>2, <1>3, <1>4, <1>5 DEF NoCall

\* What a -sigroam- board answers to info.
LEMMA InfoSaid ==
  ASSUME TypeOK, LinesFresh, rx' = rx \o (Plain("firmware") \o Report("diag")),
         board'.st = board.st
  PROVE  LinesFresh' /\ \E i \in 1..Len(rx') : rx'[i].kind = "diag"
<1>. DEFINE t == Plain("firmware") \o Report("diag")
<1>1. t \in Seq(Line) /\ Len(t) = 2 /\ t[1].kind = "firmware"
      /\ t[2].kind = "diag" /\ t[2].st = board.st
  BY DEF Plain, Report, Line, TypeOK, Board, BoardState
<1>2. rx' = rx \o t
  OBVIOUS
<1>. HIDE DEF t
<1>3. /\ Len(rx) \in Nat /\ Len(rx') = Len(rx) + 2
      /\ \A i \in 1..Len(rx) : rx'[i] = rx[i]
      /\ rx'[Len(rx) + 1] = t[1] /\ rx'[Len(rx) + 2] = t[2]
  <2>1. /\ Len(rx) \in Nat /\ Len(rx') = Len(rx) + Len(t)
        /\ \A i \in 1..Len(rx) : rx'[i] = rx[i]
        /\ \A i \in 1..Len(t) : rx'[Len(rx) + i] = t[i]
    <3>1. rx \in Seq(Line)
      BY DEF TypeOK
    <3>2. /\ Len(rx) \in Nat /\ Len(rx \o t) = Len(rx) + Len(t)
          /\ \A i \in 1..Len(rx) : (rx \o t)[i] = rx[i]
          /\ \A i \in 1..Len(t) : (rx \o t)[Len(rx) + i] = t[i]
      BY <1>1, <3>1, Appended
    <3>. QED BY <1>2, <3>2
  <2>2. 1 \in 1..Len(t) /\ 2 \in 1..Len(t)
    BY <1>1
  <2>. QED BY <1>1, <2>1, <2>2
<1>4. \A i \in 1..Len(rx') : i \in 1..Len(rx) \/ i = Len(rx) + 1 \/ i = Len(rx) + 2
  BY <1>3
<1>5. LinesFresh'
  <2>. SUFFICES ASSUME NEW i \in 1..Len(rx')
                PROVE  /\ rx'[i].kind = "stopped" => board.st # 1
                       /\ rx'[i].kind = "diag" => (rx'[i].st = 1 <=> board.st = 1)
                       /\ rx'[i].kind = "firmware" => i < Len(rx') /\ rx'[i + 1].kind = "diag"
    BY DEF LinesFresh
  <2>1. CASE i \in 1..Len(rx)
    <3>1. rx[i].kind = "firmware" => i + 1 \in 1..Len(rx) /\ rx[i + 1].kind = "diag"
      BY <1>3, <2>1 DEF LinesFresh
    <3>. QED BY <1>3, <2>1, <3>1 DEF LinesFresh
  <2>2. CASE i = Len(rx) + 1
    BY <1>1, <1>3, <2>2
  <2>3. CASE i = Len(rx) + 2
    BY <1>1, <1>3, <2>3
  <2>. QED BY <1>4, <2>1, <2>2, <2>3
<1>6. Len(rx) + 2 \in 1..Len(rx') /\ rx'[Len(rx) + 2].kind = "diag"
  BY <1>1, <1>3
<1>. QED BY <1>5, <1>6

\* And any other line it says.
LEMMA OneSaid ==
  ASSUME TypeOK, LinesFresh, NEW t \in Seq(Line), rx' = rx \o t,
         (board'.st = 1) <=> (board.st = 1),
         \A i \in 1..Len(t) : /\ t[i].kind \notin {"firmware", "diag"}
                              /\ t[i].kind = "stopped" => board.st # 1
  PROVE  /\ LinesFresh'
         /\ \A i \in 1..Len(rx) : i \in 1..Len(rx') /\ rx'[i] = rx[i]
<1>1. /\ Len(rx) \in Nat /\ Len(t) \in Nat /\ Len(rx') = Len(rx) + Len(t)
      /\ \A i \in 1..Len(rx) : rx'[i] = rx[i]
      /\ \A k \in 1..Len(rx') :
           k \in 1..Len(rx) \/ (k - Len(rx) \in 1..Len(t) /\ rx'[k] = t[k - Len(rx)])
  BY Appended DEF TypeOK
<1>2. LinesFresh'
  <2>. SUFFICES ASSUME NEW i \in 1..Len(rx')
                PROVE  /\ rx'[i].kind = "stopped" => board.st # 1
                       /\ rx'[i].kind = "diag" => (rx'[i].st = 1 <=> board.st = 1)
                       /\ rx'[i].kind = "firmware" => i < Len(rx') /\ rx'[i + 1].kind = "diag"
    BY DEF LinesFresh
  <2>1. CASE i \in 1..Len(rx)
    <3>1. rx[i].kind = "firmware" => i + 1 \in 1..Len(rx) /\ rx[i + 1].kind = "diag"
      BY <1>1, <2>1 DEF LinesFresh
    <3>. QED BY <1>1, <2>1, <3>1 DEF LinesFresh
  <2>2. CASE i - Len(rx) \in 1..Len(t) /\ rx'[i] = t[i - Len(rx)]
    BY <2>2
  <2>. QED BY <1>1, <2>1, <2>2
<1>. QED BY <1>1, <1>2

\* A command that was read leaves the others, and what was answered, behind.
LEMMA CommandGone ==
  ASSUME TypeOK, SyncWaits, BoardRead, tx[1] # "info",
         \A i \in 1..Len(rx) : i \in 1..Len(rx') /\ rx'[i] = rx[i]
  PROVE  SyncWaits'
<1>1. /\ model' = model /\ moved' = moved /\ app' = app /\ slot' = slot
      /\ tx # <<>> /\ tx' = Tail(tx)
  BY DEF BoardRead, gui
<1>2. \A k \in 1..Len(tx) : k = 1 \/ (k - 1 \in 1..Len(tx') /\ tx'[k - 1] = tx[k])
  BY <1>1 DEF TypeOK
<1>. QED BY <1>1, <1>2 DEF SyncWaits, Answer

\* A board that idles goes on idling, and what it says is fresh.
LEMMA ReadIdling ==
  ASSUME TypeOK, Streams, BoardRead, board.kind = "sigroam", Idling, Claims, OwnTrack
  PROVE  Claims' /\ OwnTrack'
<1>0. LinesFresh /\ DiagFresh /\ SyncWaits
  BY DEF OwnTrack
<1>1. /\ model' = model /\ moved' = moved /\ app' = app /\ scan' = scan /\ scene' = scene
      /\ slot' = slot /\ tx # <<>> /\ tx' = Tail(tx) /\ gps' = gps
      /\ board \in Board /\ rx \in Seq(Line) /\ Head(tx) = tx[1]
  BY DEF BoardRead, gui, TypeOK
<1>2. ~ReadWardrive
  BY <1>1, SentLess DEF Idling, ReadWardrive
<1>3. board'.st = board.st /\ ~board'.silent
  <2>1. CASE ReadStopscan
    <3>1. board' = board \/ board' = Ended(board.st)
      BY <2>1 DEF ReadStopscan, Idling
    <3>. QED BY <1>1, <3>1 DEF Ended, Idling, Board
  <2>2. CASE ReadInfo \/ ReadSigroam \/ ReadGpsdata
    BY <1>1, <2>2 DEF ReadInfo, ReadSigroam, ReadGpsdata, Idling, Board
  <2>. QED BY <1>2, <2>1, <2>2 DEF BoardRead
<1>4. Idling'
  <2>1. ~Said("started")' /\ ~Said("row")'
    BY SaidNow DEF Idling
  <2>2. ~Sent("wardrive")'
    BY <1>1, SentLess DEF Idling
  <2>. QED BY <1>1, <1>3, <2>1, <2>2 DEF Idling
<1>5. Claims' /\ ~Unadopted'
  <2>1. ~RunsAfter'
    BY <1>4 DEF RunsAfter, Idling, Said
  <2>2. \A i \in 1..Len(rx') : rx'[i].kind # "row"
    BY <1>4 DEF Idling, Said
  <2>. QED BY <1>4, <2>1, <2>2 DEF Claims, Unadopted, Idling
<1>6. OneCall' /\ DiagFresh' /\ AdoptionDue' /\ SampleIdle'
  BY <1>0, <1>1, <1>3, <1>4, <1>5 DEF OneCall, DiagFresh, Answer, AdoptionDue, SampleIdle
<1>7. LinesFresh' /\ SyncWaits'
  <2>1. CASE ReadInfo
    <3>1. rx' = rx \o (Plain("firmware") \o Report("diag"))
      BY <2>1 DEF ReadInfo, Say
    <3>. QED BY <1>0, <1>3, <3>1, InfoSaid DEF SyncWaits
  <2>2. ASSUME NEW t \in Seq(Line), Say(t), tx[1] # "info",
               \A i \in 1..Len(t) : t[i].kind \notin {"firmware", "diag"}
        PROVE  LinesFresh' /\ SyncWaits'
    BY <1>0, <1>3, <2>2, OneSaid, CommandGone DEF Say, Idling
  <2>3. /\ <<>> \in Seq(Line) /\ Report("busy") \in Seq(Line)
        /\ Plain("stopped") \in Seq(Line) /\ Plain("gpsStop") \in Seq(Line)
        /\ \A i \in 1..Len(<<>>) : <<>>[i].kind \notin {"firmware", "diag"}
        /\ \A i \in 1..Len(Report("busy")) : Report("busy")[i].kind \notin {"firmware", "diag"}
        /\ \A i \in 1..Len(Plain("stopped")) : Plain("stopped")[i].kind \notin {"firmware", "diag"}
        /\ \A i \in 1..Len(Plain("gpsStop")) : Plain("gpsStop")[i].kind \notin {"firmware", "diag"}
    BY <1>1 DEF Report, Plain, Line, Board, BoardState
  <2>4. CASE ReadStopscan \/ ReadSigroam \/ ReadGpsdata
    <3>1. /\ tx[1] # "info"
          /\ Say(<<>>) \/ Say(Report("busy")) \/ Say(Plain("stopped")) \/ Say(Plain("gpsStop"))
      BY <1>1, <2>4 DEF ReadStopscan, ReadSigroam, ReadGpsdata
    <3>. QED BY <2>2, <2>3, <3>1
  <2>. QED BY <1>2, <2>1, <2>4 DEF BoardRead
<1>. QED BY <1>5, <1>6, <1>7 DEF OwnTrack

\* Else what it reads first is alone, and neither a sample nor its end is near.
LEMMA ReadAlone ==
  ASSUME TypeOK, Streams, BoardRead, board.kind = "sigroam", ~Idling, Claims, OwnTrack
  PROVE  Claims' /\ OwnTrack'
<1>0. CallAlone /\ LinesFresh /\ DiagFresh /\ SyncWaits /\ AdoptionDue
      /\ ~Sampling /\ ~Said("gpsStop")
  BY DEF OwnTrack, OneCall, SampleIdle
<1>1. /\ model' = model /\ moved' = moved /\ app' = app /\ scan' = scan /\ scene' = scene
      /\ slot' = slot /\ tx # <<>> /\ tx' = Tail(tx) /\ gps' = gps
      /\ board \in Board /\ rx \in Seq(Line) /\ Head(tx) = tx[1]
  BY DEF BoardRead, gui, TypeOK
<1>2. /\ NoCall' /\ (tx[1] \notin Call => NoCall)
      /\ (tx[1] \in Call => ~NoCall /\ NoAnswer /\ ~board.silent)
  BY <1>0, <1>1, CallFirst
<1>3. OneCall'
  BY <1>2 DEF OneCall, CallAlone, NoCall
<1>4. Answer' <=> Answer
  BY <1>1 DEF Answer
<1>5. tx[1] = "stopscan" => board.st = 1 /\ ~board.gps
  <2>. SUFFICES ASSUME tx[1] = "stopscan", board.st # 1 PROVE FALSE
    BY DEF Streams
  <2>1. NoAnswer /\ ~board.silent /\ slot \notin Call
        /\ \A i \in 1..Len(tx) : tx[i] \in Call => i = 1
    BY <1>0, <1>1, <1>2 DEF CallAlone, Call, NoCall, TypeOK
  <2>2. ~Sent("wardrive")
    BY <1>1, <2>1 DEF Sent, Call
  <2>3. ~Said("started") /\ ~Said("row") /\ \A i \in 1..Len(rx) : rx[i].kind # "stopped"
    BY <2>1 DEF Said, NoAnswer
  <2>4. model.session # "Running"
    BY <2>3 DEF Claims, RunsAfter
  <2>. QED BY <2>1, <2>2, <2>3, <2>4 DEF Idling
<1>6. ASSUME ~Said("gpsStop")' PROVE SampleIdle'
  BY <1>0, <1>1, <1>6 DEF SampleIdle, Sampling
<1>7. ~Said("gpsStop")'
  BY <1>0, <1>1, <1>5, SaidNow
<1>8. CASE tx[1] \in Call
  <2>1. ~Answer' /\ ~Unadopted /\ NoAnswer /\ ~board.silent
    BY <1>0, <1>2, <1>4, <1>8 DEF DiagFresh, AdoptionDue
  <2>2. DiagFresh'
    BY <2>1 DEF DiagFresh
  <2>3. /\ Report("busy") \in Seq(Line) /\ Plain("stopped") \in Seq(Line) /\ <<>> \in Seq(Line)
        /\ \A i \in 1..Len(Report("busy")) : Report("busy")[i].kind = "busy"
        /\ \A i \in 1..Len(<<>>) : <<>>[i].kind = "busy"
    BY <1>1 DEF Report, Plain, Line, Board, BoardState
  <2>4. CASE board'.st = 1 /\ board'.silent /\ rx' = rx
    <3>1. Claims' /\ ~Unadopted'
      BY <2>1, <2>4 DEF Claims, Unadopted, NoAnswer
    <3>2. LinesFresh'
      BY <2>1, <2>4 DEF LinesFresh, NoAnswer
    <3>3. SyncWaits'
      BY <1>0, <1>8, <2>4, CommandGone DEF Call
    <3>. QED BY <1>3, <1>6, <1>7, <2>2, <3>1, <3>2, <3>3 DEF OwnTrack, AdoptionDue
  <2>5. ASSUME board' = board, NEW t \in Seq(Line), rx' = rx \o t,
               \A i \in 1..Len(t) : t[i].kind = "busy"
        PROVE  Claims' /\ OwnTrack'
    <3>1. Claims' /\ ~Unadopted'
      BY <1>1, <2>1, <2>5, SaidAside DEF Aside
    <3>2. LinesFresh' /\ SyncWaits'
      BY <1>0, <1>8, <2>5, OneSaid, CommandGone DEF Call
    <3>. QED BY <1>3, <1>6, <1>7, <2>2, <3>1, <3>2 DEF OwnTrack, AdoptionDue
  <2>6. CASE board'.st # 1 /\ ~board'.silent /\ rx' = rx \o Plain("stopped")
    <3>1. Claims' /\ ~Unadopted'
      BY <2>6, SaidStopped DEF Claims, Unadopted
    <3>. DEFINE t == Plain("stopped")
    <3>2. t \in Seq(Line) /\ rx' = rx \o t /\ \A i \in 1..Len(t) : t[i].kind = "stopped"
      BY <2>3, <2>6 DEF Plain
    <3>. HIDE DEF t
    <3>3. /\ Len(rx) \in Nat /\ Len(t) \in Nat /\ Len(rx') = Len(rx) + Len(t)
          /\ \A i \in 1..Len(rx) : i \in 1..Len(rx') /\ rx'[i] = rx[i]
          /\ \A k \in 1..Len(rx') :
               k \in 1..Len(rx) \/ (k - Len(rx) \in 1..Len(t) /\ rx'[k] = t[k - Len(rx)])
      BY <1>1, <3>2, Appended
    <3>4. \A k \in 1..Len(rx') : rx'[k].kind \in {"block", "stopped"}
      BY <2>1, <3>2, <3>3 DEF NoAnswer
    <3>5. LinesFresh'
      BY <2>6, <3>4 DEF LinesFresh
    <3>6. SyncWaits'
      BY <1>0, <1>8, <3>3, CommandGone DEF Call
    <3>. QED BY <1>3, <1>6, <1>7, <2>2, <3>1, <3>5, <3>6 DEF OwnTrack, AdoptionDue
  <2>7. CASE ReadWardrive
    <3>0. rx \o <<>> = rx
      BY <1>1
    <3>1. Starts => board'.st = 1 /\ board'.silent /\ rx' = rx
      BY <1>1, <2>7, <3>0 DEF ReadWardrive, Say, Board
    <3>2. ~Starts => board' = board /\ rx' = rx \o Report("busy")
      BY <2>7 DEF ReadWardrive, Say
    <3>. QED BY <2>3, <2>4, <2>5, <3>1, <3>2
  <2>8. CASE ReadStopscan
    <3>1. board' = Ended(2) /\ rx' = rx \o Plain("stopped")
      BY <1>1, <1>5, <2>8 DEF ReadStopscan, Say
    <3>2. board'.st # 1 /\ ~board'.silent
      BY <1>1, <3>1 DEF Ended, Board
    <3>. QED BY <2>6, <3>1, <3>2
  <2>. QED BY <1>1, <1>8, <2>7, <2>8 DEF BoardRead, ReadInfo, ReadSigroam, ReadGpsdata, Call
<1>9. CASE tx[1] \notin Call
  <2>1. NoCall /\ board'.st = board.st /\ board'.silent = board.silent
    BY <1>1, <1>2, <1>9
    DEF BoardRead, ReadWardrive, ReadStopscan, ReadInfo, ReadSigroam, ReadGpsdata, Call, Board
  <2>2. DiagFresh'
    BY <1>0, <1>1, <1>2, <1>4, <2>1 DEF DiagFresh
  <2>3. ASSUME Unadopted' <=> Unadopted PROVE AdoptionDue'
    BY <1>0, <1>1, <1>2, <2>3 DEF AdoptionDue
  <2>4. CASE ReadSigroam \/ ReadGpsdata
    <3>1. rx' = rx /\ tx[1] # "info"
      BY <1>1, <2>4 DEF ReadSigroam, ReadGpsdata, Say
    <3>2. (RunsAfter' <=> RunsAfter) /\ Claims'
      BY <1>1, <2>1, <3>1 DEF RunsAfter, Claims
    <3>3. LinesFresh' /\ SyncWaits' /\ (Unadopted' <=> Unadopted)
      BY <1>0, <2>1, <3>1, <3>2, CommandGone DEF LinesFresh, Unadopted
    <3>. QED BY <1>3, <1>6, <1>7, <2>2, <2>3, <3>2, <3>3 DEF OwnTrack
  <2>5. CASE ReadInfo
    <3>. DEFINE t == Plain("firmware") \o Report("diag")
    <3>1. t \in Seq(Line) /\ \A i \in 1..Len(t) : t[i].kind \in {"firmware", "diag"}
      BY <1>1 DEF Plain, Report, Line, Board, BoardState
    <3>2. rx' = rx \o t
      BY <2>5 DEF ReadInfo, Say
    <3>3. LinesFresh' /\ SyncWaits'
      BY <1>0, <2>1, <3>2, InfoSaid DEF SyncWaits
    <3>. HIDE DEF t
    <3>4. Claims' /\ (Unadopted' <=> Unadopted)
      BY <1>1, <2>1, <3>1, <3>2, SaidAside DEF Aside
    <3>. QED BY <1>3, <1>6, <1>7, <2>2, <2>3, <3>3, <3>4 DEF OwnTrack
  <2>. QED BY <1>1, <1>9, <2>4, <2>5 DEF BoardRead, ReadWardrive, ReadStopscan, Call
<1>. QED BY <1>8, <1>9

LEMMA AgreeReadOwn ==
  ASSUME AInv, BoardRead, Judged, board.kind = "sigroam"
  PROVE  Claims' /\ OwnTrack'
<1>1. TypeOK /\ Streams /\ Claims /\ OwnTrack
  BY DEF AInv, IInv, Agree
<1>. QED BY <1>1, ReadIdling, ReadAlone

LEMMA AgreeAnnounce == AInv /\ Announce => Agree'
<1>. SUFFICES ASSUME AInv, Announce, Judged
              PROVE  /\ Claims'
                     /\ board.kind = "generic" => StockTrack'
                     /\ board.kind = "sigroam" => OwnTrack'
  BY DEF Agree, Judged, Announce, AInv, IInv, TypeOK, Board
<1>0. TypeOK /\ Claims /\ (board.kind = "generic" => StockTrack)
      /\ (board.kind = "sigroam" => OwnTrack)
  BY DEF AInv, IInv, Agree
<1>1. /\ model' = model /\ moved' = moved /\ app' = app /\ scan' = scan /\ scene' = scene
      /\ slot' = slot /\ tx' = tx
      /\ board.silent /\ board.st = 1 /\ board'.st = 1 /\ ~board'.silent
  BY <1>0 DEF Announce, gui, TypeOK, Board, Claims
<1>2. /\ Len(rx) \in Nat /\ Len(rx') = Len(rx) + 1
      /\ \A i \in 1..Len(rx) : rx'[i] = rx[i]
      /\ rx'[Len(rx) + 1].kind = "started"
  <2>. DEFINE t == Plain("started")
  <2>1. t \in Seq(Line) /\ Len(t) = 1 /\ t[1].kind = "started"
    BY DEF Plain, Line, BoardState
  <2>2. rx' = rx \o t
    BY DEF Announce, Say
  <2>. HIDE DEF t
  <2>3. rx \in Seq(Line) /\ 1 \in 1..Len(t)
    BY <1>0, <2>1 DEF TypeOK
  <2>4. /\ Len(rx) \in Nat /\ Len(rx \o t) = Len(rx) + Len(t)
        /\ \A i \in 1..Len(rx) : (rx \o t)[i] = rx[i]
        /\ \A i \in 1..Len(t) : (rx \o t)[Len(rx) + i] = t[i]
    BY <2>1, <2>3, Appended
  <2>. QED BY <2>1, <2>2, <2>3, <2>4
<1>3. \A i \in 1..Len(rx') : i \in 1..Len(rx) \/ i = Len(rx) + 1
  BY <1>2
<1>4. RunsAfter' /\ Claims'
  <2>1. Len(rx) + 1 \in 1..Len(rx') /\ ((Len(rx) + 1) + 1)..Len(rx') = {}
    BY <1>2
  <2>2. RunsAfter'
    BY <1>2, <2>1 DEF RunsAfter
  <2>. QED BY <1>1, <2>2 DEF Claims
<1>5. ASSUME board.kind = "generic" PROVE StockTrack'
  <2>1. \A i \in 1..Len(rx') : rx'[i].kind # "diag"
    BY <1>0, <1>2, <1>3, <1>5 DEF StockTrack
  <2>. QED BY <1>0, <1>1, <1>4, <1>5, <2>1 DEF StockTrack
<1>6. ASSUME board.kind = "sigroam" PROVE OwnTrack'
  <2>0. OneCall /\ LinesFresh /\ DiagFresh /\ SyncWaits /\ SampleIdle
    BY <1>0, <1>6 DEF OwnTrack
  <2>. USE <1>1
  <2>5. ~Idling
    BY DEF Idling
  <2>1. NoCall /\ NoCall' /\ OneCall'
    BY <2>0, <2>5 DEF OneCall, CallAlone, NoCall
  <2>6. SampleIdle'
    <3>1. ~board.gps /\ gps' = gps
      BY DEF AInv, Streams, Announce, gui
    <3>2. ~Sampling /\ ~Said("gpsStop")
      BY <2>0, <2>5 DEF SampleIdle
    <3>3. ~Said("gpsStop")'
      BY <1>0, <3>1, <3>2, SaidNow
    <3>. QED BY <3>1, <3>2, <3>3 DEF SampleIdle, Sampling
  <2>2. LinesFresh'
    <3>. SUFFICES ASSUME NEW i \in 1..Len(rx')
                  PROVE  /\ rx'[i].kind # "stopped"
                         /\ rx'[i].kind = "diag" => rx'[i].st = 1
                         /\ rx'[i].kind = "firmware" => i < Len(rx') /\ rx'[i + 1].kind = "diag"
      BY <1>1 DEF LinesFresh
    <3>1. CASE i \in 1..Len(rx)
      <4>1. rx[i].kind = "firmware" => i + 1 \in 1..Len(rx) /\ rx[i + 1].kind = "diag"
        BY <1>2, <2>0, <3>1 DEF LinesFresh
      <4>. QED BY <1>1, <1>2, <2>0, <3>1, <4>1 DEF LinesFresh
    <3>2. CASE i = Len(rx) + 1
      BY <1>2, <3>2
    <3>. QED BY <1>3, <3>1, <3>2
  <2>3. DiagFresh'
    BY <2>0, <2>1 DEF DiagFresh, Answer
  <2>4. SyncWaits'
    <3>1. \A i \in 1..Len(rx) : i \in 1..Len(rx') /\ rx'[i] = rx[i]
      BY <1>2
    <3>. QED BY <1>1, <2>0, <3>1 DEF SyncWaits, Answer
  <2>. QED BY <1>4, <2>1, <2>2, <2>3, <2>4, <2>6 DEF OwnTrack, AdoptionDue, Unadopted
<1>. QED BY <1>4, <1>5, <1>6

LEMMA AgreeRow == AInv /\ Row => Agree'
<1>. SUFFICES ASSUME AInv, Row, Judged
              PROVE  Claims' /\ StockTrack' /\ board'.kind = "generic"
  BY DEF Agree, Judged, Row
<1>1. Claims /\ StockTrack /\ TypeOK
  BY DEF AInv, IInv, Agree, Row
<1>2. board' = board /\ model' = model /\ board.st = 1 /\ rx = <<>>
  BY DEF Row
<1>3. Len(rx') = 1 /\ rx'[1].kind = "row"
  <2>1. Plain("row") \in Seq(Line)
    BY DEF Plain, Line, BoardState
  <2>2. rx' = rx \o Plain("row")
    BY DEF Row, Say
  <2>3. rx' = Plain("row")
    BY <1>2, <2>1, <2>2
  <2>. QED BY <2>3 DEF Plain
<1>4. RunsAfter => RunsAfter'
  BY <1>2, <1>3 DEF RunsAfter
<1>. QED BY <1>1, <1>2, <1>3, <1>4 DEF Claims, StockTrack, Row

\* A board that streams does not scan, and its blocks answer nothing.
LEMMA AgreeBlock == AInv /\ Block => Agree'
<1>. SUFFICES ASSUME AInv, Block, Judged
              PROVE  /\ Claims'
                     /\ board.kind = "generic" => StockTrack'
                     /\ board.kind = "sigroam" => OwnTrack'
  BY DEF Agree, Judged, Block
<1>0. TypeOK /\ Claims /\ (board.kind = "generic" => StockTrack)
      /\ (board.kind = "sigroam" => OwnTrack)
  BY DEF AInv, IInv, Agree
<1>1. /\ model' = model /\ moved' = moved /\ app' = app /\ scan' = scan /\ scene' = scene
      /\ slot' = slot /\ tx' = tx /\ gps' = gps /\ board' = board
      /\ board.st # 1 /\ rx = <<>>
  BY DEF Block, gui, AInv, Streams
<1>2. Plain("block") \in Seq(Line) /\ Len(Plain("block")) = 1
      /\ Plain("block")[1].kind = "block"
  BY DEF Plain, Line, BoardState
<1>3. rx' = rx \o Plain("block")
  BY DEF Block, Say
<1>4. Claims' /\ (RunsAfter' <=> RunsAfter) /\ (Unadopted' <=> Unadopted)
  <2>1. \A i \in 1..Len(Plain("block")) : Plain("block")[i].kind \in Aside
    BY <1>2 DEF Aside
  <2>. QED BY <1>0, <1>1, <1>2, <1>3, <2>1, SaidAside
<1>5. Len(rx') = 1 /\ rx'[1].kind = "block"
  BY <1>1, <1>2, <1>3
<1>6. \A i \in 1..Len(rx') : rx'[i].kind = "block"
  BY <1>5
<1>7. ASSUME board.kind = "generic" PROVE StockTrack'
  BY <1>0, <1>1, <1>6, <1>7 DEF StockTrack
<1>8. ASSUME board.kind = "sigroam" PROVE OwnTrack'
  <2>0. OneCall /\ DiagFresh /\ SyncWaits /\ AdoptionDue /\ SampleIdle
    BY <1>0, <1>8 DEF OwnTrack
  <2>1. Idling => Idling'
    BY <1>1, <1>6 DEF Idling, Sent, Said
  <2>2. (NoCall => NoCall') /\ (CallAlone => CallAlone')
    BY <1>1, <1>6 DEF NoCall, CallAlone, NoAnswer
  <2>3. LinesFresh'
    BY <1>6 DEF LinesFresh
  <2>4. DiagFresh'
    BY <1>1, <2>0, <2>1, <2>2 DEF DiagFresh, Answer
  <2>5. SyncWaits'
    BY <1>1, <2>0 DEF SyncWaits, Answer
  <2>6. AdoptionDue'
    BY <1>1, <1>4, <2>0, <2>2 DEF AdoptionDue
  <2>7. SampleIdle'
    BY <1>1, <1>6, <2>0, <2>1 DEF SampleIdle, Sampling, Said
  <2>. QED BY <2>0, <2>1, <2>2, <2>3, <2>4, <2>5, <2>6, <2>7 DEF OwnTrack, OneCall
<1>. QED BY <1>4, <1>7, <1>8

LEMMA AgreeSeal == AInv /\ Seal => Agree'
<1>. SUFFICES ASSUME AInv, Seal, Judged
              PROVE  /\ Claims'
                     /\ board.kind = "generic" => StockTrack'
                     /\ board.kind = "sigroam" => OwnTrack'
  BY DEF Agree, Judged, Seal, AInv, IInv, TypeOK, Board
<1>0. TypeOK /\ Claims /\ (board.kind = "generic" => StockTrack)
      /\ (board.kind = "sigroam" => OwnTrack)
  BY DEF AInv, IInv, Agree
<1>1. /\ model' = model /\ moved' = moved /\ app' = app /\ scan' = scan /\ scene' = scene
      /\ slot' = slot /\ tx' = tx /\ rx' = rx
      /\ board.st = 2 /\ board'.st = 0 /\ board'.silent = board.silent
  BY <1>0 DEF Seal, gui, link, TypeOK, Board
<1>2. RunsAfter' <=> RunsAfter
  BY <1>1 DEF RunsAfter
<1>3. Claims' /\ ~Unadopted'
  BY <1>0, <1>1, <1>2 DEF Claims, Unadopted
<1>4. board.kind = "generic" => StockTrack'
  BY <1>0, <1>1 DEF StockTrack
<1>5. ASSUME board.kind = "sigroam" PROVE OwnTrack'
  <2>0. OneCall /\ LinesFresh /\ DiagFresh /\ SyncWaits /\ SampleIdle
    BY <1>0, <1>5 DEF OwnTrack
  <2>1. Idling => Idling'
    BY <1>1 DEF Idling, Sent, Said
  <2>2. CallAlone => CallAlone'
    BY <1>1 DEF CallAlone, NoAnswer
  <2>3. LinesFresh'
    BY <1>1, <2>0 DEF LinesFresh
  <2>4. DiagFresh' /\ SyncWaits'
    BY <1>1, <2>0, <2>1 DEF DiagFresh, SyncWaits, NoCall, Answer
  <2>5. SampleIdle'
    <3>1. gps' = gps
      BY DEF Seal, gui
    <3>. QED BY <1>1, <2>0, <2>1, <3>1 DEF SampleIdle, Sampling, Said
  <2>. QED BY <1>3, <2>0, <2>1, <2>2, <2>3, <2>4, <2>5 DEF OwnTrack, OneCall, AdoptionDue
<1>. QED BY <1>3, <1>4, <1>5

-----------------------------------------------------------------------------
(* The invariant, and what it says once nothing is on its way.             *)

LEMMA AgreeNext == AInv /\ [Next]_vars => Agree'
<1>. SUFFICES ASSUME AInv, [Next]_vars PROVE Agree'
  OBVIOUS
<1>1. CASE User
  <2>1. CASE EnterProbe
    BY <2>1, AgreeTick
  <2>2. CASE OkPress \/ GpsStart \/ EnterDash \/ Leave
    BY <1>1, <2>2, AgreeOkPress, AgreeGpsStart, AgreeEnterDash, AgreeLeave
  <2>. QED BY <1>1, <2>1, <2>2 DEF User
<1>2. CASE GuiTick
  BY <1>2, AgreeTick, AgreeTickSync, AgreeTickIdent, AgreeTickScan, AgreeTickGps DEF GuiTick
<1>3. CASE Elapse
  BY <1>3, AgreeTick
<1>4. CASE Worker
  BY <1>4, AgreeTake, AgreeApply DEF Worker
<1>5. CASE BoardRead
  <2>. SUFFICES ASSUME Judged'
                PROVE  /\ Claims'
                       /\ board'.kind = "generic" => StockTrack'
                       /\ board'.kind = "sigroam" => OwnTrack'
    BY DEF Agree
  <2>1. /\ board'.kind = board.kind /\ board'.lossy = board.lossy
        /\ board'.patient = board.patient /\ board'.gpsTab = board.gpsTab
    BY RunKept DEF AInv, IInv
  <2>2. Judged
    BY <2>1 DEF Judged
  <2>3. board.kind \in {"generic", "sigroam"}
    BY DEF AInv, IInv, TypeOK, Board, Kind
  <2>. QED BY <1>5, <2>1, <2>2, <2>3, AgreeReadStock, AgreeReadOwn
<1>6. CASE Announce \/ Row \/ Block \/ Seal
  BY <1>6, AgreeAnnounce, AgreeRow, AgreeBlock, AgreeSeal
<1>7. CASE Lose
  BY <1>7 DEF Lose, Agree, Judged
<1>8. CASE UNCHANGED vars
  BY <1>8, QuietStep DEF vars, AInv, Answer, Sampling
<1>. QED BY <1>1, <1>2, <1>3, <1>4, <1>5, <1>6, <1>7, <1>8 DEF Next, BoardStep

\* What the run is like stays as it is.
InPlay == ~board.lossy => Judged

LEMMA InPlayInit == JudgedPlays /\ Init => InPlay
  BY PlayOfRun DEF JudgedPlays, Judged, InPlay

LEMMA InPlayKept == TypeOK /\ InPlay /\ [Next]_vars => InPlay'
  BY RunKept DEF InPlay, Judged

LEMMA AgreeSettles == AInv /\ InPlay => SettledAgree
<1>. SUFFICES ASSUME AInv, InPlay, Settled, ~board.lossy, scene = "dash", ~app.sync
              PROVE  model.session = "Running" <=> board.st = 1
  BY DEF SettledAgree
<1>1. rx = <<>> /\ ~board.silent
  BY DEF Settled, Answered
<1>2. RunsAfter <=> model.session = "Running"
  BY <1>1 DEF RunsAfter
<1>3. /\ Claims
      /\ board.kind = "generic" => StockTrack
      /\ board.kind = "sigroam" => AdoptionDue
  BY DEF AInv, Agree, InPlay, OwnTrack
<1>4. model.session = "Running" => board.st = 1
  BY <1>2, <1>3 DEF Claims
<1>5. CASE board.kind = "generic"
  BY <1>1, <1>2, <1>3, <1>4, <1>5 DEF StockTrack
<1>6. CASE board.kind = "sigroam"
  BY <1>1, <1>2, <1>3, <1>4, <1>6 DEF AdoptionDue, Unadopted
<1>. QED BY <1>5, <1>6 DEF AInv, IInv, TypeOK, Board, Kind

\* A settled Dash agrees with its board: the session is Running exactly when
\* the board scans, whatever was pressed and however late the answers came, in
\* every run without losses of the plays judged, which sample the GPS of a
\* -sigroam- board only (dash_peer_sync_tick, dash_scan_tick, dash_scan_toggle,
\* dash_gps_start, dash_gps_tick and the session of sr_model.c).
THEOREM Agreement ==
  ASSUME JudgedPlays
  PROVE  Spec => []SettledAgree
<1>1. Init => AInv /\ InPlay
  BY InitIInv, StreamsInit, AgreeInit, InPlayInit DEF AInv
<1>2. AInv /\ InPlay /\ [Next]_vars => (AInv /\ InPlay)'
  BY TypeKept, PeerKnownKept, StreamsKept, AgreeNext, InPlayKept DEF AInv, IInv
<1>3. AInv /\ InPlay => SettledAgree
  BY AgreeSettles
<1>. QED BY <1>1, <1>2, <1>3, PTL DEF Spec

\* The invariant of a -sigroam- board, in any run.
OwnInv == IInv /\ Streams /\ (board.kind = "sigroam" => Agree)

LEMMA OwnInvNext == OwnInv /\ [Next]_vars => OwnInv'
<1>. SUFFICES ASSUME OwnInv, [Next]_vars PROVE OwnInv'
  OBVIOUS
<1>1. IInv' /\ Streams'
  BY TypeKept, PeerKnownKept, StreamsKept DEF OwnInv, IInv
<1>2. board'.kind = board.kind
  BY RunKept DEF OwnInv, IInv
<1>3. board.kind = "sigroam" => Agree'
  BY AgreeNext DEF OwnInv, AInv
<1>. QED BY <1>1, <1>2, <1>3 DEF OwnInv

\* Whatever is lost, late or pressed, the app queues a stopscan for a -sigroam-
\* board only while a session runs, a command is awaited, or a GPS sample is in
\* flight; and where nothing is lost, a user who waits never has a sample closed
\* in front of a board that scans (dash_scan_toggle, dash_prestart_tick,
\* dash_gps_tick, dash_gps_abort, the tick of the Probe screen).
THEOREM NeverBlind == Spec => NoBlindStop
<1>1. Init => OwnInv
  BY InitIInv, StreamsInit, AgreeFromIdle DEF OwnInv
<1>2. ASSUME OwnInv, [Next]_vars, board.kind = "sigroam", slot' = "stopscan", slot # "stopscan"
      PROVE  \/ model.session = "Running" \/ scan.pending
             \/ Sampling /\ (board.patient /\ ~board.lossy => board.st # 1)
  <2>1. model.session = "Running" \/ scan.pending \/ Sampling
    BY <1>2, StopStep DEF OwnInv, vars
  <2>2. ASSUME Sampling, board.patient, ~board.lossy PROVE board.st # 1
    BY <1>2, <2>2 DEF OwnInv, Agree, Judged, OwnTrack, SampleIdle, Idling
  <2>. QED BY <2>1, <2>2
<1>3. OwnInv /\ [Next]_vars =>
        [board.kind = "sigroam" /\ slot' = "stopscan" /\ slot # "stopscan" =>
           \/ model.session = "Running" \/ scan.pending
           \/ Sampling /\ (board.patient /\ ~board.lossy => board.st # 1)]_vars
  BY <1>2
<1>. QED BY <1>1, <1>3, OwnInvNext, PTL DEF Spec, NoBlindStop

-----------------------------------------------------------------------------
(* What confirms a command.  A user who waits presses OK with nothing on   *)
(* its way, so what comes back is the answer to what was asked.            *)

\* A stock peer whose user waits loses nothing, gives no samples, and is idle at
\* launch: a row of the scan it was left in, sent while the stopscan of a
\* prestart is late, would be taken for the start that follows.
HeardPlays ==
    \A p \in Plays :
        p.patient /\ p.kind = "generic" => ~p.lossy /\ ~p.handover /\ ~p.gpsTab

\* The runs judged.
Heard == board.patient /\ (board.kind = "generic" => ~board.lossy /\ ~board.gpsTab)

\* Nothing starts a scan, or says that one started.
NoStart == ~Sent("wardrive") /\ ~board.silent /\ ~Said("started")

\* No scan is known, nor told of; a stock peer, which always tells, has none.
Calm == /\ NoStart /\ model.session # "Running" /\ ~Said("row")
        /\ board.kind = "generic" => board.st # 1

\* A stop that is awaited: nothing starts a scan before it is confirmed, and
\* what would confirm it is true.
StopAwaited ==
    scan.pending /\ ~scan.isStart =>
      /\ NoStart
      /\ Said("stopped") \/ Said("gpsStop") \/ (scan.revRose /\ model.session = "Stopped")
           => board.st # 1

\* A stop was sent after a start.
StopBehind ==
    \E i \in 1..Len(tx) : /\ tx[i] = "wardrive"
                          /\ \/ slot = "stopscan"
                             \/ \E j \in (i + 1)..Len(tx) : tx[j] = "stopscan"

\* All that may confirm a start is true, and stays so until it does.
StartTrue ==
    /\ board.silent \/ Said("started") \/ Said("row") \/ model.session = "Running" => board.st = 1
    /\ board.st = 1 => ~Sent("stopscan")
    /\ ~StopBehind
    /\ model.session = "Running" => scan.revRose

\* A start that is awaited on the Dash; away from it, and behind a sample, it
\* came to nothing.
StartAwaited ==
    scan.pending /\ scan.isStart => (scene = "dash" /\ ~Sampling /\ StartTrue) \/ Calm

\* The start a prestart will send comes when no scan runs.
PrestartCalm == app.prestart => Calm

\* The invariant.
Conf == StopAwaited /\ StartAwaited /\ PrestartCalm
CInv == IInv /\ Streams /\ (Heard => Agree /\ Conf)

-----------------------------------------------------------------------------
\* A step that moves no line, starts no wait and queues no start.
LEMMA QuietConf ==
  ASSUME Conf, rx' = rx, tx' = tx, board' = board, model'.session = model.session,
         scene' = "dash" <=> scene = "dash",
         Sampling' => Sampling,
         \/ slot' = slot \/ slot' \notin Call
         \/ slot' = "stopscan" /\ (scene # "dash" \/ Sampling),
         app'.prestart => app.prestart,
         scan'.pending => /\ scan.pending /\ scan'.isStart = scan.isStart
                          /\ scan'.revRose = scan.revRose
  PROVE  Conf'
<1>1. /\ Said("started")' <=> Said("started")
      /\ Said("row")' <=> Said("row")
      /\ Said("stopped")' <=> Said("stopped")
      /\ Sent("wardrive")' => Sent("wardrive")
      /\ scene = "dash" /\ ~Sampling /\ Sent("stopscan")' => Sent("stopscan")
      /\ scene = "dash" /\ ~Sampling /\ StopBehind' => StopBehind
  BY DEF Said, Sent, StopBehind, Call
<1>7. Said("gpsStop")' <=> Said("gpsStop")
  BY DEF Said
<1>2. (NoStart => NoStart') /\ (Calm => Calm')
  BY <1>1 DEF NoStart, Calm
<1>3. StopAwaited'
  BY <1>1, <1>2, <1>7 DEF Conf, StopAwaited
<1>4. ASSUME scan.isStart, scan.pending, scan'.pending, scene = "dash", ~Sampling, StartTrue
      PROVE  StartTrue'
  BY <1>1, <1>4 DEF StartTrue
<1>5. StartAwaited'
  BY <1>2, <1>4 DEF Conf, StartAwaited
<1>6. PrestartCalm'
  BY <1>2 DEF Conf, PrestartCalm
<1>. QED BY <1>3, <1>5, <1>6 DEF Conf

\* What starts nothing and stops nothing, whoever is awaited.
LEMMA ConfQuiet ==
  ASSUME IInv, Conf,
         TickIdent \/ TickGps \/ TickScan \/ TickPostStop \/ TickProbe \/ TickQual \/ HsRetry
           \/ HsStop \/ HsSigroam \/ EnterProbe \/ Elapse \/ UNCHANGED vars
  PROVE  Conf'
<1>0. app \in App /\ scan \in ScanCtx /\ model \in Model /\ gps \in Gps
  BY DEF IInv, TypeOK
<1>1. /\ rx' = rx /\ tx' = tx /\ board' = board /\ model'.session = model.session
      /\ scene' = "dash" <=> scene = "dash"
  BY <1>0 DEF TickIdent, TickGps, TickScan, ScanRefused, ScanStarted, ScanStopped, TickPostStop,
         TickProbe, TickQual, HsRetry, HsStop, HsSigroam, EnterProbe, Elapse, vars, link, Model
<1>2. \/ slot' = slot \/ slot' \notin Call
      \/ slot' = "stopscan" /\ (scene # "dash" \/ Sampling)
  <2>1. CASE TickGps
    BY <2>1 DEF TickGps, GpsClose, GpsEnds, Offer, Sampling
  <2>2. CASE ~TickGps
    BY <2>2
    DEF TickIdent, TickScan, ScanRefused, ScanStarted, ScanStopped, TickPostStop, TickProbe,
        TickQual, HsRetry, HsInfo, HsStop, HsSigroam, EnterProbe, Elapse, vars, link, Offer,
        StatusCmd, Call
  <2>. QED BY <2>1, <2>2
<1>5. Sampling' => Sampling
  <2>1. CASE TickGps
    BY <2>1 DEF TickGps, GpsClose, GpsEnds, Sampling
  <2>2. CASE ~TickGps
    BY <1>0, <2>2
    DEF TickIdent, TickScan, TickPostStop, TickProbe, TickQual, HsRetry, HsStop, HsSigroam,
        EnterProbe, Elapse, vars, Sampling, Gps
  <2>. QED BY <2>1, <2>2
<1>3. app'.prestart => app.prestart
  <2>1. CASE TickIdent
    BY <1>0, <2>1 DEF TickIdent, App
  <2>2. CASE TickScan
    BY <1>0, <2>2 DEF TickScan, ScanRefused, ScanStarted, ScanStopped, App
  <2>3. CASE TickGps \/ TickPostStop \/ TickProbe \/ TickQual \/ HsStop \/ HsSigroam \/ Elapse
    BY <1>0, <2>3 DEF TickGps, TickPostStop, TickProbe, TickQual, HsStop, HsSigroam, Elapse, App
  <2>4. CASE HsRetry \/ EnterProbe
    BY <1>0, <2>4 DEF HsRetry, EnterProbe, HsInfo, App
  <2>. QED BY <2>1, <2>2, <2>3, <2>4 DEF vars
<1>4. scan'.pending => /\ scan.pending /\ scan'.isStart = scan.isStart
                       /\ scan'.revRose = scan.revRose
  BY <1>0 DEF TickIdent, TickGps, TickScan, ScanRefused, ScanStarted, ScanStopped, ScanEnds,
         TickPostStop, TickProbe, TickQual, HsRetry, HsStop, HsSigroam, EnterProbe, Elapse, vars,
         ScanCtx
<1>. QED BY <1>1, <1>2, <1>3, <1>4, <1>5, QuietConf

\* Only a -sigroam- scan is adopted, and only when no command is awaited.
LEMMA ConfTickSync ==
  ASSUME IInv, Agree, Heard, Conf, TickSync
  PROVE  Conf'
<1>0. app \in App /\ scan \in ScanCtx /\ model \in Model /\ board \in Board /\ gps \in Gps
  BY DEF IInv, TypeOK
<1>1. /\ rx' = rx /\ tx' = tx /\ board' = board /\ slot' = slot /\ scene' = scene
      /\ app'.prestart = app.prestart
      /\ scan'.pending = scan.pending /\ scan'.isStart = scan.isStart
  BY <1>0 DEF TickSync, SessionStarts, link, App, ScanCtx
<1>2. CASE SyncAct = "Adopt"
  <2>1. model.diagSeen /\ ~scan.pending
    BY <1>2 DEF SyncAct, PeerSync
  <2>2. ~app.prestart
    <3>1. board.kind = "generic" => StockTrack
      BY DEF Agree, Judged, Heard
    <3>. QED BY <1>0, <2>1, <3>1 DEF StockTrack, IInv, PeerKnown, Board, Kind
  <2>. QED BY <1>1, <2>1, <2>2 DEF Conf, StopAwaited, StartAwaited, PrestartCalm
<1>3. CASE SyncAct # "Adopt"
  <2>1. model' = model /\ scan' = scan /\ gps' = gps
    BY <1>3 DEF TickSync
  <2>. QED BY <1>1, <2>1, QuietConf DEF Sampling
<1>. QED BY <1>2, <1>3

LEMMA ConfTickPrestart ==
  ASSUME IInv, Streams, Heard, Conf, TickPrestart
  PROVE  Conf'
<1>0. app \in App /\ scan \in ScanCtx /\ model \in Model /\ board \in Board
  BY DEF IInv, TypeOK
<1>1. app.prestart /\ Calm /\ scene = "dash"
  BY DEF Conf, PrestartCalm, TickPrestart, At, PrestartRetry, PrestartEnds
<1>2. board.kind = "generic" /\ board.st # 1
  BY <1>0, <1>1 DEF IInv, PeerKnown, Board, Kind, Calm
<1>3. /\ rx' = rx /\ tx' = tx /\ board' = board /\ model' = model /\ scene' = scene
      /\ ~Sampling'
  BY <1>2 DEF TickPrestart, Sampling, Streams, Heard
<1>4. /\ Said("started")' <=> Said("started")
      /\ Said("row")' <=> Said("row")
      /\ \A i \in 1..Len(tx) : tx[i] # "wardrive"
  BY <1>1, <1>3 DEF Said, Calm, NoStart, Sent
<1>5. CASE PrestartRetry /\ QueueClearingStop /\ app' = app
  <2>1. slot' = slot \/ slot' = "stopscan"
    BY <1>5 DEF QueueClearingStop, Offer
  <2>2. ~Sent("wardrive")'
    BY <1>1, <1>3, <2>1 DEF Calm, NoStart, Sent
  <2>3. Calm' /\ NoStart'
    BY <1>1, <1>3, <1>4, <2>2 DEF Calm, NoStart
  <2>4. ~scan'.isStart /\ ~scan'.revRose
    BY <1>0, <1>5 DEF QueueClearingStop, QueuedCtx
  <2>. QED BY <1>2, <1>3, <2>3, <2>4 DEF Conf, StopAwaited, StartAwaited, PrestartCalm
<1>6. CASE scan' = QueuedCtx(scan.pending /\ scan.isStart, TRUE)
             /\ app' = [app EXCEPT !.prestart = FALSE, !.prestartOut = FALSE]
  <2>1. ~app'.prestart
    BY <1>0, <1>6 DEF App
  <2>2. scan'.isStart
    BY <1>6 DEF QueuedCtx
  <2>3. ~StopBehind'
    BY <1>3, <1>4 DEF StopBehind
  <2>4. StartTrue'
    BY <1>1, <1>2, <1>3, <1>4, <2>3 DEF StartTrue, Calm, NoStart
  <2>. QED BY <1>1, <1>3, <2>1, <2>2, <2>4 DEF Conf, StopAwaited, StartAwaited, PrestartCalm
<1>. QED BY <1>5, <1>6 DEF TickPrestart

-----------------------------------------------------------------------------
(* The user.                                                               *)

\* Nothing is on its way when a user who waits acts.
LEMMA NothingOnTheWay ==
  ASSUME Settled
  PROVE  /\ slot = NoCmd /\ tx = <<>> /\ rx = <<>> /\ ~board.silent
         /\ \A k : ~Said(k)
         /\ ~Sent("wardrive") /\ ~Sent("stopscan")
  BY DEF Settled, Answered, Free, Said, Sent, NoCmd

\* OK starts a scan only while the session does not run.
LEMMA OkStartsIdle ==
  ASSUME IInv, Conf, scene = "dash", OkAct = "SendStart"
  PROVE  model.session # "Running"
<1>0. scan \in ScanCtx /\ model \in Model
  BY DEF IInv, TypeOK
<1>1. Ui \in {"Idle", "StartFailed"}
  <2>1. OnOk(Ui) = "SendStart"
    BY DEF OkAct, RetryUnconfirmed, OnOkGated
  <2>. QED BY <2>1 DEF OnOk
<1>2. CASE Confirmed(scan, model.session)
  BY <1>0, <1>1, <1>2 DEF Ui, Eval, Confirmed, ScanCtx
<1>3. CASE scan.pending /\ ~Confirmed(scan, model.session)
  <2>1. scan.isStart
    BY <1>0, <1>1, <1>3 DEF Ui, Eval, ScanCtx
  <2>2. StartTrue \/ Calm
    BY <1>3, <2>1 DEF Conf, StartAwaited
  <2>. QED BY <1>3, <2>1, <2>2 DEF StartTrue, Calm, Confirmed
<1>4. CASE ~scan.pending
  BY <1>0, <1>1, <1>4 DEF Ui, Eval, Confirmed, ScanCtx
<1>. QED BY <1>2, <1>3, <1>4

\* With nothing on its way, a stock board that scans is a session that runs.
LEMMA StockHeard ==
  ASSUME Agree, Heard, Settled, board.kind = "generic", model.session # "Running"
  PROVE  board.st # 1
<1>1. ~RunsAfter
  BY NothingOnTheWay DEF RunsAfter
<1>2. StockTrack
  BY DEF Agree, Judged, Heard
<1>. QED BY <1>1, <1>2, NothingOnTheWay DEF StockTrack

LEMMA ConfOkPress ==
  ASSUME IInv, Agree, Heard, Conf, Settled, OkPress
  PROVE  Conf'
<1>0. app \in App /\ scan \in ScanCtx /\ model \in Model /\ board \in Board
  BY DEF IInv, TypeOK
<1>1. /\ scene = "dash" /\ scene' = scene /\ rx' = rx /\ tx' = tx /\ model' = model
      /\ board' = board /\ ~Sampling'
  BY DEF OkPress, Settled, Sampling
<1>2. /\ slot = NoCmd /\ tx = <<>> /\ rx = <<>> /\ ~board.silent
      /\ Said("started")' = FALSE /\ Said("row")' = FALSE /\ Said("stopped")' = FALSE
      /\ Said("gpsStop")' = FALSE /\ StopBehind' = FALSE
  BY <1>1, NothingOnTheWay DEF Said, StopBehind
<1>3. slot' # "wardrive" => NoStart'
  BY <1>1, <1>2 DEF NoStart, Sent
<1>4. CASE OkStop
  <2>1. slot' = "stopscan"
    BY <1>2, <1>4 DEF OkStop, QueueCmd, Offer, Free
  <2>2. ~app'.prestart
    BY <1>0, <1>4 DEF OkStop, App
  <2>3. ~scan'.isStart /\ ~scan'.revRose
    BY <1>4 DEF OkStop, QueueCmd, QueuedCtx
  <2>. QED BY <1>2, <1>3, <2>1, <2>2, <2>3 DEF Conf, StopAwaited, StartAwaited, PrestartCalm
<1>5. CASE OkStartNow
  <2>1. slot' = "wardrive"
    BY <1>2, <1>5 DEF OkStartNow, QueueCmd, Offer, Free
  <2>2. app' = app /\ ~app.prestart
    BY <1>5 DEF OkStartNow
  <2>3. scan'.isStart
    BY <1>5 DEF OkStartNow, QueueCmd, QueuedCtx
  <2>4. model.session # "Running"
    BY <1>1, <1>5, OkStartsIdle DEF OkStartNow
  <2>5. ~Sent("stopscan")'
    BY <1>1, <1>2, <2>1 DEF Sent
  <2>6. StartTrue'
    BY <1>1, <1>2, <2>4, <2>5 DEF StartTrue
  <2>. QED BY <1>1, <2>2, <2>3, <2>6 DEF Conf, StopAwaited, StartAwaited, PrestartCalm
<1>6. CASE OkStartAfterClear
  <2>1. model.session # "Running"
    BY <1>1, <1>6, OkStartsIdle DEF OkStartAfterClear
  <2>2. board.kind = "generic" => board.st # 1
    BY <2>1, StockHeard
  <2>3. slot' # "wardrive"
    BY <1>2, <1>6 DEF OkStartAfterClear, QueueClearingStop, Offer, NoCmd
  <2>4. Calm' /\ NoStart'
    BY <1>1, <1>2, <1>3, <2>1, <2>2, <2>3 DEF Calm
  <2>5. CASE QueueClearingStop
    <3>1. ~scan'.isStart /\ ~scan'.revRose
      BY <1>0, <2>5 DEF QueueClearingStop, QueuedCtx
    <3>. QED BY <1>2, <2>4, <3>1 DEF Conf, StopAwaited, StartAwaited, PrestartCalm
  <2>6. CASE UNCHANGED <<scan, slot, moved>>
    <3>1. Sent("stopscan")' <=> Sent("stopscan")
      BY <1>1, <2>6 DEF Sent
    <3>2. StartTrue => StartTrue'
      BY <1>1, <1>2, <2>1, <2>6, <3>1 DEF StartTrue
    <3>3. StartAwaited'
      BY <1>1, <2>4, <2>6, <3>2 DEF Conf, StartAwaited
    <3>4. StopAwaited'
      BY <1>1, <1>2, <2>4, <2>6 DEF Conf, StopAwaited
    <3>. QED BY <2>4, <3>3, <3>4 DEF Conf, PrestartCalm
  <2>. QED BY <1>6, <2>5, <2>6 DEF OkStartAfterClear
<1>. QED BY <1>4, <1>5, <1>6 DEF OkPress

LEMMA ConfEnterDash ==
  ASSUME IInv, Heard, Conf, Settled, EnterDash
  PROVE  Conf'
<1>0. app \in App /\ scan \in ScanCtx /\ model \in Model /\ board \in Board
  BY DEF IInv, TypeOK
<1>1. /\ scene = "menu" /\ scene' = "dash" /\ rx' = rx /\ tx' = tx /\ model' = model
      /\ board' = board /\ scan' = scan /\ ~Sampling'
  BY DEF EnterDash, Settled, Sampling
<1>2. /\ slot = NoCmd /\ tx = <<>> /\ rx = <<>> /\ ~board.silent
      /\ Said("started")' = FALSE /\ Said("row")' = FALSE /\ Said("stopped")' = FALSE
      /\ Said("gpsStop")' = FALSE /\ StopBehind' = FALSE
  BY <1>1, NothingOnTheWay DEF Said, StopBehind
<1>3. slot' \in {"info", "sigroam"}
  BY <1>2 DEF EnterDash, Offer, Free, StatusCmd, NoCmd
<1>4. NoStart' /\ ~Sent("stopscan")'
  BY <1>1, <1>2, <1>3 DEF NoStart, Sent
<1>5. ~app'.prestart
  <2>. DEFINE fresh == [app EXCEPT !.prestart = FALSE, !.postStop = FALSE, !.ident = FALSE,
                                   !.identSends = 0, !.sync = FALSE, !.probed = FALSE]
  <2>0. 0 \in 0..2
    OBVIOUS
  <2>1. fresh \in App /\ ~fresh.prestart
    BY <1>0, <2>0 DEF App
  <2>2. \/ app' = [fresh EXCEPT !.ident = TRUE, !.identDue = FALSE,
                                 !.identSends = IF Free THEN 1 ELSE 0, !.sync = Free]
        \/ app' = [fresh EXCEPT !.sync = Free]
        \/ app' = [fresh EXCEPT !.probed = Free]
    BY Zenon DEF EnterDash
  <2>. HIDE DEF fresh
  <2>. QED BY <2>1, <2>2 DEF App
<1>6. Calm => StartTrue'
  BY <1>1, <1>2, <1>4 DEF Calm, StartTrue
<1>. QED BY <1>1, <1>2, <1>4, <1>5, <1>6 DEF Conf, StopAwaited, StartAwaited, PrestartCalm

\* What is awaited while nothing is on its way, and a session does not run, has
\* come to nothing.
LEMMA SettledCalm ==
  ASSUME Agree, Heard, Settled, model.session # "Running"
  PROVE  Calm
  BY StockHeard, NothingOnTheWay DEF Calm, NoStart

\* So a sample is taken.
LEMMA ConfGpsStart ==
  ASSUME Agree, Heard, Conf, Settled, GpsStart
  PROVE  Conf'
<1>1. /\ rx' = rx /\ tx' = tx /\ slot' = "gpsdata" /\ scene' = scene
      /\ model' = model /\ board' = board /\ scan' = scan /\ app' = app
  BY NothingOnTheWay DEF GpsStart, Offer, Free
<1>2. Calm
  BY SettledCalm DEF GpsStart, GpsGate
<1>3. /\ \A k : Said(k)' <=> Said(k)
      /\ ~Sent("wardrive")'
  BY <1>1, NothingOnTheWay DEF Said, Sent
<1>4. Calm' /\ NoStart'
  BY <1>1, <1>2, <1>3 DEF Calm, NoStart
<1>. QED BY <1>1, <1>3, <1>4 DEF Conf, StopAwaited, StartAwaited, PrestartCalm

\* And a start that is awaited when the Dash is left has come to nothing.
LEMMA ConfLeave ==
  ASSUME IInv, Agree, Heard, Conf, Settled, Leave
  PROVE  Conf'
<1>0. scan \in ScanCtx /\ model \in Model
  BY DEF IInv, TypeOK
<1>1. /\ scene # "menu" /\ scene' = "menu" /\ rx' = rx /\ tx' = tx /\ slot' = slot
      /\ model' = model /\ board' = board /\ scan' = scan /\ app' = app
  BY DEF Leave, GpsAbort, Settled
<1>2. /\ Calm' <=> Calm
      /\ NoStart' <=> NoStart
      /\ Said("stopped")' <=> Said("stopped")
      /\ Said("gpsStop")' <=> Said("gpsStop")
  BY <1>1 DEF Calm, NoStart, Said, Sent
<1>3. ASSUME scan.pending, scan.isStart PROVE Calm
  <2>. SUFFICES ASSUME scene = "dash", StartTrue PROVE Calm
    BY <1>3 DEF Conf, StartAwaited
  <2>1. ~Refused /\ ~ConfirmedNow
    <3>1. ~Due(4)
      BY DEF Settled, NoneDue
    <3>. QED BY <3>1 DEF Due
  <2>2. model.session # "Running"
    BY <1>3, <2>1 DEF StartTrue, Refused, ConfirmedNow, Confirmed
  <2>. QED BY <2>2, SettledCalm
<1>. QED BY <1>1, <1>2, <1>3 DEF Conf, StopAwaited, StartAwaited, PrestartCalm

-----------------------------------------------------------------------------
(* The worker.                                                             *)

LEMMA ConfTake ==
  ASSUME IInv, Conf, Take
  PROVE  Conf'
<1>0. tx \in Seq(Command) /\ slot \in Command
  BY DEF IInv, TypeOK, Take, Free
<1>1. /\ rx' = rx /\ board' = board /\ model' = model /\ scene' = scene /\ scan' = scan
      /\ app' = app /\ slot' = NoCmd /\ (Sampling' <=> Sampling)
  BY DEF Take, gui, Sampling
<1>2. /\ Len(tx) \in Nat /\ Len(tx') = Len(tx) + 1
      /\ \A i \in 1..Len(tx) : tx'[i] = tx[i]
      /\ tx'[Len(tx) + 1] = slot
  BY <1>0 DEF Take
<1>3. \A i \in 1..Len(tx') : i = Len(tx) + 1 \/ i \in 1..Len(tx)
  BY <1>2
<1>4. /\ Said("started")' <=> Said("started")
      /\ Said("row")' <=> Said("row")
      /\ Said("stopped")' <=> Said("stopped")
      /\ Said("gpsStop")' <=> Said("gpsStop")
  BY <1>1 DEF Said
<1>5. /\ Sent("wardrive")' => Sent("wardrive")
      /\ Sent("stopscan")' => Sent("stopscan")
  BY <1>1, <1>2, <1>3 DEF Sent, NoCmd
<1>6. StopBehind' => StopBehind
  <2>. SUFFICES ASSUME NEW i \in 1..Len(tx'), tx'[i] = "wardrive",
                       NEW j \in (i + 1)..Len(tx'), tx'[j] = "stopscan"
                PROVE  StopBehind
    BY <1>1 DEF StopBehind, NoCmd
  <2>1. i \in 1..Len(tx) /\ tx[i] = "wardrive"
    BY <1>2
  <2>2. j \in (i + 1)..Len(tx) \/ j = Len(tx) + 1
    BY <1>2
  <2>3. slot = "stopscan" \/ \E k \in (i + 1)..Len(tx) : tx[k] = "stopscan"
    BY <1>2, <2>2
  <2>. QED BY <2>1, <2>3 DEF StopBehind
<1>7. (NoStart => NoStart') /\ (Calm => Calm') /\ (StartTrue => StartTrue')
  BY <1>1, <1>4, <1>5, <1>6 DEF NoStart, Calm, StartTrue
<1>. QED BY <1>1, <1>4, <1>7 DEF Conf, StopAwaited, StartAwaited, PrestartCalm

\* What a line does to the session it does with revRose, and a session stops
\* only by the line that says so.
LEMMA RevAfter ==
  ASSUME TypeOK, Apply
  PROVE  /\ scan'.pending = scan.pending /\ scan'.isStart = scan.isStart
         /\ scan.revRose => scan'.revRose
         /\ model'.session = model.session => scan'.revRose = scan.revRose
         /\ model'.session # model.session /\ scan.pending => scan'.revRose
         /\ model'.session = "Stopped" =>
              model.session = "Stopped" \/ rx[1].kind \in {"stopped", "gpsStop"}
         /\ model'.session = "Running" =>
              model.session = "Running" \/ rx[1].kind \in {"started", "row"}
<1>. DEFINE l == Head(rx)
<1>1. l = rx[1] /\ l \in Line
  BY TailShift DEF Apply, TypeOK
<1>2. ApplyLine(l) /\ model \in Model /\ scan \in ScanCtx
  BY DEF Apply, TypeOK
<1>. HIDE DEF l
<1>3. CASE l.kind = "started"
  BY <1>1, <1>2, <1>3 DEF ApplyLine, SessionStarts, Started, Model, ScanCtx
<1>4. CASE l.kind = "row"
  BY <1>1, <1>2, <1>4 DEF ApplyLine, SessionTo, RowSeen, Started, Model, ScanCtx
<1>5. CASE l.kind \in {"stopped", "gpsStop"}
  BY <1>1, <1>2, <1>5 DEF ApplyLine, StoppedLine, SessionTo, Stopped, Model, ScanCtx
<1>6. CASE l.kind \in {"firmware", "diag", "busy", "block"}
  BY <1>1, <1>2, <1>6 DEF ApplyLine, Model
<1>7. l.kind \in {"started", "row", "stopped", "gpsStop", "firmware", "diag", "busy", "block"}
  BY <1>1 DEF Line
<1>. QED BY <1>1, <1>3, <1>4, <1>5, <1>6, <1>7

LEMMA ConfApply ==
  ASSUME IInv, Conf, Apply
  PROVE  Conf'
<1>0. TypeOK /\ app \in App
  BY DEF IInv, TypeOK
<1>1. /\ board' = board /\ tx' = tx /\ slot' = slot /\ scene' = scene
      /\ rx \in Seq(Line) /\ rx # <<>> /\ rx' = Tail(rx)
      /\ app'.prestart = app.prestart
  BY <1>0 DEF Apply, TypeOK, App
<1>2. /\ 1 \in 1..Len(rx) /\ rx[1] \in Line
      /\ \A i \in 1..Len(rx') : i + 1 \in 1..Len(rx) /\ rx'[i] = rx[i + 1]
  BY <1>1, TailShift
<1>3. \A k : Said(k)' => Said(k)
  BY <1>2 DEF Said
<1>4. /\ rx[1].kind = "started" => Said("started")
      /\ rx[1].kind = "row" => Said("row")
      /\ rx[1].kind = "stopped" => Said("stopped")
      /\ rx[1].kind = "gpsStop" => Said("gpsStop")
  BY <1>2 DEF Said
<1>5. /\ Sent("wardrive")' <=> Sent("wardrive")
      /\ Sent("stopscan")' <=> Sent("stopscan")
      /\ StopBehind' <=> StopBehind
  BY <1>1 DEF Sent, StopBehind
<1>6. NoStart => NoStart'
  BY <1>1, <1>3, <1>5 DEF NoStart
<1>7. model'.session = "Running" =>
         model.session = "Running" \/ Said("started") \/ Said("row")
  BY <1>0, <1>4, RevAfter
<1>12. Sampling' <=> Sampling
  BY <1>0, OutsideApp DEF Outside
<1>8. Calm => Calm'
  BY <1>1, <1>3, <1>6, <1>7 DEF Calm, NoStart
<1>9. StopAwaited'
  <2>. SUFFICES ASSUME scan.pending, ~scan.isStart
                PROVE  /\ NoStart'
                       /\ Said("stopped")' \/ Said("gpsStop")'
                            \/ (scan'.revRose /\ model'.session = "Stopped") => board.st # 1
    BY <1>0, <1>1, RevAfter DEF StopAwaited
  <2>1. /\ NoStart
        /\ Said("stopped") \/ Said("gpsStop") \/ (scan.revRose /\ model.session = "Stopped")
             => board.st # 1
    BY DEF Conf, StopAwaited
  <2>2. scan'.revRose /\ model'.session = "Stopped" =>
           Said("stopped") \/ Said("gpsStop") \/ (scan.revRose /\ model.session = "Stopped")
    BY <1>0, <1>4, RevAfter
  <2>. QED BY <1>3, <1>6, <2>1, <2>2
<1>10. ASSUME scan.pending, StartTrue PROVE StartTrue'
  <2>1. model'.session = "Running" => scan'.revRose
    BY <1>0, <1>10, RevAfter DEF StartTrue
  <2>. QED BY <1>1, <1>3, <1>5, <1>7, <1>10, <2>1 DEF StartTrue
<1>11. StartAwaited'
  BY <1>0, <1>1, <1>8, <1>10, <1>12, RevAfter DEF Conf, StartAwaited
<1>. QED BY <1>1, <1>8, <1>9, <1>11 DEF Conf, PrestartCalm

-----------------------------------------------------------------------------
(* The board.                                                              *)

\* A command that leaves the line leaves the others in their order.
LEMMA OneLess ==
  ASSUME TypeOK, tx # <<>>, tx' = Tail(tx), slot' = slot
  PROVE  /\ Sent("wardrive")' => Sent("wardrive")
         /\ Sent("stopscan")' => Sent("stopscan")
         /\ StopBehind' => StopBehind
         /\ Sent(Head(tx))
         /\ Head(tx) = "wardrive" /\ ~StopBehind => ~Sent("stopscan")'
<1>1. /\ Len(tx) \in Nat /\ 1 \in 1..Len(tx) /\ Head(tx) = tx[1] /\ Len(tx') = Len(tx) - 1
      /\ \A i \in 1..Len(tx') : i + 1 \in 1..Len(tx) /\ tx'[i] = tx[i + 1]
  BY TailSent DEF TypeOK
<1>2. /\ Sent("wardrive")' => Sent("wardrive")
      /\ Sent("stopscan")' => Sent("stopscan")
      /\ Sent(Head(tx))
  BY <1>1 DEF Sent
<1>3. ASSUME StopBehind' PROVE StopBehind
  <2>1. PICK i \in 1..Len(tx') : /\ tx'[i] = "wardrive"
                                 /\ \/ slot = "stopscan"
                                    \/ \E j \in (i + 1)..Len(tx') : tx'[j] = "stopscan"
    BY <1>3 DEF StopBehind
  <2>2. i + 1 \in 1..Len(tx) /\ tx[i + 1] = "wardrive"
    BY <1>1, <2>1
  <2>3. ASSUME NEW j \in (i + 1)..Len(tx'), tx'[j] = "stopscan"
        PROVE  j + 1 \in ((i + 1) + 1)..Len(tx) /\ tx[j + 1] = "stopscan"
    BY <1>1, <2>3
  <2>. QED BY <2>1, <2>2, <2>3 DEF StopBehind
<1>4. ASSUME tx[1] = "wardrive", Sent("stopscan")' PROVE StopBehind
  <2>1. ASSUME NEW j \in 1..Len(tx'), tx'[j] = "stopscan"
        PROVE  j + 1 \in (1 + 1)..Len(tx) /\ tx[j + 1] = "stopscan"
    BY <1>1, <2>1
  <2>2. slot = "stopscan" \/ \E j \in (1 + 1)..Len(tx) : tx[j] = "stopscan"
    BY <1>4, <2>1 DEF Sent
  <2>. QED BY <1>1, <1>4, <2>2 DEF StopBehind
<1>. QED BY <1>1, <1>2, <1>3, <1>4

\* What the board may read and say while a command is awaited: less is sent
\* than before, and no scan starts.
LEMMA ConfRead ==
  ASSUME Conf, scene' = scene, scan' = scan, app' = app, model' = model,
         board'.kind = board.kind,
         Sent("wardrive")' => Sent("wardrive"),
         Sent("stopscan")' => Sent("stopscan"),
         StopBehind' => StopBehind,
         Said("started")' => Said("started"),
         Said("row")' => Said("row"),
         Said("stopped")' => Said("stopped") \/ board'.st # 1,
         Said("gpsStop")' => Said("gpsStop") \/ board'.st # 1,
         Sampling' <=> Sampling,
         board'.silent => board.silent,
         board'.st = board.st \/ (board.st # 1 /\ board'.st # 1) \/ (Sent("stopscan") /\ board'.st # 1)
  PROVE  Conf'
<1>1. (NoStart => NoStart') /\ (Calm => Calm')
  BY DEF NoStart, Calm
<1>2. StopAwaited'
  BY <1>1 DEF Conf, StopAwaited
<1>3. StartTrue => StartTrue'
  BY DEF StartTrue
<1>. QED BY <1>1, <1>2, <1>3 DEF Conf, StartAwaited, PrestartCalm

LEMMA ConfBoardRead ==
  ASSUME IInv, Streams, Heard, Conf, BoardRead
  PROVE  Conf'
<1>0. TypeOK /\ board \in Board
  BY DEF IInv, TypeOK
<1>1. /\ model' = model /\ app' = app /\ scan' = scan /\ scene' = scene
      /\ slot' = slot /\ tx # <<>> /\ tx' = Tail(tx) /\ (Sampling' <=> Sampling)
  BY DEF BoardRead, gui, Sampling
<1>2. /\ Sent("wardrive")' => Sent("wardrive")
      /\ Sent("stopscan")' => Sent("stopscan")
      /\ StopBehind' => StopBehind
      /\ Sent(Head(tx))
      /\ Head(tx) = "wardrive" /\ ~StopBehind => ~Sent("stopscan")'
  BY <1>0, <1>1, OneLess
<1>3. /\ <<>> \in Seq(Line) /\ Report("busy") \in Seq(Line) /\ Plain("stopped") \in Seq(Line)
      /\ Plain("firmware") \in Seq(Line) /\ Plain("firmware") \o Report("diag") \in Seq(Line)
      /\ Plain("gpsStop") \in Seq(Line)
  BY <1>0 DEF Plain, Report, Line, Board, BoardState
<1>4. ASSUME NEW t \in Seq(Line), Say(t), \A i \in 1..Len(t) : t[i].kind \in {"busy", "firmware", "diag"}
      PROVE  /\ Said("started")' <=> Said("started")
             /\ Said("row")' <=> Said("row")
             /\ Said("stopped")' <=> Said("stopped")
             /\ Said("gpsStop")' <=> Said("gpsStop")
  <2>1. \A i \in 1..Len(t) : t[i].kind \notin {"started", "row", "stopped", "gpsStop"}
    BY <1>4
  <2>2. \A k : Said(k)' <=> Said(k) \/ \E i \in 1..Len(t) : t[i].kind = k
    BY <1>0, <1>4, SaidMore DEF Say
  <2>. QED BY <2>1, <2>2
<1>5. ASSUME NEW k \in {"stopped", "gpsStop"}, Say(Plain(k))
      PROVE  \A c \in {"started", "row", "stopped", "gpsStop"} \ {k} : Said(c)' <=> Said(c)
  <2>. DEFINE t == Plain(k)
  <2>1. \A i \in 1..Len(t) : t[i].kind = k
    BY DEF Plain
  <2>2. t \in Seq(Line) /\ rx' = rx \o t
    BY <1>3, <1>5 DEF Say
  <2>. HIDE DEF t
  <2>3. \A c : Said(c)' <=> Said(c) \/ \E i \in 1..Len(t) : t[i].kind = c
    BY <1>0, <2>2, SaidMore
  <2>. QED BY <2>1, <2>3
<1>6. /\ \A i \in 1..Len(<<>>) : <<>>[i].kind \in {"busy", "firmware", "diag"}
      /\ \A i \in 1..Len(Report("busy")) : Report("busy")[i].kind \in {"busy", "firmware", "diag"}
      /\ \A i \in 1..Len(Plain("firmware")) :
            Plain("firmware")[i].kind \in {"busy", "firmware", "diag"}
      /\ \A i \in 1..Len(Plain("firmware") \o Report("diag")) :
            (Plain("firmware") \o Report("diag"))[i].kind \in {"busy", "firmware", "diag"}
  BY DEF Plain, Report
<1>7. CASE ReadWardrive
  <2>1. Sent("wardrive")
    BY <1>2, <1>7 DEF ReadWardrive
  <2>2. ~NoStart
    BY <2>1 DEF NoStart
  <2>3. /\ ~app.prestart
        /\ scan.pending => scan.isStart /\ scene = "dash" /\ ~Sampling /\ StartTrue
    BY <2>2 DEF Conf, PrestartCalm, Calm, StopAwaited, StartAwaited
  <2>4. /\ Said("started")' <=> Said("started")
        /\ Said("row")' <=> Said("row")
    BY <1>3, <1>4, <1>6, <1>7 DEF ReadWardrive
  <2>5. \/ board' = board
        \/ board'.st = 1 /\ board'.silent
    BY <1>0, <1>7 DEF ReadWardrive, Board
  <2>6. StartTrue => StartTrue'
    BY <1>1, <1>2, <1>7, <2>4, <2>5 DEF StartTrue, ReadWardrive
  <2>. QED BY <1>1, <2>3, <2>6 DEF Conf, StopAwaited, StartAwaited, PrestartCalm
<1>8. CASE ReadStopscan
  <2>1. Sent("stopscan")
    BY <1>2, <1>8 DEF ReadStopscan
  <2>2. ASSUME NEW st \in BoardState, board' = Ended(st)
        PROVE  board'.st = st /\ ~board'.silent /\ board'.kind = board.kind
    BY <1>0, <2>2 DEF Ended, Board
  <2>3. CASE board.gps
    <3>1. board' = Ended(board.st) /\ Say(Plain("gpsStop"))
      BY <1>8, <2>3 DEF ReadStopscan
    <3>2. board.st # 1 /\ board.st \in BoardState
      BY <1>0, <2>3 DEF Streams, Board
    <3>3. /\ Said("started")' <=> Said("started")
          /\ Said("row")' <=> Said("row")
          /\ Said("stopped")' <=> Said("stopped")
      BY <1>5, <3>1
    <3>. QED BY <1>1, <1>2, <2>1, <2>2, <3>1, <3>2, <3>3, ConfRead
  <2>4. ASSUME NEW st \in BoardState, st # 1, board' = Ended(st), Say(Plain("stopped"))
        PROVE  Conf'
    <3>1. /\ Said("started")' <=> Said("started")
          /\ Said("row")' <=> Said("row")
          /\ Said("gpsStop")' <=> Said("gpsStop")
      BY <1>5, <2>4
    <3>. QED BY <1>1, <1>2, <2>1, <2>2, <2>4, <3>1, ConfRead
  <2>5. CASE ~board.gps /\ (board.kind = "generic" \/ board.st = 1)
    <3>1. 0 \in BoardState /\ 2 \in BoardState
      BY DEF BoardState
    <3>2. \E st \in {0, 2} : board' = Ended(st) /\ Say(Plain("stopped"))
      BY <1>0, <1>8, <2>5 DEF ReadStopscan, Board, Kind
    <3>. QED BY <2>4, <3>1, <3>2
  <2>6. CASE ~board.gps /\ board.kind = "sigroam" /\ board.st # 1
    <3>1. board' = board /\ (Say(<<>>) \/ Say(Plain("stopped")) \/ Say(Report("busy")))
      BY <1>8, <2>6 DEF ReadStopscan
    <3>2. /\ Said("started")' <=> Said("started")
          /\ Said("row")' <=> Said("row")
          /\ Said("gpsStop")' <=> Said("gpsStop")
      BY <1>3, <1>4, <1>5, <1>6, <3>1
    <3>. QED BY <1>1, <1>2, <2>6, <3>1, <3>2, ConfRead
  <2>. QED BY <1>0, <2>3, <2>5, <2>6 DEF Board, Kind
<1>9. CASE ReadInfo
  <2>1. board'.st = board.st /\ board'.silent = board.silent /\ board'.kind = board.kind
    BY <1>0, <1>9 DEF ReadInfo, Board
  <2>2. /\ Said("started")' <=> Said("started")
        /\ Said("row")' <=> Said("row")
        /\ Said("stopped")' <=> Said("stopped")
        /\ Said("gpsStop")' <=> Said("gpsStop")
    BY <1>3, <1>4, <1>6, <1>9 DEF ReadInfo
  <2>. QED BY <1>1, <1>2, <2>1, <2>2, ConfRead
<1>10. CASE ReadSigroam \/ ReadGpsdata
  <2>1. /\ Said("started")' <=> Said("started")
        /\ Said("row")' <=> Said("row")
        /\ Said("stopped")' <=> Said("stopped")
        /\ Said("gpsStop")' <=> Said("gpsStop")
    BY <1>3, <1>4, <1>6, <1>10 DEF ReadSigroam, ReadGpsdata
  <2>2. ReadGpsdata => board.kind = "sigroam"
    <3>1. ReadGpsdata => Sent("gpsdata")
      BY <1>2 DEF ReadGpsdata
    <3>. QED BY <1>0, <3>1 DEF Streams, Heard, Board, Kind
  <2>3. board'.st = board.st /\ board'.silent = board.silent /\ board'.kind = board.kind
    BY <1>0, <1>10, <2>2 DEF ReadSigroam, ReadGpsdata, Board
  <2>. QED BY <1>1, <1>2, <2>1, <2>3, ConfRead
<1>. QED BY <1>7, <1>8, <1>9, <1>10 DEF BoardRead

LEMMA ConfAnnounce ==
  ASSUME IInv, Conf, Announce
  PROVE  Conf'
<1>0. TypeOK /\ board \in Board
  BY DEF IInv, TypeOK
<1>1. /\ model' = model /\ app' = app /\ scan' = scan /\ scene' = scene
      /\ slot' = slot /\ tx' = tx /\ board.silent /\ board'.st = board.st
      /\ Sampling' <=> Sampling
  BY <1>0 DEF Announce, gui, Board, Sampling
<1>2. /\ ~NoStart
      /\ Sent("stopscan")' <=> Sent("stopscan")
      /\ StopBehind' <=> StopBehind
  BY <1>1 DEF NoStart, Sent, StopBehind
<1>3. /\ ~app.prestart
      /\ scan.pending => scan.isStart /\ scene = "dash" /\ ~Sampling /\ StartTrue
  BY <1>2 DEF Conf, PrestartCalm, Calm, StopAwaited, StartAwaited
<1>4. StartTrue => StartTrue'
  BY <1>1, <1>2 DEF StartTrue
<1>. QED BY <1>1, <1>3, <1>4 DEF Conf, StopAwaited, StartAwaited, PrestartCalm

LEMMA ConfRow ==
  ASSUME IInv, Conf, Row
  PROVE  Conf'
<1>1. /\ model' = model /\ app' = app /\ scan' = scan /\ scene' = scene
      /\ slot' = slot /\ tx' = tx /\ board' = board /\ board.st = 1 /\ board.kind = "generic"
      /\ Sampling' <=> Sampling
  BY DEF Row, gui, Sampling
<1>2. Plain("row") \in Seq(Line) /\ \A i \in 1..Len(Plain("row")) : Plain("row")[i].kind = "row"
  BY DEF Plain, Line, BoardState
<1>3. /\ Said("started")' <=> Said("started")
      /\ Said("stopped")' <=> Said("stopped")
      /\ Said("gpsStop")' <=> Said("gpsStop")
      /\ Sent("wardrive")' <=> Sent("wardrive")
      /\ Sent("stopscan")' <=> Sent("stopscan")
      /\ StopBehind' <=> StopBehind
  BY <1>1, <1>2, SaidMore DEF Row, Say, IInv, Sent, StopBehind
<1>4. ~Calm
  BY <1>1 DEF Calm
<1>5. (NoStart => NoStart') /\ (StartTrue => StartTrue')
  BY <1>1, <1>3 DEF NoStart, StartTrue
<1>. QED BY <1>1, <1>3, <1>4, <1>5 DEF Conf, StopAwaited, StartAwaited, PrestartCalm

LEMMA ConfBlock ==
  ASSUME IInv, Conf, Block
  PROVE  Conf'
<1>1. /\ model' = model /\ app' = app /\ scan' = scan /\ scene' = scene
      /\ slot' = slot /\ tx' = tx /\ board' = board
      /\ Sampling' <=> Sampling
  BY DEF Block, gui, Sampling
<1>. DEFINE t == Plain("block")
<1>2. /\ t \in Seq(Line) /\ rx' = rx \o t
      /\ \A i \in 1..Len(t) : t[i].kind = "block"
  BY DEF Plain, Line, BoardState, Block, Say
<1>. HIDE DEF t
<1>3. \A k : Said(k)' <=> Said(k) \/ \E i \in 1..Len(t) : t[i].kind = k
  BY <1>2, SaidMore DEF IInv
<1>4. /\ Said("started")' <=> Said("started")
      /\ Said("row")' <=> Said("row")
      /\ Said("stopped")' <=> Said("stopped")
      /\ Said("gpsStop")' <=> Said("gpsStop")
  BY <1>2, <1>3
<1>5. /\ Sent("wardrive")' <=> Sent("wardrive")
      /\ Sent("stopscan")' <=> Sent("stopscan")
      /\ StopBehind' <=> StopBehind
  BY <1>1 DEF Sent, StopBehind
<1>. QED BY <1>1, <1>4, <1>5, ConfRead

LEMMA ConfSeal ==
  ASSUME IInv, Conf, Seal
  PROVE  Conf'
<1>1. /\ model' = model /\ app' = app /\ scan' = scan /\ scene' = scene
      /\ slot' = slot /\ tx' = tx /\ rx' = rx /\ (Sampling' <=> Sampling)
      /\ board.st # 1 /\ board'.st # 1 /\ board'.silent = board.silent
      /\ board'.kind = board.kind
  BY DEF Seal, gui, link, IInv, TypeOK, Board, Sampling
<1>2. /\ Said("started")' <=> Said("started")
      /\ Said("row")' <=> Said("row")
      /\ Said("stopped")' <=> Said("stopped")
      /\ Said("gpsStop")' <=> Said("gpsStop")
      /\ Sent("wardrive")' <=> Sent("wardrive")
      /\ Sent("stopscan")' <=> Sent("stopscan")
      /\ StopBehind' <=> StopBehind
  BY <1>1 DEF Said, Sent, StopBehind
<1>. QED BY <1>1, <1>2, ConfRead

LEMMA ConfLose ==
  ASSUME IInv, Conf, Lose
  PROVE  Conf'
<1>1. /\ model' = model /\ app' = app /\ scan' = scan /\ scene' = scene
      /\ slot' = slot /\ board' = board /\ (Sampling' <=> Sampling)
  BY DEF Lose, gui, Sampling
<1>2. /\ Sent("wardrive")' => Sent("wardrive")
      /\ Sent("stopscan")' => Sent("stopscan")
      /\ StopBehind' => StopBehind
  <2>1. CASE tx # <<>> /\ tx' = Tail(tx)
    BY <1>1, <2>1, OneLess DEF IInv
  <2>2. CASE tx' = tx
    BY <1>1, <2>2 DEF Sent, StopBehind
  <2>. QED BY <2>1, <2>2 DEF Lose
<1>3. \A k : Said(k)' => Said(k)
  <2>1. CASE rx # <<>> /\ rx' = Tail(rx)
    BY <2>1, TailShift DEF Said, IInv, TypeOK
  <2>2. CASE rx' = rx
    BY <2>2 DEF Said
  <2>. QED BY <2>1, <2>2 DEF Lose
<1>. QED BY <1>1, <1>2, <1>3, ConfRead

-----------------------------------------------------------------------------
(* The invariant, and what it says of a confirmation.                      *)

LEMMA ConfNext ==
  ASSUME IInv, Streams, Agree, Heard, Conf, [Next]_vars
  PROVE  Conf'
<1>1. CASE User
  <2>1. Settled
    BY <1>1 DEF User, Heard
  <2>. QED BY <1>1, <2>1, ConfOkPress, ConfGpsStart, ConfEnterDash, ConfLeave, ConfQuiet DEF User
<1>2. CASE GuiTick
  BY <1>2, ConfTickSync, ConfTickPrestart, ConfQuiet DEF GuiTick
<1>3. CASE Worker
  BY <1>3, ConfTake, ConfApply DEF Worker
<1>4. CASE BoardStep
  BY <1>4, ConfBoardRead, ConfAnnounce, ConfRow, ConfBlock, ConfSeal DEF BoardStep
<1>. QED BY <1>1, <1>2, <1>3, <1>4, ConfLose, ConfQuiet DEF Next

LEMMA CInvInit == HeardPlays /\ Init => CInv
<1>. SUFFICES ASSUME HeardPlays, Init, Heard PROVE Agree /\ Conf
  BY InitIInv, StreamsInit DEF CInv
<1>1. Agree
  <2>1. PICK p \in Plays : /\ p.kind = board.kind /\ p.lossy = board.lossy
                           /\ p.patient = board.patient /\ p.gpsTab = board.gpsTab
                           /\ ~p.handover => board.st = 0
    BY PlayOfRun
  <2>2. board.kind = "generic" => ~p.handover
    BY <2>1, Zenon DEF HeardPlays, Heard
  <2>3. board.kind = "generic" => board.st # 1
    BY <2>1, <2>2
  <2>. QED BY <2>3, AgreeFromIdle
<1>2. Conf
  BY DEF Init, Conf, StopAwaited, StartAwaited, PrestartCalm
<1>. QED BY <1>1, <1>2

LEMMA CInvNext == CInv /\ [Next]_vars => CInv'
<1>. SUFFICES ASSUME CInv, [Next]_vars PROVE CInv'
  OBVIOUS
<1>1. IInv' /\ Streams'
  BY TypeKept, PeerKnownKept, StreamsKept DEF CInv, IInv
<1>2. Heard' => Heard
  BY RunKept DEF Heard, CInv, IInv
<1>3. Heard => Agree' /\ Conf'
  BY AgreeNext, ConfNext DEF CInv, AInv
<1>. QED BY <1>1, <1>2, <1>3 DEF CInv

LEMMA HeardOfPatient == HeardPlays /\ Init => (board.patient => Heard)
  BY PlayOfRun DEF HeardPlays, Heard

LEMMA StartIsTrue == Conf /\ TickScan /\ ScanStarted => board.st = 1
<1>. SUFFICES ASSUME Conf, TickScan, ScanStarted PROVE board.st = 1
  OBVIOUS
<1>1. scan.pending /\ scan.isStart /\ model.session = "Running" /\ scene = "dash"
  BY DEF ScanStarted, ConfirmedNow, Confirmed, TickScan, At
<1>. QED BY <1>1 DEF Conf, StartAwaited, StartTrue, Calm

LEMMA StopIsTrue == Conf /\ TickScan /\ ScanStopped => board.st # 1
<1>. SUFFICES ASSUME Conf, TickScan, ScanStopped PROVE board.st # 1
  OBVIOUS
<1>1. scan.pending /\ ~scan.isStart /\ scan.revRose /\ model.session = "Stopped"
  BY DEF ScanStopped, ConfirmedNow, Confirmed
<1>. QED BY <1>1 DEF Conf, StopAwaited

\* The invariant of a run whose user, when patient, is heard.
HeardInv == CInv /\ (board.patient => Heard)

LEMMA HeardInvariance ==
  ASSUME HeardPlays
  PROVE  Spec => []HeardInv
<1>1. Init => HeardInv
  BY CInvInit, HeardOfPatient DEF HeardInv
<1>2. HeardInv /\ [Next]_vars => HeardInv'
  BY CInvNext, RunKept DEF HeardInv, Heard, CInv, IInv
<1>. QED BY <1>1, <1>2, PTL DEF Spec

\* When a stock peer is idle at launch, its line loses nothing and it gives no
\* GPS samples, or the peer is a -sigroam- board, whatever it was left doing,
\* is sampled for, and whatever the line loses, a user who waits is told the
\* truth, however late the answers come: a start that the Dash takes as
\* confirmed is a board that scans (dash_scan_tick, sr_scan_ctl_eval).
THEOREM StartsAreTrue ==
  ASSUME HeardPlays
  PROVE  Spec => ConfirmedStartRuns
<1>1. HeardInv /\ [Next]_vars =>
        [TickScan /\ ScanStarted /\ board.patient => board.st = 1]_vars
  BY StartIsTrue DEF HeardInv, CInv
<1>. QED BY <1>1, HeardInvariance, PTL DEF Spec, ConfirmedStartRuns

\* And a stop so taken is a board that does not scan: no stopped line of an
\* earlier command or of a sample confirms it (dash_scan_tick,
\* sr_scan_ctl_eval, dash_gps_tick).
THEOREM StopsAreTrue ==
  ASSUME HeardPlays
  PROVE  Spec => ConfirmedStopStopped
<1>1. HeardInv /\ [Next]_vars =>
        [TickScan /\ ScanStopped /\ board.patient => board.st # 1]_vars
  BY StopIsTrue DEF HeardInv, CInv
<1>. QED BY <1>1, HeardInvariance, PTL DEF Spec, ConfirmedStopStopped
=============================================================================
