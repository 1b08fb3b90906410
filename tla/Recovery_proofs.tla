--------------------------- MODULE Recovery_proofs ---------------------------
(***************************************************************************)
(* For every set of peers, every user and any number of outages:           *)
(*   - the state of the two recoveries keeps its types (RInv);             *)
(*   - their hint never outlives them (RInv);                              *)
(*   - the resync of stock peers never stops a scan of a -sigroam- board   *)
(*     (LInv: nothing shows the app a running scan before a Version);      *)
(*   - of boards that answer in time, the watch restarts none that scans   *)
(*     (WInv: past the grace, nothing said before the scan is left).       *)
(***************************************************************************)
EXTENDS Recovery, DashScan_proofs

\* A stopscan is only due while one is left.
TriesLeft ==
    /\ resync.phase \in {"idle", "waitPeer"} => resync.tries = 0
    /\ resync.phase = "needStop" => resync.tries < MaxTries

RInv == RecoveryTypeOK /\ TriesLeft /\ RenewalSeen

-----------------------------------------------------------------------------
(* Initially.                                                              *)

LEMMA FreshType ==
  ASSUME power \in Power, NEW p \in ResyncPhase
  PROVE  ResyncAt(p) \in Resync /\ ResyncAt(p).phase = p /\ ResyncAt(p).tries = 0
<1>1. 0 \in 0..MaxTries
  BY RecoveryAssumption
<1>. QED BY <1>1 DEF ResyncAt, Resync, Power

LEMMA RecoveryInitInv == RecoveryInit => RInv
<1>. SUFFICES ASSUME RecoveryInit PROVE RInv
  OBVIOUS
<1>. USE RecoveryAssumption
<1>1. TypeOK
  BY TypeInit DEF RecoveryInit
<1>2. power \in Power /\ ran \in BOOLEAN
  <2>1. 0 \in 0..MaxOutages
    OBVIOUS
  <2>. QED BY <2>1 DEF RecoveryInit, Power
<1>3. resync \in Resync /\ TriesLeft
  BY <1>2, FreshType DEF RecoveryInit, ResyncPhase, TriesLeft
<1>4. watch \in Watch /\ RenewalSeen
  <2>1. 0 \in 0..1
    OBVIOUS
  <2>2. Rearmed \in Watch /\ Rearmed.phase = "idle"
    BY <2>1 DEF Rearmed, Watch
  <2>. QED BY <2>2 DEF RecoveryInit, Watch, RenewalSeen
<1>. QED BY <1>1, <1>2, <1>3, <1>4 DEF RInv, RecoveryTypeOK

-----------------------------------------------------------------------------
(* The tick of the resync.                                                 *)

LEMMA NextPhaseType ==
  ASSUME RInv
  PROVE  NextPhase \in ResyncPhase
<1>0. resync \in Resync
  BY DEF RInv, RecoveryTypeOK
<1>1. ActivePhase \in ResyncPhase
  BY <1>0 DEF ActivePhase, ResyncPhase, Resync
<1>. QED BY <1>0, <1>1 DEF NextPhase, Active, Legacy, Resync, ResyncPhase

\* needStop is entered, and kept, only with a try left.
LEMMA StopIsLeft ==
  ASSUME RInv
  PROVE  /\ NextPhase = "waitPeer" => resync.tries = 0
         /\ NextPhase = "needStop" => resync.tries < MaxTries
<1>. USE DEF RInv, TriesLeft
<1>0. resync \in Resync
  BY DEF RecoveryTypeOK
<1>1. ActivePhase = "waitPeer" => resync.phase = "waitPeer"
  BY DEF ActivePhase
<1>2. ActivePhase = "needStop" => resync.tries < MaxTries
  BY <1>0, RecoveryAssumption DEF ActivePhase, OutOfTries, Resync
<1>3. NextPhase = "waitPeer" => resync.phase = "idle" \/ ActivePhase = "waitPeer"
  BY <1>0 DEF NextPhase, Active, Legacy, Resync
<1>4. NextPhase = "needStop" => ActivePhase = "needStop"
  BY <1>0 DEF NextPhase, Active, Legacy, Resync
<1>. QED BY <1>1, <1>2, <1>3, <1>4

LEMMA ArrivedType ==
  ASSUME RInv
  PROVE  /\ Arrived \in Resync
         /\ Arrived.phase = NextPhase
         /\ Arrived.phase \in {"idle", "waitPeer"} => Arrived.tries = 0
         /\ Arrived.phase = "needStop" => Arrived.tries < MaxTries
<1>. USE RecoveryAssumption
<1>0. resync \in Resync /\ power \in Power
  BY DEF RInv, RecoveryTypeOK
<1>1. NextPhase \in ResyncPhase
  BY NextPhaseType
<1>2. CASE ~Legacy
  <2>1. NextPhase = "idle"
    BY <1>2 DEF NextPhase
  <2>2. ResyncAt("idle") \in Resync /\ ResyncAt("idle").phase = "idle"
        /\ ResyncAt("idle").tries = 0
    BY <1>0, FreshType DEF ResyncPhase
  <2>3. Arrived = [ResyncAt("idle") EXCEPT !.vbusWas = resync.vbusWas]
    BY <1>2 DEF Arrived
  <2>. QED BY <1>0, <2>1, <2>2, <2>3 DEF Resync
<1>3. CASE Legacy /\ NextPhase = resync.phase
  <2>1. Arrived = [resync EXCEPT !.vbusWas = power.sampled, !.grew = FALSE,
                                 !.heard = @ \/ resync.grew,
                                 !.timer = @ /\ ~resync.grew]
    BY <1>3 DEF Arrived
  <2>2. Arrived \in Resync
    BY <1>0, <2>1 DEF Resync, Power
  <2>3. Arrived.phase = resync.phase /\ Arrived.tries = resync.tries
    BY <1>0, <2>1 DEF Resync
  <2>. QED BY <1>3, <2>2, <2>3 DEF RInv, TriesLeft
<1>4. CASE Legacy /\ NextPhase # resync.phase
  <2>. DEFINE t == IF Active(NextPhase) THEN resync.tries ELSE 0
              v == NextPhase # "idle" /\ resync.moved
  <2>1. Arrived = [ResyncAt(NextPhase) EXCEPT !.tries = t, !.moved = v]
    BY <1>4 DEF Arrived
  <2>2. t \in 0..MaxTries /\ v \in BOOLEAN
    BY <1>0 DEF Resync
  <2>3. NextPhase = "waitPeer" => t = 0
    BY StopIsLeft
  <2>4. NextPhase = "needStop" => t < MaxTries
    BY StopIsLeft
  <2>5. NextPhase = "idle" => t = 0
    BY DEF Active
  <2>. HIDE DEF t, v
  <2>6. Arrived \in Resync /\ Arrived.phase = NextPhase /\ Arrived.tries = t
    BY <1>0, <1>1, <2>1, <2>2 DEF ResyncAt, Resync, Power
  <2>. QED BY <2>3, <2>4, <2>5, <2>6
<1>. QED BY <1>2, <1>3, <1>4

LEMMA ResyncStep ==
  ASSUME RInv, ResyncTick
  PROVE  resync' \in Resync /\ TriesLeft'
<1>. USE RecoveryAssumption
<1>1. resync' = Arrived => resync' \in Resync /\ TriesLeft'
  BY ArrivedType DEF TriesLeft
<1>2. CASE ResyncStop /\ Free
  <2>1. resync' = [Arrived EXCEPT !.phase = "awaitStop", !.tries = @ + 1, !.timer = FALSE]
    BY <1>2 DEF ResyncStop
  <2>2. Arrived \in Resync /\ Arrived.tries < MaxTries
    BY <1>2, ArrivedType DEF ResyncStop, SendsStop
  <2>3. Arrived.tries + 1 \in 0..MaxTries
    BY <2>2 DEF Resync
  <2>. QED BY <2>1, <2>2, <2>3 DEF Resync, ResyncPhase, TriesLeft
<1>3. CASE ResyncStart /\ Free
  BY <1>3, ArrivedType DEF ResyncStart, Resync, ResyncPhase, TriesLeft
<1>. QED BY <1>1, <1>2, <1>3 DEF ResyncTick, ResyncStop, ResyncStart, ResyncWaits

-----------------------------------------------------------------------------
(* The tick of the watch.                                                  *)

\* While it recovers no session runs: the next tick sees one, and rearms.
LEMMA NotRunning ==
  ASSUME RInv, Recovering
  PROVE  model.session # "Running" /\ watch.phase = "recovering"
  BY DEF RInv, RenewalSeen, Recovering, Renewed

LEMMA NoteSentType ==
  ASSUME NEW w \in Watch
  PROVE  NoteSent(w) \in Watch
  BY DEF NoteSent, Watch

LEMMA RearmedType == Rearmed \in Watch /\ Rearmed.phase = "idle"
<1>1. 0 \in 0..1
  OBVIOUS
<1>. QED BY <1>1 DEF Rearmed, Watch

LEMMA WatchStep ==
  ASSUME RInv, WatchTick
  PROVE  watch' \in Watch /\ RenewalSeen'
<1>0. watch \in Watch /\ model \in Model
  BY DEF RInv, RecoveryTypeOK, TypeOK
<1>1. CASE Rearm
  BY <1>1, RearmedType DEF Rearm, RenewalSeen
<1>2. CASE GiveUp
  <2>1. watch' = [Rearmed EXCEPT !.phase = "lost", !.moved = watch.moved]
    BY <1>2 DEF GiveUp
  <2>2. watch' \in Watch
    BY <1>0, <2>1, RearmedType DEF Watch
  <2>3. model'.session # "Running"
    BY <1>2, NotRunning DEF GiveUp, GivesUp
  <2>. QED BY <2>2, <2>3 DEF RenewalSeen
<1>3. CASE Resend
  <2>1. watch' \in Watch
    BY <1>0, <1>3, NoteSentType DEF Resend
  <2>2. model'.session # "Running"
    BY <1>3, NotRunning DEF Resend, ResendDue
  <2>. QED BY <2>1, <2>2 DEF RenewalSeen
<1>4. CASE Restart
  <2>. DEFINE w == [Rearmed EXCEPT !.phase = "recovering", !.moved = TRUE]
  <2>1. w \in Watch
    BY RearmedType DEF Watch
  <2>2. watch' \in Watch
    BY <1>4, <2>1, NoteSentType DEF Restart
  <2>3. model.session = "Running"
    BY <1>4 DEF Restart, RestartDue, Doubts
  <2>4. model'.session = "Stopped"
    BY <1>0, <1>4, <2>3 DEF Restart, Stopped, Model
  <2>. QED BY <2>2, <2>4 DEF RenewalSeen
<1>5. CASE Count
  <2>1. BadNow \in 0..1
    BY DEF BadNow
  <2>2. watch' = [watch EXCEPT !.fresh = FALSE, !.zero = FALSE, !.bad = BadNow]
    BY <1>5 DEF Count
  <2>3. watch.phase = "idle"
    BY <1>5 DEF Count, Watching
  <2>. QED BY <1>0, <2>1, <2>2, <2>3 DEF Watch, RenewalSeen
<1>. QED BY <1>1, <1>2, <1>3, <1>4, <1>5 DEF WatchTick

-----------------------------------------------------------------------------
(* What the other steps change for the two.                                *)

LEMMA NotedKept ==
  ASSUME RInv, NEW b \in BOOLEAN, NEW s \in BOOLEAN, NEW z \in BOOLEAN, Noted(b, s, z)
  PROVE  /\ resync' \in Resync /\ TriesLeft'
         /\ watch' \in Watch /\ RenewalSeen'
<1>0. resync \in Resync /\ watch \in Watch
  BY DEF RInv, RecoveryTypeOK
<1>. DEFINE rm == resync.phase # "idle" /\ (resync.moved \/ SessionMoved)
            rg == resync.phase = "waitPeer" /\ (resync.grew \/ b)
            m == watch.moved \/ SessionMoved
            listens == watch.phase = "idle" /\ ~m
            f == listens /\ (watch.fresh \/ s)
            zz == listens /\ (IF s THEN z ELSE watch.zero)
<1>1. resync' = [resync EXCEPT !.moved = rm, !.grew = rg]
  BY DEF Noted
<1>2. rm \in BOOLEAN /\ rg \in BOOLEAN /\ m \in BOOLEAN /\ f \in BOOLEAN /\ zz \in BOOLEAN
  BY <1>0 DEF Resync, Watch, SessionMoved
<1>3. watch' = [watch EXCEPT !.moved = m, !.fresh = f, !.zero = zz]
  BY DEF Noted
<1>4. watch.phase # "idle" /\ model'.session = "Running" => m
  BY DEF RInv, RenewalSeen, SessionMoved
<1>. HIDE DEF rm, rg, m, f, zz
<1>5. resync' \in Resync /\ resync'.phase = resync.phase /\ resync'.tries = resync.tries
  BY <1>0, <1>1, <1>2 DEF Resync
<1>6. watch' \in Watch /\ watch'.phase = watch.phase /\ watch'.moved = m
  BY <1>0, <1>2, <1>3 DEF Watch
<1>. QED BY <1>4, <1>5, <1>6 DEF RInv, TriesLeft, RenewalSeen

LEMMA QuietKept ==
  ASSUME RInv, Quiet
  PROVE  resync' \in Resync /\ TriesLeft' /\ watch' \in Watch /\ RenewalSeen'
  BY NotedKept DEF Quiet

LEMMA HeardKept ==
  ASSUME RInv, Heard
  PROVE  resync' \in Resync /\ TriesLeft' /\ watch' \in Watch /\ RenewalSeen'
<1>1. PICK z \in BOOLEAN : Noted(TRUE, Head(rx).kind = "diag", z)
  BY DEF Heard
<1>2. (Head(rx).kind = "diag") \in BOOLEAN
  OBVIOUS
<1>. QED BY <1>1, <1>2, NotedKept

-----------------------------------------------------------------------------
(* The invariant.                                                          *)

LEMMA RecoveryTickKept == RInv /\ RecoveryTick => RInv'
<1>. SUFFICES ASSUME RInv, RecoveryTick PROVE RInv'
  OBVIOUS
<1>0. TypeOK /\ power \in Power /\ ran \in BOOLEAN /\ resync \in Resync /\ watch \in Watch
  BY DEF RInv, RecoveryTypeOK
<1>1. CASE ResyncTick
  <2>1. scan' \in ScanCtx /\ slot' \in Command \cup {NoCmd} /\ moved' \in Moved
    <3>1. CASE ResyncStop \/ ResyncStart
      BY <1>0, <3>1, QueueType DEF ResyncStop, ResyncStart, Queue, TypeOK, Moved
    <3>2. CASE ResyncWaits
      BY <1>0, <3>2 DEF ResyncWaits, TypeOK
    <3>. QED BY <1>1, <3>1, <3>2 DEF ResyncTick
  <2>2. TypeOK'
    BY <1>0, <1>1, <2>1 DEF RecoveryTick, ResyncTick, TypeOK
  <2>3. resync' \in Resync /\ TriesLeft'
    BY <1>1, ResyncStep
  <2>4. watch' \in Watch /\ RenewalSeen'
    BY <1>0, <1>1 DEF ResyncTick, RInv, RenewalSeen
  <2>. QED BY <1>0, <2>2, <2>3, <2>4 DEF RInv, RecoveryTypeOK, RecoveryTick
<1>2. CASE WatchTick
  <2>1. scan' \in ScanCtx /\ slot' \in Command \cup {NoCmd} /\ moved' \in Moved
    <3>1. CASE Resend
      BY <1>0, <3>1, QueueType DEF Resend, Queue, TypeOK, Moved
    <3>2. CASE Restart
      BY <1>0, <3>2, QueueType DEF Restart, TypeOK, Moved
    <3>3. CASE Rearm \/ GiveUp \/ Count
      BY <1>0, <3>3 DEF Rearm, GiveUp, Count, TypeOK
    <3>. QED BY <1>2, <3>1, <3>2, <3>3 DEF WatchTick
  <2>2. model' \in Model
    <3>1. CASE Restart
      <4>1. Stopped(model.session, model.fw) \in Session
        BY <1>0 DEF TypeOK, Model, Stopped, Session
      <4>. QED BY <1>0, <3>1, <4>1 DEF Restart, TypeOK, Model
    <3>2. CASE Rearm \/ GiveUp \/ Resend \/ Count
      BY <1>0, <3>2 DEF Rearm, GiveUp, Resend, Count, TypeOK
    <3>. QED BY <1>2, <3>1, <3>2 DEF WatchTick
  <2>3. TypeOK'
    BY <1>0, <2>1, <2>2 DEF RecoveryTick, TypeOK
  <2>4. resync' \in Resync /\ TriesLeft'
    BY <1>0, <1>2 DEF WatchTick, RInv, TriesLeft
  <2>5. watch' \in Watch /\ RenewalSeen'
    BY <1>2, WatchStep
  <2>. QED BY <1>0, <2>3, <2>4, <2>5 DEF RInv, RecoveryTypeOK, RecoveryTick
<1>. QED BY <1>1, <1>2 DEF RecoveryTick

\* The steps of DashScan: Noted keeps the rest.
LEMMA DashKept ==
  ASSUME RInv, [Next]_vars, power' \in Power, ran' \in BOOLEAN, Quiet \/ Heard
  PROVE  RInv'
<1>1. TypeOK'
  BY TypeKept DEF RInv, RecoveryTypeOK
<1>. QED BY <1>1, QuietKept, HeardKept DEF RInv, RecoveryTypeOK

LEMMA BoardKept ==
  ASSUME RInv, BoardReads \/ SaysIdle \/ LostInBoot \/ Outage
  PROVE  RInv'
<1>0. TypeOK /\ power \in Power /\ ran \in BOOLEAN
  BY DEF RInv, RecoveryTypeOK
<1>1. CASE BoardReads
  <2>1. power' \in Power
    BY <1>0, <1>1 DEF BoardReads, Power
  <2>2. [Next]_vars /\ Quiet /\ ran' \in BOOLEAN
    BY <1>0, <1>1 DEF BoardReads, Next, BoardStep
  <2>. QED BY <2>1, <2>2, DashKept
<1>2. CASE SaysIdle
  <2>1. tx' \in Seq(Command) /\ Len(tx') <= MaxTx
    BY <1>0, <1>2, TailBound, DashScanAssumption DEF SaysIdle, TypeOK
  <2>2. Plain("firmware") \o Plain("diag") \in Seq(Line)
    BY <1>0, LineType
  <2>3. rx' \in Seq(Line) /\ Len(rx') <= MaxRx
    BY <1>0, <1>2, <2>2, SayType DEF SaysIdle
  <2>4. TypeOK'
    BY <1>0, <1>2, <2>1, <2>3 DEF SaysIdle, TypeOK, gui
  <2>5. Quiet
    BY <1>2 DEF SaysIdle
  <2>. QED BY <1>0, <1>2, <2>4, <2>5, QuietKept DEF SaysIdle, RInv, RecoveryTypeOK
<1>3. CASE LostInBoot
  <2>1. tx' \in Seq(Command) /\ Len(tx') <= MaxTx
    BY <1>0, <1>3, TailBound, DashScanAssumption DEF LostInBoot, TypeOK
  <2>2. TypeOK'
    BY <1>0, <1>3, <2>1 DEF LostInBoot, TypeOK, gui
  <2>3. Quiet
    BY <1>3 DEF LostInBoot
  <2>. QED BY <1>0, <1>3, <2>2, <2>3, QuietKept DEF LostInBoot, RInv, RecoveryTypeOK
<1>4. CASE Outage
  <2>1. power' \in Power
    <3>1. power.outages + 1 \in 0..MaxOutages
      BY <1>0, <1>4, RecoveryAssumption DEF Outage, Power
    <3>. QED BY <1>0, <1>4, <3>1 DEF Outage, Power
  <2>2. board' \in Board
    <3>1. \/ board' = board
          \/ board' = [board EXCEPT !.st = 0, !.showInfo = FALSE, !.gps = FALSE, !.silent = FALSE]
      BY <1>4 DEF Outage
    <3>2. board \in Board /\ 0 \in BoardState
      BY <1>0 DEF TypeOK, BoardState
    <3>. QED BY <3>1, <3>2 DEF Board
  <2>3. TypeOK'
    BY <1>0, <1>4, <2>2 DEF Outage, TypeOK, gui, link
  <2>. QED
    BY <1>0, <1>4, <2>1, <2>3
    DEF Outage, RInv, RecoveryTypeOK, TriesLeft, RenewalSeen
<1>. QED BY <1>1, <1>2, <1>3, <1>4

\* A timer of the two, or a second of the worker's sampling.
LEMMA TimerKept ==
  ASSUME RInv, ResyncElapse \/ ResyncGiveUp \/ GraceElapse \/ GapElapse \/ WatchGiveUp
               \/ WorkerSamples \/ Scans
  PROVE  RInv'
<1>0. TypeOK /\ power \in Power /\ ran \in BOOLEAN /\ resync \in Resync /\ watch \in Watch
  BY DEF RInv, RecoveryTypeOK
<1>1. UNCHANGED vars
  BY DEF ResyncElapse, ResyncGiveUp, GraceElapse, GapElapse, WatchGiveUp, WorkerSamples, Scans
<1>2. TypeOK'
  BY <1>0, <1>1, TypeKept
<1>3. model' = model
  BY <1>1 DEF vars
<1>4. power' \in Power /\ ran' \in BOOLEAN
  BY <1>0 DEF ResyncElapse, ResyncGiveUp, GraceElapse, GapElapse, WatchGiveUp,
              WorkerSamples, Scans, Power
<1>5. resync' \in Resync /\ resync'.phase = resync.phase /\ resync'.tries = resync.tries
  BY <1>0 DEF ResyncElapse, ResyncGiveUp, GraceElapse, GapElapse, WatchGiveUp,
              WorkerSamples, Scans, Resync
<1>6. watch' \in Watch /\ watch'.phase = watch.phase /\ watch'.moved = watch.moved
  BY <1>0 DEF ResyncElapse, ResyncGiveUp, GraceElapse, GapElapse, WatchGiveUp,
              WorkerSamples, Scans, Watch
<1>. QED
  BY <1>2, <1>3, <1>4, <1>5, <1>6 DEF RInv, RecoveryTypeOK, TriesLeft, RenewalSeen

LEMMA RInvKept == RInv /\ [RecoveryNext]_rvars => RInv'
<1>. SUFFICES ASSUME RInv, [RecoveryNext]_rvars PROVE RInv'
  OBVIOUS
<1>0. TypeOK /\ power \in Power /\ ran \in BOOLEAN
  BY DEF RInv, RecoveryTypeOK
<1>1. CASE UserStep \/ TickAfter \/ DashElapse \/ WorkerTakes \/ WorkerApplies \/ BoardActs
  <2>1. [Next]_vars /\ (Quiet \/ Heard)
    BY <1>1 DEF UserStep, TickAfter, DashElapse, WorkerTakes, WorkerApplies, BoardActs,
                Next, Worker, BoardStep
  <2>2. power' \in Power /\ ran' \in BOOLEAN
    BY <1>0, <1>1 DEF UserStep, TickAfter, DashElapse, WorkerTakes, WorkerApplies, BoardActs
  <2>. QED BY <2>1, <2>2, DashKept
<1>2. CASE Banner \/ Booted
  <2>1. [Next]_vars /\ ran' \in BOOLEAN /\ power' \in Power
    BY <1>0, <1>2 DEF Banner, Booted, Power
  <2>2. Noted(TRUE, FALSE, FALSE)
    BY <1>2 DEF Banner, Booted
  <2>3. TypeOK'
    BY <1>0, <2>1, TypeKept
  <2>. QED BY <2>1, <2>2, <2>3, NotedKept DEF RInv, RecoveryTypeOK
<1>3. CASE UNCHANGED rvars
  <2>1. TypeOK'
    BY <1>0, <1>3, TypeKept DEF rvars
  <2>. QED
    BY <1>3, <2>1 DEF rvars, vars, RInv, RecoveryTypeOK, TriesLeft, RenewalSeen
<1>. QED
  BY <1>1, <1>2, <1>3, RecoveryTickKept, BoardKept, TimerKept DEF RecoveryNext

THEOREM RecoveryInvariance == RecoverySpec => []RInv
  BY RecoveryInitInv, RInvKept, PTL DEF RecoverySpec

\* The state of the two recoveries keeps its types: a resync sends at most
\* MaxTries stopscans (sr_resync_eval).
THEOREM RecoveryTypeCorrect == RecoverySpec => []RecoveryTypeOK
<1>1. RInv => RecoveryTypeOK
  BY DEF RInv
<1>. QED BY RecoveryInvariance, <1>1, PTL

\* Whoever moves the session to Running while the hint is up, the watch has a
\* session_rev that moved, and the next tick takes the hint down
\* (sr_peer_watch_eval).
THEOREM HintEnds == RecoverySpec => []RenewalSeen
<1>1. RInv => RenewalSeen
  BY DEF RInv
<1>. QED BY RecoveryInvariance, <1>1, PTL
-----------------------------------------------------------------------------
(* The legacy resync is off for a -sigroam- board.  Its dialect test reads *)
(* the last Version, so one must know that no scan runs for the app before *)
(* it has one: what starts a scan waits for the Version, and what shows a  *)
(* scan comes after it.                                                    *)

NoStart(s) == \A k \in DOMAIN s : s[k] # "wardrive"

\* No line of s tells of a scan before a line that names the board.
NamedFirst(s) ==
    \A k \in DOMAIN s :
        /\ s[k].kind # "started"
        /\ s[k].kind = "diag" => \E j \in 1..(k - 1) : s[j].kind = "firmware"

Unnamed ==
    /\ model.session # "Running" /\ ~model.diagSeen
    /\ ~app.prestart /\ slot # "wardrive" /\ ~board.silent
    /\ scene = "dash" => app.ident
    /\ NoStart(tx)
    /\ NamedFirst(rx)

RunsKnown ==
    /\ model.fw = "none" => Unnamed
    /\ resync.phase # "idle" => model.fw # "none" /\ board.kind = "generic"

LInv == RInv /\ PeerKnown /\ RunsKnown

LEMMA LInit == RecoveryInit => LInv
<1>. SUFFICES ASSUME RecoveryInit PROVE LInv
  OBVIOUS
<1>1. RInv /\ PeerKnown
  BY RecoveryInitInv, InitIInv DEF RecoveryInit, IInv
<1>2. Unnamed
  BY DEF RecoveryInit, Init, BoardInit, Unnamed, NoStart, NamedFirst, NoCmd
<1>3. resync.phase = "idle"
  BY DEF RecoveryInit, ResyncAt
<1>. QED BY <1>1, <1>2, <1>3 DEF LInv, RunsKnown

LEMMA NoStartTail ==
  ASSUME NEW s \in Seq(Command), s # <<>>, NoStart(s)
  PROVE  NoStart(Tail(s)) /\ Head(s) # "wardrive"
  BY DEF NoStart

LEMMA NoStartAppend ==
  ASSUME NEW s \in Seq(Command), NEW c \in Command, c # "wardrive", NoStart(s)
  PROVE  NoStart(Append(s, c))
  BY DEF NoStart

LEMMA NamedTail ==
  ASSUME NEW s \in Seq(Line), s # <<>>, NamedFirst(s), Head(s).kind # "firmware"
  PROVE  NamedFirst(Tail(s)) /\ Head(s).kind \notin {"started", "diag"}
<1>0. Len(s) \in Nat \ {0} /\ DOMAIN s = 1..Len(s) /\ Head(s) = s[1] /\ 1 \in DOMAIN s
  OBVIOUS
<1>1. Head(s).kind \notin {"started", "diag"}
  BY <1>0 DEF NamedFirst
<1>2. DOMAIN Tail(s) = 1..(Len(s) - 1) /\ \A k \in 1..(Len(s) - 1) : Tail(s)[k] = s[k + 1]
  BY <1>0
<1>3. ASSUME NEW k \in 1..(Len(s) - 1)
      PROVE  /\ Tail(s)[k].kind # "started"
             /\ Tail(s)[k].kind = "diag" =>
                  \E j \in 1..(k - 1) : Tail(s)[j].kind = "firmware"
  <2>1. Tail(s)[k] = s[k + 1] /\ k + 1 \in DOMAIN s
    BY <1>0, <1>2
  <2>2. ASSUME s[k + 1].kind = "diag"
        PROVE  \E j \in 1..(k - 1) : Tail(s)[j].kind = "firmware"
    <3>1. PICK i \in 1..((k + 1) - 1) : s[i].kind = "firmware"
      BY <2>1, <2>2 DEF NamedFirst
    <3>2. i # 1
      BY <1>0, <3>1
    <3>3. i - 1 \in 1..(k - 1) /\ Tail(s)[i - 1] = s[i]
      BY <1>0, <1>2, <3>1, <3>2
    <3>. QED BY <3>1, <3>3
  <2>. QED BY <2>1, <2>2 DEF NamedFirst
<1>. QED BY <1>1, <1>2, <1>3 DEF NamedFirst

\* Lines that tell nothing of a scan, and the whole reply to info.
LEMMA NamedSay ==
  ASSUME NEW s \in Seq(Line), NamedFirst(s), NEW t \in Seq(Line), NamedFirst(t)
  PROVE  NamedFirst(s \o t)
<1>0. Len(s) \in Nat /\ Len(t) \in Nat /\ DOMAIN s = 1..Len(s) /\ DOMAIN t = 1..Len(t)
  OBVIOUS
<1>1. /\ DOMAIN (s \o t) = 1..(Len(s) + Len(t))
      /\ \A k \in 1..Len(s) : (s \o t)[k] = s[k]
      /\ \A k \in 1..Len(t) : (s \o t)[Len(s) + k] = t[k]
  BY <1>0
<1>. SUFFICES ASSUME NEW k \in 1..(Len(s) + Len(t))
              PROVE  /\ (s \o t)[k].kind # "started"
                     /\ (s \o t)[k].kind = "diag" =>
                          \E j \in 1..(k - 1) : (s \o t)[j].kind = "firmware"
  BY <1>1 DEF NamedFirst
<1>2. CASE k \in 1..Len(s)
  <2>1. ASSUME (s \o t)[k].kind = "diag"
        PROVE  \E j \in 1..(k - 1) : (s \o t)[j].kind = "firmware"
    <3>1. PICK j \in 1..(k - 1) : s[j].kind = "firmware"
      BY <1>0, <1>1, <1>2, <2>1 DEF NamedFirst
    <3>2. (s \o t)[j] = s[j]
      BY <1>0, <1>1, <1>2, <3>1
    <3>. QED BY <3>1, <3>2
  <2>. QED BY <1>0, <1>1, <1>2, <2>1 DEF NamedFirst
<1>3. CASE k \notin 1..Len(s)
  <2>. DEFINE i == k - Len(s)
  <2>1. i \in 1..Len(t) /\ k = Len(s) + i
    BY <1>0, <1>3
  <2>2. (s \o t)[k] = t[i]
    BY <1>1, <2>1
  <2>3. ASSUME t[i].kind = "diag"
        PROVE  \E j \in 1..(k - 1) : (s \o t)[j].kind = "firmware"
    <3>1. PICK j \in 1..(i - 1) : t[j].kind = "firmware"
      BY <1>0, <2>1, <2>3 DEF NamedFirst
    <3>2. j \in 1..Len(t) /\ Len(s) + j \in 1..(k - 1)
      BY <1>0, <2>1, <3>1
    <3>. QED BY <1>1, <3>1, <3>2
  <2>. QED BY <1>0, <2>1, <2>2, <2>3 DEF NamedFirst
<1>. QED BY <1>2, <1>3

LEMMA NamedLine ==
  ASSUME TypeOK, NEW k \in {"stopped", "firmware", "busy", "row", "block", "gpsStop"}
  PROVE  /\ Plain(k) \in Seq(Line) /\ NamedFirst(Plain(k))
         /\ Report(k) \in Seq(Line) /\ NamedFirst(Report(k))
  BY LineType DEF Plain, Report, NamedFirst

LEMMA NamedReply ==
  ASSUME TypeOK
  PROVE  /\ Plain("firmware") \o Plain("diag") \in Seq(Line)
         /\ NamedFirst(Plain("firmware") \o Plain("diag"))
         /\ Plain("firmware") \o Report("diag") \in Seq(Line)
         /\ NamedFirst(Plain("firmware") \o Report("diag"))
<1>0. Plain("firmware") \in Seq(Line) /\ Plain("diag") \in Seq(Line) /\ Report("diag") \in Seq(Line)
  BY LineType
<1>1. ASSUME NEW a \in Seq(Line), NEW b \in Seq(Line), Len(a) = 1, Len(b) = 1,
             a[1].kind = "firmware", b[1].kind = "diag"
      PROVE  a \o b \in Seq(Line) /\ NamedFirst(a \o b)
  <2>0. Len(a \o b) = 2
    BY <1>1
  <2>1. a \o b \in Seq(Line) /\ DOMAIN (a \o b) = 1..2
    BY <2>0
  <2>2. (a \o b)[1] = a[1]
    BY <1>1
  <2>3. (a \o b)[2] = b[1]
    <3>1. 2 \in 1..(Len(a) + Len(b)) /\ ~(2 <= Len(a)) /\ 2 - Len(a) = 1
      BY <1>1
    <3>. QED BY <3>1
  <2>4. ASSUME NEW k \in 1..2
        PROVE  /\ (a \o b)[k].kind # "started"
               /\ (a \o b)[k].kind = "diag" =>
                    \E j \in 1..(k - 1) : (a \o b)[j].kind = "firmware"
    <3>1. CASE k = 1
      BY <1>1, <2>2, <3>1
    <3>2. CASE k = 2
      <4>1. 1 \in 1..(k - 1)
        BY <3>2
      <4>. QED BY <1>1, <2>2, <2>3, <3>2, <4>1
    <3>3. k = 1 \/ k = 2
      OBVIOUS
    <3>. QED BY <3>1, <3>2, <3>3
  <2>. QED BY <2>1, <2>4 DEF NamedFirst
<1>2. /\ Len(Plain("firmware")) = 1 /\ Plain("firmware")[1].kind = "firmware"
      /\ Len(Plain("diag")) = 1 /\ Plain("diag")[1].kind = "diag"
      /\ Len(Report("diag")) = 1 /\ Report("diag")[1].kind = "diag"
  BY DEF Plain, Report
<1>. QED BY <1>0, <1>1, <1>2

-----------------------------------------------------------------------------
(* No step of the Dash starts a scan for a board without a name.           *)

LEMMA UnnamedUser ==
  ASSUME TypeOK, Unnamed, model.fw = "none", User
  PROVE  Unnamed'
<1>. USE DEF Unnamed
<1>0. app \in App
  BY DEF TypeOK
<1>0a. CASE GpsStart
  <2>1. slot' # "wardrive"
    BY <1>0a DEF GpsStart, Offer
  <2>. QED BY <1>0a, <2>1 DEF GpsStart, NoStart, NamedFirst
<1>1. CASE OkPress
  <2>1. IdentHold /\ ~Uploading(model.diagSeen, model.diagSt)
    BY <1>1 DEF OkPress, IdentHold, Uploading
  <2>2. OnOkGated(Ui, model.sdDead, SealingNow, IdentHold,
                  Uploading(model.diagSeen, model.diagSt)) \in {"SendStop", "None"}
    BY <2>1 DEF OnOkGated
  <2>3. OkAct # "SendStart"
    BY <2>2 DEF OkAct, RetryUnconfirmed
  <2>4. OkStop
    BY <1>1, <2>3 DEF OkPress, OkStartNow, OkStartAfterClear
  <2>5. slot' # "wardrive"
    BY <2>4 DEF OkStop, QueueCmd, Offer
  <2>6. ~app'.prestart /\ app'.ident = app.ident
    BY <1>0, <2>4 DEF OkStop, App
  <2>. QED BY <1>1, <2>5, <2>6 DEF OkPress, NoStart, NamedFirst
<1>2. CASE EnterDash
  <2>. DEFINE fresh == [app EXCEPT !.prestart = FALSE, !.postStop = FALSE, !.ident = FALSE,
                                   !.identSends = 0, !.sync = FALSE, !.probed = FALSE]
              n == IF Free THEN 1 ELSE 0
  <2>1. app' = [fresh EXCEPT !.ident = TRUE, !.identDue = FALSE,
                             !.identSends = n, !.sync = Free]
    BY <1>2, Zenon DEF EnterDash
  <2>2. fresh.prestart = FALSE /\ fresh = [x \in DOMAIN app |-> fresh[x]]
        /\ "ident" \in DOMAIN app /\ "prestart" \in DOMAIN app
    BY <1>0 DEF App
  <2>. HIDE DEF fresh, n
  <2>3. app'.ident /\ ~app'.prestart
    BY <2>1, <2>2
  <2>4. slot' # "wardrive"
    BY <1>2 DEF EnterDash, Offer
  <2>. QED BY <1>2, <2>3, <2>4 DEF EnterDash, NoStart, NamedFirst
<1>3. CASE EnterProbe
  <2>1. ~app'.prestart
    BY <1>0, <1>3 DEF EnterProbe, HsInfo, App
  <2>2. slot' # "wardrive"
    BY <1>3 DEF EnterProbe, HsInfo, Offer
  <2>. QED BY <1>3, <2>1, <2>2 DEF EnterProbe, NoStart, NamedFirst
<1>4. CASE Leave
  <2>1. slot' # "wardrive"
    BY <1>4 DEF Leave, GpsAbort, Offer
  <2>. QED BY <1>4, <2>1 DEF Leave, NoStart, NamedFirst
<1>. QED BY <1>0a, <1>1, <1>2, <1>3, <1>4 DEF User

LEMMA UnnamedTick ==
  ASSUME TypeOK, Unnamed, model.fw = "none", GuiTick
  PROVE  Unnamed'
<1>. USE DEF Unnamed
<1>0. app \in App
  BY DEF TypeOK
<1>1. ~TickSync
  <2>1. SyncAct = "Wait"
    BY DEF SyncAct, PeerSync
  <2>2. ~Due(1)
    BY <2>1 DEF Due
  <2>. QED BY <2>2 DEF TickSync, At
<1>2. ~TickPrestart
  BY DEF TickPrestart, PrestartRetry, PrestartEnds
<1>3. ~TickProbe /\ ~TickQual
  BY DEF TickProbe, TickQual, At, Due, ShouldProbe, StatusCmd, NoCmd
<1>4. ~HsStop /\ ~HsSigroam
  BY DEF HsStop, HsSigroam, HsStopDue, HsSigroamDue, ShouldProbe
<1>5. CASE TickIdent
  <2>1. app'.ident = app.ident /\ app'.prestart = app.prestart
    BY <1>0, <1>5 DEF TickIdent, IdentKnown, App
  <2>2. slot' # "wardrive"
    BY <1>5 DEF TickIdent, IdentKnown, Offer
  <2>. QED BY <1>5, <2>1, <2>2 DEF TickIdent, NoStart, NamedFirst
<1>6. CASE TickScan
  <2>1. app'.ident = app.ident /\ app'.prestart = app.prestart
    BY <1>0, <1>6 DEF TickScan, ScanRefused, ScanStarted, ScanStopped, App
  <2>2. slot' = slot /\ model' = model
    BY <1>6 DEF TickScan, ScanRefused, ScanStarted, ScanStopped, StatusCmd, NoCmd
  <2>. QED BY <1>6, <2>1, <2>2 DEF TickScan, NoStart, NamedFirst
<1>7. CASE TickPostStop
  <2>1. app'.ident = app.ident /\ app'.prestart = app.prestart
    BY <1>0, <1>7 DEF TickPostStop, App
  <2>2. slot' = slot
    BY <1>7 DEF TickPostStop, StatusCmd, NoCmd
  <2>. QED BY <1>7, <2>1, <2>2 DEF TickPostStop, NoStart, NamedFirst
<1>8. CASE HsRetry
  <2>1. app'.ident = app.ident /\ app'.prestart = app.prestart
    BY <1>0, <1>8 DEF HsRetry, HsInfo, App
  <2>2. slot' # "wardrive"
    BY <1>8 DEF HsRetry, HsInfo, Offer
  <2>. QED BY <1>8, <2>1, <2>2 DEF HsRetry, NoStart, NamedFirst
<1>9. CASE TickGps
  <2>1. slot' # "wardrive"
    BY <1>9 DEF TickGps, GpsClose, GpsEnds, Offer
  <2>. QED BY <1>9, <2>1 DEF TickGps, NoStart, NamedFirst
<1>. QED BY <1>1, <1>2, <1>3, <1>4, <1>5, <1>6, <1>7, <1>8, <1>9 DEF GuiTick

LEMMA UnnamedElapse ==
  ASSUME TypeOK, Unnamed, Elapse
  PROVE  Unnamed'
<1>. USE DEF Unnamed
<1>1. app'.ident = app.ident /\ app'.prestart = app.prestart
  BY DEF TypeOK, Elapse, App
<1>2. model'.session = model.session /\ model'.diagSeen = model.diagSeen
  BY DEF TypeOK, Elapse, Model
<1>. QED BY <1>1, <1>2 DEF Elapse, link, NoStart, NamedFirst

LEMMA UnnamedWorker ==
  ASSUME TypeOK, Unnamed, model.fw = "none", Worker, model'.fw = "none"
  PROVE  Unnamed'
<1>. USE DEF Unnamed
<1>0. app \in App /\ model \in Model
  BY DEF TypeOK
<1>1. CASE Take
  <2>1. NoStart(tx')
    BY <1>1, NoStartAppend DEF Take, Free, TypeOK
  <2>. QED BY <1>1, <2>1 DEF Take, gui, NoCmd, NamedFirst
<1>2. CASE Apply
  <2>. DEFINE l == Head(rx)
  <2>1. rx \in Seq(Line) /\ rx # <<>> /\ l \in Line
    BY <1>2 DEF Apply, TypeOK
  <2>2. ApplyLine(l) /\ rx' = Tail(rx)
    BY <1>2 DEF Apply
  <2>3. l.kind # "firmware"
    <3>1. ASSUME l.kind = "firmware" PROVE FALSE
      <4>1. model'.fw = board.kind
        BY <1>0, <2>2, <3>1 DEF ApplyLine, Model
      <4>. QED BY <4>1 DEF TypeOK, Board, Kind
    <3>. QED BY <3>1
  <2>4. NamedFirst(rx') /\ l.kind \in {"stopped", "busy", "row", "block", "gpsStop"}
    BY <2>1, <2>2, <2>3, NamedTail DEF Line
  <2>. HIDE DEF l
  <2>5. model'.session # "Running" /\ ~model'.diagSeen
    <3>1. CASE l.kind \in {"stopped", "gpsStop"}
      <4>1. StoppedLine(l)
        BY <2>2, <3>1 DEF ApplyLine
      <4>. QED BY <1>0, <4>1 DEF StoppedLine, SessionTo, Stopped, Model
    <3>2. CASE l.kind = "row"
      BY <1>0, <2>2, <3>2 DEF ApplyLine, SessionTo, RowSeen, Model
    <3>3. CASE l.kind \in {"busy", "block"}
      BY <1>0, <2>2, <3>3 DEF ApplyLine, Model
    <3>. QED BY <2>4, <3>1, <3>2, <3>3
  <2>6. app'.ident = app.ident /\ app'.prestart = app.prestart
    BY <1>0, <1>2 DEF Apply, App
  <2>. QED BY <1>2, <2>4, <2>5, <2>6 DEF Apply, NoStart
<1>. QED BY <1>1, <1>2 DEF Worker

\* The board names itself before it tells of a scan, and only wardrive makes
\* it scan.
LEMMA UnnamedBoard ==
  ASSUME TypeOK, Unnamed, BoardStep
  PROVE  Unnamed'
<1>. USE DEF Unnamed
<1>0. rx \in Seq(Line) /\ tx \in Seq(Command) /\ board \in Board
  BY DEF TypeOK
<1>1. CASE BoardRead
  <2>1. NoStart(tx') /\ Head(tx) # "wardrive"
    BY <1>0, <1>1, NoStartTail DEF BoardRead
  <2>2. ~board'.silent
    BY <1>0, <1>1, <2>1 DEF BoardRead, ReadWardrive, ReadStopscan, ReadInfo, ReadSigroam,
                            ReadGpsdata, Ended, Board
  <2>3. \E t \in Seq(Line) : NamedFirst(t) /\ Say(t)
    <3>0. <<>> \in Seq(Line) /\ NamedFirst(<<>>)
      BY DEF NamedFirst
    <3>1. CASE ReadStopscan
      BY <3>0, <3>1, NamedLine DEF ReadStopscan
    <3>2. CASE ReadInfo
      BY <3>2, NamedLine, NamedReply DEF ReadInfo
    <3>3. CASE ReadSigroam \/ ReadGpsdata
      BY <3>0, <3>3 DEF ReadSigroam, ReadGpsdata
    <3>. QED BY <1>1, <2>1, <3>1, <3>2, <3>3 DEF BoardRead, ReadWardrive
  <2>4. NamedFirst(rx')
    BY <1>0, <2>3, NamedSay DEF Say
  <2>. QED BY <1>1, <2>1, <2>2, <2>4 DEF BoardRead, gui
<1>2. ~Announce
  BY DEF Announce
<1>3. CASE Row \/ Block
  <2>1. NamedFirst(rx')
    BY <1>0, <1>3, NamedLine, NamedSay DEF Row, Block, Say
  <2>. QED BY <1>3, <2>1 DEF Row, Block, gui, NoStart
<1>4. CASE Seal
  <2>1. ~board'.silent
    BY <1>0, <1>4 DEF Seal, Board
  <2>. QED BY <1>4, <2>1 DEF Seal, gui, link, NoStart, NamedFirst
<1>. QED BY <1>1, <1>2, <1>3, <1>4 DEF BoardStep

-----------------------------------------------------------------------------
(* Nor does a recovery, or an outage.                                      *)

\* What the Dash, the worker and the board do of their own.
LEMMA StepUnnamed ==
  ASSUME TypeOK, model.fw = "none" => Unnamed, model'.fw = "none",
         User \/ GuiTick \/ Elapse \/ Worker \/ BoardStep \/ UNCHANGED vars
  PROVE  model.fw = "none" /\ Unnamed'
<1>0. model \in Model
  BY DEF TypeOK
<1>1. model.fw = "none"
  <2>1. CASE Apply
    <3>. DEFINE l == Head(rx)
    <3>1. ApplyLine(l) /\ l \in Line
      BY <2>1 DEF Apply, TypeOK
    <3>2. board.kind # "none"
      BY DEF TypeOK, Board, Kind
    <3>. HIDE DEF l
    <3>3. CASE l.kind \in {"started", "stopped", "row", "gpsStop"}
      BY <1>0, <3>1, <3>3 DEF ApplyLine, SessionTo, SessionStarts, StoppedLine, Model
    <3>4. CASE l.kind \in {"firmware", "diag", "busy", "block"}
      BY <1>0, <3>1, <3>2, <3>4 DEF ApplyLine, Model
    <3>. QED BY <3>1, <3>3, <3>4 DEF Line
  <2>2. CASE TickSync \/ Elapse
    BY <1>0, <2>2 DEF TickSync, Elapse, SessionStarts, Model
  <2>3. CASE UNCHANGED model
    BY <2>3
  <2>. QED
    BY <2>1, <2>2, <2>3
    DEF User, GuiTick, Worker, BoardStep, vars, gui, OkPress, GpsStart, EnterDash, EnterProbe,
        Leave, TickIdent, TickGps, TickScan, ScanRefused, ScanStarted, ScanStopped, TickPostStop,
        TickPrestart, TickProbe, TickQual, HsRetry, HsStop, HsSigroam, Take, BoardRead,
        Announce, Row, Block, Seal
<1>2. CASE UNCHANGED vars
  BY <1>1, <1>2 DEF vars, Unnamed, NoStart, NamedFirst
<1>. QED
  BY <1>1, <1>2, UnnamedUser, UnnamedTick, UnnamedElapse, UnnamedWorker, UnnamedBoard

\* The resync is only for a named stock board.
LEMMA NextIsStock ==
  ASSUME LInv, NextPhase # "idle"
  PROVE  model.fw # "none" /\ board.kind = "generic"
<1>1. CASE resync.phase = "idle"
  <2>1. model.session = "Running" /\ model.fw # "sigroam"
    BY <1>1 DEF NextPhase, Legacy, Active
  <2>2. model.session = "Running" => model.fw # "none"
    BY DEF LInv, RunsKnown, Unnamed
  <2>3. model.fw \in {"none", board.kind} /\ board.kind \in Kind
    BY DEF LInv, PeerKnown, RInv, RecoveryTypeOK, TypeOK, Board
  <2>. QED BY <2>1, <2>2, <2>3 DEF Kind
<1>2. CASE resync.phase # "idle"
  BY <1>2 DEF LInv, RunsKnown
<1>. QED BY <1>1, <1>2

\* A resync begins only for a session that runs, of a named stock board.
LEMMA ResyncIsStock ==
  ASSUME LInv, ResyncTick
  PROVE  /\ resync'.phase # "idle" => model.fw # "none" /\ board.kind = "generic"
         /\ model.fw = "none" => UNCHANGED <<scan, moved, slot>>
<1>0. resync \in Resync
  BY DEF LInv, RInv, RecoveryTypeOK
<1>1. NextPhase # "idle" => model.fw # "none" /\ board.kind = "generic"
  BY NextIsStock
<1>2. Arrived \in Resync /\ Arrived.phase = NextPhase
  BY ArrivedType DEF LInv
<1>3. resync'.phase # "idle" => NextPhase # "idle"
  BY <1>2 DEF ResyncTick, ResyncStop, ResyncStart, ResyncWaits, SendsStop, SendsStart
<1>4. model.fw = "none" => ~SendsStop /\ ~SendsStart
  BY <1>1 DEF SendsStop, SendsStart
<1>. QED BY <1>1, <1>3, <1>4 DEF ResyncTick, ResyncStop, ResyncStart, ResyncWaits

LEMMA RecoveryTickNamed ==
  ASSUME LInv, RecoveryTick
  PROVE  PeerKnown' /\ RunsKnown'
<1>0. model \in Model /\ resync \in Resync
  BY DEF LInv, RInv, RecoveryTypeOK, TypeOK
<1>1. model'.fw = model.fw
  BY <1>0 DEF RecoveryTick, ResyncTick, WatchTick, Rearm, GiveUp, Resend, Restart, Count, Model
<1>2. PeerKnown'
  BY <1>1 DEF LInv, PeerKnown, RecoveryTick
<1>3. model.fw = "none" => UNCHANGED <<slot, model>>
  BY ResyncIsStock DEF RecoveryTick, WatchTick, WatchDue, ResyncTick
<1>4. model'.fw = "none" => Unnamed'
  BY <1>1, <1>3 DEF LInv, RunsKnown, RecoveryTick, Unnamed, NoStart, NamedFirst
<1>5. resync'.phase # "idle" => model'.fw # "none" /\ board'.kind = "generic"
  BY <1>1, ResyncIsStock DEF RecoveryTick, WatchTick, LInv, RunsKnown
<1>. QED BY <1>2, <1>4, <1>5 DEF RunsKnown

LEMMA LKept == LInv /\ [RecoveryNext]_rvars => LInv'
<1>. SUFFICES ASSUME LInv, [RecoveryNext]_rvars PROVE LInv'
  OBVIOUS
<1>0. /\ RInv /\ TypeOK /\ PeerKnown /\ RunsKnown
      /\ board \in Board /\ resync \in Resync
  BY DEF LInv, RInv, RecoveryTypeOK, TypeOK
<1>1. RInv'
  BY <1>0, RInvKept
<1>2. CASE RecoveryTick
  BY <1>0, <1>1, <1>2, RecoveryTickNamed DEF LInv
<1>3. ASSUME User \/ GuiTick \/ Elapse \/ Worker \/ BoardStep \/ UNCHANGED vars,
             resync'.phase = resync.phase
      PROVE  LInv'
  <2>1. [Next]_vars
    BY <1>3 DEF Next
  <2>2. PeerKnown' /\ board'.kind = board.kind
    BY <1>0, <2>1, PeerKnownKept, RunKept DEF IInv
  <2>3. model'.fw = "none" => model.fw = "none" /\ Unnamed'
    BY <1>0, <1>3, StepUnnamed DEF RunsKnown
  <2>. QED BY <1>0, <1>1, <1>3, <2>2, <2>3 DEF LInv, RunsKnown
<1>4. CASE UserStep \/ TickAfter \/ DashElapse \/ WorkerTakes \/ WorkerApplies
           \/ BoardReads \/ BoardActs
  <2>1. User \/ GuiTick \/ Elapse \/ Worker \/ BoardStep
    BY <1>4 DEF UserStep, TickAfter, DashElapse, WorkerTakes, WorkerApplies, BoardReads,
                BoardActs, Worker, BoardStep
  <2>2. resync'.phase = resync.phase
    BY <1>0, <1>4
    DEF UserStep, TickAfter, DashElapse, WorkerTakes, WorkerApplies, BoardReads, BoardActs,
        Quiet, Heard, Noted, Resync
  <2>. QED BY <1>3, <2>1, <2>2
<1>5. CASE ResyncElapse \/ ResyncGiveUp \/ GraceElapse \/ GapElapse \/ WatchGiveUp
           \/ WorkerSamples \/ Banner \/ Booted \/ Scans \/ UNCHANGED rvars
  <2>1. UNCHANGED vars
    BY <1>5 DEF ResyncElapse, ResyncGiveUp, GraceElapse, GapElapse, WatchGiveUp,
                WorkerSamples, Banner, Booted, Scans, rvars
  <2>2. resync'.phase = resync.phase
    BY <1>0, <1>5
    DEF ResyncElapse, ResyncGiveUp, GraceElapse, GapElapse, WatchGiveUp,
        WorkerSamples, Banner, Booted, Scans, rvars, Noted, Resync
  <2>. QED BY <1>3, <2>1, <2>2
<1>6. CASE Outage
  <2>1. board'.kind = board.kind /\ (~board.silent => ~board'.silent)
    BY <1>0, <1>6 DEF Outage, Board
  <2>2. UNCHANGED <<scene, app, model, slot, tx, rx, resync>>
    BY <1>6 DEF Outage, gui, link
  <2>. QED
    BY <1>0, <1>1, <2>1, <2>2 DEF LInv, PeerKnown, RunsKnown, Unnamed, NoStart, NamedFirst
<1>7. CASE SaysIdle \/ LostInBoot
  <2>1. UNCHANGED <<scene, app, model, slot, board>> /\ resync'.phase = resync.phase
    BY <1>0, <1>7 DEF SaysIdle, LostInBoot, gui, Quiet, Noted, Resync
  <2>2. NoStart(tx) => NoStart(tx')
    BY <1>0, <1>7, NoStartTail DEF SaysIdle, LostInBoot, TypeOK
  <2>3. NamedFirst(rx) => NamedFirst(rx')
    <3>1. CASE SaysIdle
      BY <1>0, <3>1, NamedReply, NamedSay DEF SaysIdle, Say, TypeOK
    <3>2. CASE LostInBoot
      BY <3>2 DEF LostInBoot
    <3>. QED BY <1>7, <3>1, <3>2
  <2>. QED BY <1>0, <1>1, <2>1, <2>2, <2>3 DEF LInv, PeerKnown, RunsKnown, Unnamed
<1>. QED BY <1>2, <1>4, <1>5, <1>6, <1>7 DEF RecoveryNext

\* However the user presses, the board resets and boots, the stopscan of the
\* edge-driven resync never goes to a -sigroam- board (sigroam_resync_tick).
THEOREM LegacyIsOff == RecoverySpec => LegacyOff
<1>1. LInv /\ [RecoveryNext]_rvars =>
        [RecoveryTick /\ ResyncStop => board.kind # "sigroam"]_rvars
  <2>. SUFFICES ASSUME LInv, RecoveryTick, ResyncStop
                PROVE  board.kind # "sigroam"
    BY DEF rvars
  <2>1. NextPhase = "needStop"
    BY DEF ResyncStop, SendsStop
  <2>2. resync.phase # "idle"
    BY <2>1 DEF NextPhase, Legacy, Active
  <2>. QED BY <2>2 DEF LInv, RunsKnown
<1>2. RecoverySpec => []LInv
  BY LInit, LKept, PTL DEF RecoverySpec
<1>. QED BY <1>1, <1>2, PTL DEF RecoverySpec, LegacyOff

-----------------------------------------------------------------------------
(* The watch restarts no scan that runs.  A restart comes of an IDLE heard *)
(* after the grace of a session that did not move.  Its grace ends only    *)
(* when a board that answers in time has answered, and no start is on its  *)
(* way; from then on nobody sends one, since OK starts nothing while the   *)
(* session runs.  So the board began no scan since, and one that scans now *)
(* has said nothing else (GraceKnown).                                     *)

\* A -sigroam- board is told to start only while no session runs: a start that
\* is awaited while one runs has seen it begin.
StartFresh ==
    board.kind = "sigroam" /\ scan.pending /\ scan.isStart /\ model.session = "Running" =>
        scan.revRose

\* The watch takes a session for seen only once the Version says -sigroam-.
Primed == watch.phase = "idle" /\ ~watch.moved => model.fw = "sigroam"

\* The watch has seen the session that runs, and waited out its grace.
Doubtful ==
    /\ model.session = "Running"
    /\ watch.phase = "idle" /\ ~watch.moved /\ watch.grace

\* No start is on its way to the board, or under way on it.
NoneStarts ==
    slot # "wardrive" /\ NoStart(tx) /\ ~board.silent /\ power.board # "starting"

DiagsRun(s) == \A k \in DOMAIN s : s[k].kind = "diag" => s[k].st = 1

\* All the board said, and all the app has read and not counted, shows a scan.
ShowsScan ==
    /\ DiagsRun(rx)
    /\ watch.fresh => ~watch.zero /\ (model.diagSeen => model.diagSt = 1)

\* Past the grace of a session, a board that scans has been scanning all along.
GraceKnown == Doubtful => NoneStarts /\ (board.st = 1 => ShowsScan)

WInv == LInv /\ board.prompt /\ StartFresh /\ Primed /\ GraceKnown

\* The peers considered answer within every timeout of the app.
InTime == \A p \in Plays : p.prompt

LEMMA WInit == InTime /\ RecoveryInit => WInv
<1>. SUFFICES ASSUME InTime, RecoveryInit PROVE WInv
  OBVIOUS
<1>1. LInv
  BY LInit
<1>2. board.prompt
  <2>1. PICK p \in Plays : \A f \in DOMAIN p \ {"handover"} : board[f] = p[f]
    BY DEF RecoveryInit, Init, BoardInit
  <2>2. p \in Play
    BY DashScanAssumption
  <2>3. "prompt" \in DOMAIN p \ {"handover"}
    BY <2>2 DEF Play
  <2>. QED BY <2>1, <2>3 DEF InTime
<1>3. watch.moved
  BY RearmedType DEF RecoveryInit, Watch
<1>4. StartFresh
  BY DEF RecoveryInit, Init, StartFresh
<1>. QED BY <1>1, <1>2, <1>3, <1>4 DEF WInv, Primed, GraceKnown, Doubtful

-----------------------------------------------------------------------------
(* Starts are for a session that does not run.                             *)

LEMMA SessionRose ==
  ASSUME TypeOK, StartFresh, NEW s \in Session,
         SessionTo(s) \/ (SessionStarts /\ s = Started(model.session)),
         board'.kind = board.kind
  PROVE  StartFresh'
<1>0. scan \in ScanCtx /\ model \in Model
  BY DEF TypeOK
<1>1. /\ model'.session = s /\ scan'.pending = scan.pending /\ scan'.isStart = scan.isStart
      /\ scan'.revRose = (scan.revRose \/ (scan.pending /\ s # model.session))
  BY <1>0 DEF SessionTo, SessionStarts, ScanCtx, Model
<1>. QED BY <1>1 DEF StartFresh

\* OK starts nothing while the session runs.
LEMMA NoRestartByOk ==
  ASSUME StartFresh, board.kind = "sigroam", model.session = "Running"
  PROVE  OkAct # "SendStart"
<1>1. Ui \notin {"Idle", "StartFailed"}
  BY DEF StartFresh, Ui, Eval, Confirmed
<1>2. OnOk(Ui) # "SendStart"
  BY <1>1 DEF OnOk
<1>. QED BY <1>2 DEF OkAct, RetryUnconfirmed, OnOkGated

LEMMA StartFreshKept ==
  ASSUME IInv, StartFresh, User \/ GuiTick \/ Elapse \/ Worker \/ BoardStep
  PROVE  StartFresh'
<1>. SUFFICES ASSUME board.kind = "sigroam" PROVE StartFresh'
  <2>1. board'.kind = board.kind
    BY RunKept DEF IInv, Next
  <2>. QED BY <2>1 DEF StartFresh
<1>0. TypeOK /\ PeerKnown /\ scan \in ScanCtx /\ model \in Model /\ board'.kind = board.kind
  BY RunKept DEF IInv, TypeOK, Next
<1>1. CASE UNCHANGED <<scan, model>>
  BY <1>0, <1>1 DEF StartFresh
<1>2. CASE OkPress
  <2>1. ~OkStartAfterClear
    BY <1>0, ClearIsStock DEF OkStartAfterClear
  <2>2. CASE OkStop
    BY <1>2, <2>2 DEF OkStop, QueueCmd, QueuedCtx, StartFresh
  <2>3. CASE OkStartNow
    BY <1>2, <2>3, NoRestartByOk DEF OkStartNow, OkPress, StartFresh
  <2>. QED BY <1>2, <2>1, <2>2, <2>3 DEF OkPress
<1>3. CASE TickSync
  <2>1. CASE SessionStarts
    <3>1. Started(model.session) \in Session
      BY <1>0 DEF Started, Model, Session
    <3>. QED BY <1>0, <2>1, <3>1, SessionRose
  <2>. QED BY <1>0, <1>1, <1>3, <2>1 DEF TickSync
<1>4. CASE TickScan
  <2>1. ScanEnds
    BY <1>4 DEF TickScan, ScanRefused, ScanStarted, ScanStopped
  <2>2. ~scan'.pending
    BY <1>0, <2>1 DEF ScanEnds, ScanCtx
  <2>. QED BY <2>2 DEF StartFresh
<1>5. ~TickPrestart
  BY <1>0 DEF TickPrestart, PrestartRetry, PrestartEnds, PeerKnown
<1>6. CASE Elapse
  <2>1. /\ model'.session = model.session /\ scan'.pending = scan.pending
        /\ scan'.isStart = scan.isStart /\ scan'.revRose = scan.revRose
    BY <1>0, <1>6 DEF Elapse, ScanCtx, Model
  <2>. QED BY <1>0, <2>1 DEF StartFresh
<1>7. CASE Apply
  <2>. DEFINE l == Head(rx)
  <2>1. ApplyLine(l) /\ l \in Line
    BY <1>0, <1>7, TailShift DEF Apply, TypeOK
  <2>. HIDE DEF l
  <2>2. CASE l.kind \in {"started", "row", "stopped", "gpsStop"}
    <3>1. CASE l.kind = "started"
      <4>1. Started(model.session) \in Session
        BY <1>0 DEF Started, Model, Session
      <4>2. SessionStarts
        BY <2>1, <3>1 DEF ApplyLine
      <4>. QED BY <1>0, <4>1, <4>2, SessionRose
    <3>2. CASE l.kind # "started"
      <4>1. model.session \in Session /\ {"Running", "Stopped"} \subseteq Session
        BY <1>0 DEF Model, Session
      <4>2. CASE l.kind = "row"
        <5>1. SessionTo(RowSeen(model.session, model.fw))
          BY <2>1, <4>2 DEF ApplyLine
        <5>2. RowSeen(model.session, model.fw) \in {model.session, "Running"}
          BY DEF RowSeen, Started
        <5>3. RowSeen(model.session, model.fw) \in Session
          BY <4>1, <5>2
        <5>. QED BY <1>0, <5>1, <5>3, SessionRose
      <4>3. CASE l.kind \in {"stopped", "gpsStop"}
        <5>1. StoppedLine(l)
          BY <2>1, <4>3 DEF ApplyLine
        <5>2. Stopped(model.session, model.fw) \in {model.session, "Stopped"}
          BY DEF Stopped
        <5>3. PICK s \in {model.session, "Stopped"} : SessionTo(s)
          BY <5>1, <5>2 DEF StoppedLine
        <5>4. s \in Session
          BY <4>1
        <5>. QED BY <1>0, <5>3, <5>4, SessionRose
      <4>. QED BY <2>2, <3>2, <4>2, <4>3
    <3>. QED BY <3>1, <3>2
  <2>3. CASE l.kind \in {"firmware", "diag", "busy", "block"}
    <3>1. scan' = scan /\ model'.session = model.session
      BY <1>0, <2>1, <2>3 DEF ApplyLine, Model
    <3>. QED BY <1>0, <3>1 DEF StartFresh
  <2>. QED BY <2>1, <2>2, <2>3 DEF Line
<1>. QED
  BY <1>1, <1>2, <1>3, <1>4, <1>5, <1>6, <1>7
  DEF User, GuiTick, Worker, BoardStep, GpsStart, EnterDash, EnterProbe, Leave, TickIdent,
      TickGps, TickPostStop, TickProbe, TickQual, HsRetry, HsStop, HsSigroam, Take, BoardRead,
      Announce, Row, Block, Seal, gui

\* What the two recoveries do for a -sigroam- board.
LEMMA OwnTick ==
  ASSUME LInv, board.kind = "sigroam", RecoveryTick
  PROVE  \/ UNCHANGED <<scan, model, slot, watch>>
         \/ WatchTick
<1>1. ~SendsStop /\ ~SendsStart
  BY NextIsStock DEF SendsStop, SendsStart
<1>. QED BY <1>1 DEF RecoveryTick, ResyncTick, ResyncStop, ResyncStart, ResyncWaits

LEMMA TickFresh ==
  ASSUME LInv, StartFresh, RecoveryTick
  PROVE  StartFresh'
<1>. SUFFICES ASSUME board.kind = "sigroam" PROVE StartFresh'
  BY DEF StartFresh, RecoveryTick
<1>1. CASE UNCHANGED <<scan, model>>
  BY <1>1 DEF StartFresh, RecoveryTick
<1>2. CASE Resend
  <2>1. model'.session # "Running"
    BY <1>2, NotRunning DEF LInv, Resend, ResendDue
  <2>. QED BY <2>1 DEF StartFresh
<1>3. CASE Restart
  <2>1. model.session = "Running" /\ model \in Model
    BY <1>3 DEF Restart, RestartDue, Doubts, LInv, RInv, RecoveryTypeOK, TypeOK
  <2>2. model'.session = "Stopped"
    BY <1>3, <2>1 DEF Restart, Stopped, Model
  <2>. QED BY <2>2 DEF StartFresh
<1>. QED BY <1>1, <1>2, <1>3, OwnTick DEF WatchTick, Rearm, GiveUp, Count

-----------------------------------------------------------------------------
(* What every step notes for the watch.                                    *)

LEMMA NotedWatch ==
  ASSUME watch \in Watch, NEW b \in BOOLEAN, NEW s \in BOOLEAN, NEW z \in BOOLEAN,
         Noted(b, s, z)
  PROVE  /\ watch'.phase = watch.phase /\ watch'.grace = watch.grace
         /\ watch'.moved = (watch.moved \/ SessionMoved)
         /\ watch'.phase = "idle" /\ ~watch'.moved =>
              /\ watch'.fresh = (watch.fresh \/ s)
              /\ watch'.zero = IF s THEN z ELSE watch.zero
<1>. DEFINE m == watch.moved \/ SessionMoved
            f == (watch.phase = "idle" /\ ~m) /\ (watch.fresh \/ s)
            zz == (watch.phase = "idle" /\ ~m) /\ (IF s THEN z ELSE watch.zero)
<1>1. watch' = [watch EXCEPT !.moved = m, !.fresh = f, !.zero = zz]
  BY DEF Noted
<1>2. /\ watch.phase = "idle" /\ ~m => f = (watch.fresh \/ s)
      /\ watch.phase = "idle" /\ ~m /\ s => zz = z
      /\ watch.phase = "idle" /\ ~m /\ ~s => zz = watch.zero
  BY DEF Watch
<1>. HIDE DEF m, f, zz
<1>3. /\ watch'.phase = watch.phase /\ watch'.grace = watch.grace
      /\ watch'.moved = m /\ watch'.fresh = f /\ watch'.zero = zz
  BY <1>1 DEF Watch
<1>. QED BY <1>2, <1>3 DEF m

\* A step that moves the session, or finds it moved, leaves nothing to doubt.
LEMMA DoubtBefore ==
  ASSUME watch \in Watch, NEW b \in BOOLEAN, NEW s \in BOOLEAN, NEW z \in BOOLEAN,
         Noted(b, s, z), Doubtful'
  PROVE  /\ Doubtful
         /\ watch'.fresh = (watch.fresh \/ s)
         /\ watch'.zero = IF s THEN z ELSE watch.zero
  BY NotedWatch DEF Doubtful, SessionMoved

LEMMA OwnDoubt ==
  ASSUME WInv, Doubtful
  PROVE  /\ model.fw = "sigroam" /\ board.kind = "sigroam" /\ ~app.prestart
         /\ NoneStarts /\ (board.st = 1 => ShowsScan)
<1>1. model.fw = "sigroam"
  BY DEF WInv, Primed, Doubtful
<1>2. board.kind = "sigroam" /\ ~app.prestart
  BY <1>1 DEF WInv, LInv, PeerKnown
<1>. QED BY <1>1, <1>2 DEF WInv, GraceKnown

-----------------------------------------------------------------------------
(* Only the watch of a -sigroam- board takes a session for seen.           *)

LEMMA FwStays ==
  ASSUME LInv, [RecoveryNext]_rvars, model.fw = "sigroam"
  PROVE  model'.fw = "sigroam"
<1>1. LInv'
  BY LKept
<1>2. model'.fw \in {"none", board'.kind} /\ model \in Model
  BY <1>1 DEF LInv, PeerKnown, RInv, RecoveryTypeOK, TypeOK
<1>3. board.kind = "sigroam"
  BY DEF LInv, PeerKnown
<1>4. CASE Apply
  <2>. DEFINE l == Head(rx)
  <2>1. ApplyLine(l) /\ l \in Line
    BY <1>4, TailShift DEF Apply, LInv, RInv, RecoveryTypeOK, TypeOK
  <2>. HIDE DEF l
  <2>. QED BY <1>2, <1>3, <2>1 DEF ApplyLine, SessionTo, SessionStarts, StoppedLine, Line, Model
<1>5. CASE Gui
  BY <1>5, GuiLines DEF LInv, RInv, RecoveryTypeOK
<1>6. CASE RecoveryTick
  BY <1>2, <1>6 DEF RecoveryTick, ResyncTick, WatchTick, Rearm, GiveUp, Resend, Restart, Count,
                    Model
<1>7. CASE UNCHANGED model
  BY <1>7
<1>. QED
  BY <1>4, <1>5, <1>6, <1>7
  DEF RecoveryNext, UserStep, TickAfter, DashElapse, WorkerTakes, Take, WorkerApplies,
      ResyncElapse, ResyncGiveUp, GraceElapse, GapElapse, WatchGiveUp, WorkerSamples, Outage,
      Banner, LostInBoot, Booted, BoardReads, BoardRead, SaysIdle, Scans, BoardActs, Announce,
      Row, Block, Seal, Gui, vars, rvars

LEMMA PrimedKept ==
  ASSUME LInv, Primed, [RecoveryNext]_rvars
  PROVE  Primed'
<1>0. watch \in Watch
  BY DEF LInv, RInv, RecoveryTypeOK
<1>1. SUFFICES ASSUME watch'.phase = "idle", ~watch'.moved,
                      ~(watch.phase = "idle" /\ ~watch.moved)
               PROVE  model'.fw = "sigroam"
  BY FwStays DEF Primed
<1>2. CASE UserStep \/ TickAfter \/ DashElapse \/ WorkerTakes \/ WorkerApplies \/ Banner
           \/ LostInBoot \/ Booted \/ BoardReads \/ SaysIdle \/ BoardActs
  <2>1. PICK b \in BOOLEAN, s \in BOOLEAN, z \in BOOLEAN : Noted(b, s, z)
    BY <1>2 DEF UserStep, TickAfter, DashElapse, WorkerTakes, WorkerApplies, Banner,
                LostInBoot, Booted, BoardReads, SaysIdle, BoardActs, Quiet, Heard
  <2>. QED BY <1>0, <1>1, <2>1, NotedWatch
<1>3. CASE RecoveryTick
  <2>1. CASE ResyncTick
    BY <1>1, <2>1 DEF ResyncTick
  <2>2. CASE WatchTick /\ Rearm
    BY <2>2, FwStays DEF WatchTick, WatchDue
  <2>3. CASE GiveUp \/ Resend \/ Restart \/ Count
    <3>1. CASE GiveUp
      BY <1>1, <3>1, RearmedType DEF GiveUp, Watch
    <3>2. CASE Resend
      BY <1>0, <1>1, <3>2 DEF Resend, ResendDue, Recovering, NoteSent, Watch
    <3>3. CASE Restart
      <4>. DEFINE w == [Rearmed EXCEPT !.phase = "recovering", !.moved = TRUE]
      <4>1. w \in Watch /\ w.phase = "recovering" /\ watch' = NoteSent(w)
        BY <3>3, RearmedType DEF Restart, Watch
      <4>. HIDE DEF w
      <4>. QED BY <1>1, <4>1 DEF NoteSent, Watch
    <3>4. CASE Count
      BY <1>0, <1>1, <3>4 DEF Count, Watching, Watch
    <3>. QED BY <2>3, <3>1, <3>2, <3>3, <3>4
  <2>. QED BY <1>3, <2>1, <2>2, <2>3 DEF RecoveryTick, WatchTick
<1>4. CASE ResyncElapse \/ ResyncGiveUp \/ GraceElapse \/ GapElapse \/ WatchGiveUp
           \/ WorkerSamples \/ Outage \/ Scans \/ UNCHANGED rvars
  BY <1>0, <1>1, <1>4
  DEF ResyncElapse, ResyncGiveUp, GraceElapse, GapElapse, WatchGiveUp, WorkerSamples, Outage,
      Scans, rvars, Watch
<1>. QED BY <1>2, <1>3, <1>4 DEF RecoveryNext

LEMMA DiagsTail ==
  ASSUME NEW s \in Seq(Line), s # <<>>, DiagsRun(s)
  PROVE  DiagsRun(Tail(s)) /\ (Head(s).kind = "diag" => Head(s).st = 1)
  BY DEF DiagsRun

LEMMA DiagsSay ==
  ASSUME NEW s \in Seq(Line), DiagsRun(s), NEW t \in Seq(Line), DiagsRun(t)
  PROVE  DiagsRun(s \o t)
<1>0. /\ Len(s) \in Nat /\ Len(t) \in Nat /\ DOMAIN s = 1..Len(s) /\ DOMAIN t = 1..Len(t)
      /\ DOMAIN (s \o t) = 1..(Len(s) + Len(t))
  OBVIOUS
<1>. SUFFICES ASSUME NEW k \in 1..(Len(s) + Len(t)), (s \o t)[k].kind = "diag"
              PROVE  (s \o t)[k].st = 1
  BY <1>0 DEF DiagsRun
<1>1. CASE k \in 1..Len(s)
  <2>1. (s \o t)[k] = s[k]
    BY <1>0, <1>1
  <2>. QED BY <1>0, <1>1, <2>1 DEF DiagsRun
<1>2. CASE k - Len(s) \in 1..Len(t)
  <2>1. (s \o t)[k] = t[k - Len(s)]
    BY <1>0, <1>2
  <2>. QED BY <1>0, <1>2, <2>1 DEF DiagsRun
<1>. QED BY <1>0, <1>1, <1>2

\* A line but Diag:, and the reply to info of a board that scans.
LEMMA DiagsLine ==
  ASSUME TypeOK
  PROVE  /\ DiagsRun(<<>>)
         /\ DiagsRun(Plain("stopped")) /\ DiagsRun(Report("busy"))
         /\ DiagsRun(Plain("block")) /\ DiagsRun(Plain("gpsStop"))
         /\ board.st = 1 => DiagsRun(Plain("firmware") \o Report("diag"))
<1>1. \A k \in {"stopped", "firmware", "busy", "diag", "block", "gpsStop"} :
         Plain(k) \in Seq(Line) /\ Report(k) \in Seq(Line)
  BY LineType
<1>2. /\ DOMAIN Plain("stopped") = {1} /\ Plain("stopped")[1].kind = "stopped"
      /\ DOMAIN Plain("firmware") = {1} /\ Plain("firmware")[1].kind = "firmware"
      /\ DOMAIN Plain("block") = {1} /\ Plain("block")[1].kind = "block"
      /\ DOMAIN Plain("gpsStop") = {1} /\ Plain("gpsStop")[1].kind = "gpsStop"
      /\ DOMAIN Report("busy") = {1} /\ Report("busy")[1].kind = "busy"
      /\ DOMAIN Report("diag") = {1} /\ Report("diag")[1].st = board.st
  BY DEF Plain, Report
<1>3. /\ DiagsRun(Plain("stopped")) /\ DiagsRun(Plain("firmware"))
      /\ DiagsRun(Plain("block")) /\ DiagsRun(Plain("gpsStop"))
      /\ DiagsRun(Report("busy")) /\ (board.st = 1 => DiagsRun(Report("diag")))
  BY <1>2 DEF DiagsRun
<1>4. DiagsRun(<<>>)
  BY DEF DiagsRun
<1>. QED BY <1>1, <1>3, <1>4, DiagsSay

-----------------------------------------------------------------------------
(* Past the grace, no actor starts a scan, and the board says it scans.    *)

LEMMA GraceGui ==
  ASSUME WInv, User \/ GuiTick \/ Elapse, Quiet, power' = power
  PROVE  GraceKnown'
<1>. SUFFICES ASSUME Doubtful' PROVE (NoneStarts /\ (board.st = 1 => ShowsScan))'
  BY DEF GraceKnown
<1>0. TypeOK /\ watch \in Watch /\ model \in Model /\ Gui
  BY DEF WInv, LInv, RInv, RecoveryTypeOK, TypeOK, Gui
<1>1. /\ Doubtful /\ watch'.zero = watch.zero
      /\ watch'.fresh = watch.fresh
  BY <1>0, DoubtBefore DEF Quiet, Watch
<1>2. tx' = tx /\ rx' = rx /\ board' = board /\ model'.diagSeen = model.diagSeen
  BY <1>0, GuiLines
<1>3. model'.diagSt = model.diagSt
  <2>1. CASE TickSync \/ Elapse
    BY <1>0, <2>1 DEF TickSync, SessionStarts, Elapse, Model
  <2>2. CASE UNCHANGED model
    BY <2>2
  <2>. QED
    BY <2>1, <2>2
    DEF User, GuiTick, OkPress, GpsStart, EnterDash, EnterProbe, Leave, TickIdent, TickGps,
        TickScan, ScanRefused,
        ScanStarted, ScanStopped, TickPostStop, TickPrestart, TickProbe, TickQual, HsRetry,
        HsStop, HsSigroam
<1>4. slot' # "wardrive"
  <2>1. SUFFICES ASSUME slot' = "wardrive" PROVE FALSE
    OBVIOUS
  <2>2. slot' # slot
    BY <1>1, <2>1, OwnDoubt DEF NoneStarts
  <2>3. ~TickPrestart
    BY <1>1, OwnDoubt DEF TickPrestart, PrestartRetry, PrestartEnds
  <2>4. OkPress
    BY <1>0, <2>1, <2>2, <2>3, GuiQueues
  <2>5. OkAct # "SendStart"
    BY <1>1, OwnDoubt, NoRestartByOk DEF WInv, Doubtful
  <2>6. OkStop
    BY <2>4, <2>5 DEF OkPress, OkStartNow, OkStartAfterClear
  <2>. QED BY <2>1, <2>2, <2>6 DEF OkStop, QueueCmd, Offer
<1>. QED BY <1>1, <1>2, <1>3, <1>4, OwnDoubt DEF NoneStarts, ShowsScan

LEMMA GraceWorker ==
  ASSUME WInv, WorkerTakes \/ WorkerApplies
  PROVE  GraceKnown'
<1>. SUFFICES ASSUME Doubtful' PROVE (NoneStarts /\ (board.st = 1 => ShowsScan))'
  BY DEF GraceKnown
<1>0. TypeOK /\ watch \in Watch /\ model \in Model /\ rx \in Seq(Line) /\ tx \in Seq(Command)
  BY DEF WInv, LInv, RInv, RecoveryTypeOK, TypeOK
<1>1. CASE WorkerTakes
  <2>1. /\ Doubtful /\ watch'.fresh = watch.fresh
        /\ watch'.zero = watch.zero
    BY <1>0, <1>1, DoubtBefore DEF WorkerTakes, Quiet, Watch
  <2>2. NoneStarts /\ (board.st = 1 => ShowsScan)
    BY <2>1, OwnDoubt
  <2>3. slot \in Command
    BY <1>0, <1>1 DEF WorkerTakes, Take, Free, TypeOK
  <2>4. NoStart(tx') /\ slot' # "wardrive"
    BY <1>0, <1>1, <2>2, <2>3, NoStartAppend DEF WorkerTakes, Take, NoneStarts, NoCmd
  <2>. QED BY <1>1, <2>1, <2>2, <2>4 DEF WorkerTakes, Take, NoneStarts, ShowsScan
<1>2. CASE WorkerApplies
  <2>. DEFINE l == Head(rx)
              s == l.kind = "diag"
  <2>1. rx # <<>> /\ l \in Line /\ ApplyLine(l) /\ rx' = Tail(rx) /\ Apply
    BY <1>0, <1>2, TailShift DEF WorkerApplies, Apply
  <2>2. PICK z \in BOOLEAN : (s /\ l.st \in 1..3 => ~z) /\ Noted(TRUE, s, z)
    BY <1>2 DEF WorkerApplies, Heard
  <2>3. /\ Doubtful /\ watch'.fresh = (watch.fresh \/ s)
        /\ watch'.zero = IF s THEN z ELSE watch.zero
    BY <1>0, <2>2, DoubtBefore
  <2>4. NoneStarts /\ (board.st = 1 => ShowsScan)
    BY <2>3, OwnDoubt
  <2>5. NoneStarts' /\ board' = board
    BY <1>2, <2>1, <2>4 DEF WorkerApplies, Apply, NoneStarts
  <2>6. ASSUME board.st = 1 PROVE ShowsScan'
    <3>1. DiagsRun(rx') /\ (s => l.st = 1)
      BY <1>0, <2>1, <2>4, <2>6, DiagsTail DEF ShowsScan
    <3>2. ASSUME s PROVE ~z /\ model'.diagSt = 1
      <4>1. l.st = 1 /\ 1 \in 1..3
        BY <3>1, <3>2
      <4>2. ~z
        BY <2>2, <3>2, <4>1
      <4>3. model' = [model EXCEPT !.diagSeen = TRUE, !.diagSt = l.st, !.sdDead = ~board.card]
        BY <2>1, <3>2 DEF ApplyLine
      <4>. QED BY <1>0, <4>1, <4>2, <4>3 DEF Model
    <3>3. ~s => ~model'.diagSeen \/ (model'.diagSeen = model.diagSeen
                                      /\ model'.diagSt = model.diagSt)
      BY <1>0, <2>1 DEF ApplyLine, SessionTo, SessionStarts, StoppedLine, Model, Line
    <3>. QED BY <2>3, <2>4, <2>6, <3>1, <3>2, <3>3 DEF ShowsScan
  <2>. QED BY <2>5, <2>6
<1>. QED BY <1>1, <1>2

LEMMA GraceBoard ==
  ASSUME WInv, BoardReads \/ BoardActs \/ SaysIdle \/ LostInBoot
  PROVE  GraceKnown'
<1>. SUFFICES ASSUME Doubtful' PROVE (NoneStarts /\ (board.st = 1 => ShowsScan))'
  BY DEF GraceKnown
<1>0. /\ TypeOK /\ watch \in Watch /\ model \in Model /\ rx \in Seq(Line)
      /\ tx \in Seq(Command) /\ board \in Board
  BY DEF WInv, LInv, RInv, RecoveryTypeOK, TypeOK
<1>1. Quiet /\ UNCHANGED <<model, slot>>
  BY DEF BoardReads, BoardRead, BoardActs, Announce, Row, Block, Seal, SaysIdle, LostInBoot, link
<1>2. /\ Doubtful /\ watch'.fresh = watch.fresh
      /\ watch'.zero = watch.zero
  BY <1>0, <1>1, DoubtBefore DEF Quiet, Watch
<1>3. /\ NoneStarts /\ (board.st = 1 => ShowsScan) /\ board.kind = "sigroam"
  BY <1>2, OwnDoubt
<1>4. ~SaysIdle
  BY <1>3 DEF SaysIdle, NoneStarts
<1>5. CASE BoardReads
  <2>1. tx # <<>> /\ tx' = Tail(tx) /\ BoardRead
    BY <1>5 DEF BoardReads, BoardRead
  <2>2. NoStart(tx') /\ Head(tx) # "wardrive"
    BY <1>0, <1>3, <2>1, NoStartTail DEF NoneStarts
  <2>3. power'.board # "starting"
    BY <1>0, <1>3, <1>5, <2>2
    DEF BoardReads, Accepts, NoneStarts, WInv, LInv, RInv, RecoveryTypeOK, Power
  <2>4. ~board'.silent /\ (board'.st = 1 => board.st = 1)
    BY <1>0, <1>3, <2>1, <2>2
    DEF BoardRead, ReadWardrive, ReadStopscan, ReadInfo, ReadSigroam, ReadGpsdata, Ended,
        Board, NoneStarts
  <2>5. ASSUME board'.st = 1 PROVE DiagsRun(rx')
    <3>1. DiagsRun(rx) /\ board.st = 1
      BY <1>3, <2>4, <2>5 DEF ShowsScan
    <3>2. PICK t \in Seq(Line) : DiagsRun(t) /\ Say(t)
      <4>0. <<>> \in Seq(Line)
        OBVIOUS
      <4>1. /\ Plain("stopped") \in Seq(Line) /\ Report("busy") \in Seq(Line)
            /\ Plain("gpsStop") \in Seq(Line)
            /\ Plain("firmware") \o Report("diag") \in Seq(Line)
        BY <1>0, LineType
      <4>2. CASE ReadStopscan
        BY <1>0, <1>3, <4>0, <4>1, <4>2, DiagsLine DEF ReadStopscan
      <4>3. CASE ReadInfo
        BY <1>0, <1>3, <3>1, <4>1, <4>3, DiagsLine DEF ReadInfo
      <4>4. CASE ReadSigroam \/ ReadGpsdata
        BY <1>0, <4>0, <4>4, DiagsLine DEF ReadSigroam, ReadGpsdata
      <4>. QED BY <2>1, <2>2, <4>2, <4>3, <4>4 DEF BoardRead, ReadWardrive
    <3>. QED BY <1>0, <3>1, <3>2, DiagsSay DEF Say
  <2>. QED
    BY <1>1, <1>2, <1>3, <2>2, <2>3, <2>4, <2>5 DEF NoneStarts, ShowsScan
<1>6. CASE BoardActs
  <2>1. ~Announce /\ ~Row
    BY <1>3 DEF Announce, Row, NoneStarts
  <2>2. (Seal \/ Block) /\ power' = power
    BY <1>6, <2>1 DEF BoardActs
  <2>3. CASE Seal
    <3>1. board'.st = 0 /\ board'.silent = board.silent
      BY <1>0, <2>3 DEF Seal, Board
    <3>. QED BY <1>3, <2>2, <2>3, <3>1 DEF Seal, link, NoneStarts
  <2>4. CASE Block
    <3>1. board' = board /\ tx' = tx /\ Say(Plain("block"))
      BY <2>4 DEF Block
    <3>2. Plain("block") \in Seq(Line)
      BY <1>0, LineType
    <3>3. DiagsRun(rx) => DiagsRun(rx')
      BY <1>0, <3>1, <3>2, DiagsLine, DiagsSay DEF Say
    <3>. QED BY <1>1, <1>2, <1>3, <2>2, <3>1, <3>3 DEF NoneStarts, ShowsScan
  <2>. QED BY <2>2, <2>3, <2>4
<1>7. CASE LostInBoot
  <2>1. NoStart(tx')
    BY <1>0, <1>3, <1>7, NoStartTail DEF LostInBoot, NoneStarts
  <2>. QED BY <1>1, <1>2, <1>3, <1>7, <2>1 DEF LostInBoot, NoneStarts, ShowsScan
<1>. QED BY <1>4, <1>5, <1>6, <1>7

\* The recovery sends nothing in such a session, and what it has read it counts.
LEMMA GraceTick ==
  ASSUME WInv, RecoveryTick
  PROVE  GraceKnown'
<1>. SUFFICES ASSUME Doubtful' PROVE (NoneStarts /\ (board.st = 1 => ShowsScan))'
  BY DEF GraceKnown
<1>0. watch \in Watch /\ UNCHANGED <<tx, rx, board, power>> /\ LInv
  BY DEF WInv, LInv, RInv, RecoveryTypeOK, RecoveryTick
<1>1. CASE UNCHANGED <<scan, model, slot, watch>>
  <2>1. Doubtful
    BY <1>1 DEF Doubtful
  <2>. QED BY <1>0, <1>1, <2>1, OwnDoubt DEF NoneStarts, ShowsScan
<1>2. CASE WatchTick
  <2>1. ~Rearm /\ ~GiveUp
    BY RearmedType DEF Rearm, GiveUp, Doubtful, Rearmed, Watch
  <2>2. ~Resend
    BY <1>0 DEF Resend, ResendDue, Recovering, NoteSent, Doubtful, Watch
  <2>3. ~Restart
    <3>1. SUFFICES ASSUME Restart PROVE FALSE
      OBVIOUS
    <3>. DEFINE w == [Rearmed EXCEPT !.phase = "recovering", !.moved = TRUE]
    <3>2. w \in Watch /\ w.phase = "recovering" /\ watch' = NoteSent(w)
      BY <3>1, RearmedType DEF Restart, Watch
    <3>. HIDE DEF w
    <3>. QED BY <3>2 DEF NoteSent, Watch, Doubtful
  <2>4. Count
    BY <1>2, <2>1, <2>2, <2>3 DEF WatchTick
  <2>5. /\ watch'.phase = watch.phase /\ watch'.moved = watch.moved
        /\ watch'.grace = watch.grace /\ ~watch'.fresh
    BY <1>0, <2>4 DEF Count, Watch
  <2>6. UNCHANGED <<model, slot>>
    BY <2>4 DEF Count
  <2>7. Doubtful
    BY <2>5, <2>6 DEF Doubtful
  <2>. QED BY <1>0, <2>5, <2>6, <2>7, OwnDoubt DEF NoneStarts, ShowsScan
<1>3. CASE ~WatchTick
  <2>1. watch' = watch /\ model' = model
    BY <1>3 DEF RecoveryTick, ResyncTick
  <2>2. board.kind = "sigroam"
    BY <2>1, OwnDoubt DEF Doubtful
  <2>. QED BY <1>0, <1>1, <1>3, <2>2, OwnTick
<1>. QED BY <1>2, <1>3

\* The grace ends when nothing is on its way: what answers in time has.
LEMMA GraceTimer ==
  ASSUME WInv, GraceElapse
  PROVE  GraceKnown'
<1>. SUFFICES ASSUME Doubtful' PROVE (NoneStarts /\ (board.st = 1 => ShowsScan))'
  BY DEF GraceKnown
<1>0. watch \in Watch /\ watch' = [watch EXCEPT !.grace = TRUE] /\ UNCHANGED <<vars, power>>
  BY DEF WInv, LInv, RInv, RecoveryTypeOK, GraceElapse
<1>1. slot = NoCmd /\ tx = <<>> /\ rx = <<>> /\ ~board.silent /\ power.board # "starting"
  BY DEF WInv, GraceElapse, Calm, Answered, Free
<1>2. /\ watch.phase = "idle" /\ ~watch.moved /\ ~WatchDue
      /\ watch'.fresh = watch.fresh
  BY <1>0 DEF Doubtful, GraceElapse, Calm, RecoveryDue, Watch
<1>3. model.fw = "sigroam"
  BY <1>2 DEF WInv, Primed
<1>4. ~watch.fresh
  BY <1>2, <1>3 DEF WatchDue, Watching
<1>. QED
  BY <1>0, <1>1, <1>2, <1>4
  DEF vars, NoneStarts, ShowsScan, NoStart, DiagsRun, NoCmd

LEMMA GraceOthers ==
  ASSUME WInv, Outage \/ Banner \/ Booted \/ Scans \/ ResyncElapse \/ ResyncGiveUp
               \/ GapElapse \/ WatchGiveUp \/ WorkerSamples \/ UNCHANGED rvars
  PROVE  GraceKnown'
<1>. SUFFICES ASSUME Doubtful' PROVE (NoneStarts /\ (board.st = 1 => ShowsScan))'
  BY DEF GraceKnown
<1>0. watch \in Watch /\ board \in Board /\ power \in Power
  BY DEF WInv, LInv, RInv, RecoveryTypeOK, TypeOK
<1>1. UNCHANGED <<model, slot, tx, rx>>
  BY DEF Outage, Banner, Booted, Scans, ResyncElapse, ResyncGiveUp, GapElapse, WatchGiveUp,
         WorkerSamples, rvars, vars, link
<1>2. Doubtful /\ watch'.fresh = watch.fresh /\ watch'.zero = watch.zero
  <2>1. CASE Banner \/ Booted
    <3>1. Noted(TRUE, FALSE, FALSE)
      BY <2>1 DEF Banner, Booted
    <3>. QED BY <1>0, <3>1, DoubtBefore DEF Watch
  <2>2. CASE GapElapse \/ WatchGiveUp
    BY <1>0, <2>2 DEF GapElapse, WatchGiveUp, Doubtful, Watch
  <2>3. CASE UNCHANGED watch
    BY <1>1, <2>3 DEF Doubtful
  <2>. QED BY <2>1, <2>2, <2>3 DEF Outage, Scans, ResyncElapse, ResyncGiveUp, WorkerSamples, rvars
<1>3. NoneStarts /\ (board.st = 1 => ShowsScan)
  BY <1>2, OwnDoubt
<1>4. CASE Outage
  BY <1>0, <1>1, <1>2, <1>3, <1>4 DEF Outage, NoneStarts, ShowsScan, Board, Power
<1>5. CASE ~Outage
  <2>0. board' = board
    BY <1>5 DEF Banner, Booted, Scans, ResyncElapse, ResyncGiveUp, GapElapse, WatchGiveUp,
                WorkerSamples, rvars, vars
  <2>1. power'.board # "starting"
    <3>1. CASE Booted \/ Scans \/ WorkerSamples
      BY <1>0, <1>3, <3>1 DEF Booted, Scans, WorkerSamples, NoneStarts, Power
    <3>2. CASE power' = power
      BY <1>3, <3>2 DEF NoneStarts
    <3>. QED
      BY <1>5, <3>1, <3>2 DEF Banner, ResyncElapse, ResyncGiveUp, GapElapse, WatchGiveUp, rvars
  <2>. QED BY <1>1, <1>2, <1>3, <2>0, <2>1 DEF NoneStarts, ShowsScan
<1>. QED BY <1>4, <1>5

LEMMA GraceKept ==
  ASSUME WInv, [RecoveryNext]_rvars
  PROVE  GraceKnown'
<1>1. CASE UserStep \/ TickAfter \/ DashElapse
  BY <1>1, GraceGui DEF UserStep, TickAfter, DashElapse
<1>. QED
  BY <1>1, GraceWorker, GraceBoard, GraceTick, GraceTimer, GraceOthers DEF RecoveryNext

LEMMA FreshKept ==
  ASSUME LInv, StartFresh, [RecoveryNext]_rvars
  PROVE  StartFresh'
<1>0. IInv
  BY DEF LInv, RInv, RecoveryTypeOK, IInv
<1>1. CASE UserStep \/ TickAfter \/ DashElapse \/ WorkerTakes \/ WorkerApplies
           \/ BoardReads \/ BoardActs
  <2>1. User \/ GuiTick \/ Elapse \/ Worker \/ BoardStep
    BY <1>1 DEF UserStep, TickAfter, DashElapse, WorkerTakes, WorkerApplies, BoardReads,
                BoardActs, Worker, BoardStep
  <2>. QED BY <1>0, <2>1, StartFreshKept
<1>2. CASE UNCHANGED <<scan, model>> /\ board'.kind = board.kind
  BY <1>2 DEF StartFresh
<1>3. CASE Outage \/ SaysIdle \/ LostInBoot
  BY <1>0, <1>2, <1>3 DEF Outage, SaysIdle, LostInBoot, gui, IInv, TypeOK, Board
<1>4. CASE ResyncElapse \/ ResyncGiveUp \/ GraceElapse \/ GapElapse \/ WatchGiveUp
           \/ WorkerSamples \/ Banner \/ Booted \/ Scans \/ UNCHANGED rvars
  BY <1>2, <1>4 DEF ResyncElapse, ResyncGiveUp, GraceElapse, GapElapse, WatchGiveUp,
                    WorkerSamples, Banner, Booted, Scans, rvars, vars
<1>. QED BY <1>1, <1>3, <1>4, TickFresh DEF RecoveryNext

LEMMA PromptKept ==
  ASSUME LInv, [RecoveryNext]_rvars
  PROVE  board'.prompt = board.prompt
<1>0. TypeOK /\ board \in Board
  BY DEF LInv, RInv, RecoveryTypeOK, TypeOK
<1>1. CASE [Next]_vars
  BY <1>0, <1>1, RunKept
<1>2. CASE Outage
  BY <1>0, <1>2 DEF Outage, Board
<1>3. CASE UNCHANGED board
  BY <1>3
<1>. QED
  BY <1>1, <1>2, <1>3
  DEF RecoveryNext, Next, Worker, BoardStep, UserStep, RecoveryTick, TickAfter, DashElapse,
      ResyncElapse, ResyncGiveUp, GraceElapse, GapElapse, WatchGiveUp, WorkerTakes,
      WorkerApplies, WorkerSamples, Banner, LostInBoot, Booted, BoardReads, SaysIdle, Scans,
      BoardActs, rvars, vars

LEMMA WKept == WInv /\ [RecoveryNext]_rvars => WInv'
<1>. SUFFICES ASSUME WInv, [RecoveryNext]_rvars PROVE WInv'
  OBVIOUS
<1>1. LInv /\ board.prompt /\ StartFresh /\ Primed
  BY DEF WInv
<1>. QED BY <1>1, LKept, PromptKept, FreshKept, PrimedKept, GraceKept DEF WInv

\* A peer that answers in time is restarted only when its scan is gone: however
\* the user presses, the board resets, and whatever ran before the launch, the
\* watch sends wardrive to no board that scans (sigroam_peer_watch_tick).
THEOREM RestartIsSound ==
  ASSUME InTime
  PROVE  RecoverySpec => RestartSound
<1>1. WInv /\ [RecoveryNext]_rvars => [RecoveryTick /\ Restart => board.st # 1]_rvars
  <2>. SUFFICES ASSUME WInv, Restart, board.st = 1 PROVE FALSE
    BY DEF rvars
  <2>1. Doubtful /\ watch.fresh /\ NotScanning
    BY DEF Restart, RestartDue, Watching, Doubts, Doubtful
  <2>2. ShowsScan
    BY <2>1, OwnDoubt
  <2>. QED BY <2>1, <2>2 DEF ShowsScan, NotScanning
<1>2. RecoverySpec => []WInv
  BY WInit, WKept, PTL DEF RecoverySpec
<1>. QED BY <1>1, <1>2, PTL DEF RecoverySpec, RestartSound

=============================================================================
