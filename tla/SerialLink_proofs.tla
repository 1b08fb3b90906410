-------------------------- MODULE SerialLink_proofs --------------------------
(***************************************************************************)
(* Proofs about SerialLink: types, what the port holds at each stage of    *)
(* the launch and the exit, and the bytes applied before the worker ends.  *)
(***************************************************************************)
EXTENDS SerialLink, TLAPS

Port == {"power", "expansion", "handle"} \subseteq held
NoPort == held = {} /\ ~open /\ ~irq /\ wpc = "none"

\* The 5 V request is ours to withdraw exactly when it was not there before.
OtgOwned ==
    IF "otg" \in held THEN otg /\ ~otgBefore ELSE otg = otgBefore

\* What is held at each stage; after a failed open, nothing to the end.
Stage ==
    /\ gpc \in {"launch", "noPort"} => NoPort
    /\ gpc \in {"power", "expansion", "handle"} => ~open /\ ~irq /\ wpc = "none"
    /\ gpc \in {"power", "expansion"} => "power" \in held
    /\ gpc = "expansion" => "expansion" \in held
    /\ gpc \in {"handle", "started", "opened", "up"} => Port
    /\ gpc \in {"started", "opened"} => wpc = "none"
    /\ gpc \in {"stopping", "closing", "rxOff", "joined"} => Port \/ NoPort
    /\ gpc \in {"rxOff", "joined", "released", "expanded", "closed", "gone"} => ~irq
    /\ gpc \in {"joined", "released", "expanded", "closed", "gone"} =>
         wpc \in {"none", "done"}
    /\ gpc \in {"released", "expanded"} => "handle" \notin held
    /\ gpc = "expanded" => "expansion" \notin held
    /\ gpc \in {"closed", "gone"} => held = {} /\ ~open

\* After the exit was asked for, only younger bytes come.
Late ==
    /\ exit => gpc \in Exit \cup {"gone"}
    /\ wpc \in {"drain", "done"} => exit
    /\ mark <= arrived
    /\ exit /\ InterruptDue => rxne > mark
    /\ SaidIsApplied

IInv == TypeOK /\ OtgOwned /\ Stage /\ Late

-----------------------------------------------------------------------------
LEMMA EmptyBuf == <<>> \in Seq(Byte) /\ Len(<<>>) <= Cap
<1>1. Len(<<>>) = 0 /\ Cap \in Nat
  BY SerialLinkAssumption
<1>2. <<>> \in Seq(Byte)
  OBVIOUS
<1>. QED BY <1>1, <1>2

\* What the worker takes off the buffer leaves bytes.
LEMMA TakeType ==
  ASSUME TypeOK, TakeBytes
  PROVE  /\ buf' \in Seq(Byte) /\ Len(buf') <= Cap
         /\ delivered' \in Seq(Byte)
<1>1. PICK k \in 1..Chunk :
        /\ k <= Len(buf)
        /\ delivered' = delivered \o SubSeq(buf, 1, k)
        /\ buf' = SubSeq(buf, k + 1, Len(buf))
  BY DEF TakeBytes
<1>2. k \in Nat \ {0} /\ Len(buf) \in Nat
  BY SerialLinkAssumption DEF TypeOK
<1>3. buf' \in Seq(Byte) /\ Len(buf') = Len(buf) - k
  BY <1>1, <1>2 DEF TypeOK
<1>4. SubSeq(buf, 1, k) \in Seq(Byte)
  BY <1>1, <1>2 DEF TypeOK
<1>5. delivered' \in Seq(Byte)
  BY <1>1, <1>4 DEF TypeOK
<1>. QED BY <1>2, <1>3, <1>5, SerialLinkAssumption DEF TypeOK

LEMMA TypeKept == TypeOK /\ [Next]_vars => TypeOK'
<1>. SUFFICES ASSUME TypeOK, [Next]_vars PROVE TypeOK'
  OBVIOUS
<1>. USE SerialLinkAssumption
<1>1. CASE Arrive
  BY <1>1 DEF Arrive, TypeOK, port, Byte
<1>2. CASE Interrupt
  <2>1. buf' \in Seq(Byte) /\ Len(buf') <= Cap
    <3>1. CASE buf' = buf
      BY <3>1 DEF TypeOK
    <3>2. CASE Len(buf) < Cap /\ buf' = Append(buf, rxne)
      <4>1. rxne \in Byte
        BY <1>2 DEF Interrupt, InterruptDue, TypeOK
      <4>. QED BY <3>2, <4>1 DEF TypeOK
    <3>. QED BY <1>2, <3>1, <3>2 DEF Interrupt, TypeOK
  <2>. QED BY <1>2, <2>1 DEF Interrupt, TypeOK, port
<1>3. CASE OpenSteps
  <2>1. CASE OpenRefused
    BY <2>1 DEF OpenRefused, Step, TypeOK, GuiPc, Up, port, rx
  <2>2. CASE TakePower
    BY <2>2 DEF TakePower, Step, TypeOK, GuiPc, Launch, Resource, rx
  <2>3. CASE No5v
    BY <2>3 DEF No5v, Withdraw, Step, TypeOK, GuiPc, Up, rx
  <2>4. CASE TakeExpansion
    BY <2>4 DEF TakeExpansion, Step, TypeOK, GuiPc, Launch, Resource, rx
  <2>5. CASE PortBusy
    BY <2>5 DEF PortBusy, Withdraw, Step, TypeOK, GuiPc, Up, rx
  <2>6. CASE Acquire
    BY <2>6 DEF Acquire, Step, TypeOK, GuiPc, Launch, Resource, rx
  <2>7. CASE OpenRolledBack
    BY <2>7 DEF OpenRolledBack, Withdraw, Step, TypeOK, GuiPc, Up, rx
  <2>8. CASE StartRx
    <3>1. gpc' \in GuiPc
      BY <2>8 DEF StartRx, Step, GuiPc, Launch
    <3>2. buf' \in Seq(Byte) /\ Len(buf') <= Cap
      BY <2>8, EmptyBuf DEF StartRx
    <3>. QED BY <2>8, <3>1, <3>2 DEF StartRx, TypeOK, port
  <2>9. CASE Opened
    BY <2>9 DEF Opened, Step, TypeOK, GuiPc, Launch, rx
  <2>10. CASE StartWorker
    BY <2>10 DEF StartWorker, Step, TypeOK, GuiPc, Up, WorkerPc, port, rx
  <2>. QED BY <1>3, <2>1, <2>2, <2>3, <2>4, <2>5, <2>6, <2>7, <2>8, <2>9, <2>10
           DEF OpenSteps
<1>4. CASE RequestStop
  BY <1>4 DEF RequestStop, Step, TypeOK, GuiPc, Exit, port, rx
<1>5. CASE FreeSteps
  <2>1. CASE SetClosing \/ RxStop \/ Join
    BY <2>1 DEF SetClosing, RxStop, Join, Step, TypeOK, GuiPc, Exit, port, rx
  <2>2. CASE ReleaseHandle \/ ReleaseExpansion
    BY <2>2 DEF ReleaseHandle, ReleaseExpansion, Step, TypeOK, GuiPc, Exit, rx
  <2>3. CASE ReleasePower
    BY <2>3 DEF ReleasePower, Withdraw, Step, TypeOK, GuiPc, Exit, rx
  <2>4. CASE FreeIo
    <3>1. buf' \in Seq(Byte) /\ Len(buf') <= Cap
      BY <2>4, EmptyBuf DEF FreeIo
    <3>. QED BY <2>4, <3>1 DEF FreeIo, Step, TypeOK, GuiPc, port
  <2>. QED BY <1>5, <2>1, <2>2, <2>3, <2>4 DEF FreeSteps
<1>6. CASE Worker
  <2>1. CASE WorkerReads \/ WorkerDrains
    BY <2>1, TakeType DEF WorkerReads, WorkerDrains, TypeOK, port
  <2>2. CASE WorkerLeaves \/ WorkerEnds
    BY <2>2 DEF WorkerLeaves, WorkerEnds, TypeOK, WorkerPc, port, rx
  <2>. QED BY <1>6, <2>1, <2>2 DEF Worker
<1>7. CASE UNCHANGED vars
  BY <1>7 DEF vars, port, rx, TypeOK
<1>. QED BY <1>1, <1>2, <1>3, <1>4, <1>5, <1>6, <1>7 DEF Next

-----------------------------------------------------------------------------
(* What is held.                                                           *)

LEMMA StageKept == IInv /\ [Next]_vars => OtgOwned' /\ Stage'
<1>. SUFFICES ASSUME IInv, [Next]_vars PROVE OtgOwned' /\ Stage'
  OBVIOUS
<1>. USE DEF IInv, OtgOwned, Stage, Port, NoPort
<1>1. CASE Arrive \/ Interrupt
  BY <1>1 DEF Arrive, Interrupt, port
<1>2. CASE OpenSteps
  <2>1. CASE OpenRefused
    BY <2>1 DEF OpenRefused, Step, port
  <2>2. CASE TakePower
    BY <2>2 DEF TakePower, Step, TypeOK
  <2>3. CASE No5v
    BY <2>3 DEF No5v, Withdraw, Step, TypeOK
  <2>4. CASE TakeExpansion
    BY <2>4 DEF TakeExpansion, Step
  <2>5. CASE PortBusy
    BY <2>5 DEF PortBusy, Withdraw, Step, TypeOK
  <2>6. CASE Acquire
    BY <2>6 DEF Acquire, Step
  <2>7. CASE OpenRolledBack
    BY <2>7 DEF OpenRolledBack, Withdraw, Step, TypeOK
  <2>8. CASE StartRx
    BY <2>8 DEF StartRx, Step, port
  <2>9. CASE Opened
    BY <2>9 DEF Opened, Step
  <2>10. CASE StartWorker
    BY <2>10 DEF StartWorker, Step, port
  <2>. QED BY <1>2, <2>1, <2>2, <2>3, <2>4, <2>5, <2>6, <2>7, <2>8, <2>9, <2>10
           DEF OpenSteps
<1>3. CASE RequestStop
  BY <1>3 DEF RequestStop, Step, Up, port
<1>4. CASE FreeSteps
  <2>1. CASE SetClosing
    BY <2>1 DEF SetClosing, Step, port
  <2>2. CASE RxStop
    BY <2>2 DEF RxStop, Step, port
  <2>3. CASE Join
    BY <2>3 DEF Join, Step, port
  <2>4. CASE ReleaseHandle
    BY <2>4 DEF ReleaseHandle, Step
  <2>5. CASE ReleaseExpansion
    BY <2>5 DEF ReleaseExpansion, Step
  <2>6. CASE ReleasePower
    <3>1. held' = {}
      BY <2>6 DEF ReleasePower, Step, TypeOK, Resource
    <3>. QED BY <2>6, <3>1 DEF ReleasePower, Withdraw, Step, TypeOK
  <2>7. CASE FreeIo
    BY <2>7 DEF FreeIo, Step, port
  <2>. QED BY <1>4, <2>1, <2>2, <2>3, <2>4, <2>5, <2>6, <2>7 DEF FreeSteps
<1>5. CASE Worker
  BY <1>5 DEF Worker, WorkerReads, WorkerLeaves, WorkerDrains, WorkerEnds, port, rx
<1>6. CASE UNCHANGED vars
  BY <1>6 DEF vars, port
<1>. QED BY <1>1, <1>2, <1>3, <1>4, <1>5, <1>6 DEF Next

-----------------------------------------------------------------------------
(* What is applied.                                                        *)

LEMMA LateKept == IInv /\ [Next]_vars => Late'
<1>. SUFFICES ASSUME IInv, [Next]_vars PROVE Late'
  OBVIOUS
<1>. USE SerialLinkAssumption DEF IInv, Late, SaidIsApplied
<1>1. CASE Arrive
  BY <1>1 DEF Arrive, InterruptDue, port, TypeOK
<1>2. CASE Interrupt
  <2>1. ASSUME wpc = "done" PROVE \A k \in DOMAIN buf' : buf'[k] > mark
    <3>1. CASE buf' = buf
      BY <2>1, <3>1
    <3>2. CASE buf' = Append(buf, rxne)
      <4>1. rxne > mark
        BY <1>2, <2>1 DEF Interrupt
      <4>2. /\ DOMAIN buf' = 1..(Len(buf) + 1)
            /\ \A k \in DOMAIN buf' : buf'[k] = IF k <= Len(buf) THEN buf[k] ELSE rxne
        BY <3>2 DEF TypeOK
      <4>3. DOMAIN buf = 1..Len(buf) /\ Len(buf) \in Nat
        BY DEF TypeOK
      <4>. QED BY <2>1, <4>1, <4>2, <4>3
    <3>. QED BY <1>2, <3>1, <3>2 DEF Interrupt
  <2>. QED BY <1>2, <2>1 DEF Interrupt, InterruptDue, port
<1>3. CASE OpenSteps
  <2>1. gpc \in Launch /\ mark' = mark /\ arrived' = arrived /\ exit' = exit
    BY <1>3 DEF OpenSteps, OpenRefused, TakePower, No5v, TakeExpansion, PortBusy,
                Acquire, OpenRolledBack, StartRx, Opened, StartWorker, Step, Launch, rx
  <2>2. ~exit
    BY <2>1 DEF Launch, Exit
  <2>3. wpc = "none" /\ wpc' \in {"none", "loop"}
    BY <1>3 DEF OpenSteps, OpenRefused, TakePower, No5v, TakeExpansion, PortBusy,
                Acquire, OpenRolledBack, StartRx, Opened, StartWorker, Step, Stage, NoPort
  <2>. QED BY <2>1, <2>2, <2>3
<1>4. CASE RequestStop
  <2>1. ~exit
    BY <1>4 DEF RequestStop, Step, Up, Exit
  <2>. QED BY <1>4, <2>1 DEF RequestStop, Step, InterruptDue, Exit, port, rx, TypeOK
<1>5. CASE FreeSteps
  <2>1. /\ gpc' \in Exit \cup {"gone"} /\ wpc' = wpc /\ exit' = exit
        /\ mark' = mark /\ arrived' = arrived /\ rxne' = rxne
    BY <1>5 DEF FreeSteps, SetClosing, RxStop, Join, ReleaseHandle, ReleaseExpansion,
                ReleasePower, FreeIo, Step, Exit, rx
  <2>2. /\ irq' => irq
        /\ buf' = buf \/ buf' = <<>>
    BY <1>5 DEF FreeSteps, SetClosing, RxStop, Join, ReleaseHandle, ReleaseExpansion,
                ReleasePower, FreeIo, Step, rx
  <2>. QED BY <2>1, <2>2 DEF InterruptDue
<1>6. CASE Worker
  <2>1. CASE WorkerReads \/ WorkerDrains
    BY <2>1 DEF WorkerReads, WorkerDrains, InterruptDue, port
  <2>2. CASE WorkerLeaves \/ WorkerEnds
    BY <2>2 DEF WorkerLeaves, WorkerEnds, InterruptDue, port, rx
  <2>. QED BY <1>6, <2>1, <2>2 DEF Worker
<1>7. CASE UNCHANGED vars
  BY <1>7 DEF vars, port, rx, InterruptDue
<1>. QED BY <1>1, <1>2, <1>3, <1>4, <1>5, <1>6, <1>7 DEF Next

-----------------------------------------------------------------------------
LEMMA InitIInv == Init => IInv
<1>. SUFFICES ASSUME Init PROVE IInv
  OBVIOUS
<1>1. TypeOK
  <2>1. gpc \in GuiPc /\ wpc \in WorkerPc /\ held \subseteq Resource
    BY DEF Init, GuiPc, Launch, WorkerPc
  <2>2. /\ otg \in BOOLEAN /\ otgBefore \in BOOLEAN /\ open \in BOOLEAN
        /\ closing \in BOOLEAN /\ irq \in BOOLEAN /\ exit \in BOOLEAN
    BY DEF Init
  <2>3. rxne \in Byte \cup {0} /\ arrived \in 0..MaxBytes /\ mark \in 0..MaxBytes
    BY SerialLinkAssumption DEF Init
  <2>4. buf \in Seq(Byte) /\ Len(buf) <= Cap /\ delivered \in Seq(Byte)
    BY EmptyBuf DEF Init
  <2>. QED BY <2>1, <2>2, <2>3, <2>4 DEF TypeOK
<1>2. OtgOwned /\ Stage
  BY DEF Init, OtgOwned, Stage, NoPort
<1>3. Late
  BY SerialLinkAssumption DEF Init, Late, SaidIsApplied, InterruptDue, Exit
<1>. QED BY <1>1, <1>2, <1>3 DEF IInv

\* The invariant behind the properties of the port.
THEOREM Invariance == Spec => []IInv
<1>1. IInv /\ [Next]_vars => IInv'
  BY TypeKept, StageKept, LateKept DEF IInv
<1>. QED BY <1>1, InitIInv, PTL DEF Spec

\* The port's state keeps its types (sr_io.c).
THEOREM TypeCorrect == Spec => []TypeOK
<1>1. IInv => TypeOK
  BY DEF IInv
<1>. QED BY <1>1, Invariance, PTL

\* Every rollback of sr_io_open and the exit give back what was taken.
THEOREM AllGivenBack == Spec => []GivenBack
<1>1. IInv => GivenBack
  BY DEF IInv, GivenBack, Stage, NoPort, OtgOwned
<1>. QED BY <1>1, Invariance, PTL

\* Nothing runs on a port that was given back (sigroam_app_free).
THEOREM NothingAfterRelease == Spec => []NoUseAfterRelease
<1>1. IInv => NoUseAfterRelease
  <2>. SUFFICES ASSUME IInv, irq \/ wpc \in {"loop", "drain"}
                PROVE  Port /\ gpc \notin {"closed", "gone"}
    BY DEF NoUseAfterRelease, Port
  <2>1. gpc \in {"started", "opened", "up", "stopping", "closing", "rxOff"}
    BY DEF IInv, TypeOK, GuiPc, Launch, Up, Exit, Stage, NoPort
  <2>. QED BY <2>1 DEF IInv, Stage, NoPort
<1>. QED BY <1>1, Invariance, PTL

\* What the board said before the exit is applied (the worker's last reads).
THEOREM AllApplied == Spec => []SaidIsApplied
<1>1. IInv => SaidIsApplied
  BY DEF IInv, Late
<1>. QED BY <1>1, Invariance, PTL
=============================================================================
