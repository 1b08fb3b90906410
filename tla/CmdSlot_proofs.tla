-------------------------- MODULE CmdSlot_proofs ---------------------------
(***************************************************************************)
(* CmdSlot for every set of commands and every number of sends: the two    *)
(* threads never overlap on the buffer, no command is torn, lost or        *)
(* repeated, no byte of one is left behind, and the slot implements the    *)
(* abstract mailbox.                                                       *)
(***************************************************************************)
EXTENDS CmdSlot, SequenceTheorems, TLAPS

-----------------------------------------------------------------------------
(* The inductive invariant.  The properties of CmdSlot speak of the        *)
(* moments when a thread holds the slot; the invariant says what slot,     *)
(* argument and local copy hold at each point of both threads.             *)

\* cmd_ready decides who owns the slot.
Ownership ==
    /\ gpc \in {"copy", "copying", "len", "publish"} => ~ready /\ arg \in Fits
    /\ Taking => ready
    /\ gpc = "stopped" <=> exit
    /\ wpc = "done" => exit

\* What cmd_buf and cmd_len hold.
SlotContent ==
    /\ ~ready /\ ~Filling => buf = Wiped /\ len = NoLen
    /\ gpc = "copying" => len = NoLen
    /\ gpc \in {"len", "publish"} => buf = arg
    /\ gpc = "publish" => len = arg
    /\ ready /\ wpc \notin {"wiping", "zero", "release"} =>
         buf \in Fits /\ len = buf
    /\ wpc \in {"zero", "release"} => buf = Wiped
    /\ wpc = "release" => len = NoLen

\* What the worker's n and local hold.
HandContent ==
    /\ wpc \in {"top", "poll", "len", "copy", "read", "done"} => local = Wiped
    /\ wpc \in {"copy", "copying", "wipe"} => n = buf
    /\ wpc \in {"copying", "wipe"} => local = buf
    /\ wpc \in {"wiping", "zero", "release", "write"} => local \in Fits /\ n = local

SlotText == IF wpc \in {"wipe", "wiping", "zero", "release"} THEN local ELSE buf

\* ExactDelivery, written with Append so that each step is an equality.
Delivery ==
    /\ ~ready /\ wpc # "write" => accepted = wire
    /\ ready /\ wpc # "write" => accepted = Append(wire, SlotText)
    /\ ~ready /\ wpc = "write" => accepted = Append(wire, local)
    /\ ready /\ wpc = "write" => accepted = Append(Append(wire, local), buf)

IInv == TypeOK /\ Ownership /\ SlotContent /\ HandContent /\ Delivery

-----------------------------------------------------------------------------
\* The invariant holds before the worker thread starts.
LEMMA InitIInv == Init => IInv
  BY CmdSlotAssumption, EmptySeq
  DEF Init, IInv, TypeOK, Ownership, SlotContent, HandContent, Delivery,
      SlotText, Filling, Taking, GuiPc, WorkerPc, Text

\* A step of sr_worker_send_cmd, or the stop request, keeps it.
LEMMA GuiStep == IInv /\ Gui => IInv'
<1> SUFFICES ASSUME IInv, Gui PROVE IInv'
  OBVIOUS
<1> USE CmdSlotAssumption
        DEF IInv, TypeOK, Ownership, SlotContent, HandContent, Delivery,
            SlotText, Filling, Taking, GuiPc, WorkerPc, Text,
            guiVars, slotVars, workerVars
<1>1. CASE \E c \in Cmd : SendBegin(c)
  BY <1>1 DEF SendBegin
<1>2. CASE CopyInBegin
  BY <1>2 DEF CopyInBegin
<1>3. CASE CopyInEnd
  BY <1>3 DEF CopyInEnd
<1>4. CASE SetLen
  BY <1>4 DEF SetLen
<1>5. CASE Publish
  <2>1. accepted' \in Seq(Cmd)
    BY <1>5, AppendProperties DEF Publish
  <2> QED
    BY <1>5, <2>1 DEF Publish
<1>6. CASE RequestStop
  BY <1>6 DEF RequestStop
<1> QED
  BY <1>1, <1>2, <1>3, <1>4, <1>5, <1>6 DEF Gui

\* A step of sr_worker_thread keeps it.
LEMMA WorkerStep == IInv /\ Worker => IInv'
<1> SUFFICES ASSUME IInv, Worker PROVE IInv'
  OBVIOUS
<1> USE CmdSlotAssumption
        DEF IInv, TypeOK, Ownership, SlotContent, HandContent, Delivery,
            SlotText, Filling, Taking, GuiPc, WorkerPc, Text,
            guiVars, slotVars, workerVars
<1>1. CASE Top
  BY <1>1 DEF Top
<1>2. CASE Poll
  BY <1>2 DEF Poll
<1>3. CASE TakeLen
  BY <1>3 DEF TakeLen
<1>4. CASE CopyOutBegin
  BY <1>4 DEF CopyOutBegin
<1>5. CASE CopyOutEnd
  BY <1>5 DEF CopyOutEnd
<1>6. CASE WipeBegin
  BY <1>6 DEF WipeBegin
<1>7. CASE WipeEnd
  BY <1>7 DEF WipeEnd
<1>8. CASE ZeroLen
  BY <1>8 DEF ZeroLen
<1>9. CASE Release
  BY <1>9 DEF Release
<1>10. CASE WriteCmd
  <2>1. wire' \in Seq(Text)
    BY <1>10, AppendProperties DEF WriteCmd
  <2> QED
    BY <1>10, <2>1 DEF WriteCmd
<1>11. CASE Scrub
  BY <1>11 DEF Scrub
<1>12. CASE ReadRx
  BY <1>12 DEF ReadRx
<1> QED
  BY <1>1, <1>2, <1>3, <1>4, <1>5, <1>6, <1>7, <1>8, <1>9, <1>10, <1>11,
     <1>12 DEF Worker

\* IInv is an invariant of the two threads.
THEOREM Invariance == Spec => []IInv
<1>1. IInv /\ UNCHANGED vars => IInv'
  BY DEF vars, guiVars, slotVars, workerVars, IInv, TypeOK, Ownership,
         SlotContent, HandContent, Delivery, SlotText, Filling, Taking
<1>2. IInv /\ [Next]_vars => IInv'
  BY <1>1, GuiStep, WorkerStep DEF Next
<1> QED
  BY InitIInv, <1>2, PTL DEF Spec

-----------------------------------------------------------------------------
(* What the invariant gives.                                               *)

\* Every variable keeps its type.
THEOREM TypeCorrect == Spec => []TypeOK
<1>1. IInv => TypeOK
  BY DEF IInv
<1> QED
  BY <1>1, Invariance, PTL

\* The GUI never fills the slot while the worker reads or wipes it.
THEOREM Exclusion == Spec => []NoOverlap
<1>1. IInv => NoOverlap
  BY DEF IInv, Ownership, NoOverlap, Filling, Taking
<1> QED
  BY <1>1, Invariance, PTL

\* A released slot and an idle worker hold no byte of a command.
THEOREM Clean == Spec => []NoResidue
<1>1. IInv => NoResidue
  BY DEF IInv, SlotContent, HandContent, NoResidue, Filling
<1> QED
  BY <1>1, Invariance, PTL

\* Appending an element is concatenating the sequence of it alone.
LEMMA AppendConcat ==
  ASSUME NEW S, NEW s \in Seq(S), NEW e \in S
  PROVE  Append(s, e) = s \o <<e>>
<1> QED
  BY AppendIsConcat

\* Two one-element sequences make a pair.
LEMMA PairConcat ==
  ASSUME NEW S, NEW a \in S, NEW b \in S
  PROVE  <<a>> \o <<b>> = <<a, b>>
<1>1. <<a>> \in Seq(S) /\ <<b>> \in Seq(S) /\ <<a, b>> \in Seq(S)
  OBVIOUS
<1>2. Len(<<a>>) = 1 /\ Len(<<b>>) = 1 /\ Len(<<a, b>>) = 2
  OBVIOUS
<1>3. \A i \in 1..2 : (<<a>> \o <<b>>)[i] = <<a, b>>[i]
  BY <1>1, <1>2, ConcatProperties
<1>4. <<a>> \o <<b>> \in Seq(S) /\ Len(<<a>> \o <<b>>) = 2
  BY <1>1, <1>2, ConcatProperties
<1> DEFINE s == <<a>> \o <<b>>
           t == <<a, b>>
<1>5. s \in Seq(S) /\ t \in Seq(S) /\ Len(s) = 2 /\ Len(t) = 2 /\ \A i \in 1..2 : s[i] = t[i]
  BY <1>1, <1>2, <1>3, <1>4
<1> HIDE DEF s, t
<1>6. Len(s) = Len(t) /\ \A i \in 1..Len(s) : s[i] = t[i]
  BY <1>5
<1>7. s = t
  BY <1>5, <1>6, SeqEqual
<1> QED
  BY <1>7 DEF s, t

\* The two ways of writing the commands on their way agree.
LEMMA DeliveryIsExact == IInv => ExactDelivery
<1> SUFFICES ASSUME IInv PROVE ExactDelivery
  OBVIOUS
<1>1. wire \in Seq(Text) /\ local \in Text /\ buf \in Text
  BY DEF IInv, TypeOK
<1>2. wire \o << >> = wire
  BY <1>1, ConcatEmptySeq
<1>3. Append(wire, local) \in Seq(Text) /\ Append(wire, local) = wire \o <<local>>
  BY <1>1, AppendProperties, AppendConcat
<1>4. (wire \o <<local>>) \o << >> = wire \o <<local>>
  BY <1>3, ConcatEmptySeq
<1>5. Append(wire, buf) = wire \o <<buf>>
  BY <1>1, AppendConcat
<1>6. Append(Append(wire, local), buf) = (wire \o <<local>>) \o <<buf>>
  BY <1>1, <1>3, AppendConcat
<1>7. CASE ~ready /\ wpc # "write"
  BY <1>7, <1>2 DEF ExactDelivery, InHand, InSlot, IInv, Delivery
<1>8. CASE ready /\ wpc # "write"
  BY <1>8, <1>2, <1>3, <1>5
     DEF ExactDelivery, InHand, InSlot, IInv, Delivery, SlotText
<1>9. CASE ~ready /\ wpc = "write"
  BY <1>9, <1>3, <1>4 DEF ExactDelivery, InHand, InSlot, IInv, Delivery
<1>10. CASE ready /\ wpc = "write"
  BY <1>10, <1>6 DEF ExactDelivery, InHand, InSlot, IInv, Delivery
<1> QED
  BY <1>7, <1>8, <1>9, <1>10

\* Every accepted command is written once, whole and in order, or is still
\* on its way.
THEOREM Delivered == Spec => []ExactDelivery
  BY DeliveryIsExact, Invariance, PTL

\* Shutdown loses at most the one command still in the slot.
THEOREM LossBound == Spec => []AtMostOneLost
<1>1. IInv => AtMostOneLost
  <2> SUFFICES ASSUME IInv, wpc = "done"
               PROVE  Len(accepted) - Len(wire) <= 1
    BY DEF AtMostOneLost
  <2>1. wire \in Seq(Text) /\ buf \in Text
    BY DEF IInv, TypeOK
  <2>2. Len(Append(wire, buf)) = Len(wire) + 1 /\ Len(wire) \in Nat
    BY <2>1, AppendProperties, LenProperties
  <2>3. accepted = wire \/ accepted = Append(wire, buf)
    BY DEF IInv, Delivery, SlotText
  <2> QED
    BY <2>2, <2>3
<1> QED
  BY <1>1, Invariance, PTL

-----------------------------------------------------------------------------
(* The slot implements the mailbox: publishing accepts, writing delivers,  *)
(* leaving the loop closes, and every other step is invisible.             *)

Queue == InHand \o InSlot

QueueByCase ==
    /\ ~ready /\ wpc # "write" => Queue = << >>
    /\ ready /\ wpc # "write" => Queue = <<SlotText>>
    /\ ~ready /\ wpc = "write" => Queue = <<local>>
    /\ ready /\ wpc = "write" => Queue = <<local, buf>>

\* The commands on their way, by cases.
LEMMA QueueCases == IInv => QueueByCase
<1> SUFFICES ASSUME IInv PROVE QueueByCase
  OBVIOUS
<1>1. local \in Text /\ buf \in Text
  BY DEF IInv, TypeOK
<1>2. <<local>> \in Seq(Text) /\ <<buf>> \in Seq(Text) /\ << >> \in Seq(Text)
  BY <1>1
<1>3. <<local>> \o << >> = <<local>>
  BY <1>2, ConcatEmptySeq
<1>4. << >> \o <<local>> = <<local>> /\ << >> \o <<buf>> = <<buf>>
  BY <1>2, ConcatEmptySeq
<1>5. << >> \o << >> = << >>
  BY <1>2, ConcatEmptySeq
<1>6. <<local>> \o <<buf>> = <<local, buf>>
  BY <1>1, PairConcat
<1> QED
  BY <1>3, <1>4, <1>5, <1>6 DEF QueueByCase, Queue, InHand, InSlot, SlotText

\* A step of either thread is a step of the mailbox or invisible to it.
LEMMA StepSimulates == IInv /\ IInv' /\ [Next]_vars => [MB!Next]_(MB!vars)
<1>1. (IInv => QueueByCase)'
  BY QueueCases, PTL
<1> SUFFICES ASSUME IInv, IInv', [Next]_vars PROVE [MB!Next]_(MB!vars)
  OBVIOUS
<1>2. QueueByCase /\ QueueByCase'
  BY <1>1, QueueCases
<1>3. Queue' = Queue /\ wire' = wire /\ (wpc' # "done") = (wpc # "done")
        => [MB!Next]_(MB!vars)
  BY DEF MB!vars, Queue
<1> HIDE DEF Queue
<1>4. CASE UNCHANGED vars
  <2>1. Queue' = Queue
    BY <1>4 DEF vars, guiVars, slotVars, workerVars, Queue, InHand, InSlot
  <2> QED
    BY <1>3, <1>4, <2>1 DEF vars, workerVars
<1>5. CASE Gui
  <2>1. CASE Publish
    <3>1. ~ready /\ ready' /\ arg \in Fits /\ buf = arg /\ buf' = buf /\ wpc' = wpc
          /\ local' = local /\ wire' = wire /\ ~ exit
      BY <1>5, <2>1 DEF Publish, IInv, Ownership, SlotContent, workerVars, TypeOK, GuiPc
    <3>2. wpc # "done" /\ ~Taking
      BY <3>1 DEF IInv, Ownership
    <3>3. CASE wpc = "write"
      <4>1. Queue = <<local>> /\ Queue' = <<local, arg>>
        BY <1>2, <3>1, <3>3 DEF QueueByCase
      <4>2. Queue' = Append(Queue, arg) /\ Len(Queue) < 2
        BY <4>1
      <4> QED
        BY <3>1, <3>2, <4>2 DEF MB!Next, MB!Accept, MB!Capacity, Queue
    <3>4. CASE wpc # "write"
      <4>1. Queue = << >> /\ Queue' = <<arg>>
        BY <1>2, <3>1, <3>2, <3>4 DEF QueueByCase, SlotText, Taking
      <4>2. Queue' = Append(Queue, arg) /\ Len(Queue) < 2
        BY <4>1
      <4> QED
        BY <3>1, <3>2, <4>2 DEF MB!Next, MB!Accept, MB!Capacity, Queue
    <3> QED
      BY <3>3, <3>4
  <2>2. CASE ~Publish
    <3>1. UNCHANGED <<ready, workerVars>> /\ (ready => buf' = buf)
      BY <1>5, <2>2
         DEF Gui, SendBegin, CopyInBegin, CopyInEnd, SetLen, RequestStop,
             slotVars, IInv, Ownership
    <3>2. Queue' = Queue
      BY <3>1 DEF Queue, InHand, InSlot, workerVars
    <3> QED
      BY <1>3, <3>1, <3>2 DEF workerVars
  <2> QED
    BY <2>1, <2>2
<1>6. CASE Worker
  <2>1. CASE WriteCmd
    <3>1. /\ wpc = "write" /\ wpc' = "scrub" /\ wire' = Append(wire, local)
          /\ ready' = ready /\ buf' = buf
      BY <2>1 DEF WriteCmd, slotVars
    <3>2. CASE ready
      <4>1. Queue = <<local, buf>> /\ Queue' = <<buf>>
        BY <1>2, <3>1, <3>2 DEF QueueByCase, SlotText
      <4>2. Queue # << >> /\ Head(Queue) = local /\ Tail(Queue) = Queue'
        BY <4>1
      <4> QED
        BY <3>1, <4>2 DEF MB!Next, MB!Deliver, Queue
    <3>3. CASE ~ready
      <4>1. Queue = <<local>> /\ Queue' = << >>
        BY <1>2, <3>1, <3>3 DEF QueueByCase
      <4>2. Queue # << >> /\ Head(Queue) = local /\ Tail(Queue) = Queue'
        BY <4>1
      <4> QED
        BY <3>1, <4>2 DEF MB!Next, MB!Deliver, Queue
    <3> QED
      BY <3>2, <3>3 DEF IInv, TypeOK
  <2>2. CASE Release
    <3>1. ready /\ ~ready' /\ wpc = "release" /\ n \in Cmd /\ n = local /\ local' = local
      BY <2>2, CmdSlotAssumption
         DEF Release, IInv, Ownership, HandContent, Taking
    <3>2. wpc' = "write" /\ wire' = wire
      BY <2>2, <3>1, CmdSlotAssumption DEF Release
    <3>3. Queue = <<local>> /\ Queue' = <<local>>
      BY <1>2, <3>1, <3>2 DEF QueueByCase, SlotText
    <3> QED
      BY <1>3, <3>1, <3>2, <3>3
  <2>3. CASE Top
    <3>1. /\ wpc = "top" /\ UNCHANGED <<slotVars, local, wire>>
          /\ wpc' \in {"poll", "done"}
      BY <2>3 DEF Top
    <3>2. Queue' = Queue /\ Len(Queue) < 2
      <4>1. CASE ready
        BY <1>2, <3>1, <4>1 DEF QueueByCase, SlotText, slotVars
      <4>2. CASE ~ready
        BY <1>2, <3>1, <4>2 DEF QueueByCase, slotVars
      <4> QED
        BY <4>1, <4>2 DEF IInv, TypeOK
    <3>3. CASE wpc' = "poll"
      BY <1>3, <3>1, <3>2, <3>3
    <3>4. CASE wpc' = "done"
      BY <3>1, <3>2, <3>4 DEF MB!Next, MB!Close, MB!Capacity, Queue
    <3> QED
      BY <3>1, <3>3, <3>4
  <2>4. CASE ~WriteCmd /\ ~Release /\ ~Top
    <3>1. /\ wpc # "write" /\ wpc' # "write" /\ wpc # "done" /\ wpc' # "done"
          /\ ready' = ready /\ wire' = wire
      BY <1>6, <2>4
         DEF Worker, Poll, TakeLen, CopyOutBegin, CopyOutEnd, WipeBegin,
             WipeEnd, ZeroLen, Scrub, ReadRx, slotVars
    <3>2. ready => SlotText' = SlotText
      BY <1>6, <2>4, CmdSlotAssumption
         DEF Worker, Poll, TakeLen, CopyOutBegin, CopyOutEnd, WipeBegin,
             WipeEnd, ZeroLen, Scrub, ReadRx, slotVars, SlotText,
             IInv, HandContent, SlotContent
    <3>3. Queue' = Queue
      <4>1. CASE ready
        BY <1>2, <3>1, <3>2, <4>1 DEF QueueByCase
      <4>2. CASE ~ready
        BY <1>2, <3>1, <4>2 DEF QueueByCase
      <4> QED
        BY <4>1, <4>2 DEF IInv, TypeOK
    <3> QED
      BY <1>3, <3>1, <3>3
  <2> QED
    BY <2>1, <2>2, <2>3, <2>4
<1> QED
  BY <1>4, <1>5, <1>6 DEF Next

\* The slot between the two threads is a FIFO mailbox of whole commands.
THEOREM Implements == Spec => MailboxSpec
<1>1. Init => MB!Init
  <2>1. Init => IInv /\ ~ready /\ wpc # "write" /\ wpc # "done" /\ wire = << >>
    BY InitIInv DEF Init
  <2> QED
    BY <2>1, QueueCases DEF MB!Init, QueueByCase, Queue
<1> QED
  BY <1>1, StepSimulates, Invariance, PTL DEF Spec, MailboxSpec, MB!Spec
=============================================================================
