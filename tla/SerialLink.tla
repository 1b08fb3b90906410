----------------------------- MODULE SerialLink -----------------------------
(***************************************************************************)
(* The serial port from launch to exit (src/sr_io.c, and the order in      *)
(* which sigroam.c allocates and frees): what sr_io_open takes and its     *)
(* rollbacks give back, the receive interrupt, the worker's reads, and a   *)
(* teardown during which bytes still arrive.                               *)
(*                                                                         *)
(* The Flipper has one core: the interrupt handler runs whole, and no      *)
(* thread runs while it is due.  Bytes are numbered as they arrive.        *)
(***************************************************************************)
EXTENDS Naturals, Sequences

CONSTANTS
    Cap,         \* size of the stream buffer (SR_IO_RX_CAP)
    Chunk,       \* bytes the worker takes at a time (SR_WORKER_CHUNK)
    MaxBytes     \* bound: bytes the board sends in one run

ASSUME SerialLinkAssumption ==
    /\ Cap \in Nat \ {0}
    /\ Chunk \in Nat \ {0}
    /\ MaxBytes \in Nat

VARIABLES
    gpc,         \* GUI thread: the last step of the launch or the exit done
    held,        \* what the application holds of the system's
    otg,         \* the 5 V request standing at the power service
    otgBefore,   \* history: the request before the launch
    open,        \* io->open
    closing,     \* io->closing
    irq,         \* receive interrupts are on (and rx_running, once open)
    rxne,        \* number of the byte in the data register, 0 if none
    arrived,     \* bytes that arrived so far
    buf,         \* io->rx, the stream buffer
    delivered,   \* history: bytes the worker took
    mark,        \* history: bytes arrived when the exit was asked for
    exit,        \* worker->exit
    wpc          \* worker thread

port == <<held, otg, otgBefore, open>>
rx == <<rxne, arrived, buf, delivered>>
vars == <<gpc, port, closing, irq, rx, mark, exit, wpc>>

Resource == {"power", "otg", "expansion", "handle"}

\* launch, application running (with or without a port), exit
Launch == {"launch", "power", "expansion", "handle", "started", "opened"}
Up == {"up", "noPort"}
Exit == {"stopping", "closing", "rxOff", "joined", "released", "expanded", "closed"}
GuiPc == Launch \cup Up \cup Exit \cup {"gone"}

WorkerPc == {"none", "loop", "drain", "done"}

Byte == 1..MaxBytes

TypeOK ==
    /\ gpc \in GuiPc
    /\ held \subseteq Resource
    /\ otg \in BOOLEAN /\ otgBefore \in BOOLEAN
    /\ open \in BOOLEAN /\ closing \in BOOLEAN /\ irq \in BOOLEAN
    /\ rxne \in Byte \cup {0}
    /\ arrived \in 0..MaxBytes
    /\ buf \in Seq(Byte) /\ Len(buf) <= Cap
    /\ delivered \in Seq(Byte)
    /\ mark \in 0..MaxBytes
    /\ exit \in BOOLEAN
    /\ wpc \in WorkerPc

Init ==
    /\ gpc = "launch" /\ held = {}
    /\ otgBefore \in BOOLEAN /\ otg = otgBefore
    /\ open = FALSE /\ closing = FALSE /\ irq = FALSE
    /\ rxne = 0 /\ arrived = 0 /\ buf = <<>> /\ delivered = <<>>
    /\ mark = 0 /\ exit = FALSE /\ wpc = "none"

-----------------------------------------------------------------------------
(* The interrupt.                                                          *)

InterruptDue == irq /\ rxne # 0

Arrive ==
    /\ rxne = 0 /\ arrived < MaxBytes
    /\ arrived' = arrived + 1
    /\ rxne' = arrived + 1
    /\ UNCHANGED <<gpc, port, closing, irq, buf, delivered, mark, exit, wpc>>

\* Mutant: the data register is not read while closing.
InterruptNoDrain ==
    /\ InterruptDue
    /\ rxne' = IF closing THEN rxne ELSE 0
    /\ buf' = IF closing \/ Len(buf) >= Cap THEN buf ELSE Append(buf, rxne)
    /\ UNCHANGED <<gpc, port, closing, irq, arrived, delivered, mark, exit, wpc>>

\* The byte is always read, and enqueued unless closing; a full buffer drops it.
Interrupt ==
    /\ InterruptDue
    /\ rxne' = 0
    /\ buf' = IF closing \/ Len(buf) >= Cap THEN buf ELSE Append(buf, rxne)
    /\ UNCHANGED <<gpc, port, closing, irq, arrived, delivered, mark, exit, wpc>>

-----------------------------------------------------------------------------
(* The launch: sr_io_open with its rollbacks, then the worker.             *)

Step(from, to) == gpc = from /\ gpc' = to /\ ~InterruptDue

\* power_enable_otg(power, false) for a request of ours
Withdraw == otg' = (otg /\ "otg" \notin held)

\* No memory for io or its buffer, or the log device is on the same pins:
\* nothing taken.
OpenRefused ==
    /\ Step("launch", "noPort")
    /\ UNCHANGED <<port, closing, irq, rx, mark, exit, wpc>>

TakePower ==
    /\ Step("launch", "power")
    /\ held' = IF otg THEN {"power"} ELSE {"power", "otg"}
    /\ otg' = TRUE
    /\ UNCHANGED <<otgBefore, open, closing, irq, rx, mark, exit, wpc>>

No5v ==
    /\ Step("power", "noPort")
    /\ Withdraw
    /\ held' = {}
    /\ UNCHANGED <<otgBefore, open, closing, irq, rx, mark, exit, wpc>>

TakeExpansion ==
    /\ Step("power", "expansion")
    /\ held' = held \cup {"expansion"}
    /\ UNCHANGED <<otg, otgBefore, open, closing, irq, rx, mark, exit, wpc>>

\* Mutant: the expansion service is not given back.
PortBusyKeepsExpansion ==
    /\ Step("expansion", "noPort")
    /\ Withdraw
    /\ held' = held \ {"power", "otg"}
    /\ UNCHANGED <<otgBefore, open, closing, irq, rx, mark, exit, wpc>>

PortBusy ==
    /\ Step("expansion", "noPort")
    /\ Withdraw
    /\ held' = {}
    /\ UNCHANGED <<otgBefore, open, closing, irq, rx, mark, exit, wpc>>

Acquire ==
    /\ Step("expansion", "handle")
    /\ held' = held \cup {"handle"}
    /\ UNCHANGED <<otg, otgBefore, open, closing, irq, rx, mark, exit, wpc>>

\* The baud rate is not supported, or the buffer cannot be reset.
OpenRolledBack ==
    /\ Step("handle", "noPort")
    /\ Withdraw
    /\ held' = {}
    /\ UNCHANGED <<otgBefore, open, closing, irq, rx, mark, exit, wpc>>

\* The buffer is empty; interrupts may come from here on.
StartRx ==
    /\ Step("handle", "started")
    /\ buf' = <<>>
    /\ closing' = FALSE
    /\ irq' = TRUE
    /\ UNCHANGED <<port, rxne, arrived, delivered, mark, exit, wpc>>

Opened ==
    /\ Step("started", "opened")
    /\ open' = TRUE
    /\ UNCHANGED <<held, otg, otgBefore, closing, irq, rx, mark, exit, wpc>>

\* The worker starts on an open port; without memory for it, or for the
\* bloom filter, the application runs without.
StartWorker ==
    /\ Step("opened", "up")
    /\ wpc' \in {"loop", "none"}
    /\ UNCHANGED <<port, closing, irq, rx, mark, exit>>

-----------------------------------------------------------------------------
(* The worker: reads until the exit flag, then until the buffer is empty.  *)

TakeBytes ==
    \E k \in 1..Chunk :
        /\ k <= Len(buf) /\ (k = Len(buf) \/ k = Chunk)
        /\ delivered' = delivered \o SubSeq(buf, 1, k)
        /\ buf' = SubSeq(buf, k + 1, Len(buf))

WorkerReads ==
    /\ wpc = "loop" /\ ~exit /\ ~InterruptDue
    /\ TakeBytes
    /\ UNCHANGED <<gpc, port, closing, irq, rxne, arrived, mark, exit, wpc>>

\* Mutant: no last reads.
WorkerLeavesAtOnce ==
    /\ wpc = "loop" /\ exit /\ ~InterruptDue
    /\ wpc' = "done"
    /\ UNCHANGED <<gpc, port, closing, irq, rx, mark, exit>>

WorkerLeaves ==
    /\ wpc = "loop" /\ exit /\ ~InterruptDue
    /\ wpc' = "drain"
    /\ UNCHANGED <<gpc, port, closing, irq, rx, mark, exit>>

WorkerDrains ==
    /\ wpc = "drain" /\ ~InterruptDue
    /\ TakeBytes
    /\ UNCHANGED <<gpc, port, closing, irq, rxne, arrived, mark, exit, wpc>>

WorkerEnds ==
    /\ wpc = "drain" /\ buf = <<>> /\ ~InterruptDue
    /\ wpc' = "done"
    /\ UNCHANGED <<gpc, port, closing, irq, rx, mark, exit>>

-----------------------------------------------------------------------------
(* The exit: sigroam_app_free.                                             *)

\* The user leaves the application.
RequestStop ==
    /\ \E from \in Up : Step(from, "stopping")
    /\ exit' = TRUE
    /\ mark' = arrived
    /\ UNCHANGED <<port, closing, irq, rx, wpc>>

SetClosing ==
    /\ Step("stopping", "closing")
    /\ closing' = open
    /\ UNCHANGED <<port, irq, rx, mark, exit, wpc>>

RxStop ==
    /\ Step("closing", "rxOff")
    /\ irq' = FALSE
    /\ UNCHANGED <<port, closing, rx, mark, exit, wpc>>

\* Mutant: the worker is not waited for.
JoinAtOnce ==
    /\ Step("rxOff", "joined")
    /\ UNCHANGED <<port, closing, irq, rx, mark, exit, wpc>>

Join ==
    /\ Step("rxOff", "joined")
    /\ wpc \in {"none", "done"}
    /\ UNCHANGED <<port, closing, irq, rx, mark, exit, wpc>>

ReleaseHandle ==
    /\ Step("joined", "released")
    /\ held' = held \ {"handle"}
    /\ UNCHANGED <<otg, otgBefore, open, closing, irq, rx, mark, exit, wpc>>

ReleaseExpansion ==
    /\ Step("released", "expanded")
    /\ held' = held \ {"expansion"}
    /\ UNCHANGED <<otg, otgBefore, open, closing, irq, rx, mark, exit, wpc>>

ReleasePower ==
    /\ Step("expanded", "closed")
    /\ Withdraw
    /\ held' = held \ {"power", "otg"}
    /\ open' = FALSE
    /\ UNCHANGED <<otgBefore, closing, irq, rx, mark, exit, wpc>>

\* sr_io_free and sr_worker_free: the buffer and the handler's context go.
FreeIo ==
    /\ Step("closed", "gone")
    /\ buf' = <<>>
    /\ UNCHANGED <<port, closing, irq, rxne, arrived, delivered, mark, exit, wpc>>

-----------------------------------------------------------------------------
OpenSteps ==
    \/ OpenRefused \/ TakePower \/ No5v \/ TakeExpansion \/ PortBusy \/ Acquire
    \/ OpenRolledBack \/ StartRx \/ Opened \/ StartWorker

FreeSteps ==
    \/ SetClosing \/ RxStop \/ Join
    \/ ReleaseHandle \/ ReleaseExpansion \/ ReleasePower \/ FreeIo

Worker == WorkerReads \/ WorkerLeaves \/ WorkerDrains \/ WorkerEnds

Next == Arrive \/ Interrupt \/ OpenSteps \/ RequestStop \/ FreeSteps \/ Worker

Spec == Init /\ [][Next]_vars

\* An interrupt that is due is served and both threads are scheduled; the
\* user may stay and the board may be silent for ever.
FairSpec == Spec /\ WF_vars(Interrupt) /\ WF_vars(OpenSteps)
                 /\ WF_vars(FreeSteps) /\ WF_vars(Worker)

-----------------------------------------------------------------------------
(* Properties.                                                             *)

\* Whatever step of sr_io_open fails, and after the exit, the system is as
\* the application found it: nothing held, and the 5 V request of somebody
\* else still standing (sr_io.c:265-322, 136-159).
GivenBack ==
    gpc \in {"noPort", "gone"} => held = {} /\ otg = otgBefore /\ ~open /\ ~irq

\* Interrupts run, and the worker reads and writes, only on a port that is
\* held, whose expansion service is off and whose buffer is not freed: the
\* order of sigroam_app_free (sr_io.h: "the caller must already have joined
\* any thread blocked in sr_io_read").
NoUseAfterRelease ==
    irq \/ wpc \in {"loop", "drain"} =>
        {"power", "expansion", "handle"} \subseteq held /\ gpc \notin {"closed", "gone"}

\* What the board said before the user left is applied before the worker
\* ends: nothing enqueued by then is still in the buffer (sr_worker.c:154-160).
SaidIsApplied ==
    wpc = "done" => \A k \in DOMAIN buf : buf[k] > mark

\* Leaving the application ends, with bytes arriving all the way: an
\* interrupt while closing does not come back for ever (sr_rx_policy.h:24-26)
\* and the join returns.
ExitEnds == gpc = "stopping" ~> gpc = "gone"
=============================================================================
