------------------------------ MODULE CmdSlot ------------------------------
(***************************************************************************)
(* The single command slot between the GUI thread and the worker thread    *)
(* (src/src/sr_worker.c).  There is no lock: the GUI fills cmd_buf and     *)
(* cmd_len and publishes them with cmd_ready; the worker copies them out,  *)
(* wipes the slot, releases it and only then writes to the serial port.    *)
(* A copy or a wipe of the buffer is two steps, so that the other thread   *)
(* can be seen in the middle of it.  What a buffer holds is one of         *)
(*    a command   its whole text,                                          *)
(*    Wiped       no byte of any command,                                  *)
(*    Torn        a part of a command, or parts of two.                    *)
(* cmd_len is abstracted to the command whose length it is.                *)
(***************************************************************************)
EXTENDS Naturals, Sequences

CONSTANTS
    Cmd,         \* command lines the GUI may try to send
    Fits,        \* those of 1 to SR_WORKER_CMD_MAX - 1 characters
    Wiped, Torn, NoLen,
    MaxSends     \* bound: commands accepted in one run of the application

ASSUME CmdSlotAssumption ==
    /\ Fits \subseteq Cmd
    /\ Wiped \notin Cmd /\ Torn \notin Cmd /\ NoLen \notin Cmd
    /\ Wiped # Torn
    /\ MaxSends \in Nat

VARIABLES
    gpc,         \* GUI thread: where it is in sr_worker_send_cmd
    arg,         \* the command it is sending
    buf,         \* cmd_buf
    len,         \* cmd_len
    ready,       \* cmd_ready
    exit,        \* exit, set by sr_worker_request_stop
    wpc,         \* worker thread: where it is in sr_worker_thread
    n,           \* its local n
    local,       \* its local copy of the command
    accepted,    \* history: commands send_cmd returned true for
    wire         \* history: commands given to sr_io_write

guiVars == <<gpc, arg, accepted>>
slotVars == <<buf, len, ready>>
workerVars == <<wpc, n, local, wire>>
vars == <<guiVars, slotVars, workerVars, exit>>

GuiPc == {"idle", "copy", "copying", "len", "publish", "stopped"}
WorkerPc == {"top", "poll", "len", "copy", "copying", "wipe", "wiping",
             "zero", "release", "write", "scrub", "read", "done"}

Text == Cmd \cup {Wiped, Torn}

TypeOK ==
    /\ gpc \in GuiPc
    /\ arg \in Cmd \cup {NoLen}
    /\ buf \in Text
    /\ len \in Cmd \cup {NoLen}
    /\ ready \in BOOLEAN
    /\ exit \in BOOLEAN
    /\ wpc \in WorkerPc
    /\ n \in Cmd \cup {NoLen}
    /\ local \in Text
    /\ accepted \in Seq(Cmd)
    /\ wire \in Seq(Text)

Init ==
    /\ gpc = "idle" /\ arg = NoLen /\ accepted = <<>>
    /\ buf = Wiped /\ len = NoLen /\ ready = FALSE
    /\ wpc = "top" /\ n = NoLen /\ local = Wiped /\ wire = <<>>
    /\ exit = FALSE

-----------------------------------------------------------------------------
(* The GUI thread: sr_worker_send_cmd, and the stop request at exit.       *)

\* Mutant: the slot is filled without looking at cmd_ready.
SendOverFull(c) ==
    /\ gpc = "idle"
    /\ Len(accepted) < MaxSends
    /\ c \in Fits
    /\ gpc' = "copy"
    /\ arg' = c
    /\ UNCHANGED <<accepted, slotVars, workerVars, exit>>

\* A full slot or an unfit command: send_cmd returns false and has touched
\* nothing, which is a stutter here.
SendBegin(c) ==
    /\ gpc = "idle"
    /\ Len(accepted) < MaxSends
    /\ ~ready
    /\ c \in Fits
    /\ gpc' = "copy"
    /\ arg' = c
    /\ UNCHANGED <<accepted, slotVars, workerVars, exit>>

CopyInBegin ==
    /\ gpc = "copy"
    /\ gpc' = "copying"
    /\ buf' = Torn
    /\ UNCHANGED <<arg, accepted, len, ready, workerVars, exit>>

CopyInEnd ==
    /\ gpc = "copying"
    /\ gpc' = "len"
    /\ buf' = arg
    /\ UNCHANGED <<arg, accepted, len, ready, workerVars, exit>>

SetLen ==
    /\ gpc = "len"
    /\ gpc' = "publish"
    /\ len' = arg
    /\ UNCHANGED <<arg, accepted, buf, ready, workerVars, exit>>

Publish ==
    /\ gpc = "publish"
    /\ gpc' = "idle"
    /\ ready' = TRUE
    /\ accepted' = Append(accepted, arg)
    /\ UNCHANGED <<arg, buf, len, workerVars, exit>>

RequestStop ==
    /\ gpc = "idle"
    /\ gpc' = "stopped"
    /\ exit' = TRUE
    /\ UNCHANGED <<arg, accepted, slotVars, workerVars>>

-----------------------------------------------------------------------------
(* The worker thread: one turn of its loop.                                *)

Top ==
    /\ wpc = "top"
    /\ wpc' = IF exit THEN "done" ELSE "poll"
    /\ UNCHANGED <<guiVars, slotVars, n, local, wire, exit>>

Poll ==
    /\ wpc = "poll"
    /\ wpc' = IF ready THEN "len" ELSE "read"
    /\ UNCHANGED <<guiVars, slotVars, n, local, wire, exit>>

\* Mutant: the slot is released before it is copied and wiped.
TakeLenAndRelease ==
    /\ wpc = "len"
    /\ n' = len
    /\ ready' = FALSE
    /\ wpc' = IF len = NoLen THEN "wipe" ELSE "copy"
    /\ UNCHANGED <<guiVars, buf, len, local, wire, exit>>

TakeLen ==
    /\ wpc = "len"
    /\ n' = len
    /\ wpc' = IF len = NoLen THEN "wipe" ELSE "copy"
    /\ UNCHANGED <<guiVars, slotVars, local, wire, exit>>

CopyOutBegin ==
    /\ wpc = "copy"
    /\ wpc' = "copying"
    /\ local' = buf
    /\ UNCHANGED <<guiVars, slotVars, n, wire, exit>>

CopyOutEnd ==
    /\ wpc = "copying"
    /\ wpc' = "wipe"
    /\ local' = IF local = buf /\ n = buf THEN buf ELSE Torn
    /\ UNCHANGED <<guiVars, slotVars, n, wire, exit>>

\* Mutant: no wipe of the buffer.
WipeSkipped ==
    /\ wpc = "wipe"
    /\ wpc' = "zero"
    /\ UNCHANGED <<guiVars, slotVars, n, local, wire, exit>>

WipeBegin ==
    /\ wpc = "wipe"
    /\ wpc' = "wiping"
    /\ buf' = Torn
    /\ UNCHANGED <<guiVars, len, ready, n, local, wire, exit>>

WipeEnd ==
    /\ wpc = "wiping"
    /\ wpc' = "zero"
    /\ buf' = Wiped
    /\ UNCHANGED <<guiVars, len, ready, n, local, wire, exit>>

ZeroLen ==
    /\ wpc = "zero"
    /\ wpc' = "release"
    /\ len' = NoLen
    /\ UNCHANGED <<guiVars, buf, ready, n, local, wire, exit>>

\* Mutant: the command in hand is given up when the exit flag is up.
ReleaseUnlessExit ==
    /\ wpc = "release"
    /\ wpc' = IF n = NoLen \/ exit THEN "read" ELSE "write"
    /\ ready' = FALSE
    /\ UNCHANGED <<guiVars, buf, len, n, local, wire, exit>>

Release ==
    /\ wpc = "release"
    /\ wpc' = IF n = NoLen THEN "read" ELSE "write"
    /\ ready' = FALSE
    /\ UNCHANGED <<guiVars, buf, len, n, local, wire, exit>>

WriteCmd ==
    /\ wpc = "write"
    /\ wpc' = "scrub"
    /\ wire' = Append(wire, local)
    /\ UNCHANGED <<guiVars, slotVars, n, local, exit>>

Scrub ==
    /\ wpc = "scrub"
    /\ wpc' = "read"
    /\ local' = Wiped
    /\ UNCHANGED <<guiVars, slotVars, n, wire, exit>>

\* Mutant: the read has no timeout, only the shutdown ends it.
ReadRxBlocks ==
    /\ wpc = "read"
    /\ exit
    /\ wpc' = "top"
    /\ UNCHANGED <<guiVars, slotVars, n, local, wire, exit>>

\* Mutant: after a read the exit flag is not looked at.
ReadRxSkipsExit ==
    /\ wpc = "read"
    /\ wpc' = "poll"
    /\ UNCHANGED <<guiVars, slotVars, n, local, wire, exit>>

\* At most 50 ms for received bytes, then the next turn.
ReadRx ==
    /\ wpc = "read"
    /\ wpc' = "top"
    /\ UNCHANGED <<guiVars, slotVars, n, local, wire, exit>>

-----------------------------------------------------------------------------
Gui ==
    \/ \E c \in Cmd : SendBegin(c)
    \/ CopyInBegin \/ CopyInEnd \/ SetLen \/ Publish
    \/ RequestStop

Worker ==
    \/ Top \/ Poll \/ TakeLen \/ CopyOutBegin \/ CopyOutEnd
    \/ WipeBegin \/ WipeEnd \/ ZeroLen \/ Release
    \/ WriteCmd \/ Scrub \/ ReadRx

Next == Gui \/ Worker

Spec == Init /\ [][Next]_vars

\* The operating system keeps scheduling the worker; nothing is assumed of
\* the user.
FairSpec == Spec /\ WF_vars(Worker)

-----------------------------------------------------------------------------
(* Properties.                                                             *)

Filling == gpc \in {"copying", "len", "publish"}
Taking == wpc \in {"len", "copy", "copying", "wipe", "wiping", "zero", "release"}

\* The command published in the slot and not yet released by the worker ...
InSlot ==
    IF ~ready THEN <<>>
    ELSE IF wpc \in {"wipe", "wiping", "zero", "release"} THEN <<local>>
    ELSE <<buf>>

\* ... and the one released and not yet written.
InHand == IF wpc = "write" THEN <<local>> ELSE <<>>

\* Every command send_cmd returned true for is written exactly once, whole
\* and in order, or is still on its way: the two threads never share the
\* buffer in a way that tears, drops or repeats a command
\* (sr_worker.c:125-143 against 248-260).
ExactDelivery == accepted = wire \o InHand \o InSlot

\* The GUI never writes the slot while the worker reads or wipes it: "a GUI
\* send cannot land in the secret" (sr_worker.c:137).
NoOverlap == ~ (Filling /\ Taking)

\* A released slot and a worker back at its read hold no byte of any command
\* (a Wi-Fi password may have passed through): sr_worker.c:135, 141.
NoResidue ==
    /\ ~ready /\ ~Filling => buf = Wiped /\ len = NoLen
    /\ wpc \in {"top", "poll", "read", "done"} => local = Wiped

\* Shutdown loses at most the command still in the slot: the one the worker
\* took before it saw the exit flag is written first (sr_worker.c:122-143).
AtMostOneLost == wpc = "done" => Len(accepted) - Len(wire) <= 1

\* An accepted command reaches the port, or the application is closing:
\* the GUI may forget it once send_cmd returned true.
AcceptedIsSent ==
    \A k \in 1..MaxSends :
        Len(accepted) >= k ~> (Len(wire) >= k \/ exit)

\* Once asked to stop, the worker ends whatever it is doing: the join in
\* sigroam_app_free returns.
StopEnds == exit ~> wpc = "done"

\* The slot implements the abstract mailbox.
MB == INSTANCE Mailbox WITH
        queue <- InHand \o InSlot,
        open <- wpc # "done"
MailboxSpec == MB!Spec
=============================================================================
