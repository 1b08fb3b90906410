------------------------------ MODULE Mailbox ------------------------------
(***************************************************************************)
(* What the GUI thread may assume of the command path to the serial port:  *)
(* a FIFO queue of whole commands, at most two of them accepted and not    *)
(* yet written (one in the worker's hand, one in the slot), which the      *)
(* worker stops serving for good when the application shuts down.          *)
(* CmdSlot implements it.                                                  *)
(***************************************************************************)
EXTENDS Naturals, Sequences

CONSTANT Fits    \* the command lines sr_worker_send_cmd accepts

VARIABLES
    queue,       \* commands accepted and not yet written, oldest first
    wire,        \* commands written to the port, oldest first
    open         \* the worker still serves the queue

vars == <<queue, wire, open>>

Capacity == 2

Init == queue = <<>> /\ wire = <<>> /\ open = TRUE

\* The GUI hands over a command; it is refused when nothing changes.
Accept ==
    /\ open
    /\ Len(queue) < Capacity
    /\ \E c \in Fits : queue' = Append(queue, c)
    /\ UNCHANGED <<wire, open>>

\* The worker writes the oldest accepted command, whole.
Deliver ==
    /\ open
    /\ queue # <<>>
    /\ wire' = Append(wire, Head(queue))
    /\ queue' = Tail(queue)
    /\ UNCHANGED open

\* The worker leaves its loop with nothing in its hand: what the slot still
\* holds, at most one command, is never written.
Close ==
    /\ open
    /\ Len(queue) < Capacity
    /\ open' = FALSE
    /\ UNCHANGED <<queue, wire>>

Next == Accept \/ Deliver \/ Close

Spec == Init /\ [][Next]_vars
=============================================================================
