------------------------------ MODULE Capture ------------------------------
(***************************************************************************)
(* The capture of what the board says during a join, an upload or a start  *)
(* recovery (src/sr_uart_cap.c): a buffer the worker appends the lines to, *)
(* which the GUI's tick pulls in chunks and appends to uart_join.txt.      *)
(* Both sides of the buffer hold the model's mutex; the file is written    *)
(* after the tick has released it (sigroam.c:300-314).                     *)
(***************************************************************************)
EXTENDS Sequences, Naturals, SequencesExt

CONSTANTS
    CapMax,      \* bound: what the buffer holds, its reserve not counted
    PullMax      \* bound: what one tick pulls

ASSUME CaptureAssumption == CapMax \in Nat \ {0} /\ PullMax \in Nat \ {0}

VARIABLES
    capture,     \* the buffer: armed, buf, reset and full
    flush,       \* the chunk on its way to the file
    file,        \* uart_join.txt
    noted        \* history: all that was to be captured, and whether a failed
                 \* write left part of a chunk in the file

captureVars == <<capture, flush, file, noted>>

\* An item stands for the bytes of a line or of a mark; the end of a line and
\* the note that the buffer was full are items too.
Eol == <<"eol">>
CapFull == <<"cap-full">>

CaptureInit ==
    /\ capture = [armed |-> FALSE, buf |-> <<>>, reset |-> FALSE, full |-> FALSE]
    /\ flush = [items |-> <<>>, reset |-> FALSE, due |-> FALSE]
    /\ file = <<>>
    /\ noted = [items |-> <<>>, torn |-> FALSE]

-----------------------------------------------------------------------------
\* append_bytes
Fits(c, items) == Len(c.buf) + Len(items) <= CapMax
Appended(c, items) == [c EXCEPT !.buf = @ \o items]

\* note_full: once in the life of a buffer, and the reserve holds it.
NoteFull(c) ==
    IF c.full THEN c
    ELSE [c EXCEPT !.full = TRUE, !.buf = Append(@, CapFull)]

\* sr_uart_cap_note: a line and its end are appended one after the other, so
\* the end may be what no longer fits.
Noted(c, text) ==
    LET with == Appended(c, <<text>>)
    IN  CASE ~Fits(c, <<text>>) -> NoteFull(c)
          [] Fits(c, <<text>>) /\ ~Fits(with, <<Eol>>) -> NoteFull(with)
          [] OTHER -> Appended(with, <<Eol>>)

CaptureNote(text) ==
    IF capture.armed
    THEN /\ capture' = Noted(capture, text)
         /\ noted' = [noted EXCEPT !.items = @ \o <<text, Eol>>]
    ELSE UNCHANGED <<capture, noted>>

\* sr_uart_cap_mark: a mark is appended with its end.
Marked(c, mark) ==
    IF Fits(c, <<mark, Eol>>) THEN Appended(c, <<mark, Eol>>) ELSE NoteFull(c)

\* sr_uart_cap_arm(true) and its first mark: a join or a recovery starts.
ArmNew(mark) ==
    /\ capture' = Marked([armed |-> TRUE, buf |-> <<>>, reset |-> TRUE, full |-> FALSE], mark)
    /\ noted' = [items |-> <<mark, Eol>>, torn |-> noted.torn]
    /\ UNCHANGED <<flush, file>>

\* sr_uart_cap_arm(false) and its first mark: an upload goes on after a join.
ArmOn(mark) ==
    /\ capture' = Marked([capture EXCEPT !.armed = TRUE], mark)
    /\ noted' = [noted EXCEPT !.items = @ \o <<mark, Eol>>]
    /\ UNCHANGED <<flush, file>>

Disarm ==
    /\ capture.armed
    /\ capture' = [capture EXCEPT !.armed = FALSE]
    /\ UNCHANGED <<flush, file, noted>>

-----------------------------------------------------------------------------
\* Mutant: the tick pulls although the last chunk is not yet in the file.
PullOver ==
    /\ capture.buf # <<>> \/ capture.reset
    /\ LET n == IF Len(capture.buf) < PullMax THEN Len(capture.buf) ELSE PullMax
       IN  /\ flush' = [items |-> SubSeq(capture.buf, 1, n), reset |-> capture.reset, due |-> TRUE]
           /\ capture' = [capture EXCEPT !.reset = FALSE,
                                         !.buf = SubSeq(@, n + 1, Len(@))]
    /\ UNCHANGED <<file, noted>>

\* sr_uart_cap_pull: the next chunk, when the last one is in the file.
Pull ==
    /\ flush.items = <<>> /\ ~flush.reset
    /\ capture.buf # <<>> \/ capture.reset
    /\ LET n == IF Len(capture.buf) < PullMax THEN Len(capture.buf) ELSE PullMax
       IN  /\ flush' = [items |-> SubSeq(capture.buf, 1, n), reset |-> capture.reset, due |-> TRUE]
           /\ capture' = [capture EXCEPT !.reset = FALSE,
                                         !.buf = SubSeq(@, n + 1, Len(@))]
    /\ UNCHANGED <<file, noted>>

\* A chunk that could not be written is tried again by the next tick.
PullNot ==
    /\ flush.items # <<>> \/ flush.reset
    /\ flush' = [flush EXCEPT !.due = TRUE]
    /\ UNCHANGED <<capture, file, noted>>

Opened == IF flush.reset THEN <<>> ELSE file

\* sr_settings_store_uart_cap
Write ==
    /\ flush.due
    /\ file' = Opened \o flush.items
    /\ flush' = [items |-> <<>>, reset |-> FALSE, due |-> FALSE]
    /\ noted' = [noted EXCEPT !.torn = @ /\ ~flush.reset]
    /\ UNCHANGED capture

\* The card refuses: before the file is opened, or with part or all of the
\* chunk in it.
WriteFails ==
    /\ flush.due
    /\ \/ UNCHANGED <<file, noted>>
       \/ \E n \in 0..Len(flush.items) :
            /\ file' = Opened \o SubSeq(flush.items, 1, n)
            /\ noted' = [noted EXCEPT !.torn = @ \/ (n > 0 /\ ~flush.reset)]
    /\ flush' = [flush EXCEPT !.due = FALSE]
    /\ UNCHANGED capture

-----------------------------------------------------------------------------
\* The capture in the file, on its way and in the buffer.
Kept ==
    (IF capture.reset THEN <<>> ELSE Opened \o flush.items) \o capture.buf

\* What is captured is what was said, in its order and once: up to the first
\* note that the buffer was full nothing is missing, doubled or left over
\* from an earlier capture.  A chunk of which a failed write left a part is
\* written again from its start (sigroam.c:306-313).
CaptureTrue ==
    ~noted.torn =>
        LET full == {k \in DOMAIN Kept : Kept[k] = CapFull}
        IN  IF full = {} THEN Kept = noted.items
            ELSE \E k \in full : /\ k - 1 <= Len(noted.items)
                                 /\ SubSeq(Kept, 1, k - 1) = SubSeq(noted.items, 1, k - 1)
=============================================================================
