------------------------------ MODULE MauLogs ------------------------------
(***************************************************************************)
(* The listing of the logs on a stock board's card (sr_mau_logs.c): `ls /` *)
(* has no last line, so a second command, `channel`, is sent behind it and *)
(* its echo closes the listing.  A name with a .wigle beside it is a log   *)
(* already sent.  The Upload and the Tools screens use the same record.    *)
(* Definitions marked "Mutant" are faults put in on purpose.               *)
(***************************************************************************)
EXTENDS Naturals, Sequences, FiniteSets

CONSTANTS
    LogNames,    \* names of logs
    LogSlots,    \* SR_MAU_LOG_SLOTS: entries kept, of logs and of sidecars
    MaxMatches   \* bound: the count of the model

ASSUME MauLogsAssumption ==
    /\ LogSlots \in Nat \ {0}
    /\ MaxMatches \in Nat

LogPhase == {"Idle", "Open", "Closed", "Card", "Dropped"}

\* The g_logs record.  A listed log is a name and whether it was sent.
LogRecord == [phase : LogPhase,
              armed : BOOLEAN,
              echo : BOOLEAN,          \* saw_echo
              due : BOOLEAN,           \* barrier_due
              barrier : BOOLEAN,       \* barrier_sent
              cut : BOOLEAN,
              over : BOOLEAN,          \* overflow
              matches : 0..MaxMatches,
              slots : Seq([name : LogNames, sent : BOOLEAN]),
              side : SUBSET LogNames]

\* sr_mau_logs_reset
LogsReset == [phase |-> "Idle", armed |-> FALSE, echo |-> FALSE, due |-> FALSE,
              barrier |-> FALSE, cut |-> FALSE, over |-> FALSE, matches |-> 0,
              slots |-> <<>>, side |-> {}]

\* sr_mau_logs_arm
LogsArm == [LogsReset EXCEPT !.phase = "Open", !.armed = TRUE]

\* sr_mau_logs_invalidate: a scan started.
LogsInvalidate(logs) ==
    IF logs.phase = "Idle" /\ ~logs.armed THEN logs
    ELSE [LogsReset EXCEPT !.phase = "Dropped"]

\* sr_mau_logs_allow
LogsAllow(session, flight, joinBusy) ==
    ~flight /\ ~joinBusy /\ session \in {"Idle", "Stopped"}

LogsBarrierDue(logs) == logs.armed /\ logs.due /\ ~logs.barrier

LogsBarrierSent(logs) ==
    IF LogsBarrierDue(logs) THEN [logs EXCEPT !.barrier = TRUE] ELSE logs

\* logs_mark_sent: only the first entry of that name.
MarkSent(slots, name) ==
    IF \E i \in DOMAIN slots : slots[i].name = name
    THEN LET first == CHOOSE i \in DOMAIN slots :
                        /\ slots[i].name = name
                        /\ \A j \in 1..(i - 1) : slots[j].name # name
         IN  [slots EXCEPT ![first].sent = TRUE]
    ELSE slots

\* logs_note_side
NoteSide(logs, name) ==
    IF name \notin logs.side /\ Cardinality(logs.side) >= LogSlots
    THEN [logs EXCEPT !.over = TRUE]
    ELSE [logs EXCEPT !.side = @ \cup {name}, !.slots = MarkSent(@, name)]

\* Mutant: the array is not looked at.
NoteLogUnbounded(logs, name) ==
    [logs EXCEPT !.matches = IF @ < MaxMatches THEN @ + 1 ELSE @,
                 !.slots = Append(@, [name |-> name, sent |-> name \in logs.side])]

\* Mutant: a sidecar listed before its log is forgotten.
NoteLogUnsent(logs, name) ==
    LET counted == [logs EXCEPT !.matches = IF @ < MaxMatches THEN @ + 1 ELSE @]
    IN  IF Len(logs.slots) >= LogSlots
        THEN [counted EXCEPT !.over = TRUE]
        ELSE [counted EXCEPT !.slots = Append(@, [name |-> name, sent |-> FALSE])]

\* logs_note_log, and the count beside it.
NoteLog(logs, name) ==
    LET counted == [logs EXCEPT !.matches = IF @ < MaxMatches THEN @ + 1 ELSE @]
    IN  IF Len(logs.slots) >= LogSlots
        THEN [counted EXCEPT !.over = TRUE]
        ELSE [counted EXCEPT !.slots =
                Append(@, [name |-> name, sent |-> name \in logs.side])]

Ended(logs, phase) == [logs EXCEPT !.phase = phase, !.armed = FALSE]

\* sr_mau_logs_feed.  A line cut at the length of the buffer is no name.
LogsFeed(logs, line) ==
    CASE ~logs.armed -> logs
      [] logs.armed /\ line.k = "cut" -> [logs EXCEPT !.cut = TRUE]
      [] logs.armed /\ line.k # "cut" /\ ~logs.echo ->
           IF line.k = "lsEcho"
           THEN [logs EXCEPT !.echo = TRUE, !.due = TRUE, !.phase = "Open"]
           ELSE logs
      [] logs.armed /\ line.k # "cut" /\ logs.echo ->
           CASE line.k = "chEcho" /\ logs.barrier -> Ended(logs, "Closed")
             [] line.k = "prompt" -> Ended(logs, "Closed")
             [] line.k = "noMount" -> Ended(logs, "Card")
             [] line.k = "side" -> NoteSide(logs, line.x)
             [] line.k = "log" -> NoteLog(logs, line.x)
             [] OTHER -> logs

\* sr_mau_logs_unsent, UNKNOWN being none: the entries not marked sent.
LogsKnown(logs) == logs.phase = "Closed" /\ ~logs.over

LogsUnsent(logs) ==
    {logs.slots[i].name : i \in {j \in DOMAIN logs.slots : ~logs.slots[j].sent}}

\* sr_mau_logs_slot and sr_mau_logs_extra
LogsShown(logs) ==
    IF logs.phase = "Closed" THEN {logs.slots[i].name : i \in DOMAIN logs.slots} ELSE {}

LogsExtra(logs) ==
    IF logs.matches < Len(logs.slots) THEN 0 ELSE logs.matches - Len(logs.slots)
=============================================================================
