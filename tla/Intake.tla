------------------------------- MODULE Intake ------------------------------
(***************************************************************************)
(* From the bytes of the board to the model: the line assembler            *)
(* (src/sr_line.c), the parser (src/sr_parse_marauder.c) with the latch of *)
(* the peer's ability (src/sr_dialect.h), what the model makes of an event *)
(* (src/sr_model.c), and the capture beside it, on the worker's way of     *)
(* handling a line (src/sr_worker.c:55-116).                               *)
(*                                                                         *)
(* A line of the board is what it is (k), the answer it belongs to (a) and *)
(* the pieces (part) it is sent in, so that a burst of lost bytes can take *)
(* its beginning, its end or its newline.  What a line is good for follows *)
(* from which of its pieces arrive: a prefix, a suffix or all of it.       *)
(***************************************************************************)
EXTENDS Capture, ScanCtl

CONSTANTS
    Plays,       \* bound: what may happen in one run, see Play
    MaxText      \* bound: pieces the assembler holds (SR_RAW_LINE_MAX)

VARIABLES
    wire,        \* pieces sent and not yet received
    line,        \* SrLine
    parser,      \* SrParser
    model,       \* SrModel
    board,       \* what the peer is, its answers so far, and if it streams
    bursts,      \* history: losses so far
    damaged,     \* history: bytes of the line assembled now are lost
    headerLost,  \* history: so is a header of a position, or its own line
    play         \* what is left of a member of Plays

intakeVars == <<wire, line, parser, model, board, bursts, damaged, headerLost, play>>
vars == <<intakeVars, captureVars>>

Command == {"info", "sigroam", "gpsdata", "wardrive", "stopscan", "help"}

\* The peer, what it is asked, how often, how many bursts of bytes are lost,
\* and how often the capture is armed and its file cannot be written.
Play == [kind : {"sigroam", "lite", "stock"}, asked : SUBSET Command, asks : Nat,
         bursts : Nat, arms : Nat, fails : Nat]

ASSUME IntakeAssumption == Plays \subseteq Play /\ MaxText \in Nat /\ MaxText >= 2

GpsField == {"fix", "lat", "lon", "dt"}
Echo == {"echoInfo", "echoSigroam", "echoGps", "echoStart", "echoStop"}
Status == {"busy", "sess", "qual"}
LineKind == GpsField \cup Echo \cup Status
                \cup {"hdr", "fw", "ver", "diag", "started", "wifiStop", "row", "ble",
                      "text", "long", "cr", "nl"}

Piece(k, a, part) == [k |-> k, a |-> a, part |-> part]
Cr == Piece("cr", 0, 0)
Nl == Piece("nl", 0, 0)

\* The pieces of a line; a long one does not fit the assembler.
Pieces(k, a) == [i \in 1..(IF k = "long" THEN MaxText + 1 ELSE 2) |-> Piece(k, a, i)]

-----------------------------------------------------------------------------
(* The board (outside this repository).                                    *)

\* A -sigroam- board adds its status to info, a Scout Lite board answers
\* "sigroam" with it; to the others that is no command.  A block of position
\* comes every 5000 ms between gpsdata and stopscan (sr_types.h:329-333).
AnswerTo(kind, c) ==
    CASE c = "info" -> <<"echoInfo", "fw", "ver">> \o
                           (IF kind = "sigroam" THEN <<"diag", "sess">> ELSE <<>>)
      [] c = "sigroam" -> <<"echoSigroam">> \o
                           (IF kind = "lite" THEN <<"diag", "busy", "sess">> ELSE <<"text">>)
      [] c = "gpsdata" -> <<"echoGps">>
      [] c = "block" -> <<"hdr", "fix", "lat", "lon", "dt">>
      [] c = "wardrive" -> <<"echoStart", "started", "row", "ble">>
      [] c = "stopscan" -> <<"echoStop", "wifiStop">>
      [] c = "help" -> <<"long", "qual">>

\* Rows end in a newline, what is printed otherwise in a carriage return and
\* a newline; an empty line may follow.
OnWire(k, a) ==
    Pieces(k, a) \o (IF k \in {"row", "ble"} THEN <<Nl>> ELSE <<Cr, Nl>>)
                 \o (IF k = "long" THEN <<Cr, Nl>> ELSE <<>>)

\* What it sends follows what the worker has not read yet.
Sends(c) ==
    /\ play.asks > 0
    /\ wire' = wire \o FlattenSeq([i \in DOMAIN AnswerTo(board.kind, c) |->
                          OnWire(AnswerTo(board.kind, c)[i], board.answers + 1)])
    /\ play' = [play EXCEPT !.asks = @ - 1]
    /\ UNCHANGED <<line, parser, model, bursts, damaged, headerLost, captureVars>>

BoardAnswers ==
    \E c \in play.asked :
        /\ Sends(c)
        /\ board' = [board EXCEPT !.answers = @ + 1,
                                  !.streams = c = "gpsdata" \/ (@ /\ c # "stopscan")]

BoardStreams ==
    /\ board.streams
    /\ Sends("block")
    /\ board' = [board EXCEPT !.answers = @ + 1]

\* The line under way is one of those.
Text(k) == line.text # <<>> /\ line.text[1].k = k

\* The stream buffer is full while the worker is held up: a run of bytes is
\* dropped (sr_io.c:103), over as many answers as there are on their way.
\* Handling a line does not touch what is on the wire.
Burst ==
    /\ play.bursts > 0 /\ ~line.ready
    /\ \E n \in 1..Len(wire) :
         /\ wire' = SubSeq(wire, n + 1, Len(wire))
         /\ damaged' = (wire[n] # Nl \/ line.text # <<>>)
         /\ headerLost' = (headerLost \/ Text("hdr") \/ \E i \in 1..n : wire[i].k = "hdr")
    /\ play' = [play EXCEPT !.bursts = @ - 1]
    /\ bursts' = bursts + 1
    /\ UNCHANGED <<line, parser, model, board, captureVars>>

-----------------------------------------------------------------------------
(* The line assembler: sr_line_feed, one piece at a time.                  *)

EmptyLine == [text |-> <<>>, ready |-> FALSE, truncated |-> FALSE, overflowing |-> FALSE]

\* Mutant: a line that overflowed leaves its mark on the next one.
LineEndsMarked(l) == [l EXCEPT !.ready = TRUE, !.truncated = l.overflowing]

LineEnds(l) == [l EXCEPT !.ready = TRUE, !.truncated = l.overflowing, !.overflowing = FALSE]

LineTakes(l, p) ==
    IF Len(l.text) >= MaxText THEN [l EXCEPT !.overflowing = TRUE]
    ELSE [l EXCEPT !.text = Append(@, p)]

Feed ==
    /\ wire # <<>> /\ ~line.ready
    /\ wire' = Tail(wire)
    /\ line' = CASE Head(wire) = Nl -> IF line.text = <<>> THEN line ELSE LineEnds(line)
                 [] Head(wire) = Cr -> line
                 [] OTHER -> LineTakes(line, Head(wire))
    /\ damaged' = (damaged /\ ~ (Head(wire) = Nl /\ line.text = <<>>))
    /\ headerLost' = (headerLost \/ (Head(wire) = Piece("hdr", Head(wire).a, 1)
                                        /\ line.text # <<>>))
    /\ UNCHANGED <<parser, model, board, bursts, play, captureVars>>

\* sr_line_consume
Consumed == [line EXCEPT !.text = <<>>, !.ready = FALSE, !.truncated = FALSE]

-----------------------------------------------------------------------------
(* What a text is taken for.                                               *)

Starts(t, k) == t[1].k = k /\ t[1].part = 1

\* All of a line, from its first byte to its last.
Whole(t, k) == Starts(t, k) /\ t = Pieces(k, t[1].a)

\* The end of the text is a line, whatever comes before it.
Ends(t, k) ==
    LET n == Len(t) IN n >= 2 /\ t[n].k = k /\ SubSeq(t, n - 1, n) = Pieces(k, t[n].a)

\* The value of a line that goes by its prefix: the answer it is from, or 0
\* when something else follows the prefix than the rest of that line.
ValueOf(t) == IF Whole(t, t[1].k) THEN t[1].a ELSE 0

\* An echo has its '#' in its first piece.
HasHash(t) == \E i \in DOMAIN t : t[i].k \in Echo /\ t[i].part = 1

\* sr_sigroam_cap_observe: Diag: or Sess: after the echo of sigroam, and
\* before any other echo, is the answer to it.
SigroamCap(cap, t) ==
    CASE cap = "yes" -> "yes"
      [] cap # "yes" /\ (Starts(t, "diag") \/ Starts(t, "sess")) ->
           IF cap = "armed" THEN "yes" ELSE cap
      [] cap # "yes" /\ Ends(t, "echoSigroam") -> "armed"
      [] OTHER -> IF cap = "armed" /\ HasHash(t) THEN "none" ELSE cap

-----------------------------------------------------------------------------
(* The parser: marauder_feed.  An outcome is the parser after the line and *)
(* the event for the model, of kind "more" when there is none yet.         *)

NoFix == [fix |-> 0, lat |-> 0, lon |-> 0, dt |-> 0]

Outcome(p, kind, value) == [parser |-> p, ev |-> [kind |-> kind, value |-> value]]

\* Mutant: a second header goes on with the block it finds.
GpsHeaderOn(p) == [p EXCEPT !.inBlock = TRUE]

\* A header starts the block afresh, also in the middle of one.
GpsHeader(p) == [p EXCEPT !.inBlock = TRUE, !.gps = NoFix]

\* gps_fill_field: a Fix line must be a whole one.
IsGpsField(t) == \E k \in GpsField : Starts(t, k) /\ (k = "fix" => Whole(t, k))

GpsFilled(p, t) == [p.gps EXCEPT ![t[1].k] = ValueOf(t)]

GpsFill(p, t) ==
    IF t[1].k = "dt"
    THEN Outcome([p EXCEPT !.gps = GpsFilled(p, t), !.inBlock = FALSE], "gps", GpsFilled(p, t))
    ELSE Outcome([p EXCEPT !.gps = GpsFilled(p, t)], "more", 0)

\* parse_csv: a Wi-Fi row begins with its number, so that it must be whole;
\* a BLE row begins with a name, which may be anything.
IsCsv(t) == t[Len(t)].k \in {"row", "ble"} /\ t[Len(t)].part = 2

CsvKind(t) ==
    IF Whole(t, "row") THEN "row" ELSE IF Ends(t, "ble") THEN "ble" ELSE "unknown"

\* diag_parse: damaged behind its prefix it is no Diag: line.
IsDiag(t) == Whole(t, "diag")

\* Mutant: the Diag: of the block before stays.
ProbedKeeps(fw, t) ==
    CASE Starts(t, "fw") -> [fw EXCEPT !.fw = ValueOf(t)]
      [] Starts(t, "ver") -> [fw EXCEPT !.ver = ValueOf(t)]
      [] IsDiag(t) -> [fw EXCEPT !.diag = t[1].a]

\* probe_n, diag_parse: Firmware: begins a block and drops the Diag: of the
\* one before; Hardware: and ESP-IDF: are like Version:.
IsProbed(t) == Starts(t, "fw") \/ Starts(t, "ver") \/ IsDiag(t)

Probed(fw, t) ==
    CASE Starts(t, "fw") -> [fw EXCEPT !.fw = ValueOf(t), !.diag = 0]
      [] Starts(t, "ver") -> [fw EXCEPT !.ver = ValueOf(t)]
      [] IsDiag(t) -> [fw EXCEPT !.diag = t[1].a]

\* busy_parse, sess_parse, qual_parse: a status line is taken whole or not.
IsStatus(t) == \E k \in Status : Whole(t, k)

\* The order of the dispatch, for a line that is no GPS line.
Dispatch(p, t) ==
    CASE IsCsv(t) -> Outcome(p, CsvKind(t), t[Len(t)].a)
      [] Whole(t, "started") -> Outcome(p, "started", 0)
      [] Whole(t, "wifiStop") -> Outcome(p, "wifiStop", 0)
      [] IsStatus(t) -> Outcome(p, t[1].k, t[1].a)
      [] IsProbed(t) -> Outcome([p EXCEPT !.fw = Probed(p.fw, t)], "fw", Probed(p.fw, t))
      [] OTHER -> Outcome(p, "unknown", 0)

Parsed(t) ==
    LET p == [parser EXCEPT !.fw.cap = SigroamCap(parser.fw.cap, t)]
    IN  IF Whole(t, "hdr") THEN Outcome(GpsHeader(p), "more", 0)
        ELSE IF p.inBlock /\ IsGpsField(t) THEN GpsFill(p, t)
        ELSE Dispatch([p EXCEPT !.inBlock = FALSE], t)

-----------------------------------------------------------------------------
(* The model: sr_model_apply.                                              *)

\* sr_model_reset_session, when a session starts after another.
SessionStarted(m) ==
    IF m.session = "Stopped" THEN [m EXCEPT !.session = "Running", !.ap = 0, !.blocks = 0]
    ELSE [m EXCEPT !.session = "Running"]

Dialect(m) == IF m.fw.ver = 0 THEN "none" ELSE IF board.kind = "sigroam" THEN "sigroam" ELSE "generic"

\* apply_ap: a row of a stock board that is Idle starts the session.
RowCounted(m) ==
    LET s == RowSeen(m.session, Dialect(m))
    IN  [(IF s # m.session THEN SessionStarted([m EXCEPT !.ap = @ + 1])
          ELSE [m EXCEPT !.ap = @ + 1]) EXCEPT !.session = s]

ApplyEvent(m, ev) ==
    CASE ev.kind = "started" -> SessionStarted(m)
      [] ev.kind = "wifiStop" -> [m EXCEPT !.session = Stopped(m.session, Dialect(m))]
      [] ev.kind \in {"row", "ble"} -> RowCounted(m)
      [] ev.kind = "gps" -> [m EXCEPT !.fix = ev.value, !.blocks = @ + 1]
      [] ev.kind = "fw" -> [m EXCEPT !.fw = ev.value]
      [] ev.kind = "busy" -> IF Dialect(m) = "generic" THEN m
                             ELSE [m EXCEPT !.status.busy = ev.value]
      [] ev.kind \in Status \ {"busy"} -> [m EXCEPT !.status[ev.kind] = ev.value]
      [] OTHER -> m

\* sr_worker_handle_ready: a line that was cut is for the raw log only.
HandleReady ==
    /\ line.ready
    /\ CaptureNote(line.text)
    /\ IF line.truncated THEN UNCHANGED <<parser, model>>
       ELSE /\ parser' = Parsed(line.text).parser
            /\ model' = ApplyEvent(model, Parsed(line.text).ev)
    /\ line' = Consumed
    /\ damaged' = FALSE
    /\ UNCHANGED <<wire, board, bursts, headerLost, play, flush, file>>

-----------------------------------------------------------------------------
(* The GUI, as far as the capture goes: no handler of it runs between the  *)
(* pull of a tick and its write.                                           *)

GuiArms ==
    /\ play.arms > 0 /\ ~flush.due
    /\ ArmNew(<<"join">>) \/ ArmOn(<<"upload">>)
    /\ play' = [play EXCEPT !.arms = @ - 1]
    /\ UNCHANGED <<wire, line, parser, model, board, bursts, damaged, headerLost>>

GuiDisarms == ~flush.due /\ Disarm /\ UNCHANGED intakeVars

TickPulls == ~flush.due /\ (Pull \/ PullNot) /\ UNCHANGED intakeVars

TickWrites == Write /\ UNCHANGED intakeVars

TickFails ==
    /\ play.fails > 0
    /\ WriteFails
    /\ play' = [play EXCEPT !.fails = @ - 1]
    /\ UNCHANGED <<wire, line, parser, model, board, bursts, damaged, headerLost>>

-----------------------------------------------------------------------------
Init ==
    /\ play \in Plays
    /\ wire = <<>> /\ line = EmptyLine
    /\ parser = [inBlock |-> FALSE, gps |-> NoFix,
                 fw |-> [fw |-> 0, ver |-> 0, diag |-> 0, cap |-> "none"]]
    /\ model = [session |-> "Idle", ap |-> 0, blocks |-> 0, fix |-> NoFix,
                fw |-> [fw |-> 0, ver |-> 0, diag |-> 0, cap |-> "none"],
                status |-> [k \in Status |-> 0]]
    /\ board = [kind |-> play.kind, answers |-> 0, streams |-> FALSE]
    /\ bursts = 0 /\ damaged = FALSE /\ headerLost = FALSE
    /\ CaptureInit

Next ==
    \/ BoardAnswers \/ BoardStreams \/ Burst \/ Feed \/ HandleReady
    \/ GuiArms \/ GuiDisarms \/ TickPulls \/ TickWrites \/ TickFails

Spec == Init /\ [][Next]_vars

-----------------------------------------------------------------------------
(* Properties.                                                             *)

\* The assembler gives out a line of which nothing was lost as the board sent
\* it, or marks it as cut; neither a cut line nor a loss outlasts the next
\* newline (sr_line.h:37-57).
LinesIntact ==
    line.ready =>
        /\ line.text # <<>>
        /\ line.truncated => Len(line.text) = MaxText
        /\ ~damaged => /\ line.truncated <=> line.text[1].k = "long"
                       /\ ~line.truncated => Whole(line.text, line.text[1].k)

\* The position shown is of one block, whatever is lost of it and however the
\* board goes on: it takes the loss of a header line, of its bytes, its end or
\* the end of the line before it, to mix two (marauder_feed, gps_fill_field).
FixOfOneAnswer ==
    ~headerLost => Cardinality({model.fix[k] : k \in GpsField} \ {0}) <= 1

\* When nothing is lost, the board's state is not older than its version
\* ("a later firmware_rev bump cannot adopt with a stale diag_state",
\* sr_parse_marauder.c:880-881), and only a board that answers "sigroam" is
\* taken for one that does (sr_dialect.h:163-164).
IdentitySound ==
    bursts = 0 =>
        /\ model.fw.diag # 0 => model.fw.diag >= model.fw.ver
        /\ model.fw.cap = "yes" => board.kind = "lite"
=============================================================================
