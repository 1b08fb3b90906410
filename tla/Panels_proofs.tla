---------------------------- MODULE Panels_proofs ---------------------------
(***************************************************************************)
(* What holds of Panels for every play, every card, every set of networks  *)
(* and every bound: the types of the three screens and of the board, that  *)
(* the app knows of the upload the board is busy with, that an entry of    *)
(* the ignore list is removed only if it is the one the user confirmed,    *)
(* that the screen says of an upload what became of the files, and that a  *)
(* join it confirms is of the network that was chosen.                     *)
(*                                                                         *)
(* In order: Among, by counting; the types (AllFine), an action at a time; *)
(* the flight (FlightInv); the list and its listener (ListInv); the        *)
(* verdict on an upload (VerdictFine); the join (ChoiceInv).               *)
(***************************************************************************)
EXTENDS Panels, FiniteSetTheorems, WellFoundedInduction, TLAPS

-----------------------------------------------------------------------------
(* Among is a recursive function: that it is one is shown by counting.     *)

\* Induction on the naturals with the property as a set: what has 0 and the
\* successor of each of its members has every natural.
LEMMA ByCounting ==
  ASSUME NEW P \in SUBSET Nat, 0 \in P, \A n \in Nat : n \in P => n + 1 \in P
  PROVE  P = Nat
<1>1. SUFFICES ASSUME Nat \ P # {} PROVE FALSE
  OBVIOUS
<1>2. \A x, y \in Nat : x < y => <<x, y>> \in OpToRel(<, Nat) BY Zenon DEF OpToRel
<1>3. \E x \in Nat \ P : \A y \in Nat \ P : ~(<<y, x>> \in OpToRel(<, Nat))
  BY <1>1, NatLessThanWellFounded, WFMin
<1>4. PICK x \in Nat \ P : \A y \in Nat \ P : ~(y < x)
  BY <1>3, <1>2, Zenon
<1>5. x - 1 \in Nat /\ x - 1 < x BY <1>4
<1>6. x - 1 \in P BY <1>4, <1>5
<1> QED BY <1>6, <1>5, <1>4

Kept(g, s, set, i) ==
  IF i = 0 THEN <<>> ELSE IF s[i] \in set THEN Append(g[i - 1], s[i]) ELSE g[i - 1]

Runs(g, n, s, set) == \A i \in 0..n : g[i] = Kept(g, s, set, i)

Keeps(g, n, S, s, set) == g \in [0..n -> Seq(S \cap set)] /\ Runs(g, n, s, set)

\* One step of the recursion behind Among: its values up to n give those up to
\* n + 1.
LEMMA KeptLonger ==
  ASSUME NEW S, NEW s \in Seq(S), NEW set, NEW n \in Nat, n + 1 <= Len(s),
         NEW g, Keeps(g, n, S, s, set)
  PROVE  \E h : Keeps(h, n + 1, S, s, set)
<1> DEFINE last == IF s[n + 1] \in set THEN Append(g[n], s[n + 1]) ELSE g[n]
           h == [i \in 0..(n + 1) |-> IF i = n + 1 THEN last ELSE g[i]]
<1>1. g \in [0..n -> Seq(S \cap set)] /\ \A i \in 0..n : g[i] = Kept(g, s, set, i)
  BY DEF Keeps, Runs
<1>2. last \in Seq(S \cap set)
  <2>1. s[n + 1] \in S OBVIOUS
  <2>2. g[n] \in Seq(S \cap set) BY <1>1
  <2>3. s[n + 1] \in set => Append(g[n], s[n + 1]) \in Seq(S \cap set) BY <2>1, <2>2
  <2> QED BY <2>2, <2>3
<1>3. h \in [0..(n + 1) -> Seq(S \cap set)]
  <2> HIDE DEF last
  <2>1. \A i \in 0..(n + 1) : i = n + 1 \/ i \in 0..n OBVIOUS
  <2> QED BY <1>1, <1>2, <2>1
<1>4. ASSUME NEW i \in 0..(n + 1) PROVE h[i] = Kept(h, s, set, i)
  <2>1. CASE i = n + 1
    BY <2>1 DEF Kept
  <2>2. CASE i # n + 1 /\ i > 0
    <3>1. i \in 0..n /\ i - 1 \in 0..n /\ i - 1 # n + 1 /\ i - 1 \in 0..(n + 1) BY <2>2
    <3>2. h[i] = g[i] /\ h[i - 1] = g[i - 1] BY <3>1, <2>2
    <3> QED BY <1>1, <2>2, <3>1, <3>2 DEF Kept
  <2>3. CASE i = 0
    BY <2>3, <1>1 DEF Kept
  <2> QED BY <2>1, <2>2, <2>3
<1> HIDE DEF h
<1>5. Keeps(h, n + 1, S, s, set) BY <1>3, <1>4 DEF Keeps, Runs
<1> QED BY <1>5

\* The recursion behind Among has a solution over every part of the sequence.
LEMMA KeptExists ==
  ASSUME NEW S, NEW s \in Seq(S), NEW set
  PROVE  \A n \in Nat : n <= Len(s) => \E g : Keeps(g, n, S, s, set)
<1> DEFINE P == {m \in Nat : m <= Len(s) => \E g : Keeps(g, m, S, s, set)}
<1>1. 0 \in P
  <2> DEFINE g == [i \in 0..0 |-> <<>>]
  <2>1. <<>> \in Seq(S \cap set) OBVIOUS
  <2>2. g \in [0..0 -> Seq(S \cap set)] BY <2>1
  <2>3. \A i \in 0..0 : g[i] = Kept(g, s, set, i) BY DEF Kept
  <2>4. Keeps(g, 0, S, s, set) BY <2>2, <2>3 DEF Keeps, Runs
  <2> QED BY <2>4
<1>2. ASSUME NEW n \in Nat, n \in P PROVE n + 1 \in P
  <2>1. n + 1 <= Len(s) => n <= Len(s) OBVIOUS
  <2>2. n + 1 <= Len(s) => \E g : Keeps(g, n + 1, S, s, set) BY <1>2, <2>1, KeptLonger
  <2> QED BY <2>2
<1> HIDE DEF P
<1>3. P = Nat BY <1>1, <1>2, ByCounting DEF P
<1> QED BY <1>3 DEF P

\* Two solutions of the recursion agree: what CHOOSE picks is the one we know.
LEMMA KeptUnique ==
  ASSUME NEW s, NEW set, NEW n \in Nat, NEW g, NEW h,
         Runs(g, n, s, set), Runs(h, n, s, set)
  PROVE  \A i \in 0..n : g[i] = h[i]
<1> DEFINE P == {m \in Nat : m <= n => g[m] = h[m]}
<1>0. \A i \in 0..n : g[i] = Kept(g, s, set, i) /\ h[i] = Kept(h, s, set, i) BY DEF Runs
<1>1. 0 \in P BY <1>0 DEF Kept
<1>2. ASSUME NEW m \in Nat, m \in P PROVE m + 1 \in P
  <2>2. m + 1 <= n => g[m] = h[m] BY <1>2
  <2>3. m + 1 <= n => m + 1 \in 0..n /\ (m + 1) - 1 = m /\ m + 1 # 0 OBVIOUS
  <2> QED BY <1>0, <2>2, <2>3 DEF Kept
<1> HIDE DEF P
<1>3. P = Nat BY <1>1, <1>2, ByCounting DEF P
<1> QED BY <1>3 DEF P

\* Among is the value at the last index of a solution of its recursion.
LEMMA AmongIs ==
  ASSUME NEW S, NEW s \in Seq(S), NEW set
  PROVE  \E g : Keeps(g, Len(s), S, s, set) /\ Among(s, set) = g[Len(s)]
<1>1. PICK n \in Nat : n = Len(s) OBVIOUS
<1>2. PICK g : Keeps(g, n, S, s, set)
  BY <1>1, KeptExists, n <= Len(s)
<1>3. \E h : h = [i \in 0..n |-> Kept(h, s, set, i)] /\ Among(s, set) = h[n]
  <2> DEFINE F == CHOOSE kept : kept = [i \in 0..Len(s) |-> Kept(kept, s, set, i)]
  <2>1. g = [i \in 0..n |-> Kept(g, s, set, i)] BY <1>2 DEF Keeps, Runs
  <2>2. F = [i \in 0..n |-> Kept(F, s, set, i)] BY <1>1, <2>1, Zenon
  <2>3. Among(s, set) = F[n] BY <1>1, Zenon DEF Among, Kept
  <2> HIDE DEF F
  <2> QED BY <2>2, <2>3, Zenon
<1>4. PICK h : h = [i \in 0..n |-> Kept(h, s, set, i)] /\ Among(s, set) = h[n]
  BY <1>3, Zenon
<1>5. Runs(h, n, s, set) BY <1>4 DEF Runs
<1>6. Runs(g, n, s, set) BY <1>2 DEF Keeps
<1>7. \A i \in 0..n : h[i] = g[i] BY <1>5, <1>6, KeptUnique
<1>8. h[n] = g[n] BY <1>7
<1> QED BY <1>1, <1>2, <1>4, <1>8

\* A part of a sequence is a sequence of what it is a part of.
LEMMA AmongType ==
  ASSUME NEW S, NEW s \in Seq(S), NEW set
  PROVE  Among(s, set) \in Seq(S \cap set)
<1>1. PICK g : Keeps(g, Len(s), S, s, set) /\ Among(s, set) = g[Len(s)]
  BY AmongIs
<1> QED BY <1>1 DEF Keeps

-----------------------------------------------------------------------------
(* Types.                                                                  *)

Names == LogNames \cup Ssids \cup Sizes \cup {"-"}

LineKind ==
  {"noCreds", "unsupported", "unreached", "noKey", "complete", "succeeded", "uploadOk",
   "failed", "skipped", "noConnect", "noReply", "noBuffer", "noFile", "uploading",
   "connected", "lsEcho", "noMount", "log", "side", "chEcho", "started", "stopped",
   "scanBanner", "listEcho", "ap", "listEnd", "joinEcho", "using", "joinFail",
   "wifiRow", "wifiEnd", "ignEcho", "ignItem", "added", "addFail", "removed", "badIndex",
   "cleared", "file", "files", "rmFail", "sd", "busy", "splitIs"}

CmdKind == {"none", "sigroam", "upload", "ls", "channel", "wifi", "stopscan", "scanall",
            "list", "join", "ignList", "ignAdd", "ignRm", "ignClear", "rm", "rmAll", "split"}

LineFits(l) ==
  /\ l.k \in {"uploading", "side", "log"} => l.x \in LogNames
  /\ l.k \in {"connected", "using", "wifiRow", "ap", "ignItem"} => l.x \in Ssids
  /\ l.k = "ap" => l.n \in Indices
  /\ l.k = "ignItem" => l.n \in 1..IgnoreMax
  /\ l.k = "splitIs" => l.x \in Sizes

\* What a line of the board may be.
Spoken == {l \in [k : LineKind, n : Nat, x : Names] : LineFits(l)}

CmdFits(c) ==
  /\ c.c = "ignAdd" => c.x \in Ssids
  /\ c.c = "rm" => c.x \in LogNames
  /\ c.c = "split" /\ c.n # 0 => c.x \in Sizes
  /\ c.c = "join" => c.n \in Indices

\* What a command may be, none included.
Command == {c \in [c : CmdKind, n : Nat, x : Names] : CmdFits(c)}

PlaySet == [fw : Peer, open : SUBSET (Screen \ {"menu"}), acts : Nat, wards : Nat,
            changes : Nat, losses : Nat, prompt : BOOLEAN,
            card : Seq([k : {"log", "side"}, n : {0}, x : STRING]),
            ign : Seq(STRING)]

LinkFine ==
  /\ scene \in [at : Screen, half : BOOLEAN]
  /\ play \in PlaySet
  /\ slot \in Command /\ tx \in Seq(Command) /\ rx \in Seq(Spoken)
  /\ model \in [session : PanelSession, fw : Peer]
  /\ ghost \in [rushed : BOOLEAN, lost : BOOLEAN]

LogsFine(l) ==
  /\ l \in LogRecord /\ IsFiniteSet(l.side)
  /\ Len(l.slots) <= LogSlots /\ Cardinality(l.side) <= LogSlots

\* The row the user chose is one from then on.
JoinFine(j) ==
  /\ j \in JoinScreen
  /\ j.phase \in {"Pass", "Verify", "Join"} => j.cursor \in Row

\* What is asked on a page of its own is about something.
ToolFine(t) ==
  /\ t \in ToolScreen /\ t.cmd \in Command
  /\ t.page = "Ask" => t.ask # "No"
  /\ t.ask = "Rm" => t.rm \in Item
  /\ t.ask = "Log" => t.file \in LogNames
  /\ t.back # "Ask"

HeardFine(b) == b \in Listening /\ Len(b.items) <= IgnoreMax

KeepFine ==
  /\ keep \in [ign : Seq(Ssids), size : Sizes, ward : BOOLEAN]
  /\ Len(keep.ign) <= IgnoreMax

AllFine ==
  /\ LinkFine
  /\ up \in Flight /\ pg \in Page /\ cap \in Capture /\ LogsFine(logs)
  /\ board \in UploadBoard
  /\ JoinFine(jn) /\ li \in Listener /\ radio \in Radio
  /\ ToolFine(tl) /\ HeardFine(bt) /\ KeepFine

\* AllFine in the next state, part by part.
LEMMA AllFineNext ==
  AllFine' <=>
    /\ LinkFine'
    /\ up' \in Flight /\ pg' \in Page /\ cap' \in Capture /\ LogsFine(logs')
    /\ board' \in UploadBoard
    /\ JoinFine(jn') /\ li' \in Listener /\ radio' \in Radio
    /\ ToolFine(tl') /\ HeardFine(bt') /\ KeepFine'
  BY Zenon DEF AllFine, JoinFine, LogsFine, ToolFine, HeardFine, JoinScreen, ToolScreen,
     LogRecord, Listening, Flight, Page, Capture, UploadBoard, Listener, Radio, Row, NoRow, Item, Command, CmdFits

\* What the operators on the upload, the listing and the listeners make is of
\* their types.
LEMMA FlightTypes ==
  ASSUME NEW u \in Flight
  PROVE  /\ ClearFlight(u) \in Flight
         /\ OnSend(u) \in Flight
         /\ CloseFile(u) \in Flight
         /\ KeepOk(u) \in Flight
         /\ KeepFail(u) \in Flight
         /\ Verdict(u) \in Face
<1>1. ClearFlight(u) \in Flight
  <2> DEFINE done == [f \in LogNames |-> "-"]
             v == [u EXCEPT !.face = "Idle", !.flight = FALSE, !.walked = FALSE, !.ok = FALSE,
                            !.succeeded = FALSE, !.skip = FALSE, !.fail = FALSE, !.why = {}]
             w == [v EXCEPT !.open = FALSE, !.fileOk = FALSE, !.fileFail = FALSE, !.nOk = 0,
                            !.nFail = 0, !.name = NoName, !.failName = NoName,
                            !.wifiOk = FALSE, !.wifiJoined = FALSE, !.done = done]
  <2>1. done \in [LogNames -> Outcome] /\ {} \in SUBSET Why BY DEF Outcome
  <2>2. v \in Flight BY <2>1 DEF Flight, Face
  <2>3. ClearFlight(u) = w BY DEF ClearFlight, Flight
  <2> HIDE DEF v, done
  <2>4. w \in Flight BY <2>1, <2>2 DEF Flight
  <2> QED BY <2>3, <2>4
<1>2. OnSend(u) \in Flight BY <1>1 DEF OnSend, Flight, Face
<1>3. CloseFile(u) \in Flight
  <2> DEFINE nFail == IF u.fileFail THEN u.nFail + 1 ELSE u.nFail
             nOk == IF ~u.fileFail /\ u.fileOk THEN u.nOk + 1 ELSE u.nOk
  <2>1. nFail \in Nat /\ nOk \in Nat BY DEF Flight
  <2>2. CASE u.open
    <3>1. CloseFile(u) = [u EXCEPT !.nFail = nFail, !.nOk = nOk, !.open = FALSE,
                                   !.fileOk = FALSE, !.fileFail = FALSE]
      BY <2>2 DEF CloseFile, Flight
    <3> HIDE DEF nFail, nOk
    <3> QED BY <2>1, <3>1 DEF Flight
  <2>3. CASE ~u.open
    BY <2>3 DEF CloseFile
  <2> QED BY <2>2, <2>3
<1>4. KeepOk(u) \in Flight BY DEF KeepOk, Flight
<1>5. KeepFail(u) \in Flight BY DEF KeepFail, Flight
<1>6. Verdict(u) \in Face BY DEF Verdict, Face, FailFace, Flight
<1> QED BY <1>1, <1>2, <1>3, <1>4, <1>5, <1>6

\* Ending a flight leaves a flight.
LEMMA EndType ==
  ASSUME NEW u \in Flight, NEW face \in Face
  PROVE  EndFlight(u, face) \in Flight
<1>1. CloseFile(u) \in Flight BY FlightTypes
<1> QED BY <1>1 DEF EndFlight, Flight

\* The flight fed any line of the board is a flight.
LEMMA UpFeedType ==
  ASSUME NEW u \in Flight, NEW line \in Spoken
  PROVE  UpFeed(u, line) \in Flight
<1>0. line.k \in LineKind /\ LineFits(line) BY DEF Spoken
<1>d. /\ DOMAIN EarlyEnd = {"noCreds", "unreached", "noKey", "unsupported"}
      /\ DOMAIN Cause = {"noConnect", "noReply", "noBuffer", "noFile"}
  BY DEF EarlyEnd, Cause
<1>1. CASE ~u.flight
  BY <1>1 DEF UpFeed
<1>2. CASE u.flight /\ line.k \in DOMAIN EarlyEnd
  <2>1. EarlyEnd[line.k] \in Face BY <1>2 DEF EarlyEnd, Face
  <2>2. EndFlight(u, EarlyEnd[line.k]) \in Flight BY <2>1, EndType
  <2> QED BY <1>d, <1>2, <2>2 DEF UpFeed
<1>3. CASE u.flight /\ line.k = "connected"
  <2> DEFINE new == u.joined # NoName /\ u.joined = line.x
  <2>1. UpFeed(u, line) = [u EXCEPT !.wifiOk = TRUE, !.wifiJoined = new]
    BY <1>d, <1>3 DEF UpFeed
  <2>2. new \in BOOLEAN OBVIOUS
  <2> HIDE DEF new
  <2> QED BY <2>1, <2>2 DEF Flight
<1>4. CASE u.flight /\ line.k = "uploading"
  <2>1. line.x \in LogNames BY <1>0, <1>4 DEF LineFits
  <2>2. CloseFile(u) \in Flight BY FlightTypes
  <2>3. UpFeed(u, line) = [CloseFile(u) EXCEPT !.walked = TRUE, !.open = TRUE,
                                               !.name = line.x, !.face = "Sending"]
    BY <1>d, <1>4 DEF UpFeed
  <2> QED BY <2>1, <2>2, <2>3 DEF Flight, Face
<1>5. CASE u.flight /\ line.k \in {"skipped", "uploadOk", "succeeded", "noReply"}
  <2>2. /\ [u EXCEPT !.skip = TRUE] \in Flight
        /\ [u EXCEPT !.ok = TRUE] \in Flight
        /\ [u EXCEPT !.ok = TRUE, !.succeeded = TRUE] \in Flight
        /\ [u EXCEPT !.why = @ \cup {"reply"}] \in Flight
    BY DEF Flight, Why
  <2>3. /\ KeepOk([u EXCEPT !.ok = TRUE]) \in Flight
        /\ KeepOk([u EXCEPT !.ok = TRUE, !.succeeded = TRUE]) \in Flight
    BY <2>2, FlightTypes
  <2> QED BY <1>d, <1>5, <2>2, <2>3 DEF UpFeed
<1>6. CASE u.flight /\ line.k \in DOMAIN Cause \ {"noReply"}
  <2>1. Cause[line.k] \in Why BY <1>6 DEF Cause, Why
  <2>2. [u EXCEPT !.why = @ \cup {Cause[line.k]}] \in Flight BY <2>1 DEF Flight
  <2>3. KeepFail([u EXCEPT !.why = @ \cup {Cause[line.k]}]) \in Flight
    BY <2>2, FlightTypes
  <2> QED BY <1>d, <1>6, <2>3 DEF UpFeed
<1>7. CASE u.flight /\ line.k = "failed"
  <2> QED BY <1>d, <1>7, FlightTypes DEF UpFeed
<1>8. CASE u.flight /\ line.k = "complete"
  <2>2. CloseFile(u) \in Flight /\ Verdict(CloseFile(u)) \in Face BY FlightTypes
  <2>3. [CloseFile(u) EXCEPT !.flight = FALSE, !.face = Verdict(CloseFile(u))] \in Flight
    BY <2>2 DEF Flight
  <2> QED BY <1>d, <1>8, <2>3 DEF UpFeed
<1>9. CASE /\ u.flight /\ line.k \notin DOMAIN EarlyEnd /\ line.k \notin DOMAIN Cause
           /\ line.k \notin {"connected", "uploading", "skipped", "uploadOk", "succeeded",
                             "noReply", "failed", "complete"}
  BY <1>d, <1>9 DEF UpFeed
<1> QED BY <1>1, <1>2, <1>3, <1>4, <1>5, <1>6, <1>7, <1>8, <1>9

\* Marking a log as sent keeps the table of logs and its length.
LEMMA MarkType ==
  ASSUME NEW slots \in Seq([name : LogNames, sent : BOOLEAN]), NEW name
  PROVE  /\ MarkSent(slots, name) \in Seq([name : LogNames, sent : BOOLEAN])
         /\ Len(MarkSent(slots, name)) = Len(slots)
<1> DEFINE first == CHOOSE i \in DOMAIN slots :
                      /\ slots[i].name = name
                      /\ \A j \in 1..(i - 1) : slots[j].name # name
           marked == [slots EXCEPT ![first].sent = TRUE]
           Listed == [name : LogNames, sent : BOOLEAN]
<1>0. slots \in Seq(Listed) OBVIOUS
<1>1. MarkSent(slots, name) = slots \/ MarkSent(slots, name) = marked
  BY Zenon DEF MarkSent
<1> HIDE DEF first
<1>2. CASE first \in DOMAIN slots
  <2>0. first \in 1..Len(slots) BY <1>2
  <2>1. \A i \in 1..Len(slots) : slots[i] \in Listed
    <3> HIDE DEF Listed, marked
    <3> QED BY <1>0
  <2>r. slots[first] \in [name : LogNames, sent : BOOLEAN] BY <2>0, <2>1
  <2>2. [slots[first] EXCEPT !.sent = TRUE] \in [name : LogNames, sent : BOOLEAN] BY <2>r
  <2>3. marked = [slots EXCEPT ![first] = [slots[first] EXCEPT !.sent = TRUE]] OBVIOUS
  <2>4. marked \in Seq([name : LogNames, sent : BOOLEAN]) /\ Len(marked) = Len(slots)
    BY <1>2, <2>2, <2>3
  <2> QED BY <1>1, <2>4
<1>3. CASE first \notin DOMAIN slots
  <2>1. marked = slots BY <1>3
  <2> QED BY <1>1, <2>1
<1> QED BY <1>2, <1>3

\* Every operation of the log listing but the feed keeps its types.
LEMMA LogsTypes ==
  ASSUME NEW l, LogsFine(l)
  PROVE  /\ LogsFine(LogsReset) /\ LogsFine(LogsArm)
         /\ LogsFine(LogsInvalidate(l))
         /\ LogsFine(LogsBarrierSent(l))
         /\ \A name \in LogNames : LogsFine(NoteSide(l, name)) /\ LogsFine(NoteLog(l, name))
         /\ \A phase \in LogPhase : LogsFine(Ended(l, phase))
<1>0. /\ LogSlots \in Nat /\ LogSlots > 0 /\ MaxMatches \in Nat
      /\ l \in LogRecord /\ IsFiniteSet(l.side)
      /\ Len(l.slots) <= LogSlots /\ Cardinality(l.side) <= LogSlots
  BY MauLogsAssumption DEF LogsFine
<1>1. LogsFine(LogsReset) /\ LogsFine(LogsArm)
  <2>1. IsFiniteSet({}) /\ Cardinality({}) = 0 BY FS_EmptySet
  <2>2. <<>> \in Seq([name : LogNames, sent : BOOLEAN]) /\ Len(<<>>) = 0 OBVIOUS
  <2>3. LogsReset \in LogRecord BY <1>0, <2>2 DEF LogsReset, LogRecord, LogPhase
  <2>4. LogsArm \in LogRecord /\ LogsArm.slots = <<>> /\ LogsArm.side = {}
    BY <2>3 DEF LogsArm, LogsReset, LogRecord, LogPhase
  <2>5. LogsReset.slots = <<>> /\ LogsReset.side = {} BY DEF LogsReset
  <2> QED BY <1>0, <2>1, <2>2, <2>3, <2>4, <2>5 DEF LogsFine
<1>2. LogsFine(LogsInvalidate(l))
  <2>1. LogsFine([LogsReset EXCEPT !.phase = "Dropped"])
    BY <1>1 DEF LogsFine, LogRecord, LogPhase
  <2> QED BY <2>1 DEF LogsInvalidate
<1>3. LogsFine(LogsBarrierSent(l)) BY <1>0 DEF LogsFine, LogsBarrierSent, LogRecord
<1>4. ASSUME NEW name \in LogNames PROVE LogsFine(NoteSide(l, name)) /\ LogsFine(NoteLog(l, name))
  <2>1. LogsFine(NoteSide(l, name))
    <3>1. CASE name \notin l.side /\ Cardinality(l.side) >= LogSlots
      BY <1>0, <3>1 DEF LogsFine, NoteSide, LogRecord
    <3>2. CASE ~(name \notin l.side /\ Cardinality(l.side) >= LogSlots)
      <4>1. /\ IsFiniteSet(l.side \cup {name}) /\ Cardinality(l.side \cup {name}) <= LogSlots
        <5>1. Cardinality(l.side) \in Nat BY <1>0, FS_CardinalityType
        <5>2. /\ IsFiniteSet(l.side \cup {name})
              /\ Cardinality(l.side \cup {name}) =
                   IF name \in l.side THEN Cardinality(l.side) ELSE Cardinality(l.side) + 1
          BY <1>0, FS_AddElement
        <5>3. CASE name \in l.side BY <1>0, <5>2, <5>3
        <5>4. CASE name \notin l.side BY <1>0, <3>2, <5>1, <5>2, <5>4
        <5> QED BY <5>3, <5>4
      <4>2. /\ MarkSent(l.slots, name) \in Seq([name : LogNames, sent : BOOLEAN])
            /\ Len(MarkSent(l.slots, name)) <= LogSlots
        BY <1>0, MarkType DEF LogRecord
      <4>3. l.side \cup {name} \in SUBSET LogNames BY <1>0, <1>4 DEF LogRecord
      <4>4. NoteSide(l, name) = [l EXCEPT !.side = l.side \cup {name},
                                          !.slots = MarkSent(l.slots, name)]
        BY <1>0, <3>2 DEF NoteSide, LogRecord
      <4> QED BY <1>0, <4>1, <4>2, <4>3, <4>4 DEF LogsFine, LogRecord
    <3> QED BY <3>1, <3>2
  <2>2. LogsFine(NoteLog(l, name))
    <3> DEFINE n == IF l.matches < MaxMatches THEN l.matches + 1 ELSE l.matches
               seen == name \in l.side
               slots == Append(l.slots, [name |-> name, sent |-> seen])
               counted == [l EXCEPT !.matches = n]
    <3>1. n \in 0..MaxMatches BY <1>0 DEF LogRecord
    <3>2. counted \in LogRecord BY <1>0, <3>1 DEF LogRecord
    <3>3. CASE Len(l.slots) >= LogSlots
      <4>1. NoteLog(l, name) = [counted EXCEPT !.over = TRUE] BY <3>3 DEF NoteLog
      <4> QED BY <1>0, <3>2, <4>1 DEF LogsFine, LogRecord
    <3>4. CASE Len(l.slots) < LogSlots
      <4>0. seen \in BOOLEAN OBVIOUS
      <4> HIDE DEF seen
      <4>1. slots \in Seq([name : LogNames, sent : BOOLEAN]) /\ Len(slots) <= LogSlots
        BY <1>0, <3>4, <4>0 DEF LogRecord
      <4>2. counted.slots = l.slots BY <1>0 DEF LogRecord
      <4>3. NoteLog(l, name) = [counted EXCEPT !.slots = slots]
        BY <1>0, <3>4, <4>2 DEF NoteLog, seen
      <4> HIDE DEF slots
      <4> QED BY <1>0, <3>2, <4>1, <4>3 DEF LogsFine, LogRecord
    <3>5. Len(l.slots) \in Nat BY <1>0 DEF LogRecord
    <3> QED BY <1>0, <3>3, <3>4, <3>5
  <2> QED BY <2>1, <2>2
<1>5. ASSUME NEW phase \in LogPhase PROVE LogsFine(Ended(l, phase))
  BY <1>0, <1>5 DEF LogsFine, Ended, LogRecord
<1> QED BY <1>1, <1>2, <1>3, <1>4, <1>5

\* The log listing fed any line of the board keeps its types.
LEMMA LogsFeedType ==
  ASSUME NEW l, LogsFine(l), NEW line \in Spoken
  PROVE  LogsFine(LogsFeed(l, line))
<1>0. l \in LogRecord /\ line.k \in LineKind /\ LineFits(line) BY DEF Spoken, LogsFine
<1>1. CASE ~l.armed
  BY <1>1 DEF LogsFeed
<1>2. CASE l.armed /\ line.k = "cut"
  <2>1. LogsFine([l EXCEPT !.cut = TRUE]) BY DEF LogsFine, LogRecord
  <2> QED BY <1>2, <2>1 DEF LogsFeed
<1>3. CASE l.armed /\ line.k # "cut" /\ ~l.echo
  <2>1. LogsFine([l EXCEPT !.echo = TRUE, !.due = TRUE, !.phase = "Open"])
    BY DEF LogsFine, LogRecord, LogPhase
  <2> QED BY <1>3, <2>1 DEF LogsFeed
<1>4. CASE l.armed /\ line.k # "cut" /\ l.echo
  <2>1. LogsFine(Ended(l, "Closed")) /\ LogsFine(Ended(l, "Card"))
    BY LogsTypes DEF LogPhase
  <2>2. line.k \in {"side", "log"} => LogsFine(NoteSide(l, line.x)) /\ LogsFine(NoteLog(l, line.x))
    BY <1>0, LogsTypes DEF LineFits
  <2> QED BY <1>4, <2>1, <2>2 DEF LogsFeed
<1> QED BY <1>1, <1>2, <1>3, <1>4

\* A fresh listener of any mode is a listener.
LEMMA ListenType ==
  ASSUME NEW mode \in Mode
  PROVE  Listen(mode) \in Listener
  BY DEF Listen, Listener

\* The listener fed any line of the board is a listener.
LEMMA ObserveType ==
  ASSUME li \in Listener, NEW line \in Spoken
  PROVE  Observe(line) \in Listener
<1>0. line.k \in LineKind /\ LineFits(line) BY DEF Spoken
<1>1. CASE li.mode = "Scan"
  <2> DEFINE b == li.scan \/ line.k = "scanBanner"
  <2>1. Observe(line) = [li EXCEPT !.scan = b] /\ b \in BOOLEAN
    BY <1>1 DEF Observe, Listener
  <2> HIDE DEF b
  <2> QED BY <2>1 DEF Listener
<1>2. CASE li.mode = "List"
  <2>1. CASE ~li.echo
    <3> DEFINE b == line.k = "listEcho"
    <3>1. ListFeed(line) = [li EXCEPT !.echo = b] /\ b \in BOOLEAN BY <2>1 DEF ListFeed
    <3> HIDE DEF b
    <3>2. ListFeed(line) \in Listener BY <3>1 DEF Listener
    <3> QED BY <1>2, <3>2 DEF Observe
  <2>2. CASE li.echo
    <3>1. line.k = "ap" => [n |-> line.n, x |-> line.x] \in Row BY <1>0 DEF LineFits, Row
    <3>2. line.k = "ap" => [li EXCEPT !.rows = @ \cup {[n |-> line.n, x |-> line.x]}] \in Listener
      BY <3>1 DEF Listener
    <3>3. [li EXCEPT !.end = TRUE] \in Listener BY DEF Listener
    <3>4. ListFeed(line) \in Listener BY <2>2, <3>2, <3>3 DEF ListFeed
    <3> QED BY <1>2, <3>4 DEF Observe
  <2> QED BY <2>1, <2>2
<1>3. CASE li.mode = "Saved"
  <2>1. line.k = "wifiRow" => line.x \in Ssids BY <1>0 DEF LineFits
  <2>2. SavedFeed(line) \in Listener BY <2>1 DEF SavedFeed, Listener
  <2> QED BY <1>3, <2>2 DEF Observe
<1>4. CASE li.mode = "Join"
  <2>1. CASE ~li.joinEcho
    <3> DEFINE b == line.k = "joinEcho" /\ line.n = li.index
    <3>1. ReceiptFeed(line) = [li EXCEPT !.joinEcho = b] /\ b \in BOOLEAN
      BY <2>1 DEF ReceiptFeed
    <3> HIDE DEF b
    <3>2. ReceiptFeed(line) \in Listener BY <3>1 DEF Listener
    <3> QED BY <1>4, <3>2 DEF Observe
  <2>2. CASE li.joinEcho
    <3>1. line.k = "using" => line.x \in Ssids BY <1>0 DEF LineFits
    <3>2. line.k = "using" => [li EXCEPT !.essid = IF @ = NoName THEN line.x ELSE @] \in Listener
      BY <3>1 DEF Listener
    <3>3. [li EXCEPT !.receipt = "Fail"] \in Listener BY DEF Listener
    <3>4. [li EXCEPT !.marked = TRUE,
                      !.receipt = IF li.essid # NoName /\ @ = "Pending" THEN "Joined" ELSE @]
            \in Listener
      BY DEF Listener
    <3>5. ReceiptFeed(line) \in Listener BY <2>2, <3>2, <3>3, <3>4 DEF ReceiptFeed
    <3> QED BY <1>4, <3>5 DEF Observe
  <2> QED BY <2>1, <2>2
<1>5. CASE li.mode = "Off"
  BY <1>5 DEF Observe
<1> QED BY <1>1, <1>2, <1>3, <1>4, <1>5 DEF Listener, Mode

\* The ignore listener keeps its types when reset, armed or looked at.
LEMMA HeardTypes ==
  ASSUME HeardFine(bt)
  PROVE  HeardFine(BtReset) /\ HeardFine(BtArmList) /\ HeardFine(BtArmReply) /\ HeardFine(Looked)
<1>1. <<>> \in Seq(Item) /\ Len(<<>>) = 0 OBVIOUS
<1>2. HeardFine(BtReset) BY <1>1, ToolsAssumption DEF HeardFine, BtReset, Listening, Reply
<1>3. HeardFine(BtArmList)
  <2>1. BtArmList \in Listening BY <1>1 DEF HeardFine, BtArmList, Listening
  <2>2. BtArmList.items = <<>> BY DEF HeardFine, BtArmList, Listening
  <2> QED BY <1>1, <2>1, <2>2, ToolsAssumption DEF HeardFine
<1>4. HeardFine(BtArmReply) BY DEF HeardFine, BtArmReply, Listening, Reply
<1>5. HeardFine(Looked) BY DEF HeardFine, Looked, Listening, Reply
<1> QED BY <1>2, <1>3, <1>4, <1>5

\* The ignore listener fed any line of the board keeps its types, its list
\* within IgnoreMax.
LEMMA BtFeedType ==
  ASSUME HeardFine(bt), NEW line \in Spoken
  PROVE  HeardFine(BtFeed(line))
<1>0. line.k \in LineKind /\ LineFits(line) BY DEF Spoken
<1>1. ASSUME NEW kind \in Reply
      PROVE  /\ HeardFine(Noted(kind))
             /\ HeardFine([Noted(kind) EXCEPT !.busy = TRUE, !.closed = TRUE])
  BY DEF HeardFine, Noted, Listening
<1>2. CASE bt.listen = "List" /\ ~bt.closed
  <2>1. CASE ~bt.echo
    <3>1. HeardFine([bt EXCEPT !.echo = TRUE, !.due = TRUE]) BY DEF HeardFine, Listening
    <3> QED BY <1>2, <2>1, <3>1 DEF BtFeed, BtListFeed
  <2>2. CASE bt.echo
    <3>1. HeardFine([bt EXCEPT !.closed = TRUE]) BY DEF HeardFine, Listening
    <3>2. HeardFine([Noted("busy") EXCEPT !.busy = TRUE, !.closed = TRUE])
      BY <1>1 DEF Reply
    <3>3. ASSUME line.k = "ignItem", Len(bt.items) < IgnoreMax
          PROVE  HeardFine([bt EXCEPT !.items = Append(@, [n |-> line.n, x |-> line.x])])
      <4> DEFINE items == Append(bt.items, [n |-> line.n, x |-> line.x])
      <4>1. [n |-> line.n, x |-> line.x] \in Item BY <1>0, <3>3 DEF LineFits, Item
      <4>2. bt.items \in Seq(Item) BY DEF HeardFine, Listening
      <4>3. items \in Seq(Item) /\ Len(items) = Len(bt.items) + 1 BY <4>1, <4>2
      <4>4. Len(items) <= IgnoreMax BY <3>3, <4>2, <4>3, ToolsAssumption
      <4>5. [bt EXCEPT !.items = Append(@, [n |-> line.n, x |-> line.x])] = [bt EXCEPT !.items = items]
        OBVIOUS
      <4> HIDE DEF items
      <4> QED BY <4>3, <4>4, <4>5 DEF HeardFine, Listening
    <3>4. HeardFine(BtListFeed(line)) BY <2>2, <3>1, <3>2, <3>3 DEF BtListFeed
    <3> QED BY <1>2, <3>4 DEF BtFeed
  <2> QED BY <2>1, <2>2
<1>3. CASE bt.listen = "Reply"
  <2>1. line.k = "splitIs" => HeardFine([bt EXCEPT !.size = line.x, !.sized = TRUE])
    BY <1>0 DEF LineFits, HeardFine, Listening
  <2>2. HeardFine(BtReplyFeed(line)) BY <1>1, <2>1 DEF BtReplyFeed
  <2> QED BY <1>3, <2>2 DEF BtFeed
<1>4. CASE ~(bt.listen = "List" /\ ~bt.closed) /\ bt.listen # "Reply"
  BY <1>4 DEF BtFeed
<1> QED BY <1>2, <1>3, <1>4

\* A command without an argument is a command.
LEMMA CmdType ==
  ASSUME NEW c \in CmdKind, c \notin {"ignAdd", "rm", "join"}
  PROVE  Cmd(c) \in Command
  BY DEF Cmd, Command, CmdFits, Names, CmdKind

\* A line without an argument is a line the board can say.
LEMMA LineType ==
  ASSUME NEW k \in LineKind,
         k \notin {"uploading", "side", "log", "connected", "using", "wifiRow", "ap",
                   "ignItem", "splitIs"}
  PROVE  Line(k) \in Spoken
  BY DEF Line, Spoken, LineFits, Names

\* So is a line that names a file, a network or a size.
LEMMA LineOfType ==
  /\ \A f \in LogNames : /\ LineOf("uploading", 0, f) \in Spoken
                         /\ LineOf("side", 0, f) \in Spoken
                         /\ LineOf("log", 0, f) \in Spoken
                         /\ LineOf("file", 0, f) \in Spoken
  /\ \A s \in Ssids : /\ LineOf("connected", 0, s) \in Spoken
                      /\ LineOf("using", 0, s) \in Spoken
                      /\ LineOf("wifiRow", 0, s) \in Spoken
                      /\ LineOf("added", 0, s) \in Spoken
                      /\ \A i \in Indices : LineOf("ap", i, s) \in Spoken
                      /\ \A i \in 1..IgnoreMax : LineOf("ignItem", i, s) \in Spoken
  /\ \A kb \in Sizes : LineOf("splitIs", 0, kb) \in Spoken
  /\ \A i \in Nat : LineOf("joinEcho", i, "-") \in Spoken /\ LineOf("removed", i, "-") \in Spoken
<1>1. Indices \subseteq Nat /\ IgnoreMax \in Nat BY JoinAssumption, ToolsAssumption
<1>2. ASSUME NEW k \in LineKind, NEW n \in Nat, NEW x \in Names, LineFits([k |-> k, n |-> n, x |-> x])
      PROVE  LineOf(k, n, x) \in Spoken
  BY <1>2 DEF LineOf, Spoken
<1>3. ASSUME NEW f \in LogNames, NEW k \in {"uploading", "side", "log", "file"}
      PROVE  LineOf(k, 0, f) \in Spoken
  BY <1>2 DEF LineFits, Names, LineKind
<1>4. ASSUME NEW s \in Ssids, NEW k \in {"connected", "using", "wifiRow", "added"}
      PROVE  LineOf(k, 0, s) \in Spoken
  BY <1>2 DEF LineFits, Names, LineKind
<1>5. ASSUME NEW s \in Ssids, NEW i \in Indices
      PROVE  LineOf("ap", i, s) \in Spoken
  BY <1>1, <1>2 DEF LineFits, Names, LineKind
<1>6. ASSUME NEW s \in Ssids, NEW i \in 1..IgnoreMax
      PROVE  LineOf("ignItem", i, s) \in Spoken
  BY <1>1, <1>2 DEF LineFits, Names, LineKind
<1>7. ASSUME NEW kb \in Sizes PROVE LineOf("splitIs", 0, kb) \in Spoken
  BY <1>2 DEF LineFits, Names, LineKind
<1>8. ASSUME NEW i \in Nat, NEW k \in {"joinEcho", "removed"} PROVE LineOf(k, i, "-") \in Spoken
  BY <1>2 DEF LineFits, Names, LineKind
<1> QED BY <1>3, <1>4, <1>5, <1>6, <1>7, <1>8

\* What the join screen has pending is a command, and never an upload.
LEMMA PendType ==
  ASSUME NEW j \in JoinScreen
  PROVE  j.pend \in Command /\ j.pend.c # "upload"
<1>1. /\ j.pend \in {NoCmd} \cup [c : {"wifi", "stopscan", "scanall", "list", "channel"}, n : {0}, x : {"-"}]
                          \cup [c : {"join"}, n : Indices, x : {"-"}]
      /\ Indices \subseteq Nat
  BY JoinAssumption DEF JoinScreen
<1>2. NoCmd \in Command /\ NoCmd.c = "none" BY DEF NoCmd, Cmd, Command, CmdFits, Names, CmdKind
<1>3. ASSUME NEW c \in {"wifi", "stopscan", "scanall", "list", "channel"}
      PROVE  [c |-> c, n |-> 0, x |-> "-"] \in Command
  BY DEF Command, CmdFits, Names, CmdKind
<1>4. ASSUME NEW i \in Indices PROVE [c |-> "join", n |-> i, x |-> "-"] \in Command
  BY <1>1 DEF Command, CmdFits, Names, CmdKind
<1> QED BY <1>1, <1>2, <1>3, <1>4

\* Leaving the menu for a screen keeps the link's types.
LEMMA AskType ==
  ASSUME LinkFine, NEW screen \in Screen, NEW inTime, Ask(screen, inTime)
  PROVE  /\ scene' \in [at : Screen, half : BOOLEAN]
         /\ play' \in PlaySet
         /\ ghost' \in [rushed : BOOLEAN, lost : BOOLEAN]
<1>1. scene' \in [at : Screen, half : BOOLEAN] BY DEF LinkFine, Ask
<1>p. play.acts - 1 \in Nat /\ play' = [play EXCEPT !.acts = play.acts - 1] /\ play \in PlaySet
  BY DEF LinkFine, Ask, PlaySet
<1>4. play' \in PlaySet BY <1>p DEF PlaySet
<1> DEFINE b == ghost.rushed \/ ~inTime
<1>2. ghost' = [ghost EXCEPT !.rushed = b] /\ b \in BOOLEAN BY DEF LinkFine, Ask
<1> HIDE DEF b
<1>3. ghost' \in [rushed : BOOLEAN, lost : BOOLEAN] BY <1>2 DEF LinkFine
<1> QED BY <1>1, <1>3, <1>4

\* Filling the slot keeps its type.
LEMMA SendType ==
  ASSUME LinkFine, NEW c \in Command, Send(c)
  PROVE  slot' \in Command
  BY DEF LinkFine, Send

\* What the board says is appended to the lines under way.
LEMMA SayType ==
  ASSUME LinkFine, NEW lines \in Seq(Spoken), Say(lines)
  PROVE  rx' \in Seq(Spoken)
  BY DEF LinkFine, Say

\* A set of lines is put in an order.
LEMMA OrderType ==
  ASSUME NEW S, IsFiniteSet(S), S \subseteq Spoken, NEW f \in AnyOrder(S)
  PROVE  f \in Seq(Spoken)
<1>1. Cardinality(S) \in Nat BY FS_CardinalityType
<1>2. f \in [1..Cardinality(S) -> S] BY Zenon DEF AnyOrder, SetToSeqs
<1> QED BY <1>1, <1>2

\* The rows of a wifi table are finitely many lines: they can be said in any
\* order.
LEMMA RowsFinite ==
  ASSUME NEW rows \in SUBSET Row
  PROVE  /\ IsFiniteSet({LineOf("ap", r.n, r.x) : r \in rows})
         /\ {LineOf("ap", r.n, r.x) : r \in rows} \subseteq Spoken
<1> DEFINE lines == {LineOf("ap", r.n, r.x) : r \in rows}
           f == [r \in rows |-> LineOf("ap", r.n, r.x)]
           g == [p \in Indices \X Ssids |-> [n |-> p[1], x |-> p[2]]]
<1>1. IsFiniteSet(Indices \X Ssids) BY JoinAssumption, FS_Product
<1>2. g \in Surjection(Indices \X Ssids, Row)
  <2>1. \A p \in Indices \X Ssids : g[p] \in Row BY DEF Row
  <2>2. ASSUME NEW r \in Row PROVE \E p \in Indices \X Ssids : g[p] = r
    <3>1. <<r.n, r.x>> \in Indices \X Ssids /\ r = [n |-> r.n, x |-> r.x] BY DEF Row
    <3> QED BY <3>1
  <2> QED BY <2>1, <2>2 DEF Surjection
<1>3. IsFiniteSet(Row) BY <1>1, <1>2, FS_Surjection
<1>4. IsFiniteSet(rows) BY <1>3, FS_Subset
<1>5. f \in Surjection(rows, lines) BY DEF Surjection
<1>6. IsFiniteSet(lines) BY <1>4, <1>5, FS_Surjection
<1>7. lines \subseteq Spoken BY LineOfType DEF Row
<1> QED BY <1>6, <1>7

\* So are the lines that name some of the networks.
LEMMA NamesFinite ==
  ASSUME NEW S \in SUBSET Ssids, NEW k \in {"using", "wifiRow"}
  PROVE  /\ IsFiniteSet({LineOf(k, 0, x) : x \in S})
         /\ {LineOf(k, 0, x) : x \in S} \subseteq Spoken
<1> DEFINE lines == {LineOf(k, 0, x) : x \in S}
           f == [x \in S |-> LineOf(k, 0, x)]
<1>1. IsFiniteSet(S) BY JoinAssumption, FS_Subset
<1>2. f \in Surjection(S, lines) BY DEF Surjection
<1>3. IsFiniteSet(lines) BY <1>1, <1>2, FS_Surjection
<1>4. lines \subseteq Spoken BY LineOfType
<1> QED BY <1>3, <1>4

\* AllFine, part by part.
LEMMA FineParts ==
  AllFine <=>
    /\ LinkFine
    /\ up \in Flight /\ pg \in Page /\ cap \in Capture /\ LogsFine(logs)
    /\ board \in UploadBoard
    /\ JoinFine(jn) /\ li \in Listener /\ radio \in Radio
    /\ ToolFine(tl) /\ HeardFine(bt) /\ KeepFine
  BY Zenon DEF AllFine

\* What only touches the line and the tally keeps the rest.
LEMMA RestFine ==
  ASSUME AllFine, LinkFine', UNCHANGED <<uploadVars, board, rest>>
  PROVE  AllFine'
  BY Zenon DEF AllFine, uploadVars, rest, joinVars, KeepFine

\* Every initial state has its types.
LEMMA InitFine == Init => AllFine
<1> SUFFICES ASSUME Init PROVE AllFine
  OBVIOUS
<1>0. LinkInit /\ UploadInit /\ JoinInit /\ ToolsInit BY DEF Init
<1>1. /\ play \in PlaySet
      /\ play.card \in Seq(Entry)
      /\ play.ign \in Seq(Ssids) /\ Len(play.ign) <= IgnoreMax
  BY <1>0, PanelAssumption, UploadAssumption, ToolsAssumption DEF LinkInit, Play, PlaySet
<1>2. <<>> \in Seq(Command) /\ <<>> \in Seq(Spoken) /\ NoCmd \in Command
  BY CmdType DEF NoCmd, CmdKind
<1>3. LinkFine
  <2>1. model = [session |-> "Idle", fw |-> play.fw] /\ play.fw \in Peer
    BY <1>0, <1>1 DEF LinkInit, PlaySet
  <2> QED BY <1>0, <1>1, <1>2, <2>1 DEF LinkFine, LinkInit, Screen, PanelSession
<1>4. up \in Flight
  <2>1. [f \in LogNames |-> "-"] \in [LogNames -> Outcome] /\ {} \in SUBSET Why
    BY DEF Outcome
  <2> DEFINE done == [f \in LogNames |-> "-"]
  <2>2. up = [face |-> "Idle", flight |-> FALSE, walked |-> FALSE, ok |-> FALSE,
             succeeded |-> FALSE, skip |-> FALSE, fail |-> FALSE, why |-> {},
             open |-> FALSE, fileOk |-> FALSE, fileFail |-> FALSE, nOk |-> 0,
             nFail |-> 0, name |-> NoName, failName |-> NoName,
             wifiOk |-> FALSE, wifiJoined |-> FALSE, joined |-> NoName,
             done |-> done]
    BY <1>0, Zenon DEF UploadInit
  <2> HIDE DEF done
  <2> QED BY <2>1, <2>2 DEF Flight, Face, done
<1>5. pg \in Page /\ cap \in Capture BY <1>0 DEF UploadInit, Page, Capture
<1>6. LogsFine(logs)
  <2>1. logs = LogsReset BY <1>0 DEF UploadInit
  <2>2. IsFiniteSet({}) /\ Cardinality({}) = 0 BY FS_EmptySet
  <2>3. <<>> \in Seq([name : LogNames, sent : BOOLEAN]) /\ Len(<<>>) = 0 OBVIOUS
  <2> QED BY <2>1, <2>2, <2>3, MauLogsAssumption DEF LogsFine, LogsReset, LogRecord, LogPhase
<1>7. board \in UploadBoard
  <2>1. <<>> \in Seq(LogNames) OBVIOUS
  <2> QED BY <1>0, <1>1, <2>1 DEF UploadInit, UploadBoard
<1>8. JoinFine(jn) /\ li \in Listener /\ radio \in Radio
  <2>1. jn \in JoinScreen BY <1>0 DEF JoinInit, JoinScreen, Phase, NoRow
  <2>2. jn.phase = "Blocked" BY <1>0 DEF JoinInit
  <2>3. Listen("Off") \in Listener BY ListenType DEF Mode
  <2>4. radio \in Radio BY <1>0 DEF JoinInit, Radio
  <2> QED BY <1>0, <2>1, <2>2, <2>3, <2>4 DEF JoinFine, JoinInit
<1>9. ToolFine(tl) /\ HeardFine(bt) /\ KeepFine
  <2>1. ToolFine(ToolsFresh)
    BY <1>2 DEF ToolFine, ToolsFresh, ToolScreen, ToolPage, Wait, ToolWord, NoItem, NoCmd, Cmd
  <2>2. HeardFine(BtReset)
    <3>1. <<>> \in Seq(Item) /\ Len(<<>>) = 0 OBVIOUS
    <3> QED BY <3>1, ToolsAssumption DEF HeardFine, BtReset, Listening, Reply
  <2>3. KeepFine BY <1>0, <1>1 DEF ToolsInit, KeepFine
  <2> QED BY <1>0, <2>1, <2>2, <2>3 DEF ToolsInit
<1> QED BY <1>3, <1>4, <1>5, <1>6, <1>7, <1>8, <1>9 DEF AllFine

\* The worker writing the slot keeps the types.
LEMMA WriteType == ASSUME AllFine, Write PROVE AllFine'
<1>1. LinkFine'
  BY DEF AllFine, LinkFine, Write, WriteSlot, NoCmd, Cmd, Command, CmdKind, CmdFits, Names, tally
<1>2. UNCHANGED <<uploadVars, board, rest>> BY DEF Write
<1> QED BY <1>1, <1>2, RestFine

\* A lost line keeps the types.
LEMMA LoseType == ASSUME AllFine, Lose PROVE AllFine'
<1>0. play.losses - 1 \in Nat /\ play' = [play EXCEPT !.losses = play.losses - 1] /\ play \in PlaySet
  BY DEF AllFine, LinkFine, Lose, LoseLine, PlaySet
<1>1. play' \in PlaySet BY <1>0 DEF PlaySet
<1>2. LinkFine'
  <2>1. /\ rx # <<>> /\ rx' = Tail(rx) /\ ghost' = [ghost EXCEPT !.lost = TRUE]
        /\ UNCHANGED <<scene, slot, tx, model>> /\ LinkFine
    BY Zenon DEF AllFine, Lose, LoseLine
  <2>2. rx' \in Seq(Spoken) BY <2>1 DEF LinkFine
  <2>3. ghost' \in [rushed : BOOLEAN, lost : BOOLEAN] BY <2>1 DEF LinkFine
  <2> QED BY <1>1, <2>1, <2>2, <2>3 DEF LinkFine
<1>3. UNCHANGED <<uploadVars, board, rest>> BY DEF Lose
<1> QED BY <1>2, <1>3, RestFine

\* A line applied to every screen's state keeps the types.
LEMMA ApplyType == ASSUME AllFine, Apply PROVE AllFine'
<1> DEFINE line == Head(rx)
<1>0. /\ LinkFine /\ line \in Spoken /\ rx # <<>> /\ rx' = Tail(rx)
      /\ up \in Flight /\ LogsFine(logs) /\ li \in Listener /\ JoinFine(jn) /\ HeardFine(bt)
      /\ Heard(line)
      /\ UNCHANGED <<scene, slot, tx, play, ghost, pg, cap, board, radio, tl, keep>>
  BY DEF AllFine, LinkFine, Apply, tally
<1> HIDE DEF line
<1>1. up' \in Flight BY <1>0, UpFeedType DEF Heard
<1>2. LogsFine(logs')
  <2>1. LogsFine(LogsInvalidate(logs)) BY <1>0, LogsTypes
  <2>2. LogsFine(LogsFeed(logs, line)) BY <1>0, LogsFeedType
  <2> QED BY <1>0, <2>1, <2>2 DEF Heard
<1>3. li' \in Listener BY <1>0, ObserveType DEF Heard
<1>4. HeardFine(bt') BY <1>0, BtFeedType DEF Heard
<1>5. JoinFine(jn') BY <1>0 DEF Heard, JoinFine, JoinScreen
<1>6. model' \in [session : PanelSession, fw : Peer]
  BY <1>0 DEF Heard, LinkFine, SessionAfter, PanelSession
<1>7. LinkFine' BY <1>0, <1>6 DEF LinkFine
<1>8. /\ pg' \in Page /\ cap' \in Capture /\ board' \in UploadBoard
      /\ radio' \in Radio /\ ToolFine(tl') /\ KeepFine'
  BY <1>0, Zenon DEF AllFine, KeepFine
<1> QED BY <1>1, <1>2, <1>3, <1>4, <1>5, <1>7, <1>8, AllFineNext

-----------------------------------------------------------------------------
(* Types: the Upload screen and its board.                                 *)

\* A step of the Upload screen: what it may touch is fine, the rest as it was.
LEMMA UploadKeeps ==
  ASSUME AllFine, UNCHANGED <<rest, board, model, tx, rx>>, UNCHANGED rest,
         scene' \in [at : Screen, half : BOOLEAN], play' \in PlaySet,
         ghost' \in [rushed : BOOLEAN, lost : BOOLEAN], slot' \in Command,
         up' \in Flight, pg' \in Page, cap' \in Capture, LogsFine(logs')
  PROVE  AllFine'
<1>1. LinkFine' BY DEF AllFine, LinkFine
<1>2. /\ board' \in UploadBoard /\ JoinFine(jn') /\ li' \in Listener /\ radio' \in Radio
      /\ ToolFine(tl') /\ HeardFine(bt') /\ KeepFine'
  BY Zenon DEF AllFine, KeepFine, rest, joinVars
<1> QED BY <1>1, <1>2, AllFineNext

\* Entering the upload scene keeps the types it changes.
LEMMA EnteredType ==
  ASSUME AllFine, UploadEntered
  PROVE  up' \in Flight /\ LogsFine(logs') /\ pg' \in Page /\ slot' \in Command
<1>0. up \in Flight /\ pg \in Page /\ LinkFine /\ LogsFine(logs) BY DEF AllFine
<1>1. up' \in Flight BY <1>0, FlightTypes DEF UploadEntered
<1>2. LogsFine(logs') BY <1>0, LogsTypes DEF UploadEntered
<1>3. LastShown \in {"None", "Bad", "Ok"} BY <1>0 DEF LastShown, Page
<1>4. pg' \in Page
  <2>1. up.flight \in BOOLEAN BY <1>0 DEF Flight
  <2>2. pg' = [pg EXCEPT !.page = "Result", !.block = "None", !.retry = FALSE,
                        !.flew = up.flight, !.stored = FALSE, !.refresh = FALSE,
                        !.last = LastShown]
    BY DEF UploadEntered
  <2> QED BY <1>0, <1>3, <2>1, <2>2 DEF Page
<1>5. Cmd("sigroam") \in Command BY CmdType DEF CmdKind
<1>6. slot' \in Command BY <1>0, <1>5, SendType DEF UploadEntered, LinkFine
<1> QED BY <1>1, <1>2, <1>4, <1>6

\* Pressing Go keeps the types it changes.
LEMMA TryGoType ==
  ASSUME AllFine, TryGo
  PROVE  up' \in Flight /\ pg' \in Page /\ cap' \in Capture /\ slot' \in Command
<1>0. up \in Flight /\ pg \in Page /\ LinkFine /\ cap \in Capture BY DEF AllFine
<1>1. up' \in Flight BY <1>0, FlightTypes DEF TryGo
<1>2. Cmd("upload") \in Command BY CmdType DEF CmdKind
<1>3. slot' \in Command BY <1>0, <1>2, SendType DEF TryGo
<1> DEFINE full == ~Free
<1>4. full \in BOOLEAN /\ pg' = [pg EXCEPT !.retry = full] BY DEF TryGo
<1>5. pg' \in Page
  <2> HIDE DEF full
  <2> QED BY <1>0, <1>4 DEF Page
<1>6. cap' \in Capture
  <2>1. CapBegin \/ cap' = cap BY DEF TryGo
  <2>2. CapBegin => cap' \in Capture BY DEF CapBegin, Capture
  <2> QED BY <1>0, <2>1, <2>2
<1> QED BY <1>1, <1>3, <1>5, <1>6

\* The upload scene's key handlers keep the types.
LEMMA UploadUserType == ASSUME AllFine, UploadUser PROVE AllFine'
<1>0. /\ up \in Flight /\ pg \in Page /\ cap \in Capture /\ LogsFine(logs) /\ LinkFine
      /\ scene \in [at : Screen, half : BOOLEAN] /\ play \in PlaySet /\ slot \in Command
      /\ ghost \in [rushed : BOOLEAN, lost : BOOLEAN]
  BY DEF AllFine, LinkFine
<1>r. UNCHANGED rest BY DEF UploadUser
<1>1. CASE EnterUpload
  <2>1. UploadEntered /\ UNCHANGED <<tx, rx, model, cap, board>> BY <1>1 DEF EnterUpload
  <2>2. /\ scene' \in [at : Screen, half : BOOLEAN] /\ play' \in PlaySet
        /\ ghost' \in [rushed : BOOLEAN, lost : BOOLEAN]
    BY <1>0, <1>1, AskType DEF EnterUpload, Goto, tally, Screen
  <2> QED BY <1>0, <1>r, <2>1, <2>2, EnteredType, UploadKeeps
<1>2. CASE UploadBack
  <2>1. pg' \in Page /\ LogsFine(logs') BY <1>0, <1>2, LogsTypes DEF UploadBack, Page
  <2>2. scene' \in [at : Screen, half : BOOLEAN] BY <1>0, <1>2 DEF UploadBack, Goto, Screen
  <2>3. UNCHANGED <<slot, tx, rx, model, play, ghost, up, cap, board>>
    BY <1>2 DEF UploadBack, link, tally
  <2> QED BY <1>0, <1>r, <2>1, <2>2, <2>3, UploadKeeps
<1>3. CASE UploadHelp
  <2>1. pg' \in Page BY <1>0, <1>3 DEF UploadHelp, Page
  <2>3. UNCHANGED <<slot, tx, rx, scene, model, play, ghost, up, cap, logs, board>>
    BY <1>3 DEF UploadHelp, link, tally
  <2> QED BY <1>0, <1>r, <2>1, <2>3, UploadKeeps
<1>4. CASE UploadLogs(JoinBusy)
  <2>1. UNCHANGED <<tx, rx, model, up, cap, board>> /\ Ask("upload", Answered) /\ "upload" \in Screen
    BY <1>4 DEF UploadLogs, Screen
  <2>2. \E b \in {"Scan", "Upload", "Join", "None", "Busy"} : pg' = [pg EXCEPT !.block = b]
    BY <1>4 DEF UploadLogs
  <2>3. pg' \in Page BY <1>0, <2>2 DEF Page
  <2>4. LogsFine(logs') BY <1>0, <1>4, LogsTypes DEF UploadLogs
  <2>5. Cmd("ls") \in Command BY CmdType DEF CmdKind
  <2>6. slot' \in Command BY <1>0, <1>4, <2>5, SendType DEF UploadLogs
  <2> QED BY <1>0, <1>r, <2>1, <2>3, <2>4, <2>6, AskType, UploadKeeps
<1>5. CASE UploadGo
  <2>1. UNCHANGED <<tx, rx, model, logs, board>> /\ Ask("upload", Answered) /\ "upload" \in Screen
    BY <1>5 DEF UploadGo, Screen
  <2>2. up' \in Flight /\ pg' \in Page /\ cap' \in Capture /\ slot' \in Command
    <3>1. [pg EXCEPT !.retry = FALSE] \in Page BY <1>0 DEF Page
    <3> QED BY <1>0, <1>5, <3>1, TryGoType DEF UploadGo
  <2> QED BY <1>0, <1>r, <2>1, <2>2, AskType, UploadKeeps
<1> QED BY <1>1, <1>2, <1>3, <1>4, <1>5 DEF UploadUser

\* The upload scene's ticks keep the types.
LEMMA UploadTicksType == ASSUME AllFine, UploadTicks PROVE AllFine'
<1>0. /\ up \in Flight /\ pg \in Page /\ cap \in Capture /\ LogsFine(logs) /\ LinkFine
      /\ scene \in [at : Screen, half : BOOLEAN] /\ play \in PlaySet /\ slot \in Command
      /\ ghost \in [rushed : BOOLEAN, lost : BOOLEAN]
  BY DEF AllFine, LinkFine
<1>r. UNCHANGED rest BY DEF UploadTicks
<1>1. CASE UploadTickFirst
  <2>1. UNCHANGED <<tx, rx, model, play, ghost, up, cap, board>> BY <1>1 DEF UploadTickFirst, tally
  <2>2. pg' \in Page
    <3>1. PICK wrote \in {"Ok", "Bad", "refused"} :
         pg' = [pg EXCEPT
               !.flew = @ \/ FlewDue,
               !.stored = (@ /\ ~FlewDue) \/ StoreDue,
               !.refresh = (@ /\ ~FlewDue) \/ RefreshDue,
               !.last = IF ~StoreDue THEN @ ELSE IF wrote = "Ok" THEN "Ok" ELSE "Bad",
               !.file = IF StoreDue /\ wrote # "refused" THEN wrote ELSE @]
      BY <1>1, Zenon DEF UploadTickFirst
    <3> DEFINE flew == pg.flew \/ FlewDue
               stored == (pg.stored /\ ~FlewDue) \/ StoreDue
               fresh == (pg.refresh /\ ~FlewDue) \/ RefreshDue
               last == IF ~StoreDue THEN pg.last ELSE IF wrote = "Ok" THEN "Ok" ELSE "Bad"
               file == IF StoreDue /\ wrote # "refused" THEN wrote ELSE pg.file
    <3>2. flew \in BOOLEAN /\ stored \in BOOLEAN /\ fresh \in BOOLEAN OBVIOUS
    <3>3. last \in {"None", "Bad", "Ok"} /\ file \in {"None", "Bad", "Ok"} BY <1>0 DEF Page
    <3>4. pg' = [pg EXCEPT !.flew = flew, !.stored = stored, !.refresh = fresh,
                           !.last = last, !.file = file]
      BY <1>0, <3>1 DEF Page
    <3> HIDE DEF flew, stored, fresh, last, file
    <3> QED BY <1>0, <3>2, <3>3, <3>4 DEF Page
  <2>3. Cmd("sigroam") \in Command /\ Cmd("channel") \in Command BY CmdType DEF CmdKind
  <2>4. slot' \in Command BY <1>0, <1>1, <2>3, SendType DEF UploadTickFirst
  <2>5. LogsFine(logs') BY <1>0, <1>1, LogsTypes DEF UploadTickFirst
  <2> DEFINE half == pg.retry /\ ~RefreshDue
  <2>6. scene' = [scene EXCEPT !.half = half] /\ half \in BOOLEAN BY <1>1 DEF UploadTickFirst
  <2> HIDE DEF half
  <2>7. scene' \in [at : Screen, half : BOOLEAN] BY <1>0, <2>6
  <2> QED BY <1>0, <1>r, <2>1, <2>2, <2>4, <2>5, <2>7, UploadKeeps
<1>2. CASE UploadTickRetry
  <2>1. UNCHANGED <<tx, rx, model, play, ghost, logs, board>> BY <1>2 DEF UploadTickRetry, tally
  <2>2. up' \in Flight /\ pg' \in Page /\ cap' \in Capture /\ slot' \in Command
    <3>1. [pg EXCEPT !.retry = FALSE] \in Page BY <1>0 DEF Page
    <3> QED BY <1>0, <1>2, <3>1, TryGoType DEF UploadTickRetry
  <2>3. scene' \in [at : Screen, half : BOOLEAN] BY <1>0, <1>2 DEF UploadTickRetry
  <2> QED BY <1>0, <1>r, <2>1, <2>2, <2>3, UploadKeeps
<1>3. CASE CapMark \/ CapDisarm
  <2>1. UNCHANGED <<slot, tx, rx, scene, model, play, ghost, up, pg, logs, board>>
    BY <1>3 DEF CapMark, CapDisarm, link, tally
  <2>2. cap' \in Capture
    <3>1. CapMark => cap' \in Capture BY <1>0 DEF CapMark, Capture
    <3>2. CapDisarm => cap' \in Capture BY DEF CapDisarm, Capture
    <3> QED BY <1>3, <3>1, <3>2
  <2> QED BY <1>0, <1>r, <2>1, <2>2, UploadKeeps
<1> QED BY <1>1, <1>2, <1>3 DEF UploadTicks

\* Time passing for a capture keeps the types.
LEMMA CapTimeType == ASSUME AllFine, CapTime, UNCHANGED rest PROVE AllFine'
<1>0. /\ up \in Flight /\ pg \in Page /\ cap \in Capture /\ LogsFine(logs) /\ LinkFine
      /\ scene \in [at : Screen, half : BOOLEAN] /\ play \in PlaySet /\ slot \in Command
      /\ ghost \in [rushed : BOOLEAN, lost : BOOLEAN]
  BY DEF AllFine, LinkFine
<1>1. UNCHANGED <<slot, tx, rx, scene, model, play, ghost, up, pg, logs, board>>
  BY DEF CapTime, link, tally
<1>2. cap' \in Capture BY <1>0 DEF CapTime, Capture
<1> QED BY <1>0, <1>1, <1>2, UploadKeeps

\* The board uploads a sequence of the logs on the card.
LEMMA FilesType ==
  ASSUME board \in UploadBoard
  PROVE  Files \in Seq(LogNames)
<1> DEFINE Logs == [k : {"log"}, n : {0}, x : LogNames]
           logsOf == Among(board.dir, Logs)
<1>1. board.dir \in Seq(Entry) BY DEF UploadBoard
<1>2. logsOf \in Seq(Entry \cap Logs) BY <1>1, AmongType
<1>3. \A e \in Entry \cap Logs : e.x \in LogNames BY DEF Entry
<1>4. Files = [i \in DOMAIN logsOf |-> logsOf[i].x] BY DEF Files
<1> HIDE DEF logsOf
<1>5. DOMAIN logsOf = 1..Len(logsOf) /\ Len(logsOf) \in Nat BY <1>2
<1>6. \A i \in 1..Len(logsOf) : logsOf[i] \in Entry \cap Logs
  <2> DEFINE E == Entry \cap Logs
  <2>1. logsOf \in Seq(E) BY <1>2
  <2> HIDE DEF E, Logs
  <2>2. \A i \in 1..Len(logsOf) : logsOf[i] \in E BY <2>1
  <2> QED BY <2>2 DEF E
<1>7. \A i \in 1..Len(logsOf) : logsOf[i].x \in LogNames BY <1>3, <1>6
<1> HIDE DEF Logs
<1> QED BY <1>4, <1>5, <1>7

\* What the board says of one file is a sequence of its lines.
LEMMA FileLinesType ==
  ASSUME NEW how \in DOMAIN FileLines
  PROVE  /\ how \in {"sent", "skipped", "failed", "silent"}
         /\ FileLines[how] \subseteq Seq(Spoken)
<1>1. how \in {"sent", "skipped", "failed", "silent"} BY DEF FileLines
<1>2. /\ Line("succeeded") \in Spoken /\ Line("uploadOk") \in Spoken /\ Line("failed") \in Spoken
      /\ Line("noReply") \in Spoken /\ Line("skipped") \in Spoken
  BY LineType DEF LineKind
<1>3. \A why \in Causes : Line(why) \in Spoken BY LineType, UploadAssumption DEF LineKind
<1>4. FileLines["sent"] \subseteq Seq(Spoken) BY <1>2 DEF FileLines
<1>5. FileLines["skipped"] \subseteq Seq(Spoken) /\ FileLines["silent"] \subseteq Seq(Spoken)
  BY <1>2 DEF FileLines
<1>6. FileLines["failed"] \subseteq Seq(Spoken)
  <2>1. FileLines["failed"] = {<<Line("failed")>>} \cup {<<Line(why), Line("failed")>> : why \in Causes}
    BY DEF FileLines
  <2>2. <<Line("failed")>> \in Seq(Spoken) BY <1>2
  <2>3. \A why \in Causes : <<Line(why), Line("failed")>> \in Seq(Spoken) BY <1>2, <1>3
  <2> QED BY <2>1, <2>2, <2>3
<1> QED BY <1>1, <1>4, <1>5, <1>6

\* A step of the board: what it may touch is fine, the rest as it was.
LEMMA BoardKeeps ==
  ASSUME AllFine, UNCHANGED <<scene, slot, model, ghost, pg, cap, logs, jn, li, tl, bt>>,
         play' \in PlaySet, tx' \in Seq(Command), rx' \in Seq(Spoken),
         up' \in Flight, board' \in UploadBoard, radio' \in Radio, KeepFine'
  PROVE  AllFine'
<1>1. LinkFine' BY DEF AllFine, LinkFine
<1>2. /\ pg' \in Page /\ cap' \in Capture /\ LogsFine(logs')
      /\ JoinFine(jn') /\ li' \in Listener /\ ToolFine(tl') /\ HeardFine(bt')
  BY Zenon DEF AllFine
<1> QED BY <1>1, <1>2, AllFineNext

\* The board's upload job keeps the types.
LEMMA UploadBoardType ==
  ASSUME AllFine, UploadFile \/ UploadNoKey \/ UploadComplete, UNCHANGED rest
  PROVE  AllFine'
<1>0. /\ up \in Flight /\ LinkFine /\ board \in UploadBoard /\ play \in PlaySet
      /\ tx \in Seq(Command) /\ radio \in Radio /\ KeepFine
  BY DEF AllFine, LinkFine
<1>u. /\ UNCHANGED <<scene, slot, model, ghost, pg, cap, logs, jn, li, tl, bt>>
      /\ UNCHANGED <<play, tx, radio, keep>>
  BY Zenon DEF UploadFile, UploadNoKey, UploadComplete, tally, uploadVars, rest, joinVars
<1>k. KeepFine' BY <1>0, <1>u DEF KeepFine
<1>1. CASE UploadFile
  <2> DEFINE f == Head(board.left)
  <2>1. PICK how \in DOMAIN FileLines :
             /\ \E lines \in FileLines[how] : Say(<<LineOf("uploading", 0, f)>> \o lines)
             /\ board' = [board EXCEPT !.left = Tail(@),
                                       !.dir = IF how = "sent" THEN Append(@, Sidecar(f)) ELSE @]
             /\ up' = [up EXCEPT !.done[f] = how]
    BY <1>1 DEF UploadFile
  <2>2. f \in LogNames /\ Tail(board.left) \in Seq(LogNames)
    <3>1. board.left \in Seq(LogNames) /\ board.left # <<>>
      BY <1>0, <1>1 DEF UploadFile, UploadBoard
    <3> QED BY <3>1
  <2>3. PICK lines \in FileLines[how] : Say(<<LineOf("uploading", 0, f)>> \o lines)
    BY <2>1
  <2> HIDE DEF f
  <2>4. lines \in Seq(Spoken) /\ how \in Outcome BY FileLinesType DEF Outcome
  <2>5. <<LineOf("uploading", 0, f)>> \o lines \in Seq(Spoken) BY <2>2, <2>4, LineOfType
  <2>6. rx' \in Seq(Spoken) BY <1>0, <2>3, <2>5, SayType
  <2>7. up' \in Flight
    <3>1. [up.done EXCEPT ![f] = how] \in [LogNames -> Outcome]
      BY <1>0, <2>2, <2>4 DEF Flight
    <3>2. up' = [up EXCEPT !.done = [up.done EXCEPT ![f] = how]] BY <2>1
    <3> QED BY <1>0, <3>1, <3>2 DEF Flight
  <2>8. board' \in UploadBoard
    <3>1. Sidecar(f) \in Entry BY <2>2 DEF Sidecar, LineOf, Entry
    <3>2. Append(board.dir, Sidecar(f)) \in Seq(Entry) BY <1>0, <3>1 DEF UploadBoard
    <3> HIDE DEF Entry
    <3> QED BY <1>0, <2>1, <2>2, <3>2 DEF UploadBoard
  <2> QED BY <1>0, <1>u, <1>k, <2>6, <2>7, <2>8, BoardKeeps
<1>2. CASE UploadNoKey
  <2> DEFINE f == Head(board.left)
  <2>1. f \in LogNames /\ Tail(board.left) \in Seq(LogNames)
    BY <1>0, <1>2 DEF UploadNoKey, UploadBoard
  <2>2. /\ Say(<<LineOf("uploading", 0, f), Line("noKey"), Line("failed")>>)
        /\ board' = [board EXCEPT !.left = Tail(@)] /\ up' = up
    BY <1>2 DEF UploadNoKey, uploadVars
  <2> HIDE DEF f
  <2>3. Line("noKey") \in Spoken /\ Line("failed") \in Spoken BY LineType DEF LineKind
  <2>4. <<LineOf("uploading", 0, f), Line("noKey"), Line("failed")>> \in Seq(Spoken)
    BY <2>1, <2>3, LineOfType
  <2>5. rx' \in Seq(Spoken) BY <1>0, <2>2, <2>4, SayType
  <2>6. board' \in UploadBoard BY <1>0, <2>1, <2>2 DEF UploadBoard
  <2> QED BY <1>0, <1>u, <1>k, <2>2, <2>5, <2>6, BoardKeeps
<1>3. CASE UploadComplete
  <2>1. Say(<<Line("complete")>>) /\ board' = [board EXCEPT !.job = "idle"] /\ up' = up
    BY <1>3 DEF UploadComplete, uploadVars
  <2>2. Line("complete") \in Spoken BY LineType DEF LineKind
  <2>3. <<Line("complete")>> \in Seq(Spoken) BY <2>2
  <2>4. rx' \in Seq(Spoken) BY <1>0, <2>1, <2>3, SayType
  <2>5. board' \in UploadBoard BY <1>0, <2>1 DEF UploadBoard
  <2> QED BY <1>0, <1>u, <1>k, <2>1, <2>4, <2>5, BoardKeeps
<1> QED BY <1>1, <1>2, <1>3

\* The board starting or stopping a scan keeps the types.
LEMMA WardType == ASSUME AllFine, BoardWard PROVE AllFine'
<1>0. /\ up \in Flight /\ LinkFine /\ board \in UploadBoard /\ play \in PlaySet
      /\ tx \in Seq(Command) /\ radio \in Radio /\ KeepFine
  BY DEF AllFine, LinkFine
<1>u. /\ UNCHANGED <<scene, slot, model, ghost, pg, cap, logs, jn, li, tl, bt>>
      /\ UNCHANGED <<up, tx, radio, board>>
  BY Zenon DEF BoardWard, uploadVars, joinVars
<1>1. /\ play.wards - 1 \in Nat /\ play' = [play EXCEPT !.wards = play.wards - 1]
      /\ keep' = [keep EXCEPT !.ward = ~keep.ward]
      /\ Say(<<Line(IF keep.ward THEN "stopped" ELSE "started")>>)
  BY <1>0 DEF BoardWard, PlaySet
<1>2. play' \in PlaySet BY <1>0, <1>1 DEF PlaySet
<1>3. Line("stopped") \in Spoken /\ Line("started") \in Spoken BY LineType DEF LineKind
<1>4. <<Line(IF keep.ward THEN "stopped" ELSE "started")>> \in Seq(Spoken) BY <1>3
<1>5. rx' \in Seq(Spoken) BY <1>0, <1>1, <1>4, SayType
<1> DEFINE b == ~keep.ward
<1>6. keep' = [keep EXCEPT !.ward = b] /\ b \in BOOLEAN BY <1>1
<1> HIDE DEF b
<1>7. KeepFine' BY <1>0, <1>6 DEF KeepFine
<1> QED BY <1>0, <1>u, <1>2, <1>5, <1>7, BoardKeeps

\* The board reading an upload or a log listing command keeps the types.
LEMMA ReadUploadsType ==
  ASSUME AllFine, NEW c \in Command, ReadUploads(c), UNCHANGED up
  PROVE  rx' \in Seq(Spoken) /\ board' \in UploadBoard
<1>0. /\ LinkFine /\ board \in UploadBoard /\ rx \in Seq(Spoken) /\ board.dir \in Seq(Entry)
  BY DEF AllFine, LinkFine, UploadBoard
<1>1. CASE c.c = "upload" /\ ReadUpload
  <2>1. CASE \E bad \in {<<Line("noCreds")>>, <<Line("unsupported")>>,
                          <<Line("unreached"), Line("unreached")>>} : Say(bad) /\ UNCHANGED board
    <3>1. Line("noCreds") \in Spoken /\ Line("unsupported") \in Spoken /\ Line("unreached") \in Spoken
      BY LineType DEF LineKind
    <3>2. {<<Line("noCreds")>>, <<Line("unsupported")>>,
           <<Line("unreached"), Line("unreached")>>} \subseteq Seq(Spoken)
      BY <3>1
    <3>3. PICK bad \in Seq(Spoken) : Say(bad) /\ UNCHANGED board BY <2>1, <3>2
    <3> QED BY <1>0, <3>3, SayType
  <2>2. CASE \E s \in Ssids : Say(<<LineOf("connected", 0, s)>>)
                 /\ \E job \in {"upload", "noKey"} : board' = [board EXCEPT !.job = job, !.left = Files]
    <3>1. PICK s \in Ssids, job \in {"upload", "noKey"} :
             /\ Say(<<LineOf("connected", 0, s)>>)
             /\ board' = [board EXCEPT !.job = job, !.left = Files]
      BY <2>2
    <3>2. LineOf("connected", 0, s) \in Spoken BY LineOfType
    <3>3. <<LineOf("connected", 0, s)>> \in Seq(Spoken) BY <3>2
    <3>4. Files \in Seq(LogNames) BY <1>0, FilesType
    <3>5. board' \in UploadBoard BY <1>0, <3>1, <3>4 DEF UploadBoard
    <3> QED BY <1>0, <3>1, <3>3, <3>5, SayType
  <2> QED BY <1>1, <2>1, <2>2 DEF ReadUpload
<1>2. CASE c.c = "ls" /\ (ReadLs \/ (Say(<<Line("lsEcho"), Line("busy")>>) /\ UNCHANGED board))
  <2>1. Line("lsEcho") \in Spoken /\ Line("noMount") \in Spoken /\ Line("busy") \in Spoken
    BY LineType DEF LineKind
  <2>2. Entry \subseteq Spoken BY DEF Entry, Spoken, LineFits, LineKind, Names
  <2>3. board.dir \in Seq(Spoken)
    <3> HIDE DEF Entry, Spoken
    <3> QED BY <1>0, <2>2
  <2>4. /\ <<Line("lsEcho"), Line("noMount")>> \in Seq(Spoken)
        /\ <<Line("lsEcho"), Line("busy")>> \in Seq(Spoken)
        /\ <<Line("lsEcho")>> \in Seq(Spoken)
    BY <2>1
  <2>5. <<Line("lsEcho")>> \o board.dir \in Seq(Spoken) BY <2>3, <2>4
  <2>6. UNCHANGED board BY <1>2 DEF ReadLs
  <2> QED BY <1>0, <1>2, <2>4, <2>5, <2>6, SayType DEF ReadLs
<1>3. CASE c.c = "channel" /\ ReadChannel
  <2>1. Line("chEcho") \in Spoken BY LineType DEF LineKind
  <2>2. <<Line("chEcho")>> \in Seq(Spoken) BY <2>1
  <2> QED BY <1>0, <1>3, <2>2, SayType DEF ReadChannel
<1>4. CASE c.c = "sigroam" /\ UNCHANGED <<rx, board>>
  BY <1>0, <1>4
<1> QED BY <1>1, <1>2, <1>3, <1>4 DEF ReadUploads

\* The wifi tables the board may answer with are sets of rows.
LEMMA TablesType ==
  ASSUME AllFine
  PROVE  /\ Tables \subseteq SUBSET Row
         /\ \A rows \in Tables : Replaced(rows) => play.changes > 0
<1>1. radio.aps \in SUBSET Row BY DEF AllFine, Radio
<1>2. play.changes \in Nat BY DEF AllFine, LinkFine, PlaySet
<1> QED BY <1>1, <1>2 DEF Tables, Replaced, Grown

\* The board reading a command of the join screen keeps the types.
LEMMA ReadJoinsType ==
  ASSUME AllFine, NEW c \in Command, ReadJoins(c)
  PROVE  rx' \in Seq(Spoken) /\ radio' \in Radio /\ play' \in PlaySet
<1>0. /\ LinkFine /\ radio \in Radio /\ rx \in Seq(Spoken) /\ play \in PlaySet
      /\ play.changes \in Nat
  BY DEF AllFine, LinkFine, PlaySet
<1>l. /\ Line("wifiEnd") \in Spoken /\ Line("stopped") \in Spoken /\ Line("scanBanner") \in Spoken
      /\ Line("listEcho") \in Spoken /\ Line("listEnd") \in Spoken /\ Line("joinFail") \in Spoken
  BY LineType DEF LineKind
<1>p. ASSUME NEW rows \in Tables,
             play' = IF Replaced(rows) THEN [play EXCEPT !.changes = @ - 1] ELSE play
      PROVE  play' \in PlaySet
  <2>1. CASE Replaced(rows)
    <3>1. play.changes - 1 \in Nat BY <1>0, <2>1, TablesType
    <3>2. play' = [play EXCEPT !.changes = play.changes - 1] BY <1>p, <2>1
    <3> QED BY <1>0, <3>1, <3>2 DEF PlaySet
  <2>2. CASE ~Replaced(rows)
    BY <1>0, <1>p, <2>2
  <2> QED BY <2>1, <2>2
<1>1. CASE c.c = "wifi" /\ ReadWifi /\ UNCHANGED play
  <2>1. CASE rx' = rx
    BY <1>0, <1>1, <2>1 DEF ReadWifi
  <2>2. CASE rx' # rx
    <3>1. PICK rows \in AnyOrder({LineOf("wifiRow", 0, s) : s \in radio.profiles}) :
            Say(rows \o <<Line("wifiEnd")>>)
      BY <1>1, <2>2 DEF ReadWifi
    <3>2. radio.profiles \in SUBSET Ssids BY <1>0 DEF Radio
    <3>3. rows \in Seq(Spoken) BY <3>2, NamesFinite, OrderType
    <3>4. <<Line("wifiEnd")>> \in Seq(Spoken) BY <1>l
    <3>5. rows \o <<Line("wifiEnd")>> \in Seq(Spoken) BY <3>3, <3>4
    <3> QED BY <1>0, <1>1, <3>1, <3>5, SayType DEF ReadWifi
  <2> QED BY <2>1, <2>2
<1>2. CASE c.c = "stopscan" /\ ReadStop /\ UNCHANGED play
  <2>1. <<Line("stopped")>> \in Seq(Spoken) BY <1>l
  <2>2. radio' \in Radio BY <1>0, <1>2 DEF ReadStop, Radio
  <2> QED BY <1>0, <1>2, <2>1, <2>2, SayType DEF ReadStop
<1>3. CASE c.c = "scanall" /\ ReadScanAll /\ UNCHANGED play
  <2>1. <<Line("scanBanner")>> \in Seq(Spoken) BY <1>l
  <2>2. radio' \in Radio BY <1>0, <1>3 DEF ReadScanAll, Radio
  <2> QED BY <1>0, <1>3, <2>1, <2>2, SayType DEF ReadScanAll
<1>4. CASE c.c = "list" /\ ReadList
  <2>1. PICK rows \in Tables :
      /\ \E aps \in AnyOrder({LineOf("ap", r.n, r.x) : r \in rows}) :
           Say(<<Line("listEcho")>> \o aps \o <<Line("listEnd")>>)
      /\ radio' = [radio EXCEPT !.aps = rows]
      /\ play' = IF Replaced(rows) THEN [play EXCEPT !.changes = @ - 1] ELSE play
    BY <1>4, Zenon DEF ReadList
  <2>2. PICK aps \in AnyOrder({LineOf("ap", r.n, r.x) : r \in rows}) :
           Say(<<Line("listEcho")>> \o aps \o <<Line("listEnd")>>)
    BY <2>1
  <2>3. rows \in SUBSET Row BY TablesType
  <2>4. aps \in Seq(Spoken) BY <2>3, RowsFinite, OrderType
  <2>5. <<Line("listEcho")>> \in Seq(Spoken) /\ <<Line("listEnd")>> \in Seq(Spoken) BY <1>l
  <2>6. <<Line("listEcho")>> \o aps \o <<Line("listEnd")>> \in Seq(Spoken) BY <2>4, <2>5
  <2>7. rx' \in Seq(Spoken) BY <1>0, <2>2, <2>6, SayType
  <2>8. radio' \in Radio BY <1>0, <2>1, <2>3 DEF Radio
  <2> QED BY <1>p, <2>1, <2>7, <2>8
<1>5. CASE c.c = "join" /\ ReadJoin(c.n)
  <2> DEFINE at(rows) == {r.x : r \in {r \in rows : r.n = c.n}}
  <2>1. PICK rows \in Tables, connects \in BOOLEAN :
          /\ connects => at(rows) # {}
          /\ \E using \in AnyOrder({LineOf("using", 0, x) : x \in at(rows)}) :
               Say(<<LineOf("joinEcho", c.n, "-")>> \o using
                   \o (IF connects THEN <<>> ELSE <<Line("joinFail")>>))
          /\ radio' = [radio EXCEPT
                         !.aps = rows,
                         !.on = IF connects THEN CHOOSE x \in at(rows) : TRUE ELSE NoName,
                         !.profiles = IF connects THEN @ \cup at(rows) ELSE @]
          /\ play' = IF Replaced(rows) THEN [play EXCEPT !.changes = @ - 1] ELSE play
    BY <1>5, Zenon DEF ReadJoin
  <2>2. PICK using \in AnyOrder({LineOf("using", 0, x) : x \in at(rows)}) :
               Say(<<LineOf("joinEcho", c.n, "-")>> \o using
                   \o (IF connects THEN <<>> ELSE <<Line("joinFail")>>))
    BY <2>1
  <2>3. rows \in SUBSET Row BY TablesType
  <2>4. at(rows) \in SUBSET Ssids BY <2>3 DEF Row
  <2> DEFINE seen == at(rows)
             on == IF connects THEN CHOOSE x \in seen : TRUE ELSE NoName
             profiles == IF connects THEN radio.profiles \cup seen ELSE radio.profiles
  <2>9. /\ radio' = [radio EXCEPT !.aps = rows, !.on = on, !.profiles = profiles]
        /\ seen \in SUBSET Ssids /\ (connects => seen # {})
        /\ using \in AnyOrder({LineOf("using", 0, x) : x \in seen})
    BY <2>1, <2>4
  <2> HIDE DEF seen
  <2>5. using \in Seq(Spoken) BY <2>9, NamesFinite, OrderType
  <2>6. c.n \in Nat BY DEF Command
  <2>7. LineOf("joinEcho", c.n, "-") \in Spoken BY <2>6, LineOfType
  <2>8. /\ <<LineOf("joinEcho", c.n, "-")>> \in Seq(Spoken)
        /\ <<Line("joinFail")>> \in Seq(Spoken) /\ <<>> \in Seq(Spoken)
    BY <2>7, <1>l
  <2>10. <<LineOf("joinEcho", c.n, "-")>> \o using
           \o (IF connects THEN <<>> ELSE <<Line("joinFail")>>) \in Seq(Spoken)
    BY <2>5, <2>8
  <2>11. rx' \in Seq(Spoken) BY <1>0, <2>2, <2>10, SayType
  <2>12. on \in Ssids \cup {NoName} /\ profiles \in SUBSET Ssids BY <1>0, <2>9 DEF Radio
  <2> HIDE DEF on, profiles
  <2>13. radio' \in Radio BY <1>0, <2>3, <2>9, <2>12 DEF Radio
  <2> QED BY <1>p, <2>1, <2>11, <2>13
<1> QED BY <1>1, <1>2, <1>3, <1>4, <1>5 DEF ReadJoins

\* The board's listing of its ignore list is a sequence of lines.
LEMMA IgnRowsType ==
  ASSUME KeepFine
  PROVE  IgnRows \in Seq(Spoken)
<1>1. /\ keep.ign \in Seq(Ssids) /\ Len(keep.ign) \in Nat /\ Len(keep.ign) <= IgnoreMax
      /\ IgnoreMax \in Nat /\ DOMAIN keep.ign = 1..Len(keep.ign)
  BY ToolsAssumption DEF KeepFine
<1>2. ASSUME NEW i \in 1..Len(keep.ign) PROVE LineOf("ignItem", i, keep.ign[i]) \in Spoken
  <2>1. i \in 1..IgnoreMax /\ keep.ign[i] \in Ssids BY <1>1
  <2> QED BY <2>1, LineOfType
<1>3. IgnRows \in [1..Len(keep.ign) -> Spoken] BY <1>1, <1>2 DEF IgnRows
<1> QED BY <1>1, <1>3

\* The ignore list without one entry is a list one shorter.
LEMMA WithoutType ==
  ASSUME KeepFine, NEW i \in DOMAIN keep.ign
  PROVE  Without(i) \in Seq(Ssids) /\ Len(Without(i)) = Len(keep.ign) - 1
<1>1. /\ keep.ign \in Seq(Ssids) /\ Len(keep.ign) \in Nat /\ i \in 1..Len(keep.ign)
  BY DEF KeepFine
<1>2. ASSUME NEW j \in 1..(Len(keep.ign) - 1)
      PROVE  keep.ign[IF j < i THEN j ELSE j + 1] \in Ssids
  <2>1. (IF j < i THEN j ELSE j + 1) \in 1..Len(keep.ign) BY <1>1
  <2> QED BY <1>1, <2>1
<1>3. Without(i) \in [1..(Len(keep.ign) - 1) -> Ssids] BY <1>2 DEF Without
<1>4. Len(keep.ign) - 1 \in Nat BY <1>1
<1> QED BY <1>3, <1>4

\* The board reading a command of the tools scene keeps the types, and its
\* ignore list within IgnoreMax.
LEMMA ReadToolsType ==
  ASSUME AllFine, NEW c \in Command, ReadTools(c)
  PROVE  rx' \in Seq(Spoken) /\ board' \in UploadBoard /\ KeepFine'
<1>0. /\ LinkFine /\ board \in UploadBoard /\ rx \in Seq(Spoken) /\ KeepFine
      /\ keep \in [ign : Seq(Ssids), size : Sizes, ward : BOOLEAN]
      /\ Len(keep.ign) <= IgnoreMax /\ CmdFits(c)
  BY DEF AllFine, LinkFine, KeepFine, Command
<1>k. keep' = keep => KeepFine' BY <1>0 DEF KeepFine
<1>l. /\ Line("busy") \in Spoken /\ Line("ignEcho") \in Spoken /\ Line("addFail") \in Spoken
      /\ Line("badIndex") \in Spoken /\ Line("cleared") \in Spoken /\ Line("rmFail") \in Spoken
      /\ Line("sd") \in Spoken /\ Line("files") \in Spoken
  BY LineType DEF LineKind
<1>s. /\ <<Line("busy")>> \in Seq(Spoken) /\ <<Line("ignEcho")>> \in Seq(Spoken)
      /\ <<Line("addFail")>> \in Seq(Spoken) /\ <<Line("badIndex")>> \in Seq(Spoken)
      /\ <<Line("cleared")>> \in Seq(Spoken) /\ <<Line("rmFail")>> \in Seq(Spoken)
      /\ <<Line("sd")>> \in Seq(Spoken) /\ <<Line("files")>> \in Seq(Spoken)
  BY <1>l
<1>1. CASE ReadIgnList
  <2>1. <<Line("ignEcho")>> \o (IF keep.ward THEN <<Line("busy")>> ELSE IgnRows) \in Seq(Spoken)
    BY <1>0, <1>s, IgnRowsType
  <2> QED BY <1>0, <1>k, <1>1, <2>1, SayType DEF ReadIgnList
<1>2. CASE BoardBusy
  BY <1>0, <1>k, <1>s, <1>2, SayType DEF BoardBusy
<1>3. CASE c.c = "ignAdd" /\ ReadIgnAdd(c.x)
  <2>1. c.x \in Ssids BY <1>0, <1>3 DEF CmdFits
  <2>2. UNCHANGED board BY <1>3 DEF ReadIgnAdd
  <2>3. CASE Say(<<LineOf("added", 0, c.x)>>) /\ keep' = [keep EXCEPT !.ign = Append(@, c.x)]
             /\ Len(keep.ign) < IgnoreMax
    <3>1. LineOf("added", 0, c.x) \in Spoken BY <2>1, LineOfType
    <3>2. <<LineOf("added", 0, c.x)>> \in Seq(Spoken) BY <3>1
    <3>3. /\ Append(keep.ign, c.x) \in Seq(Ssids)
          /\ Len(Append(keep.ign, c.x)) = Len(keep.ign) + 1
      BY <1>0, <2>1
    <3>4. Len(Append(keep.ign, c.x)) <= IgnoreMax BY <1>0, <2>3, <3>3, ToolsAssumption
    <3>5. KeepFine' BY <1>0, <2>3, <3>3, <3>4 DEF KeepFine
    <3> QED BY <1>0, <2>2, <2>3, <3>2, <3>5, SayType
  <2>4. CASE Say(<<Line("addFail")>>) /\ UNCHANGED keep
    BY <1>0, <1>k, <1>s, <2>2, <2>4, SayType
  <2> QED BY <1>3, <2>3, <2>4 DEF ReadIgnAdd
<1>4. CASE c.c = "ignRm" /\ ReadIgnRm(c.n)
  <2>1. c.n \in Nat BY DEF Command
  <2>2. UNCHANGED board BY <1>4 DEF ReadIgnRm
  <2>3. CASE c.n \in DOMAIN keep.ign
    <3>1. LineOf("removed", c.n, "-") \in Spoken BY <2>1, LineOfType
    <3>2. <<LineOf("removed", c.n, "-")>> \in Seq(Spoken) BY <3>1
    <3>3. Without(c.n) \in Seq(Ssids) /\ Len(Without(c.n)) = Len(keep.ign) - 1
      BY <1>0, <2>3, WithoutType
    <3>4. keep' = [keep EXCEPT !.ign = Without(c.n)] /\ Say(<<LineOf("removed", c.n, "-")>>)
      BY <1>4, <2>3 DEF ReadIgnRm
    <3>5. Len(keep.ign) \in Nat /\ IgnoreMax \in Nat BY <1>0, ToolsAssumption
    <3>6. KeepFine' BY <1>0, <3>3, <3>4, <3>5 DEF KeepFine
    <3> QED BY <1>0, <2>2, <3>2, <3>4, <3>6, SayType
  <2>4. CASE c.n \notin DOMAIN keep.ign
    BY <1>0, <1>k, <1>s, <1>4, <2>2, <2>4, SayType DEF ReadIgnRm
  <2> QED BY <2>3, <2>4
<1>5. CASE ReadIgnClear
  <2>1. <<>> \in Seq(Ssids) /\ Len(<<>>) = 0 /\ IgnoreMax \in Nat BY ToolsAssumption
  <2>2. keep' = [keep EXCEPT !.ign = <<>>] BY <1>5 DEF ReadIgnClear
  <2>3. /\ keep' \in [ign : Seq(Ssids), size : Sizes, ward : BOOLEAN]
        /\ keep'.ign = <<>>
    BY <1>0, <2>1, <2>2 DEF KeepFine
  <2>4. Len(keep'.ign) <= IgnoreMax BY <2>1, <2>3
  <2>5. KeepFine' BY <2>3, <2>4 DEF KeepFine
  <2> QED BY <1>0, <1>s, <1>5, <2>5, SayType DEF ReadIgnClear
<1>6. CASE c.c = "rm" /\ ReadRm(c.x)
  <2>1. c.x \in LogNames BY <1>0, <1>6 DEF CmdFits
  <2>2. UNCHANGED keep BY <1>6 DEF ReadRm
  <2>3. CASE /\ board' = [board EXCEPT !.dir = Among(@, {e \in Entry : e.x # c.x})]
             /\ Say(<<LineOf("file", 0, c.x)>>)
    <3>1. LineOf("file", 0, c.x) \in Spoken BY <2>1, LineOfType
    <3>2. <<LineOf("file", 0, c.x)>> \in Seq(Spoken) BY <3>1
    <3> DEFINE left == {e \in Entry : e.x # c.x}
               dir == Among(board.dir, left)
    <3>3. dir \in Seq(Entry \cap left) BY <1>0, AmongType DEF UploadBoard
    <3>4. Entry \cap left \subseteq Entry OBVIOUS
    <3>5. board' = [board EXCEPT !.dir = dir] BY <2>3
    <3> HIDE DEF left, dir
    <3>6. dir \in Seq(Entry)
      <4> HIDE DEF Entry
      <4> QED BY <3>3, <3>4
    <3>7. board' \in UploadBoard BY <1>0, <3>5, <3>6 DEF UploadBoard
    <3> QED BY <1>0, <1>k, <2>2, <2>3, <3>2, <3>7, SayType
  <2>4. CASE \E bad \in {"rmFail", "sd"} : Say(<<Line(bad)>>) /\ UNCHANGED board
    BY <1>0, <1>k, <1>s, <2>2, <2>4, SayType
  <2> QED BY <1>6, <2>3, <2>4, Zenon DEF ReadRm
<1>7. CASE ReadRmAll
  <2>1. UNCHANGED keep BY <1>7 DEF ReadRmAll
  <2>2. CASE \E left \in SUBSET ToSet(Files) :
            /\ board' = [board EXCEPT !.dir = Among(@, {e \in Entry : e.x \in left})]
            /\ Say([i \in DOMAIN Files |->
                      IF Files[i] \in left THEN Line("rmFail") ELSE LineOf("file", 0, Files[i])]
                   \o <<Line("files")>>)
    <3>1. PICK gone \in SUBSET ToSet(Files) :
            /\ board' = [board EXCEPT !.dir = Among(@, {e \in Entry : e.x \in gone})]
            /\ Say([i \in DOMAIN Files |->
                      IF Files[i] \in gone THEN Line("rmFail") ELSE LineOf("file", 0, Files[i])]
                   \o <<Line("files")>>)
      BY <2>2, Zenon
    <3> DEFINE left == {e \in Entry : e.x \in gone}
               dir == Among(board.dir, left)
               lines == [i \in DOMAIN Files |->
                      IF Files[i] \in gone THEN Line("rmFail") ELSE LineOf("file", 0, Files[i])]
    <3>2. /\ board' = [board EXCEPT !.dir = dir]
          /\ Say(lines \o <<Line("files")>>)
      BY <3>1
    <3>3. dir \in Seq(Entry \cap left) BY <1>0, AmongType DEF UploadBoard
    <3>4. Entry \cap left \subseteq Entry OBVIOUS
    <3> HIDE DEF left, dir
    <3>6. dir \in Seq(Entry)
      <4> HIDE DEF Entry
      <4> QED BY <3>3, <3>4
    <3>7. board' \in UploadBoard BY <1>0, <3>2, <3>6 DEF UploadBoard
    <3>8. lines \in Seq(Spoken)
      <4> DEFINE n == Len(Files)
      <4>1. Files \in Seq(LogNames) /\ n \in Nat /\ DOMAIN Files = 1..n BY <1>0, FilesType
      <4>2. ASSUME NEW i \in 1..n
            PROVE  (IF Files[i] \in gone THEN Line("rmFail") ELSE LineOf("file", 0, Files[i])) \in Spoken
        <5>1. Files[i] \in LogNames BY <4>1
        <5> QED BY <1>l, <5>1, LineOfType
      <4> HIDE DEF n
      <4>3. lines \in [1..n -> Spoken] BY <4>1, <4>2
      <4> QED BY <4>1, <4>3
    <3> HIDE DEF lines
    <3>9. lines \o <<Line("files")>> \in Seq(Spoken) BY <1>s, <3>8
    <3> QED BY <1>0, <1>k, <2>1, <3>2, <3>7, <3>9, SayType
  <2>3. CASE Say(<<Line("sd")>>) /\ UNCHANGED board
    BY <1>0, <1>k, <1>s, <2>1, <2>3, SayType
  <2> QED BY <1>7, <2>2, <2>3, Zenon DEF ReadRmAll
<1>8. CASE c.c = "split" /\ ReadSplit(c.n, c.x)
  <2>1. UNCHANGED board /\ keep.size \in Sizes BY <1>0, <1>8 DEF ReadSplit
  <2>2. CASE c.n = 0
    <3>1. LineOf("splitIs", 0, keep.size) \in Spoken BY <2>1, LineOfType
    <3>2. <<LineOf("splitIs", 0, keep.size)>> \in Seq(Spoken) BY <3>1
    <3> QED BY <1>0, <1>k, <1>8, <2>1, <2>2, <3>2, SayType DEF ReadSplit
  <2>3. CASE c.n # 0
    <3>0. c.x \in Sizes BY <1>0, <1>8, <2>3 DEF CmdFits
    <3>1. LineOf("splitIs", 0, c.x) \in Spoken BY <3>0, LineOfType
    <3>2. <<LineOf("splitIs", 0, c.x)>> \in Seq(Spoken) BY <3>1
    <3>3. keep' = [keep EXCEPT !.size = c.x] BY <1>8, <2>3 DEF ReadSplit
    <3>4. KeepFine' BY <1>0, <3>0, <3>3 DEF KeepFine
    <3> QED BY <1>0, <1>8, <2>1, <2>3, <3>2, <3>4, SayType DEF ReadSplit
  <2> QED BY <2>2, <2>3
<1> QED BY <1>1, <1>2, <1>3, <1>4, <1>5, <1>6, <1>7, <1>8 DEF ReadTools

\* The board reading any command keeps the types.
LEMMA ReadType == ASSUME AllFine, Read PROVE AllFine'
<1> DEFINE c == Head(tx)
<1>0. /\ c \in Command /\ tx' \in Seq(Command) /\ up \in Flight /\ radio \in Radio
      /\ board \in UploadBoard /\ KeepFine /\ play \in PlaySet
  <2>1. tx \in Seq(Command) /\ tx # <<>> /\ tx' = Tail(tx) BY DEF AllFine, LinkFine, Read
  <2> QED BY <2>1 DEF AllFine, LinkFine
<1>u. /\ UNCHANGED <<scene, slot, model, ghost, pg, cap, logs, jn, li, tl, bt>>
      /\ UNCHANGED up
      /\ ReadUploads(c) \/ ReadJoins(c) \/ ReadTools(c)
  BY DEF Read, uploadVars, joinVars
<1> HIDE DEF c
<1>1. CASE ReadUploads(c)
  <2>1. UNCHANGED <<play, radio, keep>> BY <1>1 DEF ReadUploads
  <2>2. KeepFine' BY <1>0, <2>1 DEF KeepFine
  <2> QED BY <1>0, <1>u, <1>1, <2>1, <2>2, ReadUploadsType, BoardKeeps
<1>2. CASE ReadJoins(c)
  <2>1. UNCHANGED <<board, keep>> BY <1>2 DEF ReadJoins
  <2>2. KeepFine' BY <1>0, <2>1 DEF KeepFine
  <2> QED BY <1>0, <1>u, <1>2, <2>1, <2>2, ReadJoinsType, BoardKeeps
<1>3. CASE ReadTools(c)
  <2>1. UNCHANGED <<play, radio>> BY <1>3 DEF ReadTools
  <2> QED BY <1>0, <1>u, <1>3, <2>1, ReadToolsType, BoardKeeps
<1> QED BY <1>u, <1>1, <1>2, <1>3

-----------------------------------------------------------------------------
(* Types: the Join screen.                                                 *)

\* A step of the Join screen: what it may touch is fine, the rest as it was.
LEMMA JoinKeeps ==
  ASSUME AllFine, UNCHANGED <<tx, rx, model, board, radio, tl, bt, keep>>,
         scene' \in [at : Screen, half : BOOLEAN], play' \in PlaySet,
         ghost' \in [rushed : BOOLEAN, lost : BOOLEAN], slot' \in Command,
         up' \in Flight, pg' \in Page, cap' \in Capture, LogsFine(logs'),
         JoinFine(jn'), li' \in Listener
  PROVE  AllFine'
<1>1. LinkFine' BY DEF AllFine, LinkFine
<1>2. /\ board' \in UploadBoard /\ radio' \in Radio
      /\ ToolFine(tl') /\ HeardFine(bt') /\ KeepFine'
  BY Zenon DEF AllFine, KeepFine
<1> QED BY <1>1, <1>2, AllFineNext

\* The same where only the screen and its listener are touched.
LEMMA JoinOnlyKeeps ==
  ASSUME AllFine, UNCHANGED <<tx, rx, model, board, radio, tl, bt, keep>>,
         UNCHANGED <<up, pg, cap, logs>>, UNCHANGED <<scene, play, ghost>>, slot' \in Command,
         JoinFine(jn'), li' \in Listener
  PROVE  AllFine'
<1>1. /\ scene' \in [at : Screen, half : BOOLEAN] /\ play' \in PlaySet
      /\ ghost' \in [rushed : BOOLEAN, lost : BOOLEAN]
      /\ up' \in Flight /\ pg' \in Page /\ cap' \in Capture /\ LogsFine(logs')
  BY Zenon DEF AllFine, LinkFine
<1> QED BY <1>1, JoinKeeps

\* The join screen stays one when it is calmed or armed with a command.
LEMMA ArmTypes ==
  ASSUME NEW j \in JoinScreen, NEW phase \in Phase
  PROVE  /\ Calm(j, phase) \in JoinScreen
         /\ Calm(j, phase).phase = phase /\ Calm(j, phase).cursor = j.cursor
         /\ \A c \in {"wifi", "stopscan", "scanall", "list", "channel"} :
              /\ Arm(j, phase, Cmd(c)) \in JoinScreen
              /\ Arm(j, phase, Cmd(c)).phase = phase
              /\ Arm(j, phase, Cmd(c)).cursor = j.cursor
         /\ \A i \in Indices :
              /\ Arm(j, phase, CmdOf("join", i, "-")) \in JoinScreen
              /\ Arm(j, phase, CmdOf("join", i, "-")).phase = phase
              /\ Arm(j, phase, CmdOf("join", i, "-")).cursor = j.cursor
<1> DEFINE Pends == {NoCmd} \cup [c : {"wifi", "stopscan", "scanall", "list", "channel"},
                                  n : {0}, x : {"-"}]
                            \cup [c : {"join"}, n : Indices, x : {"-"}]
<1>1. NoCmd \in Pends OBVIOUS
<1>2. \A c \in {"wifi", "stopscan", "scanall", "list", "channel"} : Cmd(c) \in Pends
  BY DEF Cmd
<1>3. \A i \in Indices : CmdOf("join", i, "-") \in Pends BY DEF CmdOf
<1>p. JoinScreen = [phase : Phase, aged : BOOLEAN, hunt : {"early", "show", "over"},
                    stopped : BOOLEAN, need : BOOLEAN, queued : BOOLEAN, sent : BOOLEAN,
                    pend : Pends, shown : SUBSET Row, cursor : Row \cup {NoRow},
                    saved : SUBSET Ssids]
  BY DEF JoinScreen
<1> HIDE DEF Pends
<1>4. ASSUME NEW c \in Pends, NEW b \in BOOLEAN
      PROVE  [j EXCEPT !.phase = phase, !.aged = FALSE, !.need = b, !.pend = c] \in JoinScreen
  BY <1>p
<1>5. ASSUME NEW c \in Pends
      PROVE  Arm(j, phase, c) \in JoinScreen /\ Arm(j, phase, c).phase = phase
               /\ Arm(j, phase, c).cursor = j.cursor
  BY <1>4, <1>p DEF Arm
<1>6. Calm(j, phase) \in JoinScreen /\ Calm(j, phase).phase = phase
        /\ Calm(j, phase).cursor = j.cursor
  BY <1>1, <1>4, <1>p DEF Calm
<1> QED BY <1>2, <1>3, <1>5, <1>6

\* Fields of the screen that no other field depends on.
LEMMA SetTypes ==
  ASSUME NEW j \in JoinScreen
  PROVE  /\ [j EXCEPT !.stopped = FALSE] \in JoinScreen
         /\ [j EXCEPT !.stopped = FALSE].phase = j.phase
         /\ [j EXCEPT !.hunt = "early"] \in JoinScreen
         /\ [j EXCEPT !.hunt = "early"].phase = j.phase
         /\ [j EXCEPT !.need = FALSE, !.pend = NoCmd, !.aged = FALSE] \in JoinScreen
         /\ [j EXCEPT !.need = FALSE, !.pend = NoCmd, !.aged = FALSE].phase = j.phase
         /\ [j EXCEPT !.shown = {}, !.stopped = FALSE, !.hunt = "early"] \in JoinScreen
         /\ [j EXCEPT !.shown = {}, !.stopped = FALSE, !.hunt = "early"].phase = j.phase
         /\ [j EXCEPT !.shown = {}, !.cursor = NoRow] \in JoinScreen
         /\ [j EXCEPT !.shown = {}, !.cursor = NoRow].phase = j.phase
         /\ \A rows \in SUBSET Row :
              /\ [j EXCEPT !.shown = rows] \in JoinScreen
              /\ [j EXCEPT !.shown = rows].phase = j.phase
         /\ \A names \in SUBSET Ssids :
              /\ [j EXCEPT !.saved = names] \in JoinScreen
              /\ [j EXCEPT !.saved = names].phase = j.phase
  BY DEF JoinScreen

\* As the phase goes on: the row stays chosen.
LEMMA StayTypes ==
  ASSUME NEW j, JoinFine(j)
  PROVE  /\ JoinFine([j EXCEPT !.need = FALSE, !.pend = NoCmd])
         /\ JoinFine([j EXCEPT !.queued = FALSE, !.sent = FALSE])
         /\ JoinFine([j EXCEPT !.sent = TRUE])
         /\ JoinFine([j EXCEPT !.aged = TRUE])
         /\ JoinFine([j EXCEPT !.queued = TRUE, !.need = TRUE, !.pend = Cmd("channel")])
<1>1. j \in JoinScreen /\ Cmd("channel") \in [c : {"channel"}, n : {0}, x : {"-"}]
  BY DEF JoinFine, Cmd
<1>2. ASSUME NEW k, k \in JoinScreen, k.phase = j.phase, k.cursor = j.cursor
      PROVE  JoinFine(k)
  BY <1>2 DEF JoinFine
<1>3. /\ [j EXCEPT !.need = FALSE, !.pend = NoCmd] \in JoinScreen
      /\ [j EXCEPT !.queued = FALSE, !.sent = FALSE] \in JoinScreen
      /\ [j EXCEPT !.sent = TRUE] \in JoinScreen
      /\ [j EXCEPT !.aged = TRUE] \in JoinScreen
      /\ [j EXCEPT !.queued = TRUE, !.need = TRUE, !.pend = Cmd("channel")] \in JoinScreen
  BY <1>1 DEF JoinScreen
<1> QED BY ZenonT(60), <1>1, <1>2, <1>3 DEF JoinScreen

\* The join scene's key handlers keep the types.
LEMMA JoinUserType == ASSUME AllFine, JoinUser PROVE AllFine'
<1>0. /\ up \in Flight /\ pg \in Page /\ cap \in Capture /\ LogsFine(logs) /\ LinkFine
      /\ scene \in [at : Screen, half : BOOLEAN] /\ play \in PlaySet /\ slot \in Command
      /\ ghost \in [rushed : BOOLEAN, lost : BOOLEAN]
      /\ JoinFine(jn) /\ jn \in JoinScreen /\ li \in Listener /\ "join" \in Screen
  BY DEF AllFine, LinkFine, JoinFine, Screen
<1>t. UNCHANGED <<tl, bt, keep>> BY DEF JoinUser, toolVars
<1>m. Listen("Off") \in Listener /\ Listen("Saved") \in Listener /\ Listen("List") \in Listener
  BY ListenType DEF Mode
<1>1. CASE EnterJoin
  <2> DEFINE fresh == [jn EXCEPT !.queued = FALSE, !.sent = FALSE, !.shown = {},
                                 !.cursor = NoRow, !.saved = {}]
  <2>1. fresh \in JoinScreen BY <1>0 DEF JoinScreen
  <2>2. jn' = Arm(fresh, "Saved", Cmd("wifi")) BY <1>1 DEF EnterJoin
  <2> HIDE DEF fresh
  <2>3. JoinFine(jn') BY <2>1, <2>2, ArmTypes DEF JoinFine, Phase
  <2>4. LogsFine(logs') /\ li' \in Listener BY <1>0, <1>1, <1>m, LogsTypes DEF EnterJoin
  <2>5. /\ UNCHANGED <<slot, tx, rx, model, up, pg, cap, board, radio>>
        /\ Ask("join", Answered)
    BY <1>1 DEF EnterJoin
  <2> QED BY <1>0, <1>t, <2>3, <2>4, <2>5, AskType, JoinKeeps
<1>2. CASE JoinBackStop
  <2>1. jn' = [Arm(jn, "StopBack", Cmd("stopscan")) EXCEPT !.stopped = FALSE] /\ li' \in Listener
    BY <1>2, <1>m DEF JoinBackStop
  <2>2. Arm(jn, "StopBack", Cmd("stopscan")) \in JoinScreen
          /\ Arm(jn, "StopBack", Cmd("stopscan")).phase = "StopBack"
    BY <1>0, ArmTypes DEF Phase
  <2>3. jn' \in JoinScreen /\ jn'.phase = "StopBack" BY <2>1, <2>2, SetTypes
  <2>4. JoinFine(jn') BY <2>3 DEF JoinFine
  <2>5. /\ UNCHANGED <<tx, rx, model, pg, logs, board, radio, slot, up, cap>>
        /\ Ask("join", TRUE) \/ UNCHANGED <<scene, play, ghost>>
    BY <1>2 DEF JoinBackStop, keepJoin, tally
  <2>6. /\ scene' \in [at : Screen, half : BOOLEAN] /\ play' \in PlaySet
        /\ ghost' \in [rushed : BOOLEAN, lost : BOOLEAN]
    BY <1>0, <2>5, AskType
  <2> QED BY <1>0, <1>t, <2>1, <2>4, <2>5, <2>6, JoinKeeps
<1>3. CASE JoinBackPass
  <2>1. JoinFine(jn') BY <1>0, <1>3 DEF JoinBackPass, JoinFine, JoinScreen, Phase
  <2>2. UNCHANGED <<tx, rx, model, pg, logs, board, radio, scene, play, ghost, slot, up, cap, li>>
    BY <1>3 DEF JoinBackPass, keepJoin, tally
  <2> QED BY <1>0, <1>t, <2>1, <2>2, JoinKeeps
<1>4. CASE JoinBackFail
  <2>1. JoinFine(jn') BY <1>0, <1>4, ArmTypes DEF JoinBackFail, JoinFine, Phase
  <2>2. /\ UNCHANGED <<tx, rx, model, pg, logs, board, radio, scene, play, ghost, slot, up, cap>>
        /\ li' \in Listener
    BY <1>4, <1>m DEF JoinBackFail, keepJoin, tally
  <2> QED BY <1>0, <1>t, <2>1, <2>2, JoinKeeps
<1>5. CASE JoinLeave
  <2>1. jn' \in JoinScreen /\ jn'.phase \notin {"Pass", "Verify", "Join"}
    <3>1. jn' = [jn EXCEPT !.need = FALSE, !.pend = NoCmd, !.aged = FALSE]
           /\ jn.phase \notin {"Pass", "Verify", "Join"}
      BY <1>5 DEF JoinLeave
    <3> QED BY <1>0, <3>1, SetTypes
  <2>2. JoinFine(jn') BY <2>1 DEF JoinFine
  <2>3. /\ UNCHANGED <<tx, rx, model, play, ghost, cap, board, radio>>
        /\ li' \in Listener /\ UploadEntered
        /\ scene' \in [at : Screen, half : BOOLEAN]
    BY <1>0, <1>5, <1>m DEF JoinLeave, tally, Goto, Screen
  <2> QED BY <1>0, <1>t, <2>2, <2>3, EnteredType, JoinKeeps, SMTT(30)
<1>6. CASE JoinScan
  <2>1. jn' = [Arm(jn, "Stop1", Cmd("stopscan")) EXCEPT !.shown = {}, !.stopped = FALSE,
                                                     !.hunt = "early"]
    BY <1>6 DEF JoinScan
  <2>2. Arm(jn, "Stop1", Cmd("stopscan")) \in JoinScreen
          /\ Arm(jn, "Stop1", Cmd("stopscan")).phase = "Stop1"
    BY <1>0, ArmTypes DEF Phase
  <2>3. jn' \in JoinScreen /\ jn'.phase = "Stop1" BY <2>1, <2>2, SetTypes
  <2>4. JoinFine(jn') BY <2>3 DEF JoinFine
  <2>5. /\ UNCHANGED <<tx, rx, model, pg, logs, board, radio, slot, up, cap>>
        /\ Ask("join", Answered) /\ li' \in Listener
    BY <1>6, <1>m DEF JoinScan, keepJoin
  <2> QED BY <1>0, <1>t, <2>4, <2>5, AskType, JoinKeeps
<1>7. CASE JoinAdd
  <2>1. jn' = [Arm(jn, "Saved", Cmd("wifi")) EXCEPT !.shown = {}, !.cursor = NoRow]
    BY <1>7 DEF JoinAdd
  <2>2. Arm(jn, "Saved", Cmd("wifi")) \in JoinScreen
          /\ Arm(jn, "Saved", Cmd("wifi")).phase = "Saved"
    BY <1>0, ArmTypes, SMTT(30) DEF Phase
  <2>3. jn' \in JoinScreen /\ jn'.phase = "Saved" BY <2>1, <2>2, SetTypes
  <2>4. JoinFine(jn') BY <2>3 DEF JoinFine
  <2>5. /\ UNCHANGED <<tx, rx, model, pg, logs, board, radio, slot, up, cap>>
        /\ Ask("join", Answered) /\ li' \in Listener
    BY <1>7, <1>m DEF JoinAdd, keepJoin
  <2> QED BY <1>0, <1>t, <2>4, <2>5, AskType, JoinKeeps
<1>8. CASE JoinPick
  <2>1. PICK row \in jn.shown : jn' = [jn EXCEPT !.phase = "Pass", !.cursor = row]
    BY <1>8 DEF JoinPick
  <2>2. row \in Row BY <1>0 DEF JoinScreen
  <2>3. JoinFine(jn') BY <1>0, <2>1, <2>2 DEF JoinFine, JoinScreen, Phase
  <2>4. UNCHANGED <<tx, rx, model, pg, logs, board, radio, scene, play, ghost, slot, up, cap, li>>
    BY <1>8 DEF JoinPick, keepJoin, tally
  <2> QED BY <1>0, <1>t, <2>3, <2>4, JoinKeeps
<1>9. CASE JoinPass
  <2>1. /\ jn' = Arm(jn, "Verify", Cmd("list")) /\ jn.cursor \in Row
    BY <1>0, <1>9 DEF JoinPass, JoinFine
  <2>2. JoinFine(jn') BY <1>0, <2>1, ArmTypes DEF JoinFine, Phase
  <2>3. /\ UNCHANGED <<tx, rx, model, pg, logs, board, radio, slot, up, cap>>
        /\ Ask("join", Answered) /\ li' \in Listener
    BY <1>9, <1>m DEF JoinPass, keepJoin
  <2> QED BY <1>0, <1>t, <2>2, <2>3, AskType, JoinKeeps
<1> QED BY <1>1, <1>2, <1>3, <1>4, <1>5, <1>6, <1>7, <1>8, <1>9 DEF JoinUser

\* What a step of a phase makes of the screen and its listener.
LEMMA StepTypes ==
  ASSUME JoinFine(jn), li \in Listener, NEW F, F = Flushed,
         ScanStep \/ SavedStep \/ StopBackStep \/ CheckStep \/ VerifyStep \/ JoinedStep
  PROVE  JoinFine(jn') /\ li' \in Listener
<1>0. JoinFine(F) /\ F \in JoinScreen /\ F.phase = jn.phase /\ F.cursor = jn.cursor
  <2>1. jn \in JoinScreen /\ JoinFine(F) BY StayTypes DEF Flushed, JoinFine
  <2> QED BY <2>1, SMTT(30) DEF Flushed, JoinFine, JoinScreen
<1>m. \A mode \in {"Off", "List", "Scan", "Join"} : Listen(mode) \in Listener
  BY ListenType DEF Mode
<1>r. li.rows \in SUBSET Row /\ li.saved \in SUBSET Ssids BY DEF Listener
<1>f. \A j \in JoinScreen : j.phase \notin {"Pass", "Verify", "Join"} => JoinFine(j)
  BY DEF JoinFine
<1>a. \A phase \in Phase \ {"Pass", "Verify", "Join"} :
        /\ JoinFine(Calm(F, phase))
        /\ Calm(F, phase) \in JoinScreen /\ Calm(F, phase).phase = phase
        /\ \A c \in {"stopscan", "scanall", "list"} :
             /\ JoinFine(Arm(F, phase, Cmd(c)))
             /\ Arm(F, phase, Cmd(c)) \in JoinScreen /\ Arm(F, phase, Cmd(c)).phase = phase
  <2> SUFFICES ASSUME NEW phase \in Phase \ {"Pass", "Verify", "Join"}
       PROVE  /\ JoinFine(Calm(F, phase))
              /\ Calm(F, phase) \in JoinScreen /\ Calm(F, phase).phase = phase
              /\ \A c \in {"stopscan", "scanall", "list"} :
                   /\ JoinFine(Arm(F, phase, Cmd(c)))
                   /\ Arm(F, phase, Cmd(c)) \in JoinScreen /\ Arm(F, phase, Cmd(c)).phase = phase
    OBVIOUS
  <2>1. /\ Calm(F, phase) \in JoinScreen /\ Calm(F, phase).phase = phase
        /\ \A c \in {"stopscan", "scanall", "list"} :
             Arm(F, phase, Cmd(c)) \in JoinScreen /\ Arm(F, phase, Cmd(c)).phase = phase
    <3>1. phase \in Phase OBVIOUS
    <3>2. \A c \in {"stopscan", "scanall", "list"} :
            c \in {"wifi", "stopscan", "scanall", "list", "channel"}
      OBVIOUS
    <3> QED BY <1>0, <3>1, <3>2, ArmTypes, Zenon
  <2> QED BY <1>f, <2>1
<1>1. CASE ScanStep
  <2>1. CASE /\ jn' = [Arm(F, "Scan", Cmd("scanall")) EXCEPT !.hunt = "early"]
             /\ li' = Listen("Scan")
    <3>1. Arm(F, "Scan", Cmd("scanall")) \in JoinScreen
            /\ Arm(F, "Scan", Cmd("scanall")).phase = "Scan"
      BY <1>a DEF Phase
    <3>2. jn' \in JoinScreen /\ jn'.phase = "Scan" BY <2>1, <3>1, SetTypes
    <3> QED BY <1>f, <1>m, <2>1, <3>2
  <2>2. CASE \E phase \in {"List1", "List2"} : StepTo(phase, "List", Cmd("list"))
    <3>1. PICK phase \in {"List1", "List2"} :
            jn' = Arm(F, phase, Cmd("list")) /\ li' = Listen("List")
      BY <2>2 DEF StepTo
    <3> QED BY <1>a, <1>m, <3>1 DEF Phase
  <2>3. {F, Published(F)} \subseteq JoinScreen
    <3>1. [F EXCEPT !.shown = li.rows] \in JoinScreen BY <1>0, <1>r, SetTypes
    <3>2. F \in JoinScreen BY <1>0
    <3> QED BY <3>1, <3>2, Zenon DEF Published
  <2>4. CASE \E seen \in JoinScreen :
               /\ li' = Listen("Off")
               /\ \/ jn' = Calm(seen, "Scan")
                  \/ jn' = [Arm(seen, "Stop2", Cmd("stopscan")) EXCEPT !.stopped = FALSE]
    <3>1. PICK seen \in JoinScreen :
               /\ li' = Listen("Off")
               /\ \/ jn' = Calm(seen, "Scan")
                  \/ jn' = [Arm(seen, "Stop2", Cmd("stopscan")) EXCEPT !.stopped = FALSE]
      BY <2>4
    <3>2. Calm(seen, "Scan") \in JoinScreen /\ Calm(seen, "Scan").phase = "Scan"
      BY ArmTypes DEF Phase
    <3>3. Arm(seen, "Stop2", Cmd("stopscan")) \in JoinScreen
            /\ Arm(seen, "Stop2", Cmd("stopscan")).phase = "Stop2"
      BY ArmTypes DEF Phase
    <3>4. jn' \in JoinScreen /\ jn'.phase \in {"Scan", "Stop2"} BY <3>1, <3>2, <3>3, SetTypes
    <3> QED BY <1>f, <1>m, <3>1, <3>4
  <2>5. CASE /\ li' = Listen("Off")
             /\ jn' \in {Failed(F), Calm(F, "Pick"), Published(Calm(F, "Pick"))}
    <3>1. Calm(F, "Pick") \in JoinScreen /\ Calm(F, "Pick").phase = "Pick" BY <1>a DEF Phase
    <3>2. Published(Calm(F, "Pick")) \in JoinScreen
            /\ Published(Calm(F, "Pick")).phase = "Pick"
      BY <1>r, <3>1, SetTypes DEF Published
    <3>3. JoinFine(Failed(F)) BY <1>a DEF Phase, Failed
    <3> QED BY <1>a, <1>f, <1>m, <2>5, <3>1, <3>2, <3>3 DEF Phase
  <2> QED
    <3>2. \/ jn' = [Arm(F, "Scan", Cmd("scanall")) EXCEPT !.hunt = "early"] /\ li' = Listen("Scan")
          \/ \E phase \in {"List1", "List2"} : StepTo(phase, "List", Cmd("list"))
          \/ \E seen \in {F, Published(F)} :
               /\ li' = Listen("Off")
               /\ \/ jn' = Calm(seen, "Scan")
                  \/ jn' = [Arm(seen, "Stop2", Cmd("stopscan")) EXCEPT !.stopped = FALSE]
          \/ /\ li' = Listen("Off")
             /\ jn' \in {Failed(F), Calm(F, "Pick"), Published(Calm(F, "Pick"))}
      BY <1>1 DEF ScanStep, MayPublish
    <3> QED BY <2>1, <2>2, <2>3, <2>4, <2>5, <3>2
<1>2. CASE SavedStep
  <2>1. Calm(F, "SavedList") \in JoinScreen /\ Calm(F, "SavedList").phase = "SavedList"
    BY <1>a DEF Phase
  <2>2. jn' = [Calm(F, "SavedList") EXCEPT !.saved = li.saved] /\ li' = Listen("Off")
    BY <1>2 DEF SavedStep
  <2>3. jn' \in JoinScreen /\ jn'.phase = "SavedList" BY <1>r, <2>1, <2>2, SetTypes
  <2> QED BY <1>f, <1>m, <2>2, <2>3
<1>3. CASE StopBackStep
  BY <1>a, <1>m, <1>3 DEF StopBackStep, Phase
<1>4. CASE CheckStep
  <2>1. [li EXCEPT !.expect = TRUE] \in Listener BY DEF Listener
  <2>2. \/ /\ jn' = [F EXCEPT !.queued = TRUE, !.need = TRUE, !.pend = Cmd("channel")]
           /\ li' = [li EXCEPT !.expect = TRUE]
        \/ jn' = [F EXCEPT !.sent = TRUE] /\ UNCHANGED li
    BY <1>4 DEF CheckStep
  <2> QED BY <1>0, <2>1, <2>2, StayTypes
<1>5. CASE VerifyStep
  <2>1. jn.cursor \in Row /\ jn.cursor.n \in Indices /\ jn.cursor.x \in Ssids
    BY <1>5 DEF VerifyStep, JoinFine, Row
  <2>2. CASE li.end /\ Matches(jn.cursor)
    <3> DEFINE A == Arm(F, "Join", CmdOf("join", jn.cursor.n, "-"))
    <3>1. A \in JoinScreen /\ A.phase = "Join" /\ A.cursor = jn.cursor
      BY <1>0, <2>1, ArmTypes DEF Phase
    <3>2. /\ jn' = [A EXCEPT !.queued = FALSE, !.sent = FALSE]
          /\ li' = [Listen("Join") EXCEPT !.index = jn.cursor.n]
      BY <1>5, <2>2 DEF VerifyStep
    <3> HIDE DEF A
    <3>3. JoinFine(A) BY <2>1, <3>1 DEF JoinFine
    <3>4. li' \in Listener BY <1>m, <2>1, <3>2 DEF Listener
    <3> QED BY <3>2, <3>3, <3>4, StayTypes
  <2>3. CASE ~(li.end /\ Matches(jn.cursor))
    <3>1. jn' = Failed(F) /\ li' = Listen("Off") BY <1>5, <2>3 DEF VerifyStep
    <3> QED BY <1>a, <1>m, <3>1 DEF Failed, Phase
  <2> QED BY <2>2, <2>3
<1>6. CASE JoinedStep
  <2>1. jn.cursor \in Row /\ jn.cursor.x \in Ssids BY <1>6 DEF JoinedStep, JoinFine, Row
  <2> DEFINE C == Calm(F, "Joined")
             names == IF Cardinality(C.saved) < 5 THEN C.saved \cup {C.cursor.x} ELSE C.saved
  <2>2. C \in JoinScreen /\ C.phase = "Joined" /\ C.cursor = jn.cursor
    BY <1>0, ArmTypes DEF Phase
  <2>3. jn' = Remembered(C) /\ li' = Listen("Off") BY <1>6 DEF JoinedStep
  <2>4. names \in SUBSET Ssids
    <3> HIDE DEF C
    <3> QED BY <2>1, <2>2 DEF JoinScreen
  <2>5. Remembered(C) = [C EXCEPT !.saved = names] BY DEF Remembered
  <2> HIDE DEF C, names
  <2>6. [C EXCEPT !.saved = names] \in JoinScreen /\ [C EXCEPT !.saved = names].phase = "Joined"
    BY <2>2, <2>4, SetTypes
  <2> QED BY <1>f, <1>m, <2>3, <2>5, <2>6
<1> QED BY <1>1, <1>2, <1>3, <1>4, <1>5, <1>6

\* The join scene's tick keeps the types.
LEMMA JoinTickType == ASSUME AllFine, JoinTick, UNCHANGED toolVars PROVE AllFine'
<1>0. /\ up \in Flight /\ cap \in Capture /\ LinkFine /\ slot \in Command
      /\ JoinFine(jn) /\ jn \in JoinScreen /\ li \in Listener
      /\ scene \in [at : Screen, half : BOOLEAN] /\ play \in PlaySet
      /\ ghost \in [rushed : BOOLEAN, lost : BOOLEAN] /\ pg \in Page /\ LogsFine(logs)
  BY DEF AllFine, LinkFine, JoinFine
<1>1. /\ UNCHANGED <<tx, rx, model, board, radio, tl, bt, keep>>
      /\ UNCHANGED <<pg, logs>> /\ UNCHANGED <<scene, play, ghost>>
  BY DEF JoinTick, Tick, keepJoin, tally, toolVars
<1>2. slot' \in Command BY <1>0, PendType DEF JoinTick, Tick
<1>3. JoinFine(jn') /\ li' \in Listener
  <2>1. CASE ScanStep \/ SavedStep \/ StopBackStep \/ CheckStep \/ VerifyStep \/ JoinedStep
    BY <1>0, <2>1, StepTypes
  <2>2. CASE jn' = Flushed /\ UNCHANGED li
    BY <1>0, <2>2, StayTypes DEF Flushed
  <2> QED BY <2>1, <2>2 DEF JoinTick
<1>4. up' \in Flight
  <2>1. CASE UNCHANGED up BY <1>0, <2>1
  <2>2. CASE JoinedStep
    <3>1. jn.cursor.x \in Ssids BY <1>0, <2>2 DEF JoinedStep, JoinFine, Row
    <3> QED BY <1>0, <2>2, <3>1 DEF JoinedStep, Flight
  <2> QED BY <2>1, <2>2 DEF JoinTick
<1>5. cap' \in Capture
  <2>1. [cap EXCEPT !.armed = TRUE] \in Capture BY <1>0 DEF Capture
  <2> QED BY <1>0, <2>1 DEF JoinTick, VerifyStep
<1> QED BY <1>0, <1>1, <1>2, <1>3, <1>4, <1>5, JoinKeeps

\* The ends of the join's waits keep the types.
LEMMA JoinOtherType ==
  ASSUME AllFine, JoinEnds \/ JoinAge \/ JoinHunt, UNCHANGED toolVars
  PROVE  AllFine'
<1>0. JoinFine(jn) /\ jn \in JoinScreen /\ li \in Listener /\ slot \in Command
  BY DEF AllFine, LinkFine, JoinFine
<1>1. /\ UNCHANGED <<tx, rx, model, board, radio, tl, bt, keep>>
      /\ UNCHANGED <<up, pg, cap, logs>> /\ UNCHANGED <<scene, play, ghost>> /\ UNCHANGED slot
  BY DEF JoinEnds, JoinAge, JoinHunt, keepJoin, tally, toolVars
<1>2. JoinFine(jn') /\ li' \in Listener
  <2>1. CASE JoinEnds
    <3>1. JoinFine(Failed(jn)) BY <1>0, ArmTypes DEF Failed, JoinFine, Phase
    <3>2. Listen("Off") \in Listener BY ListenType DEF Mode
    <3> QED BY <2>1, <3>1, <3>2 DEF JoinEnds
  <2>2. CASE JoinAge
    BY <1>0, <2>2, StayTypes DEF JoinAge
  <2>3. CASE JoinHunt
    BY <1>0, <2>3 DEF JoinHunt, JoinFine, JoinScreen
  <2> QED BY <2>1, <2>2, <2>3
<1> QED BY <1>0, <1>1, <1>2, JoinOnlyKeeps

-----------------------------------------------------------------------------
(* Types: the Board tools.                                                 *)

\* A step of the Board tools: what it may touch is fine, the rest as it was.
LEMMA ToolKeeps ==
  ASSUME AllFine, UNCHANGED toolsRest,
         scene' \in [at : Screen, half : BOOLEAN], play' \in PlaySet,
         ghost' \in [rushed : BOOLEAN, lost : BOOLEAN], slot' \in Command,
         ToolFine(tl'), HeardFine(bt'), LogsFine(logs')
  PROVE  AllFine'
<1>1. LinkFine' BY DEF AllFine, LinkFine, toolsRest
<1>2. /\ up' \in Flight /\ pg' \in Page /\ cap' \in Capture
      /\ board' \in UploadBoard /\ JoinFine(jn') /\ li' \in Listener /\ radio' \in Radio
      /\ KeepFine'
  BY Zenon DEF AllFine, KeepFine, toolsRest, joinVars
<1> QED BY <1>1, <1>2, AllFineNext

ToolCmd == {c \in Command : c.c \in ToolWord}

\* The tools screen stays one through every page change and every start.
LEMMA ToolTypes ==
  ASSUME NEW t, ToolFine(t)
  PROVE  /\ ToolFine(StopTx(t))
         /\ \A page \in ToolPage \ {"Ask"} : ToolFine(Show(t, page)) /\ ToolFine(ShowNote(t, page))
         /\ ToolFine(BackList(t))
         /\ ToolFine(Show(t, t.back))
         /\ \A c \in ToolCmd, wait \in Wait : ToolFine(Begun(t, c, wait))
         /\ \A b \in BOOLEAN : ToolFine([t EXCEPT !.listing = b])
         /\ ToolFine([t EXCEPT !.wait = "None"])
         /\ ToolFine([t EXCEPT !.ripe = TRUE])
         /\ ToolFine([t EXCEPT !.cmd = NoCmd])
         /\ \A del \in {"Idle", "One", "All1", "All2"} : ToolFine([t EXCEPT !.del = del])
         /\ \A kb \in Sizes \cup {"unknown"} : ToolFine([t EXCEPT !.size = kb])
<1> DEFINE Cmds == [c : ToolWord, n : Nat, x : Ssids \cup LogNames \cup Sizes \cup {"-"}]
           None == NoCmd
<1>1. \A c \in ToolCmd : c \in Cmds /\ c \in Command BY DEF ToolCmd, Command, Names
<1>2. None \in ToolCmd BY CmdType DEF NoCmd, Cmd, ToolCmd, ToolWord, CmdKind
<1>3. t \in ToolScreen /\ t.page \in ToolPage /\ t.back \in ToolPage \ {"Ask"}
  BY DEF ToolFine, ToolScreen
<1>p. ToolScreen = [page : ToolPage, reading : BOOLEAN, back : ToolPage,
        ask : {"No", "Rm", "Clear", "Log", "All"}, del : {"Idle", "One", "All1", "All2"},
        ripe : BOOLEAN, wait : Wait, listing : BOOLEAN, cmd : Cmds,
        tag : {"Plain", "IgnBar", "LsBar"}, rm : Item \cup {NoItem},
        file : LogNames \cup {NoName}, size : Sizes \cup {"unknown"}]
  BY DEF ToolScreen
<1> HIDE DEF Cmds, None
<1>4. ToolFine(StopTx(t))
  <2>1. StopTx(t) = [t EXCEPT !.cmd = None, !.wait = "None", !.listing = FALSE]
    BY DEF StopTx, None
  <2> QED BY <1>1, <1>2, <1>3, <1>p, <2>1 DEF ToolFine, Wait
<1>5. ASSUME NEW page \in ToolPage \ {"Ask"}
      PROVE  ToolFine(Show(t, page)) /\ ToolFine(ShowNote(t, page))
  <2>1. ToolFine(Show(t, page)) BY <1>1, <1>3, <1>p DEF ToolFine, Show
  <2> DEFINE noted == Show(t, "Note")
  <2>2. ToolFine(noted) BY <1>1, <1>3, <1>p DEF ToolFine, Show, ToolPage
  <2>3. ShowNote(t, page) = [noted EXCEPT !.wait = "None", !.back = page] BY DEF ShowNote
  <2> HIDE DEF noted
  <2>4. ToolFine(ShowNote(t, page)) BY <2>2, <2>3, <1>p DEF ToolFine, Wait
  <2> QED BY <2>1, <2>4
<1>6. ToolFine(BackList(t)) BY <1>5 DEF BackList, ToolPage
<1>7. ASSUME NEW c \in ToolCmd, NEW wait \in Wait PROVE ToolFine(Begun(t, c, wait))
  <2>1. ToolFine([t EXCEPT !.cmd = c, !.tag = "Plain", !.reading = TRUE, !.wait = wait])
    BY <1>1, <1>3, <1>p DEF ToolFine
  <2>2. ToolFine([t EXCEPT !.wait = "None"]) BY <1>1, <1>3, <1>p DEF ToolFine, Wait
  <2> QED BY <2>1, <2>2 DEF Begun
<1>8. /\ \A b \in BOOLEAN : ToolFine([t EXCEPT !.listing = b])
      /\ ToolFine([t EXCEPT !.wait = "None"]) /\ ToolFine([t EXCEPT !.ripe = TRUE])
  BY <1>1, <1>3, <1>p DEF ToolFine, Wait
<1>9. ToolFine([t EXCEPT !.cmd = NoCmd]) BY <1>1, <1>2, <1>3, <1>p DEF ToolFine, None
<1>10. \A del \in {"Idle", "One", "All1", "All2"} : ToolFine([t EXCEPT !.del = del])
  BY <1>1, <1>3, <1>p DEF ToolFine
<1>11. \A kb \in Sizes \cup {"unknown"} : ToolFine([t EXCEPT !.size = kb])
  BY <1>1, <1>3, <1>p DEF ToolFine
<1> QED BY <1>3, <1>4, <1>5, <1>6, <1>7, <1>8, <1>9, <1>10, <1>11

Tooled == ToolFine(tl') /\ HeardFine(bt') /\ LogsFine(logs')

\* Every start of a command from the tools scene keeps what it changes in type.
LEMMA StartTypes ==
  ASSUME AllFine, NEW t, ToolFine(t)
  PROVE  /\ ShowGate => Tooled
         /\ StartList(t) => Tooled
         /\ StartLs(t) => Tooled
         /\ \A c \in ToolCmd, wait \in Wait : StartReply(t, c, wait) => Tooled
<1>0. ToolFine(tl) /\ HeardFine(bt) /\ LogsFine(logs) BY DEF AllFine
<1>1. ShowGate => Tooled
  <2>1. ToolFine(StopTx(tl)) BY <1>0, ToolTypes
  <2>2. ToolFine(Show(StopTx(tl), "Gate")) BY <2>1, ToolTypes DEF ToolPage
  <2> QED BY <1>0, <2>2, HeardTypes, LogsTypes DEF ShowGate, Tooled
<1>2. Cmd("ignList") \in ToolCmd /\ Cmd("ls") \in ToolCmd
  BY CmdType DEF ToolCmd, ToolWord, CmdKind, Cmd
<1>3. ToolFine(Begun(t, Cmd("ignList"), "List")) /\ ToolFine(Begun(t, Cmd("ls"), "Ls"))
  BY <1>2, ToolTypes DEF Wait
<1>4. StartList(t) => Tooled
  <2>1. ToolFine([Begun(t, Cmd("ignList"), "List") EXCEPT !.listing = FALSE])
    BY <1>3, ToolTypes
  <2>2. HeardFine([BtArmList EXCEPT !.news = FALSE])
    <3>1. HeardFine(BtArmList) BY <1>0, HeardTypes
    <3> QED BY <3>1 DEF HeardFine, Listening
  <2> QED BY <1>0, <1>1, <2>1, <2>2 DEF StartList, Tooled
<1>5. StartLs(t) => Tooled
  <2> DEFINE b == tl.cmd = NoCmd
  <2>1. b \in BOOLEAN OBVIOUS
  <2>2. StartLs(t) => ShowGate \/ (/\ bt' = BtArmReply /\ logs' = LogsArm
                                   /\ tl' = [Begun(t, Cmd("ls"), "Ls") EXCEPT !.listing = b])
    BY DEF StartLs
  <2> HIDE DEF b
  <2>3. ToolFine([Begun(t, Cmd("ls"), "Ls") EXCEPT !.listing = b])
    BY <1>3, <2>1, ToolTypes
  <2> QED BY <1>0, <1>1, <2>2, <2>3, HeardTypes, LogsTypes DEF Tooled
<1>6. ASSUME NEW c \in ToolCmd, NEW wait \in Wait, StartReply(t, c, wait) PROVE Tooled
  <2>1. ToolFine(Begun(t, c, wait)) BY ToolTypes
  <2> QED BY <1>0, <1>1, <1>6, <2>1, HeardTypes DEF StartReply, Tooled
<1> QED BY <1>1, <1>4, <1>5, <1>6

\* A page that asks is about something.
LEMMA AskingTypes ==
  ASSUME NEW t, ToolFine(t)
  PROVE  /\ \A item \in Item :
              ToolFine([Show(t, "Ask") EXCEPT !.ask = "Rm", !.del = "One", !.rm = item])
         /\ ToolFine([Show(t, "Ask") EXCEPT !.ask = "Clear", !.del = "One"])
         /\ \A f \in LogNames :
              ToolFine([Show(t, "Ask") EXCEPT !.ask = "Log", !.del = "One", !.file = f])
         /\ ToolFine([Show(t, "Ask") EXCEPT !.ask = "All", !.del = "All1", !.ripe = FALSE])
         /\ t.page = "Ask" => \A del \in {"Idle", "One", "All1", "All2"} :
              ToolFine([Show(t, "Ask") EXCEPT !.del = del, !.ripe = FALSE])
<1> DEFINE u == Show(t, "Ask")
<1>1. /\ u \in ToolScreen /\ u.cmd \in Command /\ u.back # "Ask" /\ u.page = "Ask"
      /\ u.ask = "Rm" => u.rm \in Item
      /\ u.ask = "Log" => u.file \in LogNames
      /\ t.page = "Ask" => u.ask # "No"
  <2>1. t \in ToolScreen BY DEF ToolFine
  <2>2. u = [t EXCEPT !.page = "Ask", !.reading = FALSE] BY DEF Show
  <2> HIDE DEF u
  <2>3. u \in ToolScreen BY <2>1, <2>2 DEF ToolScreen, ToolPage
  <2>4. /\ u.page = "Ask" /\ u.cmd = t.cmd /\ u.back = t.back /\ u.ask = t.ask
        /\ u.rm = t.rm /\ u.file = t.file
    BY <2>1, <2>2 DEF ToolScreen
  <2> QED BY <2>3, <2>4 DEF ToolFine
<1> HIDE DEF u
<1>2. \A item \in Item : ToolFine([u EXCEPT !.ask = "Rm", !.del = "One", !.rm = item])
  BY <1>1 DEF ToolFine, ToolScreen
<1>3. ToolFine([u EXCEPT !.ask = "Clear", !.del = "One"]) BY <1>1 DEF ToolFine, ToolScreen
<1>4. \A f \in LogNames : ToolFine([u EXCEPT !.ask = "Log", !.del = "One", !.file = f])
  BY <1>1 DEF ToolFine, ToolScreen
<1>5. ToolFine([u EXCEPT !.ask = "All", !.del = "All1", !.ripe = FALSE])
  <2> DEFINE v == [u EXCEPT !.ask = "All", !.del = "All1", !.ripe = FALSE]
  <2>1. v \in ToolScreen BY <1>1 DEF ToolScreen
  <2>2. /\ v.page = u.page /\ v.cmd = u.cmd /\ v.back = u.back /\ v.ask = "All"
        /\ v.rm = u.rm /\ v.file = u.file
    BY <1>1 DEF ToolScreen
  <2> HIDE DEF v
  <2>3. ToolFine(v) BY <1>1, <2>1, <2>2 DEF ToolFine
  <2> QED BY <2>3 DEF v
<1>6. t.page = "Ask" => \A del \in {"Idle", "One", "All1", "All2"} :
              ToolFine([u EXCEPT !.del = del, !.ripe = FALSE])
  <2> SUFFICES ASSUME t.page = "Ask", NEW del \in {"Idle", "One", "All1", "All2"}
               PROVE  ToolFine([u EXCEPT !.del = del, !.ripe = FALSE])
    OBVIOUS
  <2> DEFINE v == [u EXCEPT !.del = del, !.ripe = FALSE]
  <2>1. v \in ToolScreen BY <1>1 DEF ToolScreen
  <2>2. /\ v.page = u.page /\ v.cmd = u.cmd /\ v.back = u.back /\ v.ask = u.ask
        /\ v.rm = u.rm /\ v.file = u.file
    BY <1>1 DEF ToolScreen
  <2> HIDE DEF v
  <2>3. ToolFine(v) BY <1>1, <2>1, <2>2 DEF ToolFine
  <2> QED BY <2>3 DEF v
<1> QED BY <1>2, <1>3, <1>4, <1>5, <1>6 DEF u

\* The tools scene's key handlers keep the types.
LEMMA ToolsUserType == ASSUME AllFine, ToolsUser PROVE AllFine'
<1>0. /\ LinkFine /\ ToolFine(tl) /\ HeardFine(bt) /\ LogsFine(logs)
      /\ scene \in [at : Screen, half : BOOLEAN] /\ play \in PlaySet /\ slot \in Command
      /\ ghost \in [rushed : BOOLEAN, lost : BOOLEAN] /\ "tools" \in Screen
      /\ tl \in ToolScreen
  BY DEF AllFine, LinkFine, Screen, ToolFine
<1>a. ASSUME Ask("tools", NoneAwaited), UNCHANGED <<slot, toolsRest>>, Tooled PROVE AllFine'
  <2>1. /\ scene' \in [at : Screen, half : BOOLEAN] /\ play' \in PlaySet
        /\ ghost' \in [rushed : BOOLEAN, lost : BOOLEAN]
    BY <1>0, <1>a, AskType
  <2> QED BY <1>0, <1>a, <2>1, ToolKeeps DEF Tooled
<1>b. ASSUME UNCHANGED <<scene, tally, slot, toolsRest>>, Tooled PROVE AllFine'
  BY <1>0, <1>b, ToolKeeps DEF Tooled, tally
<1>c. /\ \A c \in {"ignClear", "rmAll", "split"} : Cmd(c) \in ToolCmd
      /\ \A x \in Ssids : CmdOf("ignAdd", 0, x) \in ToolCmd
      /\ \A item \in Item : CmdOf("ignRm", item.n, item.x) \in ToolCmd
      /\ \A f \in LogNames : CmdOf("rm", 0, f) \in ToolCmd
      /\ \A kb \in Sizes : CmdOf("split", 1, kb) \in ToolCmd
  <2>1. IgnoreMax \in Nat BY ToolsAssumption
  <2> QED BY <2>1 DEF Cmd, CmdOf, ToolCmd, ToolWord, Command, CmdKind, CmdFits, Names, Item
<1>1. CASE EnterTools
  <2>1. ToolFine(ToolsFresh) /\ \A page \in {"Peer", "Gate"} : ToolFine([ToolsFresh EXCEPT !.page = page])
    <3>1. NoCmd \in [c : ToolWord, n : Nat, x : Ssids \cup LogNames \cup Sizes \cup {"-"}]
            /\ NoCmd \in Command
      BY CmdType DEF NoCmd, Cmd, ToolWord, CmdKind
    <3> QED BY <3>1 DEF ToolFine, ToolsFresh, ToolScreen, ToolPage, Wait, NoItem
  <2>2. ToolFine(tl') BY <1>1, <2>1 DEF EnterTools
  <2>3. HeardFine(bt') /\ LogsFine(logs') BY <1>0, <1>1, HeardTypes, LogsTypes DEF EnterTools
  <2>4. UNCHANGED <<slot, play, ghost, toolsRest>> /\ scene' \in [at : Screen, half : BOOLEAN]
    BY <1>0, <1>1 DEF EnterTools, Goto, tally
  <2> QED BY <1>0, <2>2, <2>3, <2>4, ToolKeeps
<1>2. CASE ToolsList
  BY <1>0, <1>2, <1>a, StartTypes DEF ToolsList
<1>3. CASE ToolsLogs
  BY <1>0, <1>3, <1>a, StartTypes DEF ToolsLogs
<1>4. CASE ToolsOpenAdd
  <2>1. ToolFine(ShowNote(tl, "Ignore")) /\ ToolFine(Show(tl, "Add"))
    BY <1>0, ToolTypes DEF ToolPage
  <2> QED BY <1>0, <1>4, <1>b, <2>1 DEF ToolsOpenAdd, Tooled
<1>5. CASE ToolsAdd
  <2>1. PICK x \in Ssids : StartReply(tl, CmdOf("ignAdd", 0, x), "Added")
    BY <1>5 DEF ToolsAdd
  <2> QED BY <1>0, <1>5, <1>a, <1>c, <2>1, StartTypes DEF ToolsAdd, Wait
<1>6. CASE ToolsConfirm
  <2>1. \A i \in DOMAIN bt.items : bt.items[i] \in Item
    <3>1. bt.items \in Seq(Item) BY <1>0 DEF HeardFine, Listening
    <3> HIDE DEF Item
    <3> QED BY <3>1
  <2>2. LogsShown(logs) \subseteq LogNames
    <3> DEFINE Listed == [name : LogNames, sent : BOOLEAN]
    <3>1. logs.slots \in Seq(Listed) BY <1>0 DEF LogsFine, LogRecord
    <3>2. \A i \in DOMAIN logs.slots : logs.slots[i] \in Listed
      <4> HIDE DEF Listed
      <4> QED BY <3>1
    <3> QED BY <3>2 DEF LogsShown
  <2> DEFINE t == Show(tl, "Ask")
  <2>3. ToolFine(tl')
    <3>1. CASE \E i \in DOMAIN bt.items :
                 tl' = [t EXCEPT !.ask = "Rm", !.del = "One", !.rm = bt.items[i]]
      <4>1. PICK item \in Item : tl' = [t EXCEPT !.ask = "Rm", !.del = "One", !.rm = item]
        BY <2>1, <3>1
      <4> QED BY <1>0, <4>1, AskingTypes
    <3>2. CASE tl' = [t EXCEPT !.ask = "Clear", !.del = "One"]
      BY <1>0, <3>2, AskingTypes
    <3>3. CASE \E f \in LogsShown(logs) :
                 tl' = [t EXCEPT !.ask = "Log", !.del = "One", !.file = f]
      <4>1. PICK f \in LogNames : tl' = [t EXCEPT !.ask = "Log", !.del = "One", !.file = f]
        BY <2>2, <3>3
      <4> QED BY <1>0, <4>1, AskingTypes
    <3>4. CASE tl' = [t EXCEPT !.ask = "All", !.del = "All1", !.ripe = FALSE]
      BY <1>0, <3>4, AskingTypes
    <3> QED BY <1>6, <3>1, <3>2, <3>3, <3>4 DEF ToolsConfirm
  <2> QED BY <1>0, <1>6, <1>b, <2>3 DEF ToolsConfirm, Tooled
<1>d. ASSUME NEW key \in {"Left", "Center", "Right"}, NEW blocked \in BOOLEAN
      PROVE  DelKey(key, blocked).del \in {"Idle", "One", "All1", "All2"}
  BY <1>0 DEF DelKey, ToolScreen
<1>7. CASE ToolsSend
  <2>0. (Gate # "Ok") \in BOOLEAN OBVIOUS
  <2>1. PICK key \in {"Center", "Right"} : Confirmed([tl EXCEPT !.del = DelKey(key, Gate # "Ok").del])
    BY <1>7 DEF ToolsSend
  <2> DEFINE del == DelKey(key, Gate # "Ok").del
             t == [tl EXCEPT !.del = del]
  <2>2. del \in {"Idle", "One", "All1", "All2"} BY <1>d, <2>0
  <2> HIDE DEF del
  <2>3. ToolFine(t) /\ t.page = "Ask"
    <3>1. tl.page = "Ask" BY <1>7 DEF ToolsSend, Choosing
    <3> QED BY <1>0, <2>2, <3>1, ToolTypes DEF ToolScreen
  <2>4. Confirmed(t) BY <2>1 DEF del
  <2> HIDE DEF t
  <2>5. Tooled
    <3>1. t.ask \in {"Rm", "Clear", "Log", "All"} BY <2>3 DEF ToolFine, ToolScreen
    <3>2. CASE t.ask = "Rm"
      BY <1>c, <2>3, <2>4, <3>2, StartTypes DEF Confirmed, ToolFine, Wait
    <3>3. CASE t.ask = "Clear"
      BY <1>c, <2>3, <2>4, <3>3, StartTypes DEF Confirmed, Wait
    <3>4. CASE t.ask = "Log"
      BY <1>c, <2>3, <2>4, <3>4, StartTypes DEF Confirmed, ToolFine, Wait
    <3>5. CASE t.ask = "All"
      BY <1>c, <2>3, <2>4, <3>5, StartTypes DEF Confirmed, Wait
    <3> QED BY <3>1, <3>2, <3>3, <3>4, <3>5
  <2> QED BY <1>7, <1>a, <2>5 DEF ToolsSend
<1>8. CASE ToolsButton
  <2>0. (Gate # "Ok") \in BOOLEAN OBVIOUS
  <2>1. PICK key \in {"Left", "Center", "Right"} :
         \/ /\ tl' = BackList([tl EXCEPT !.del = DelKey(key, Gate # "Ok").del])
            /\ UNCHANGED <<bt, logs>>
         \/ /\ tl' = [Show(tl, "Ask") EXCEPT !.del = DelKey(key, Gate # "Ok").del, !.ripe = FALSE]
            /\ UNCHANGED <<bt, logs>>
         \/ ShowGate
    BY <1>8, Zenon DEF ToolsButton
  <2> DEFINE del == DelKey(key, Gate # "Ok").del
             t == [tl EXCEPT !.del = del]
  <2>2. del \in {"Idle", "One", "All1", "All2"} BY <1>d, <2>0
  <2>3. \/ tl' = BackList(t) /\ UNCHANGED <<bt, logs>>
        \/ tl' = [Show(tl, "Ask") EXCEPT !.del = del, !.ripe = FALSE] /\ UNCHANGED <<bt, logs>>
        \/ ShowGate
    BY <2>1
  <2> HIDE DEF del
  <2>4. ToolFine(BackList(t))
    <3>1. ToolFine(t) BY <1>0, <2>2, ToolTypes
    <3> HIDE DEF t
    <3> QED BY <3>1, ToolTypes
  <2>5. ToolFine([Show(tl, "Ask") EXCEPT !.del = del, !.ripe = FALSE])
    <3>1. tl.page = "Ask" BY <1>8 DEF ToolsButton, Choosing
    <3> QED BY <1>0, <2>2, <3>1, AskingTypes
  <2>6. Tooled BY <1>0, <2>3, <2>4, <2>5, StartTypes DEF Tooled
  <2> QED BY <1>8, <1>b, <2>6 DEF ToolsButton
<1>9. CASE ToolsNoteOk
  BY <1>0, <1>9, <1>b, ToolTypes DEF ToolsNoteOk, Tooled
<1>10. CASE ToolsSplit
  <2>1. StartReply(tl, Cmd("split"), "Split")
          \/ \E kb \in Sizes : StartReply(tl, CmdOf("split", 1, kb), "Split")
    BY <1>10 DEF ToolsSplit
  <2>2. Tooled BY <1>0, <1>c, <2>1, StartTypes DEF Wait
  <2> QED BY <1>10, <1>a, <2>2 DEF ToolsSplit
<1>11. CASE ToolsBack
  <2> DEFINE b == ghost.rushed \/ tl.wait # "None"
  <2>0. play' = play /\ ghost' = [ghost EXCEPT !.rushed = b] /\ b \in BOOLEAN
    BY <1>11 DEF ToolsBack
  <2> HIDE DEF b
  <2>1. ghost' \in [rushed : BOOLEAN, lost : BOOLEAN] /\ play' \in PlaySet BY <1>0, <2>0
  <2>2. scene' \in [at : Screen, half : BOOLEAN]
    BY <1>0, <1>11 DEF ToolsBack, Goto, Screen
  <2>3. HeardFine(bt') /\ LogsFine(logs')
    BY <1>0, <1>11, HeardTypes, LogsTypes DEF ToolsBack
  <2>4. ToolFine(StopTx(tl)) BY <1>0, ToolTypes
  <2>5. ToolFine(Show(StopTx(tl), "Logs")) /\ ToolFine(Show(StopTx(tl), "Menu"))
    BY <2>4, ToolTypes DEF ToolPage
  <2>6. \A t : ToolFine(t) => ToolFine([t EXCEPT !.del = "Idle"]) BY ToolTypes
  <2>7. ToolFine([Show(tl, tl.back) EXCEPT !.del = "Idle"])
          /\ ToolFine([BackList(tl) EXCEPT !.del = "Idle"])
    BY <1>0, <2>6, ToolTypes
  <2>8. ToolFine(tl')
    <3>1. \/ tl' = [Show(tl, tl.back) EXCEPT !.del = "Idle"]
          \/ tl' = [BackList(tl) EXCEPT !.del = "Idle"]
          \/ tl' = Show(StopTx(tl), "Logs") \/ tl' = Show(StopTx(tl), "Menu")
          \/ tl' = StopTx(tl)
      BY <1>11 DEF ToolsBack
    <3> QED BY <2>4, <2>5, <2>7, <3>1
  <2>9. UNCHANGED slot /\ UNCHANGED toolsRest BY <1>11 DEF ToolsBack
  <2> QED BY <1>0, <2>1, <2>2, <2>3, <2>8, <2>9, ToolKeeps
<1> QED BY <1>1, <1>2, <1>3, <1>4, <1>5, <1>6, <1>7, <1>8, <1>9, <1>10, <1>11 DEF ToolsUser

\* The tools' wait becoming ripe keeps the types.
LEMMA RipeType == ASSUME AllFine, ToolsRipe PROVE AllFine'
<1>0. /\ LinkFine /\ ToolFine(tl) /\ HeardFine(bt) /\ LogsFine(logs)
      /\ scene \in [at : Screen, half : BOOLEAN] /\ play \in PlaySet /\ slot \in Command
      /\ ghost \in [rushed : BOOLEAN, lost : BOOLEAN]
  BY DEF AllFine, LinkFine
<1>1. ToolFine(tl') BY <1>0, ToolTypes DEF ToolsRipe
<1> QED BY <1>0, <1>1, ToolKeeps DEF ToolsRipe, tally

\* Finishing a tools command keeps what it changes in type.
LEMMA FinishTypes ==
  ASSUME AllFine, NEW t, ToolFine(t), Finish(t)
  PROVE  Tooled
<1>0. ToolFine(tl) /\ HeardFine(bt) /\ LogsFine(logs) BY DEF AllFine
<1>1. ToolFine(ShowNote(t, "Logs")) /\ ToolFine(ShowNote(t, "Split"))
  BY ToolTypes DEF ToolPage
<1>2. HeardFine(Looked) BY <1>0, HeardTypes
<1>3. \/ ShowGate \/ StartLs(t) \/ StartList(t)
      \/ /\ tl' \in {ShowNote(t, "Logs"), ShowNote(t, "Split"), t}
         /\ bt' = Looked /\ UNCHANGED logs
  BY DEF Finish
<1> QED BY <1>0, <1>1, <1>2, <1>3, StartTypes DEF Tooled

\* The tools scene's ticks keep the types.
LEMMA ToolsTicksType == ASSUME AllFine, ToolsTicks PROVE AllFine'
<1>0. /\ LinkFine /\ ToolFine(tl) /\ HeardFine(bt) /\ LogsFine(logs)
      /\ scene \in [at : Screen, half : BOOLEAN] /\ play \in PlaySet /\ slot \in Command
      /\ ghost \in [rushed : BOOLEAN, lost : BOOLEAN]
      /\ tl \in ToolScreen /\ tl.cmd \in Command
  BY DEF AllFine, LinkFine, ToolFine
<1>b. ASSUME UNCHANGED <<scene, tally, toolsRest>>, slot' \in Command, Tooled PROVE AllFine'
  BY <1>0, <1>b, ToolKeeps DEF Tooled, tally
<1>1. CASE PumpGate
  <2>1. ToolFine(StopTx(tl)) BY <1>0, ToolTypes
  <2>2. ToolFine(Show(StopTx(tl), "Menu")) BY <2>1, ToolTypes DEF ToolPage
  <2>3. Tooled BY <1>0, <1>1, <2>2, StartTypes DEF PumpGate, Tooled
  <2> QED BY <1>0, <1>1, <1>b, <2>3 DEF PumpGate
<1>2. CASE PumpSend
  <2>1. ToolFine([tl EXCEPT !.cmd = NoCmd]) BY <1>0, ToolTypes
  <2>2. HeardFine([bt EXCEPT !.barrier = TRUE]) BY <1>0 DEF HeardFine, Listening
  <2>3. Tooled BY <1>0, <1>2, <2>1, <2>2, LogsTypes DEF PumpSend, Tooled
  <2> QED BY <1>0, <1>2, <1>b, <2>3 DEF PumpSend
<1>3. CASE PumpBarrier
  <2>1. Cmd("channel") \in Command
          /\ Cmd("channel") \in [c : ToolWord, n : Nat, x : Ssids \cup LogNames \cup Sizes \cup {"-"}]
    BY CmdType DEF Cmd, ToolWord, CmdKind
  <2> DEFINE tag == IF IgnoreBarrierDue THEN "IgnBar" ELSE "LsBar"
             c == Cmd("channel")
  <2>2. tag \in {"Plain", "IgnBar", "LsBar"} OBVIOUS
  <2>3. tl' = [tl EXCEPT !.cmd = c, !.tag = tag] BY <1>3 DEF PumpBarrier
  <2> HIDE DEF tag, c
  <2>4. ToolFine(tl') BY <1>0, <2>1, <2>2, <2>3 DEF ToolFine, ToolScreen, c
  <2> QED BY <1>0, <1>3, <1>b, <2>4 DEF PumpBarrier, Tooled
<1>4. CASE PumpObserve
  <2>1. ToolFine(SplitTaken)
    <3> DEFINE taken == IF bt.sized THEN [tl EXCEPT !.size = bt.size] ELSE tl
               ended == IF taken.wait = "Split" THEN [taken EXCEPT !.wait = "None"] ELSE taken
    <3>1. bt.size \in Sizes \cup {"unknown"} BY <1>0 DEF HeardFine, Listening
    <3>2. ToolFine(taken) BY <1>0, <3>1, ToolTypes
    <3>e. SplitTaken = IF bt.sized /\ (tl.page = "Split" \/ tl.wait = "Split")
                       THEN Show(ended, "Split") ELSE taken
      BY DEF SplitTaken
    <3> HIDE DEF taken
    <3>3. ToolFine(ended) BY <3>2, ToolTypes
    <3> HIDE DEF ended
    <3>4. ToolFine(Show(ended, "Split")) BY <3>3, ToolTypes DEF ToolPage
    <3> QED BY <3>2, <3>4, <3>e
  <2>2. HeardFine([bt EXCEPT !.sized = FALSE]) BY <1>0 DEF HeardFine, Listening
  <2>3. ToolFine([tl EXCEPT !.listing = FALSE]) BY <1>0, ToolTypes
  <2>4. ToolFine([Show(tl, "Ignore") EXCEPT !.wait = "None"])
    <3>1. ToolFine(Show(tl, "Ignore")) BY <1>0, ToolTypes DEF ToolPage
    <3> QED BY <3>1, ToolTypes
  <2>5. ToolFine([Show(tl, "Logs") EXCEPT !.wait = "None", !.listing = FALSE])
    <3>1. ToolFine(Show(tl, "Logs")) BY <1>0, ToolTypes DEF ToolPage
    <3> DEFINE u == Show(tl, "Logs")
    <3> HIDE DEF u
    <3>2. ToolFine(u) BY <3>1 DEF u
    <3>3. ToolFine([u EXCEPT !.wait = "None", !.listing = FALSE])
      BY <3>2 DEF ToolFine, ToolScreen, Wait
    <3> QED BY <3>3 DEF u
  <2>6. \/ ShowGate
        \/ /\ tl' \in {[Show(tl, "Ignore") EXCEPT !.wait = "None"],
                       [Show(tl, "Logs") EXCEPT !.wait = "None", !.listing = FALSE]}
           /\ UNCHANGED <<bt, logs>>
        \/ Finish([tl EXCEPT !.listing = FALSE]) \/ Finish(SplitTaken)
        \/ tl' = SplitTaken /\ bt' = [bt EXCEPT !.sized = FALSE] /\ UNCHANGED logs
    BY <1>4 DEF PumpObserve
  <2>7. Tooled
    BY <1>0, <2>1, <2>2, <2>3, <2>4, <2>5, <2>6, StartTypes, FinishTypes DEF Tooled
  <2> QED BY <1>0, <1>4, <1>b, <2>7 DEF PumpObserve
<1> QED BY <1>1, <1>2, <1>3, <1>4 DEF ToolsTicks

-----------------------------------------------------------------------------
\* Every step keeps the types.
LEMMA NextFine == AllFine /\ [Next]_vars => AllFine'
<1> SUFFICES ASSUME AllFine, [Next]_vars PROVE AllFine'
  OBVIOUS
<1>1. CASE Next
  <2>1. CASE Write \/ Apply \/ Lose BY <2>1, WriteType, ApplyType, LoseType
  <2>2. CASE UploadUser \/ JoinUser \/ ToolsUser
    BY <2>2, UploadUserType, JoinUserType, ToolsUserType
  <2>3. CASE UploadTicks \/ JoinTicks \/ ToolsTicks
    BY <2>3, UploadTicksType, JoinTickType, JoinOtherType, ToolsTicksType DEF JoinTicks
  <2>4. CASE Time
    BY <2>4, CapTimeType, JoinOtherType, RipeType DEF Time
  <2>5. CASE BoardStep \/ BoardWard
    BY <2>5, ReadType, UploadBoardType, WardType DEF BoardStep
  <2> QED BY <1>1, <2>1, <2>2, <2>3, <2>4, <2>5 DEF Next
<1>2. CASE UNCHANGED vars
  <2>1. LinkFine' BY <1>2 DEF AllFine, LinkFine, vars, link
  <2>2. UNCHANGED <<uploadVars, board, rest>> BY <1>2 DEF vars
  <2> QED BY <2>1, <2>2, RestFine
<1> QED BY <1>1, <1>2

\* The types of the panels: what every screen, listener and the board keep
\* is what their records say, and a listing never outgrows its tables.
THEOREM TypeCorrect == Spec => []TypeOK
<1>1. AllFine => TypeOK
  BY DEF AllFine, TypeOK, UploadTypeOK, JoinTypeOK, ToolsTypeOK, LogsFine, JoinFine,
     ToolFine, HeardFine, KeepFine
<1> QED BY InitFine, NextFine, <1>1, PTL DEF Spec

-----------------------------------------------------------------------------
(* The app knows of an upload the board is busy with.  A user who waits    *)
(* asks for one when nothing is on its way, so it goes first on the line;  *)
(* from then on no line that ends a flight is under way until the board    *)
(* has said it is over.                                                    *)

Ending == {"noCreds", "unreached", "noKey", "unsupported", "complete"}

NoEnd == \A i \in DOMAIN rx : rx[i].k \notin Ending

\* An upload is on its way to the board.
Pending == slot.c = "upload" \/ (tx # <<>> /\ tx[1].c = "upload")

FlightInv ==
  Unhurried =>
    /\ ~pg.retry
    /\ slot.c = "upload" => tx = <<>>
    /\ \A i \in DOMAIN tx : i > 1 => tx[i].c # "upload"
    /\ Pending => up.flight /\ board.job = "idle" /\ NoEnd
    /\ board.job = "upload" => up.flight /\ NoEnd

\* A step that leaves the line as it is, and puts no upload in the slot.
LEMMA FlightKeeps ==
  ASSUME FlightInv, Unhurried' => Unhurried, UNCHANGED <<tx, rx, board>>,
         slot' = slot \/ slot'.c # "upload",
         up.flight => up'.flight,
         pg'.retry = pg.retry \/ ~pg'.retry
  PROVE  FlightInv'
  BY DEF FlightInv, Pending, NoEnd

\* A screen asked for in an unhurried behaviour was asked for in time.
LEMMA AskUnhurried ==
  ASSUME AllFine, NEW screen, NEW inTime, Ask(screen, inTime)
  PROVE  Unhurried' => Unhurried /\ inTime
<1> DEFINE b == ghost.rushed \/ ~inTime
<1>1. ghost \in [rushed : BOOLEAN, lost : BOOLEAN] BY DEF AllFine, LinkFine
<1>2. ghost' = [ghost EXCEPT !.rushed = b] BY DEF Ask
<1>3. ghost'.rushed = b /\ ghost'.lost = ghost.lost
  <2> HIDE DEF b
  <2> QED BY <1>1, <1>2
<1> QED BY <1>3 DEF Unhurried

\* An upload is asked for when nothing is on its way.
LEMMA GoFlight ==
  ASSUME AllFine, FlightInv, Quiet, board.job = "idle", TryGo,
         UNCHANGED <<tx, rx, board>>, Unhurried' => Unhurried
  PROVE  FlightInv'
<1>1. Free /\ tx = <<>> /\ rx = <<>> BY DEF Quiet
<1>2. /\ slot' = Cmd("upload") /\ up' = OnSend(up) /\ pg' = [pg EXCEPT !.retry = ~Free]
  BY <1>1 DEF TryGo, Send
<1>3. pg \in Page /\ up \in Flight BY DEF AllFine
<1>4. up'.flight
  <2>1. ClearFlight(up) \in Flight BY <1>3, FlightTypes
  <2> QED BY <1>2, <2>1 DEF OnSend, Flight
<1>5. ~pg'.retry BY <1>1, <1>2, <1>3 DEF Page
<1>6. tx' = <<>> /\ rx' = <<>> /\ board'.job = "idle" BY <1>1
<1> QED BY <1>4, <1>5, <1>6 DEF FlightInv, Pending, NoEnd

\* What a line does to the flight.
LEMMA FeedFlight ==
  ASSUME NEW u \in Flight, u.flight, NEW line \in Spoken, line.k \notin Ending
  PROVE  UpFeed(u, line).flight
<1>d. /\ DOMAIN EarlyEnd = {"noCreds", "unreached", "noKey", "unsupported"}
      /\ DOMAIN Cause = {"noConnect", "noReply", "noBuffer", "noFile"}
  BY DEF EarlyEnd, Cause
<1>1. CloseFile(u) \in Flight /\ CloseFile(u).flight
  <2>1. CloseFile(u).flight = u.flight
    <3>1. CASE u.open
      <4> DEFINE nFail == IF u.fileFail THEN u.nFail + 1 ELSE u.nFail
                 nOk == IF ~u.fileFail /\ u.fileOk THEN u.nOk + 1 ELSE u.nOk
      <4>1. CloseFile(u) = [u EXCEPT !.nFail = nFail, !.nOk = nOk, !.open = FALSE,
                                   !.fileOk = FALSE, !.fileFail = FALSE]
        BY <3>1 DEF CloseFile, Flight
      <4> HIDE DEF nFail, nOk
      <4> QED BY <4>1 DEF Flight
    <3>2. CASE ~u.open BY <3>2 DEF CloseFile
    <3> QED BY <3>1, <3>2
  <2> QED BY <2>1, FlightTypes
<1>2. ASSUME NEW v \in Flight, v.flight PROVE KeepOk(v).flight /\ KeepFail(v).flight
  BY <1>2 DEF KeepOk, KeepFail, Flight
<1>3. ASSUME line.k = "connected" PROVE UpFeed(u, line).flight
  <2> DEFINE new == u.joined # NoName /\ u.joined = line.x
  <2>1. UpFeed(u, line) = [u EXCEPT !.wifiOk = TRUE, !.wifiJoined = new]
    BY <1>d, <1>3 DEF UpFeed
  <2> HIDE DEF new
  <2> QED BY <2>1 DEF Flight
<1>4. ASSUME line.k = "uploading" PROVE UpFeed(u, line).flight
  <2>1. UpFeed(u, line) = [CloseFile(u) EXCEPT !.walked = TRUE, !.open = TRUE,
                                               !.name = line.x, !.face = "Sending"]
    BY <1>d, <1>4 DEF UpFeed
  <2> QED BY <1>1, <2>1 DEF Flight
<1>5. ASSUME line.k \in {"skipped", "uploadOk", "succeeded", "noReply"} PROVE UpFeed(u, line).flight
  <2>1. /\ [u EXCEPT !.skip = TRUE] \in Flight /\ [u EXCEPT !.skip = TRUE].flight
        /\ [u EXCEPT !.ok = TRUE] \in Flight /\ [u EXCEPT !.ok = TRUE].flight
        /\ [u EXCEPT !.ok = TRUE, !.succeeded = TRUE] \in Flight
        /\ [u EXCEPT !.ok = TRUE, !.succeeded = TRUE].flight
        /\ [u EXCEPT !.why = @ \cup {"reply"}] \in Flight
        /\ [u EXCEPT !.why = @ \cup {"reply"}].flight
    BY DEF Flight, Why
  <2> QED BY <1>d, <1>2, <1>5, <2>1 DEF UpFeed
<1>6. ASSUME line.k \in DOMAIN Cause \ {"noReply"} PROVE UpFeed(u, line).flight
  <2>1. Cause[line.k] \in Why BY <1>6 DEF Cause, Why
  <2>2. /\ [u EXCEPT !.why = @ \cup {Cause[line.k]}] \in Flight
        /\ [u EXCEPT !.why = @ \cup {Cause[line.k]}].flight
    BY <2>1 DEF Flight
  <2> QED BY <1>d, <1>2, <1>6, <2>2 DEF UpFeed
<1>7. ASSUME line.k = "failed" PROVE UpFeed(u, line).flight
  BY <1>d, <1>2, <1>7 DEF UpFeed
<1>8. ASSUME line.k \notin {"connected", "uploading", "skipped", "uploadOk", "succeeded",
                            "noReply", "failed"}, line.k \notin DOMAIN Cause
      PROVE  UpFeed(u, line).flight
  BY <1>d, <1>8 DEF UpFeed, Ending
<1> QED BY <1>3, <1>4, <1>5, <1>6, <1>7, <1>8

\* What the board says of a file ends no flight.
LEMMA FileNoEnd ==
  ASSUME NEW how \in DOMAIN FileLines, NEW lines \in FileLines[how], NEW i \in DOMAIN lines
  PROVE  lines[i].k \notin Ending
<1> USE DEF Ending
<1>1. how \in {"sent", "skipped", "failed", "silent"} BY DEF FileLines
<1>2. FileLines["failed"] = {<<Line("failed")>>} \cup {<<Line(why), Line("failed")>> : why \in Causes}
  BY DEF FileLines
<1>3. CASE how = "failed"
  <2>1. CASE lines = <<Line("failed")>> BY <2>1 DEF Line
  <2>2. CASE \E why \in Causes : lines = <<Line(why), Line("failed")>>
    BY <2>2, UploadAssumption DEF Line
  <2> QED BY <1>2, <1>3, <2>1, <2>2
<1>4. CASE how = "sent" BY <1>4 DEF FileLines, Line
<1>5. CASE how \in {"skipped", "silent"} BY <1>5 DEF FileLines, Line
<1> QED BY <1>1, <1>3, <1>4, <1>5

\* A step that does not touch the line, the flight or the Upload screen.
LEMMA FlightFrame ==
  ASSUME FlightInv, UNCHANGED <<tx, rx, board, up, pg>>, Unhurried' => Unhurried,
         slot' = slot \/ slot'.c # "upload"
  PROVE  FlightInv'
  BY FlightKeeps

\* Entering the upload scene keeps what is known of the flight.
LEMMA EnteredFlight ==
  ASSUME AllFine, FlightInv, UploadEntered, UNCHANGED <<tx, rx, board>>,
         Unhurried' => Unhurried
  PROVE  FlightInv'
<1>1. slot' = slot \/ slot'.c # "upload" BY DEF UploadEntered, Send, Cmd
<1>2. up.flight => up'.flight BY DEF UploadEntered
<1>3. ~pg'.retry BY DEF UploadEntered, AllFine, Page
<1> QED BY <1>1, <1>2, <1>3, FlightKeeps

\* So does every key the user presses.
LEMMA FlightUser ==
  ASSUME AllFine, FlightInv, UploadUser \/ JoinUser \/ ToolsUser
  PROVE  FlightInv'
<1>0. pg \in Page /\ up \in Flight BY DEF AllFine
<1>1. CASE UploadUser
  <2>1. CASE EnterUpload
    <3>1. Unhurried' => Unhurried BY <2>1, AskUnhurried DEF EnterUpload, tally, Unhurried
    <3> QED BY <2>1, <3>1, EnteredFlight DEF EnterUpload
  <2>2. CASE UploadBack \/ UploadHelp
    <3>1. /\ UNCHANGED <<slot, tx, rx, board, up>> /\ Unhurried' = Unhurried
          /\ pg'.retry = pg.retry
      BY <1>0, <2>2 DEF UploadBack, UploadHelp, link, tally, Unhurried, Page
    <3> QED BY <3>1, FlightKeeps
  <2>3. CASE UploadLogs(JoinBusy)
    <3>1. Unhurried' => Unhurried BY <2>3, AskUnhurried DEF UploadLogs
    <3>2. UNCHANGED <<tx, rx, board, up>> BY <2>3 DEF UploadLogs
    <3>3. slot' = slot \/ slot'.c # "upload" BY <2>3 DEF UploadLogs, Send, Cmd
    <3>4. pg'.retry = pg.retry
      <4>1. \E b : pg' = [pg EXCEPT !.block = b] BY <2>3 DEF UploadLogs
      <4> QED BY <1>0, <4>1 DEF Page
    <3> QED BY <3>1, <3>2, <3>3, <3>4, FlightKeeps
  <2>4. CASE UploadGo
    <3>1. Unhurried' => Unhurried /\ Answered BY <2>4, AskUnhurried DEF UploadGo
    <3>2. UNCHANGED <<tx, rx, board>> BY <2>4 DEF UploadGo
    <3>3. CASE ~Unhurried' BY <3>3 DEF FlightInv
    <3>4. CASE Unhurried' /\ TryGo
      BY <3>1, <3>2, <3>4, GoFlight DEF Answered
    <3>5. CASE pg' = [pg EXCEPT !.retry = FALSE] /\ UNCHANGED <<slot, up>>
      <4>1. ~pg'.retry BY <1>0, <3>5 DEF Page
      <4> QED BY <3>1, <3>2, <3>5, <4>1, FlightKeeps
    <3> QED BY <2>4, <3>3, <3>4, <3>5 DEF UploadGo
  <2> QED BY <1>1, <2>1, <2>2, <2>3, <2>4 DEF UploadUser
<1>2. CASE JoinUser
  <2>1. CASE JoinLeave
    <3>1. Unhurried' = Unhurried /\ UNCHANGED <<tx, rx, board>> /\ UploadEntered
      BY <2>1 DEF JoinLeave, tally, Unhurried
    <3> QED BY <3>1, EnteredFlight
  <2>2. CASE EnterJoin
    <3>1. Unhurried' => Unhurried BY <2>2, AskUnhurried DEF EnterJoin
    <3> QED BY <2>2, <3>1, FlightFrame DEF EnterJoin
  <2>3. CASE JoinBackStop
    <3>1. Unhurried' => Unhurried BY <2>3, AskUnhurried DEF JoinBackStop, tally, Unhurried
    <3> QED BY <2>3, <3>1, FlightFrame DEF JoinBackStop, keepJoin
  <2>4. CASE JoinBackPass \/ JoinBackFail \/ JoinPick
    <3>1. Unhurried' = Unhurried /\ UNCHANGED <<slot, tx, rx, board, up, pg>>
      BY <2>4 DEF JoinBackPass, JoinBackFail, JoinPick, keepJoin, tally, Unhurried
    <3> QED BY <3>1, FlightFrame
  <2>5. CASE JoinScan \/ JoinAdd \/ JoinPass
    <3>1. Ask("join", Answered) /\ UNCHANGED <<slot, tx, rx, board, up, pg>>
      BY <2>5 DEF JoinScan, JoinAdd, JoinPass, keepJoin
    <3>2. Unhurried' => Unhurried BY <3>1, AskUnhurried
    <3> QED BY <3>1, <3>2, FlightFrame
  <2> QED BY <1>2, <2>1, <2>2, <2>3, <2>4, <2>5 DEF JoinUser
<1>3. CASE ToolsUser
  <2>1. UNCHANGED <<slot, tx, rx, board, up, pg>>
    BY <1>3 DEF ToolsUser, EnterTools, ToolsList, ToolsLogs, ToolsOpenAdd, ToolsAdd, ToolsConfirm,
       ToolsSend, ToolsButton, ToolsNoteOk, ToolsSplit, ToolsBack, toolsRest
  <2>2. Unhurried' => Unhurried
    <3>1. CASE Ask("tools", NoneAwaited) BY <3>1, AskUnhurried
    <3>2. CASE UNCHANGED tally BY <3>2 DEF tally, Unhurried
    <3>3. CASE ToolsBack
      <4> DEFINE b == ghost.rushed \/ tl.wait # "None"
      <4>1. ghost \in [rushed : BOOLEAN, lost : BOOLEAN] BY DEF AllFine, LinkFine
      <4>2. ghost' = [ghost EXCEPT !.rushed = b] BY <3>3 DEF ToolsBack
      <4>3. ghost'.rushed = b /\ ghost'.lost = ghost.lost
        <5> HIDE DEF b
        <5> QED BY <4>1, <4>2
      <4> QED BY <4>3 DEF Unhurried
    <3> QED BY <1>3, <3>1, <3>2, <3>3 DEF ToolsUser, EnterTools, ToolsList, ToolsLogs, ToolsOpenAdd,
           ToolsAdd, ToolsConfirm, ToolsSend, ToolsButton, ToolsNoteOk, ToolsSplit
  <2> QED BY <2>1, <2>2, FlightFrame
<1> QED BY <1>1, <1>2, <1>3

\* So do the ticks of every scene and time passing.
LEMMA FlightTicks ==
  ASSUME AllFine, FlightInv, UploadTicks \/ JoinTicks \/ ToolsTicks \/ Time
  PROVE  FlightInv'
<1>0. pg \in Page /\ up \in Flight BY DEF AllFine
<1>u. Unhurried' = Unhurried
  BY DEF UploadTicks, JoinTicks, ToolsTicks, Time, UploadTickFirst, UploadTickRetry, CapMark,
     CapDisarm, JoinEnds, JoinTick, Tick, PumpGate, PumpSend, PumpBarrier, PumpObserve, CapTime,
     JoinAge, JoinHunt, ToolsRipe, tally, Unhurried
<1>1. CASE UploadTickFirst
  <2>1. UNCHANGED <<tx, rx, board, up>> BY <1>1 DEF UploadTickFirst
  <2>2. slot' = slot \/ slot'.c # "upload" BY <1>1 DEF UploadTickFirst, Send, Cmd
  <2>3. pg'.retry = pg.retry
    <3>1. \E a, b, c, d, e : pg' = [pg EXCEPT !.flew = a, !.stored = b, !.refresh = c,
                                             !.last = d, !.file = e]
      <4>1. PICK wrote \in {"Ok", "Bad", "refused"} :
         pg' = [pg EXCEPT
               !.flew = @ \/ FlewDue,
               !.stored = (@ /\ ~FlewDue) \/ StoreDue,
               !.refresh = (@ /\ ~FlewDue) \/ RefreshDue,
               !.last = IF ~StoreDue THEN @ ELSE IF wrote = "Ok" THEN "Ok" ELSE "Bad",
               !.file = IF StoreDue /\ wrote # "refused" THEN wrote ELSE @]
        BY <1>1, Zenon DEF UploadTickFirst
      <4> QED BY <4>1
    <3>2. PICK a, b, c, d, e : pg' = [pg EXCEPT !.flew = a, !.stored = b, !.refresh = c,
                                             !.last = d, !.file = e]
      BY <3>1
    <3> QED BY <1>0, <3>2 DEF Page
  <2> QED BY <1>u, <2>1, <2>2, <2>3, FlightKeeps
<1>2. CASE UploadTickRetry
  <2>1. CASE ~Unhurried' BY <2>1 DEF FlightInv
  <2>2. CASE Unhurried BY <1>2, <2>2 DEF FlightInv, UploadTickRetry
  <2> QED BY <1>u, <2>1, <2>2
<1>3. CASE CapMark \/ CapDisarm \/ CapTime
  BY <1>3, <1>u, FlightFrame DEF CapMark, CapDisarm, CapTime, link
<1>4. CASE JoinEnds \/ JoinAge \/ JoinHunt
  BY <1>4, <1>u, FlightFrame DEF JoinEnds, JoinAge, JoinHunt, keepJoin
<1>5. CASE JoinTick
  <2>1. UNCHANGED <<tx, rx, board, pg>> BY <1>5 DEF JoinTick, Tick, keepJoin
  <2>2. slot' = slot \/ slot'.c # "upload"
    <3>1. jn \in JoinScreen BY DEF AllFine, JoinFine
    <3> QED BY <1>5, <3>1, PendType DEF JoinTick, Tick
  <2>3. up'.flight = up.flight
    <3>1. up' = up \/ up' = [up EXCEPT !.joined = jn.cursor.x] BY <1>5 DEF JoinTick, JoinedStep
    <3> QED BY <1>0, <3>1 DEF Flight
  <2> QED BY <1>u, <2>1, <2>2, <2>3, FlightKeeps
<1>6. CASE ToolsTicks \/ ToolsRipe
  <2>1. tl.cmd.c # "upload" BY DEF AllFine, ToolFine, ToolScreen, ToolWord
  <2>2. UNCHANGED <<tx, rx, board, up, pg>> /\ (slot' = slot \/ slot' = tl.cmd)
    BY <1>6 DEF ToolsTicks, PumpGate, PumpSend, PumpBarrier, PumpObserve, ToolsRipe, toolsRest
  <2> QED BY <1>u, <2>1, <2>2, FlightFrame
<1> QED BY <1>1, <1>2, <1>3, <1>4, <1>5, <1>6 DEF UploadTicks, JoinTicks, Time

\* An upload that waits on the line goes first.
LEMMA FlightWrite == ASSUME AllFine, FlightInv, Write PROVE FlightInv'
<1>1. /\ slot # NoCmd /\ tx' = Append(tx, slot) /\ slot' = NoCmd
      /\ UNCHANGED <<rx, ghost, up, pg, board>> /\ tx \in Seq(Command)
  BY DEF Write, WriteSlot, Free, tally, uploadVars, AllFine, LinkFine
<1>2. slot'.c # "upload" BY <1>1 DEF NoCmd, Cmd
<1>3. /\ DOMAIN tx' = 1..(Len(tx) + 1) /\ tx'[Len(tx) + 1] = slot /\ Len(tx) \in Nat
      /\ \A i \in 1..Len(tx) : tx'[i] = tx[i]
      /\ DOMAIN tx = 1..Len(tx)
      /\ tx = <<>> <=> Len(tx) = 0
  BY <1>1
<1>4. SUFFICES ASSUME Unhurried' PROVE FlightInv'
  BY DEF FlightInv
<1>5. Unhurried BY <1>1, <1>4 DEF Unhurried
<1>6. ASSUME NEW i \in DOMAIN tx', i > 1 PROVE tx'[i].c # "upload"
  <2>1. CASE i \in 1..Len(tx) BY <1>3, <1>5, <1>6, <2>1 DEF FlightInv
  <2>2. CASE i = Len(tx) + 1
    <3>1. tx # <<>> BY <1>3, <1>6, <2>2
    <3> QED BY <1>3, <1>5, <2>2, <3>1 DEF FlightInv
  <2> QED BY <1>3, <2>1, <2>2
<1>7. Pending' => Pending BY <1>2, <1>3 DEF Pending
<1> QED BY <1>1, <1>2, <1>5, <1>6, <1>7 DEF FlightInv, NoEnd

\* So does a line applied to the flight: each line that ends it is the last
\* the job says of it.
LEMMA FlightApply == ASSUME AllFine, FlightInv, Apply PROVE FlightInv'
<1>1. /\ rx # <<>> /\ rx' = Tail(rx) /\ up' = UpFeed(up, Head(rx))
      /\ UNCHANGED <<slot, tx, ghost, pg, board>>
      /\ rx \in Seq(Spoken) /\ up \in Flight
  BY DEF Apply, Heard, tally, AllFine, LinkFine
<1>2. Head(rx) = rx[1] /\ Head(rx) \in Spoken /\ 1 \in DOMAIN rx BY <1>1
<1>3. NoEnd => NoEnd'
  <2>1. \A i \in DOMAIN rx' : i + 1 \in DOMAIN rx /\ rx'[i] = rx[i + 1] BY <1>1
  <2> QED BY <2>1 DEF NoEnd
<1>4. NoEnd /\ up.flight => up'.flight BY <1>1, <1>2, FeedFlight DEF NoEnd
<1> QED BY <1>1, <1>3, <1>4 DEF FlightInv, Pending, Unhurried

\* Lines are added that end no flight.
LEMMA NoEndSay ==
  ASSUME rx \in Seq(Spoken), NEW lines \in Seq(Spoken), Say(lines), NoEnd,
         \A i \in DOMAIN lines : lines[i].k \notin Ending
  PROVE  NoEnd'
<1>1. rx' = rx \o lines BY DEF Say
<1>2. /\ DOMAIN rx = 1..Len(rx) /\ DOMAIN lines = 1..Len(lines) /\ Len(rx) \in Nat
      /\ Len(lines) \in Nat /\ DOMAIN rx' = 1..(Len(rx) + Len(lines))
      /\ \A i \in 1..(Len(rx) + Len(lines)) :
           rx'[i] = IF i <= Len(rx) THEN rx[i] ELSE lines[i - Len(rx)]
  BY <1>1
<1>3. ASSUME NEW i \in DOMAIN rx' PROVE rx'[i].k \notin Ending
  <2>1. CASE i <= Len(rx) BY <1>2, <1>3, <2>1 DEF NoEnd
  <2>2. CASE i > Len(rx)
    <3>1. i - Len(rx) \in DOMAIN lines BY <1>2, <2>2
    <3> QED BY <1>2, <2>2, <3>1
  <2> QED BY <1>2, <2>1, <2>2
<1> QED BY <1>3 DEF NoEnd

\* So does a step of the board's upload job.
LEMMA FlightBoard ==
  ASSUME AllFine, FlightInv, UploadFile \/ UploadNoKey \/ UploadComplete
  PROVE  FlightInv'
<1>0. up \in Flight /\ board \in UploadBoard /\ rx \in Seq(Spoken)
  BY DEF AllFine, LinkFine
<1>1. UNCHANGED <<slot, tx, pg>> /\ Unhurried' = Unhurried
  BY DEF UploadFile, UploadNoKey, UploadComplete, tally, uploadVars, Unhurried
<1>2. CASE UploadFile
  <2> DEFINE f == Head(board.left)
  <2>1. PICK how \in DOMAIN FileLines :
             /\ \E lines \in FileLines[how] : Say(<<LineOf("uploading", 0, f)>> \o lines)
             /\ board'.job = board.job
             /\ up'.flight = up.flight
    <3>1. PICK how \in DOMAIN FileLines :
             /\ \E lines \in FileLines[how] : Say(<<LineOf("uploading", 0, f)>> \o lines)
             /\ board' = [board EXCEPT !.left = Tail(@),
                                       !.dir = IF how = "sent" THEN Append(@, Sidecar(f)) ELSE @]
             /\ up' = [up EXCEPT !.done[f] = how]
      BY <1>2 DEF UploadFile
    <3>2. board'.job = board.job BY <1>0, <3>1 DEF UploadBoard
    <3>3. up'.flight = up.flight
      <4>1. up' = [up EXCEPT !.done = [up.done EXCEPT ![f] = how]] BY <3>1
      <4> QED BY <1>0, <4>1 DEF Flight
    <3> QED BY <3>1, <3>2, <3>3
  <2>2. PICK lines \in FileLines[how] : Say(<<LineOf("uploading", 0, f)>> \o lines)
    BY <2>1
  <2>3. lines \in Seq(Spoken) BY FileLinesType
  <2>4. f \in LogNames
    <3>1. board.left \in Seq(LogNames) /\ board.left # <<>>
      BY <1>0, <1>2 DEF UploadFile, UploadBoard
    <3> QED BY <3>1
  <2>5. LineOf("uploading", 0, f) \in Spoken /\ LineOf("uploading", 0, f).k = "uploading"
    BY <2>4, LineOfType DEF LineOf
  <2> DEFINE said == <<LineOf("uploading", 0, f)>> \o lines
  <2>6. said \in Seq(Spoken) /\ \A i \in DOMAIN said : said[i].k \notin Ending
    <3>1. /\ DOMAIN said = 1..(1 + Len(lines)) /\ said[1] = LineOf("uploading", 0, f)
          /\ \A i \in 2..(1 + Len(lines)) : said[i] = lines[i - 1] /\ i - 1 \in DOMAIN lines
          /\ said \in Seq(Spoken) /\ Len(lines) \in Nat
      BY <2>3, <2>5
    <3> HIDE DEF said
    <3>2. \A i \in DOMAIN lines : lines[i].k \notin Ending BY FileNoEnd
    <3>3. \A i \in 1..(1 + Len(lines)) : i = 1 \/ i \in 2..(1 + Len(lines)) BY <3>1
    <3> QED BY <2>5, <3>1, <3>2, <3>3 DEF Ending
  <2>7. NoEnd => NoEnd' BY <1>0, <2>2, <2>6, NoEndSay
  <2> QED BY <1>1, <2>1, <2>7 DEF FlightInv, Pending
<1>3. CASE UploadNoKey
  <2>1. board'.job = "noKey" BY <1>0, <1>3 DEF UploadNoKey, UploadBoard
  <2>2. board.job = "noKey" /\ up' = up BY <1>3 DEF UploadNoKey, uploadVars
  <2> QED BY <1>1, <2>1, <2>2 DEF FlightInv, Pending
<1>4. CASE UploadComplete
  <2>1. board'.job = "idle" BY <1>0, <1>4 DEF UploadComplete, UploadBoard
  <2>2. board.job # "idle" /\ up' = up BY <1>4 DEF UploadComplete, uploadVars
  <2> QED BY <1>1, <2>1, <2>2 DEF FlightInv, Pending
<1> QED BY <1>2, <1>3, <1>4

\* So does the board starting or stopping a scan.
LEMMA FlightWard == ASSUME AllFine, FlightInv, BoardWard PROVE FlightInv'
<1>1. /\ UNCHANGED <<slot, tx, pg, up, board>> /\ Unhurried' = Unhurried
      /\ Say(<<Line(IF keep.ward THEN "stopped" ELSE "started")>>)
      /\ rx \in Seq(Spoken)
  BY DEF BoardWard, uploadVars, Unhurried, AllFine, LinkFine
<1> DEFINE lines == <<Line(IF keep.ward THEN "stopped" ELSE "started")>>
<1>2. Line("stopped") \in Spoken /\ Line("started") \in Spoken BY LineType DEF LineKind
<1>3. lines \in Seq(Spoken) /\ \A i \in DOMAIN lines : lines[i].k \notin Ending
  BY <1>2 DEF Line, Ending
<1>4. NoEnd => NoEnd'
  <2> HIDE DEF lines
  <2>1. Say(lines) BY <1>1 DEF lines
  <2> QED BY <1>1, <1>3, <2>1, NoEndSay
<1> QED BY <1>1, <1>4 DEF FlightInv, Pending

\* The board reads a command when nothing it said is under way.
LEMMA FlightRead == ASSUME AllFine, FlightInv, Read PROVE FlightInv'
<1> DEFINE c == Head(tx)
<1>0. /\ tx # <<>> /\ rx = <<>> /\ board.job = "idle" /\ tx' = Tail(tx)
      /\ UNCHANGED <<slot, up, pg>> /\ Unhurried' = Unhurried
      /\ tx \in Seq(Command) /\ board \in UploadBoard /\ rx \in Seq(Spoken)
  BY DEF Read, uploadVars, AllFine, LinkFine, Unhurried
<1>1. /\ \A i \in DOMAIN tx' : i + 1 \in DOMAIN tx /\ tx'[i] = tx[i + 1] /\ i + 1 > 1
      /\ c = tx[1]
  BY <1>0
<1>2. SUFFICES ASSUME Unhurried' PROVE FlightInv'
  BY DEF FlightInv
<1>3. Unhurried /\ FlightInv BY <1>0, <1>2
<1>4. \A i \in DOMAIN tx' : tx'[i].c # "upload" BY <1>1, <1>3 DEF FlightInv
<1>5. ~Pending'
  <2>1. slot.c # "upload" BY <1>0, <1>3 DEF FlightInv
  <2>2. tx' # <<>> => 1 \in DOMAIN tx' BY <1>0
  <2> QED BY <1>0, <1>4, <2>1, <2>2 DEF Pending
<1>6. board'.job = "upload" => up.flight /\ NoEnd'
  <2>1. CASE ~(c.c = "upload" /\ ReadUpload)
    <3>1. board'.job = board.job
      BY <1>0, <2>1 DEF Read, ReadUploads, ReadJoins, ReadTools, ReadLs, ReadChannel, BoardBusy,
         ReadIgnList, ReadIgnAdd, ReadIgnRm, ReadIgnClear, ReadRm, ReadRmAll, ReadSplit, UploadBoard
    <3> QED BY <1>0, <3>1
  <2>2. CASE c.c = "upload" /\ ReadUpload
    <3>1. up.flight BY <1>0, <1>1, <1>3, <2>2 DEF FlightInv, Pending
    <3>2. CASE UNCHANGED board BY <1>0, <3>2
    <3>3. CASE \E s \in Ssids : Say(<<LineOf("connected", 0, s)>>)
      <4>1. PICK s \in Ssids : rx' = rx \o <<LineOf("connected", 0, s)>> BY <3>3 DEF Say
      <4>2. rx' = <<LineOf("connected", 0, s)>> BY <1>0, <4>1
      <4> QED BY <3>1, <4>2 DEF NoEnd, LineOf, Ending
    <3> QED BY <2>2, <3>2, <3>3 DEF ReadUpload
  <2> QED BY <2>1, <2>2
<1> QED BY <1>0, <1>1, <1>3, <1>4, <1>5, <1>6 DEF FlightInv

\* Every step keeps what is known of the flight.
LEMMA FlightNext == AllFine /\ FlightInv /\ [Next]_vars => FlightInv'
<1> SUFFICES ASSUME AllFine, FlightInv, [Next]_vars PROVE FlightInv'
  OBVIOUS
<1>1. CASE Lose
  <2>1. ghost' = [ghost EXCEPT !.lost = TRUE] /\ ghost \in [rushed : BOOLEAN, lost : BOOLEAN]
    BY <1>1 DEF Lose, LoseLine, AllFine, LinkFine
  <2> QED BY <2>1 DEF FlightInv, Unhurried
<1>2. CASE UNCHANGED vars
  BY <1>2, FlightFrame DEF vars, link, uploadVars, Unhurried
<1>3. CASE Next /\ ~Lose
  BY <1>3, FlightWrite, FlightApply, FlightUser, FlightTicks, FlightRead, FlightBoard, FlightWard
     DEF Next, BoardStep
<1> QED BY <1>1, <1>2, <1>3

\* While the board is busy with an upload the app knows of it, whatever screens
\* are left and entered meanwhile: the flag that bars a scan, a join and a
\* second upload (in_flight of sr_marauder_upload.c) is up, for a user who
\* waits for every answer and as long as no line is lost.
THEOREM UploadIsKnown == Spec => []FlightKnown
<1>1. Init => FlightInv
  <2> SUFFICES ASSUME Init PROVE FlightInv
    OBVIOUS
  <2>1. pg.retry = FALSE /\ board.job = "idle" /\ slot = NoCmd /\ tx = <<>>
    BY DEF Init, LinkInit, UploadInit
  <2> QED BY <2>1 DEF FlightInv, Pending, NoCmd, Cmd
<1>2. FlightInv => FlightKnown BY DEF FlightInv, FlightKnown
<1> QED BY InitFine, NextFine, <1>1, <1>2, FlightNext, PTL DEF Spec

-----------------------------------------------------------------------------
(* The list of ignored names.  It is renumbered by every removal and its   *)
(* end is not marked, so that the screen is right about it takes that one  *)
(* command is on its way at a time, and that each stage of a listing and   *)
(* of a change follows from the one before it.                             *)

ChangeWord == {"ignAdd", "ignRm", "ignClear"}

\* A page that shows the list, or that goes back to it.
ListPage ==
  \/ tl.page \in {"Ignore", "Add"}
  \/ tl.page = "Ask" /\ tl.ask \in {"Rm", "Clear"}
  \/ tl.page = "Note" /\ tl.back = "Ignore"

Settled == ListPage /\ ~tl.reading

\* The entry of that number has that name.
EntryIs(n, x) == n \in DOMAIN keep.ign /\ keep.ign[n] = x

\* What was heard is how the list begins.
HeardRight ==
  /\ Len(bt.items) <= Len(keep.ign)
  /\ \A i \in DOMAIN bt.items : bt.items[i] = [n |-> i, x |-> keep.ign[i]]

HeardAll == HeardRight /\ Len(bt.items) = Len(keep.ign)

\* From there on the line only tells of scans.
WardFrom(k) == \A i \in DOMAIN rx : i >= k => rx[i].k \in {"started", "stopped"}

\* Behind k lines comes what is left of the list, or the board is busy.
RestAt(k) ==
  LET heard == Len(bt.items)
      left  == Len(keep.ign) - heard
  IN  /\ left \in Nat /\ k + left <= Len(rx)
      /\ \A i \in 1..left : rx[k + i] = LineOf("ignItem", heard + i, keep.ign[heard + i])
      /\ WardFrom(k + left + 1)

BusyAt(k) == k + 1 <= Len(rx) /\ rx[k + 1].k = "busy" /\ WardFrom(k + 2)

NoneSent == slot = NoCmd /\ tx = <<>>

Nothing == tl.cmd = NoCmd /\ NoneSent

\* c is on its way and nothing else.
Only(c) ==
  \/ tl.cmd = c /\ NoneSent
  \/ tl.cmd = NoCmd /\ slot = c /\ tx = <<>>
  \/ tl.cmd = NoCmd /\ slot = NoCmd /\ tx = <<c>>

NoChange ==
  /\ tl.cmd.c \notin ChangeWord /\ slot.c \notin ChangeWord
  /\ \A i \in DOMAIN tx : tx[i].c \notin ChangeWord

\* The stages of a listing: asked for; told and not heard yet; being heard,
\* with the barrier to be sent, under way or answered; closed; refused.
Untouched == ~bt.echo /\ ~bt.due /\ ~bt.barrier /\ ~bt.closed /\ ~bt.busy /\ bt.items = <<>>

ListAsked == Untouched /\ Only(Cmd("ignList")) /\ WardFrom(1)

ListTold ==
  /\ Untouched /\ Nothing
  /\ rx # <<>> /\ rx[1].k = "ignEcho" /\ (RestAt(1) \/ BusyAt(1))

Hearing == bt.echo /\ bt.due /\ ~bt.closed /\ ~bt.busy /\ HeardRight

BarrierNext ==
  /\ Hearing /\ ~bt.barrier /\ NoneSent
  /\ tl.cmd = NoCmd \/ (tl.cmd = Cmd("channel") /\ tl.tag = "IgnBar")
  /\ RestAt(0) \/ BusyAt(0)

BarrierSent ==
  /\ Hearing /\ bt.barrier /\ Only(Cmd("channel")) /\ tl.cmd = NoCmd
  /\ RestAt(0) \/ BusyAt(0)

BarrierTold ==
  /\ Hearing /\ bt.barrier /\ Nothing /\ HeardAll
  /\ rx # <<>> /\ rx[1].k = "chEcho" /\ WardFrom(2)

ListHeard == bt.closed /\ ~bt.busy /\ Nothing /\ HeardAll

ListRefused == bt.closed /\ bt.busy /\ (Nothing \/ Only(Cmd("channel")))

ListStage ==
  /\ bt.listen = "List" /\ ~tl.listing /\ board.job = "idle" /\ NoChange
  /\ \/ ListAsked \/ ListTold
     \/ BarrierNext \/ BarrierSent \/ BarrierTold
     \/ ListHeard \/ ListRefused

\* The stages of a change of the list: asked for, told, heard.
ChangeStage ==
  /\ bt.listen = "Reply" /\ ~tl.listing /\ board.job = "idle"
  /\ \/ /\ ~bt.news /\ WardFrom(1)
        /\ tl.cmd.c \in ChangeWord /\ NoneSent
     \/ /\ ~bt.news /\ WardFrom(1)
        /\ tl.cmd = NoCmd /\ slot.c \in ChangeWord /\ tx = <<>>
     \/ /\ ~bt.news /\ WardFrom(1)
        /\ tl.cmd = NoCmd /\ slot = NoCmd /\ Len(tx) = 1 /\ tx[1].c \in ChangeWord
     \/ ~bt.news /\ Nothing /\ rx # <<>> /\ WardFrom(2)
     \/ Nothing /\ WardFrom(1)

OneChange ==
  /\ slot.c \in ChangeWord => \A i \in DOMAIN tx : tx[i].c \notin ChangeWord
  /\ \A i, j \in DOMAIN tx : tx[i].c \in ChangeWord /\ tx[j].c \in ChangeWord => i = j

\* What is to be removed is what the user confirmed.
RemovesRight ==
  /\ slot.c = "ignRm" => EntryIs(slot.n, slot.x)
  /\ tl.cmd.c = "ignRm" => EntryIs(tl.cmd.n, tl.cmd.x)
  /\ \A i \in DOMAIN tx : tx[i].c = "ignRm" => EntryIs(tx[i].n, tx[i].x)

SettledRight ==
  /\ tl.wait = "None" /\ ~tl.listing /\ NoChange
  /\ bt.listen = "List" /\ bt.closed /\ HeardAll
  /\ tl.page = "Ask" /\ tl.ask = "Rm" => EntryIs(tl.rm.n, tl.rm.x)

Changes == {"Added", "Removed", "Cleared"}

Backs == {"Menu", "Ignore", "Logs", "Split"}

ListInv ==
  Unhurried =>
    /\ Settled => SettledRight
    /\ tl.wait = "List" => ListStage
    /\ tl.wait \in Changes => ChangeStage
    /\ tl.cmd.c \in ChangeWord => tl.wait \in Changes
    /\ tl.wait # "None" => scene.at = "tools"
    /\ tl.reading => tl.wait # "None"
    /\ tl.back \in Backs
    /\ OneChange /\ RemovesRight

Awaited == tl.wait = "List" \/ tl.wait \in Changes

\* A step that does not touch the list, the screen or its listener, when no
\* answer is awaited.
LEMMA ListFrame ==
  ASSUME ListInv, Unhurried' => Unhurried, Unhurried => ~Awaited,
         UNCHANGED <<tl, bt, keep, tx>>,
         slot' = slot \/ slot'.c \notin ChangeWord,
         tl.wait = "None" \/ scene'.at = scene.at
  PROVE  ListInv'
<1> SUFFICES ASSUME Unhurried' PROVE ListInv'
  BY DEF ListInv
<1>0. Unhurried /\ ~Awaited OBVIOUS
<1>1. NoChange => NoChange' BY DEF NoChange
<1>2. SettledRight => SettledRight'
  BY <1>1 DEF SettledRight, HeardAll, HeardRight, EntryIs
<1>3. OneChange => OneChange' BY DEF OneChange
<1>4. RemovesRight => RemovesRight' BY DEF RemovesRight, EntryIs, ChangeWord
<1> QED BY <1>0, <1>2, <1>3, <1>4 DEF ListInv, Awaited, Settled, ListPage, Changes

\* What other screens do.
LEMMA ListElsewhere ==
  ASSUME ListInv, scene.at # "tools", Unhurried' => Unhurried, UNCHANGED <<tl, bt, keep, tx>>,
         slot' = slot \/ slot'.c \notin ChangeWord
  PROVE  ListInv'
<1>1. CASE Unhurried
  <2>1. tl.wait = "None" BY <1>1 DEF ListInv
  <2> QED BY <2>1, ListFrame DEF Awaited, Changes
<1>2. CASE ~Unhurried
  BY <1>2 DEF ListInv
<1> QED BY <1>1, <1>2

\* What a listing or a change waits for is still to come.
LineKept ==
  /\ WardFrom(1) => WardFrom(1)'
  /\ WardFrom(2) => WardFrom(2)'
  /\ RestAt(0) => RestAt(0)'
  /\ RestAt(1) => RestAt(1)'
  /\ BusyAt(0) => BusyAt(0)'
  /\ BusyAt(1) => BusyAt(1)'
  /\ rx # <<>> => rx' # <<>> /\ rx'[1] = rx[1]

\* A step that only adds to the line what no listing minds.
LEMMA ListOn ==
  ASSUME ListInv, Unhurried' => Unhurried, UNCHANGED <<tl, bt, tx, slot, board>>,
         LineKept, keep'.ign = keep.ign, scene'.at = scene.at
  PROVE  ListInv'
<1> SUFFICES ASSUME Unhurried' PROVE ListInv'
  BY DEF ListInv
<1>0. Unhurried OBVIOUS
<1>1. NoChange => NoChange' BY DEF NoChange
<1>2. SettledRight => SettledRight'
  BY <1>1 DEF SettledRight, HeardAll, HeardRight, EntryIs
<1>3. OneChange => OneChange' BY DEF OneChange
<1>4. RemovesRight => RemovesRight' BY DEF RemovesRight, EntryIs
<1>5. ListStage => ListStage'
  <2>1. (HeardRight => HeardRight') /\ (HeardAll => HeardAll') BY DEF HeardAll, HeardRight
  <2>2. \A c : Only(c) => Only(c)' BY DEF Only, NoneSent
  <2> QED BY <1>1, <2>1, <2>2
     DEF ListStage, ListAsked, ListTold, Untouched, BarrierNext, BarrierSent, BarrierTold, Hearing,
         ListHeard, ListRefused, Nothing, NoneSent, LineKept
<1>6. ChangeStage => ChangeStage' BY DEF ChangeStage, Nothing, NoneSent, LineKept
<1> QED BY <1>0, <1>2, <1>3, <1>4, <1>5, <1>6 DEF ListInv, Settled, ListPage

\* A step that touches nothing of the list, the link or the board keeps ListInv.
LEMMA ListStill ==
  ASSUME ListInv, Unhurried' => Unhurried, UNCHANGED <<tl, bt, keep, tx, slot, rx, board>>,
         scene'.at = scene.at
  PROVE  ListInv'
<1>1. LineKept BY DEF LineKept, RestAt, BusyAt, WardFrom
<1> QED BY <1>1, ListOn

\* The board's own menu adds a line about its scan.
LEMMA ListWard == ASSUME AllFine, ListInv, BoardWard PROVE ListInv'
<1>0. rx \in Seq(Spoken) /\ KeepFine /\ HeardFine(bt) BY DEF AllFine, LinkFine
<1>1. PICK w \in {Line("stopped"), Line("started")} : rx' = rx \o <<w>>
  BY DEF BoardWard, Say
<1>2. w.k \in {"started", "stopped"} BY <1>1 DEF Line
<1>3. Len(rx') = Len(rx) + 1 /\ \A i \in 1..Len(rx) : rx'[i] = rx[i] BY <1>0, <1>1
<1>4. rx'[Len(rx) + 1] = w /\ DOMAIN rx' = 1..(Len(rx) + 1) /\ DOMAIN rx = 1..Len(rx)
  BY <1>0, <1>1
<1>5. keep'.ign = keep.ign /\ bt' = bt /\ Unhurried' = Unhurried
  BY <1>0 DEF BoardWard, KeepFine, Unhurried
<1>6. Len(bt.items) \in Nat /\ Len(keep.ign) \in Nat
  BY <1>0 DEF KeepFine, HeardFine, Listening
<1>7. \A k \in Nat : WardFrom(k) => WardFrom(k)'
  <2>1. SUFFICES ASSUME NEW k \in Nat, WardFrom(k), NEW i \in DOMAIN rx', i >= k
                 PROVE  rx'[i].k \in {"started", "stopped"}
    BY DEF WardFrom
  <2>2. CASE i = Len(rx) + 1 BY <2>2, <1>2, <1>4
  <2>3. CASE i \in 1..Len(rx) BY <2>1, <2>3, <1>3, <1>4 DEF WardFrom
  <2> QED BY <2>1, <2>2, <2>3, <1>4
<1>8. ASSUME NEW k \in Nat PROVE (RestAt(k) => RestAt(k)') /\ (BusyAt(k) => BusyAt(k)')
  <2> DEFINE left == Len(keep.ign) - Len(bt.items)
  <2>1. RestAt(k) => RestAt(k)'
    <3>1. SUFFICES ASSUME RestAt(k) PROVE RestAt(k)'
      OBVIOUS
    <3>2. /\ k + left <= Len(rx) /\ left \in Nat /\ WardFrom(k + left + 1)
          /\ \A i \in 1..left : rx[k + i] = LineOf("ignItem", Len(bt.items) + i, keep.ign[Len(bt.items) + i])
      BY <3>1 DEF RestAt
    <3>3. left' = left BY <1>5
    <3> HIDE DEF left
    <3>4. k + left + 1 \in Nat BY <3>2
    <3>5. WardFrom(k + left + 1)' BY <3>2, <3>3, <3>4, <1>7
    <3>6. \A i \in 1..left : k + i \in 1..Len(rx) BY <3>2, <1>0
    <3>7. \A i \in 1..left : rx'[k + i] = LineOf("ignItem", Len(bt.items) + i, keep.ign[Len(bt.items) + i])
      BY <3>2, <3>6, <1>3
    <3>8. k + left <= Len(rx') BY <3>2, <1>3, <1>0
    <3> QED BY <3>2, <3>3, <3>5, <3>7, <3>8, <1>5 DEF RestAt, left
  <2>2. BusyAt(k) => BusyAt(k)' BY <1>3, <1>4, <1>7, <1>0 DEF BusyAt
  <2> QED BY <2>1, <2>2
<1>9. LineKept
  <2>1. rx # <<>> => rx' # <<>> /\ rx'[1] = rx[1] BY <1>0, <1>3
  <2> QED BY <2>1, <1>7, <1>8 DEF LineKept
<1>10. UNCHANGED <<tl, bt, tx, slot, board, scene>> BY DEF BoardWard
<1> QED BY <1>5, <1>9, <1>10, ListOn

\* A line is lost: nothing is said of what follows.
LEMMA ListLose == ASSUME AllFine, ListInv, Lose PROVE ListInv'
<1>1. ~Unhurried' BY DEF Lose, LoseLine, Unhurried, AllFine, LinkFine
<1> QED BY <1>1 DEF ListInv

\* The board goes on with an upload: none of the answers is awaited then.
LEMMA ListBoard ==
  ASSUME AllFine, ListInv, UploadFile \/ UploadNoKey \/ UploadComplete, UNCHANGED rest
  PROVE  ListInv'
<1>1. board.job # "idle" BY DEF UploadFile, UploadNoKey, UploadComplete
<1>2. Unhurried => ~Awaited BY <1>1 DEF ListInv, ListStage, ChangeStage, Awaited
<1>3. UNCHANGED <<tl, bt, keep, tx, slot, scene, ghost>>
  BY DEF UploadFile, UploadNoKey, UploadComplete, rest, tally
<1> QED BY <1>2, <1>3, ListFrame DEF Unhurried

\* The other scenes' keys and ticks keep ListInv: the tools scene is not open.
LEMMA ListElse ==
  ASSUME AllFine, ListInv,
         \/ UploadUser \/ JoinUser \/ UploadTicks \/ JoinTicks
         \/ CapTime /\ UNCHANGED rest
         \/ (JoinAge \/ JoinHunt) /\ UNCHANGED toolVars
  PROVE  ListInv'
<1>1. CASE UploadUser
  <2>1. UNCHANGED <<tl, bt, keep, tx>> /\ scene.at # "tools"
    BY <1>1 DEF UploadUser, EnterUpload, UploadBack, UploadHelp, UploadLogs, UploadGo, At, link, rest
  <2>2. slot' \in {slot, Cmd("sigroam"), Cmd("ls"), Cmd("upload")}
    <3>1. EnterUpload => slot' \in {slot, Cmd("sigroam")}
      BY DEF EnterUpload, UploadEntered, Send
    <3>2. UploadLogs(JoinBusy) => slot' \in {slot, Cmd("ls")} BY DEF UploadLogs, Send
    <3>3. UploadGo => slot' \in {slot, Cmd("upload")} BY DEF UploadGo, TryGo, Send
    <3>4. UploadBack \/ UploadHelp => slot' = slot BY DEF UploadBack, UploadHelp, link
    <3> QED BY <1>1, <3>1, <3>2, <3>3, <3>4 DEF UploadUser
  <2>4. slot' = slot \/ slot'.c \notin ChangeWord BY <2>2 DEF Cmd, ChangeWord
  <2>3. Unhurried' => Unhurried
    BY <1>1, AskUnhurried DEF UploadUser, EnterUpload, UploadBack, UploadHelp, UploadLogs, UploadGo,
       tally, Unhurried
  <2> QED BY <2>1, <2>4, <2>3, ListElsewhere
<1>2. CASE JoinUser
  <2>1. UNCHANGED <<tl, bt, keep, tx>> /\ scene.at # "tools"
    BY <1>2 DEF JoinUser, EnterJoin, JoinBackStop, JoinBackPass, JoinBackFail, JoinLeave, JoinScan,
       JoinAdd, JoinPick, JoinPass, At, keepJoin, toolVars
  <2>2. slot' \in {slot, Cmd("sigroam")}
    <3>1. JoinLeave => slot' \in {slot, Cmd("sigroam")}
      BY DEF JoinLeave, UploadEntered, Send
    <3> QED BY <1>2, <3>1 DEF JoinUser, EnterJoin, JoinBackStop, JoinBackPass, JoinBackFail, JoinScan,
         JoinAdd, JoinPick, JoinPass
  <2>4. slot' = slot \/ slot'.c \notin ChangeWord BY <2>2 DEF Cmd, ChangeWord
  <2>3. Unhurried' => Unhurried
    BY <1>2, AskUnhurried DEF JoinUser, EnterJoin, JoinBackStop, JoinBackPass, JoinBackFail,
       JoinLeave, JoinScan, JoinAdd, JoinPick, JoinPass, tally, Unhurried
  <2> QED BY <2>1, <2>4, <2>3, ListElsewhere
<1>3. CASE UploadTicks
  <2>1. UNCHANGED <<tl, bt, keep, tx, ghost>> /\ scene.at # "tools"
    BY <1>3 DEF UploadTicks, UploadTickFirst, UploadTickRetry, CapMark, CapDisarm, At, link, tally, rest
  <2>2. slot' = slot \/ slot'.c \notin ChangeWord
    BY <1>3 DEF UploadTicks, UploadTickFirst, UploadTickRetry, CapMark, CapDisarm, TryGo, Send, Cmd,
       ChangeWord, link
  <2> QED BY <2>1, <2>2, ListElsewhere DEF Unhurried
<1>4. CASE JoinTicks
  <2>0. jn \in JoinScreen BY DEF AllFine, JoinFine
  <2>1. UNCHANGED <<tl, bt, keep, tx, ghost>> /\ scene.at # "tools"
    BY <1>4 DEF JoinTicks, JoinEnds, JoinTick, Tick, At, keepJoin, tally, toolVars
  <2>2. slot' = slot \/ slot' = jn.pend BY <1>4 DEF JoinTicks, JoinEnds, JoinTick, Tick
  <2>3. jn.pend.c \notin ChangeWord BY <2>0 DEF JoinScreen, NoCmd, Cmd, ChangeWord
  <2> QED BY <2>1, <2>2, <2>3, ListElsewhere DEF Unhurried
<1>5. CASE CapTime /\ UNCHANGED rest
  BY <1>5, ListStill DEF CapTime, rest, link, tally, Unhurried
<1>6. CASE (JoinAge \/ JoinHunt) /\ UNCHANGED toolVars
  BY <1>6, ListStill DEF JoinAge, JoinHunt, keepJoin, toolVars, tally, Unhurried
<1> QED BY <1>1, <1>2, <1>3, <1>4, <1>5, <1>6

\* The worker writing the slot moves a command from the slot to the wire.
LEMMA ListWrite == ASSUME AllFine, ListInv, Write PROVE ListInv'
<1> SUFFICES ASSUME Unhurried' PROVE ListInv'
  BY DEF ListInv
<1>0. /\ Unhurried
      /\ UNCHANGED <<tl, bt, keep, rx, board, scene>>
      /\ slot # NoCmd /\ slot' = NoCmd /\ tx' = Append(tx, slot)
  BY DEF Write, WriteSlot, Free, rest, tally, Unhurried
<1>1. /\ tx \in Seq(Command) /\ slot \in Command /\ NoCmd.c = "none"
  BY DEF AllFine, LinkFine, NoCmd, Cmd
<1>2. /\ Len(tx') = Len(tx) + 1 /\ DOMAIN tx' = 1..(Len(tx) + 1) /\ DOMAIN tx = 1..Len(tx)
      /\ \A i \in DOMAIN tx : tx'[i] = tx[i]
      /\ tx'[Len(tx) + 1] = slot
      /\ \A i \in DOMAIN tx' : i \in DOMAIN tx \/ i = Len(tx) + 1
  BY <1>0, <1>1
<1>3. NoChange => NoChange'
  <2>1. slot'.c \notin ChangeWord BY <1>0, <1>1 DEF ChangeWord
  <2> QED BY <1>0, <1>2, <2>1 DEF NoChange
<1>4. SettledRight => SettledRight'
  BY <1>0, <1>3 DEF SettledRight, HeardAll, HeardRight, EntryIs
<1>5. OneChange => OneChange'
  <2>1. slot'.c \notin ChangeWord BY <1>0, <1>1 DEF ChangeWord
  <2> QED BY <1>0, <1>2, <2>1 DEF OneChange
<1>6. RemovesRight => RemovesRight' BY <1>0, <1>1, <1>2 DEF RemovesRight, EntryIs
<1>7. tx = <<>> => tx' = <<slot>> /\ Len(tx') = 1 /\ tx'[1] = slot BY <1>0
<1>8. ListStage => ListStage'
  <2> SUFFICES ASSUME ListStage PROVE ListStage'
    OBVIOUS
  <2>1. ~NoneSent BY <1>0 DEF NoneSent
  <2>2. /\ (WardFrom(1) => WardFrom(1)') /\ (RestAt(0) => RestAt(0)') /\ (BusyAt(0) => BusyAt(0)')
        /\ (HeardRight => HeardRight')
    BY <1>0 DEF WardFrom, RestAt, BusyAt, HeardRight
  <2>3. \A c : Only(c) => Only(c)' /\ tl.cmd = NoCmd BY <2>1, <1>0, <1>7 DEF Only
  <2>4. ~Nothing BY <2>1 DEF Nothing
  <2>5. ListAsked \/ BarrierSent \/ ListRefused
    BY <2>1, <2>4 DEF ListStage, ListTold, BarrierNext, BarrierTold, ListHeard
  <2>6. ListAsked => ListAsked' BY <2>2, <2>3, <1>0 DEF ListAsked, Untouched
  <2>7. BarrierSent => BarrierSent' BY <2>2, <2>3, <1>0 DEF BarrierSent, Hearing
  <2>8. ListRefused => ListRefused' BY <2>3, <2>4, <1>0 DEF ListRefused
  <2> QED BY <2>5, <2>6, <2>7, <2>8, <1>0, <1>3 DEF ListStage
<1>9. ChangeStage => ChangeStage'
  BY <1>0, <1>7 DEF ChangeStage, Nothing, NoneSent, WardFrom
<1> QED BY <1>0, <1>4, <1>5, <1>6, <1>8, <1>9 DEF ListInv, Settled, ListPage

\* The screen turns a page, and goes on waiting for what it waits for.
LEMMA ListTurn ==
  ASSUME ListInv, Unhurried' => Unhurried,
         UNCHANGED <<slot, tx, rx, keep, board>>, scene'.at = scene.at,
         tl'.cmd = tl.cmd, tl'.tag = tl.tag, tl'.listing = tl.listing, tl'.wait = tl.wait,
         tl'.reading => tl.reading, tl'.back = tl.back,
         bt'.listen = bt.listen, bt'.echo = bt.echo, bt'.due = bt.due, bt'.barrier = bt.barrier,
         bt'.closed = bt.closed, bt'.busy = bt.busy, bt'.items = bt.items, bt'.news => bt.news,
         Unhurried /\ Settled' =>
           /\ Settled
           /\ tl'.page = "Ask" /\ tl'.ask = "Rm" => EntryIs(tl'.rm.n, tl'.rm.x)
  PROVE  ListInv'
<1> SUFFICES ASSUME Unhurried' PROVE ListInv'
  BY DEF ListInv
<1>0. Unhurried OBVIOUS
<1>1. NoChange => NoChange' BY DEF NoChange
<1>2. (HeardRight => HeardRight') /\ (HeardAll => HeardAll') BY DEF HeardAll, HeardRight
<1>3. Settled' => (SettledRight => SettledRight')
  BY <1>0, <1>1, <1>2 DEF SettledRight, EntryIs
<1>4. OneChange => OneChange' BY DEF OneChange
<1>5. RemovesRight => RemovesRight' BY DEF RemovesRight, EntryIs
<1>6. LineKept BY DEF LineKept, RestAt, BusyAt, WardFrom
<1>7. ListStage => ListStage'
  <2>1. \A c : Only(c) => Only(c)' BY DEF Only, NoneSent
  <2> QED BY <1>1, <1>2, <1>6, <2>1
     DEF ListStage, ListAsked, ListTold, Untouched, BarrierNext, BarrierSent, BarrierTold, Hearing,
         ListHeard, ListRefused, Nothing, NoneSent, LineKept
<1>8. ChangeStage => ChangeStage' BY <1>6 DEF ChangeStage, Nothing, NoneSent, LineKept
<1> QED BY <1>0, <1>3, <1>4, <1>5, <1>7, <1>8 DEF ListInv

\* The screen leaves the list, or waits for something else.
LEMMA ListAway ==
  ASSUME ListInv, Unhurried' => Unhurried, UNCHANGED <<slot, tx, keep>>,
         Unhurried' => /\ ~Settled'
                       /\ tl'.back = tl.back \/ tl'.back \in Backs
                       /\ tl'.cmd.c \notin ChangeWord
                       /\ \/ tl'.wait = "None" /\ ~tl'.reading
                          \/ tl'.wait \in Wait \ ({"None", "List"} \cup Changes) /\ scene'.at = "tools"
  PROVE  ListInv'
<1> SUFFICES ASSUME Unhurried' PROVE ListInv'
  BY DEF ListInv
<1>0. Unhurried OBVIOUS
<1>4. OneChange => OneChange' BY DEF OneChange
<1>5. RemovesRight => RemovesRight' BY DEF RemovesRight, EntryIs, ChangeWord
<1> QED BY <1>0, <1>4, <1>5 DEF ListInv, Changes, Wait

\* The line in front is taken: what stood behind it is one place nearer.
LEMMA Nearer ==
  ASSUME AllFine, rx # <<>>, rx' = Tail(rx), keep'.ign = keep.ign
  PROVE  /\ \A k \in Nat : WardFrom(k + 1) => WardFrom(k)'
         /\ WardFrom(1) => rx[1].k \in {"started", "stopped"} /\ WardFrom(1)'
         /\ bt'.items = bt.items => /\ RestAt(1) => RestAt(0)'
                                    /\ Len(bt.items) = Len(keep.ign) /\ RestAt(0) => RestAt(0)'
         /\ BusyAt(1) => BusyAt(0)'
<1>0. rx \in Seq(Spoken) /\ KeepFine /\ HeardFine(bt) BY DEF AllFine, LinkFine
<1>1. /\ Len(rx') = Len(rx) - 1 /\ DOMAIN rx' = 1..(Len(rx) - 1) /\ DOMAIN rx = 1..Len(rx)
      /\ Len(rx) >= 1 /\ Len(rx) \in Nat
      /\ \A i \in 1..(Len(rx) - 1) : rx'[i] = rx[i + 1]
  BY <1>0
<1>2. \A k \in Nat : WardFrom(k + 1) => WardFrom(k)'
  <2> SUFFICES ASSUME NEW k \in Nat, WardFrom(k + 1), NEW i \in DOMAIN rx', i >= k
               PROVE  rx'[i].k \in {"started", "stopped"}
    BY DEF WardFrom
  <2>1. i + 1 \in DOMAIN rx /\ i + 1 >= k + 1 /\ rx'[i] = rx[i + 1] BY <1>1
  <2> QED BY <2>1 DEF WardFrom
<1>3. WardFrom(1) => rx[1].k \in {"started", "stopped"} BY <1>1 DEF WardFrom
<1>4. WardFrom(1) => WardFrom(1)'
  <2>1. WardFrom(1) => WardFrom(2) BY <1>1 DEF WardFrom
  <2> QED BY <1>2, <2>1, 1 + 1 = 2, 1 \in Nat
<1>5. ASSUME bt'.items = bt.items, NEW k \in {0, 1}, RestAt(k),
             k = 1 \/ Len(bt.items) = Len(keep.ign)
      PROVE  RestAt(0)'
  <2> DEFINE left == Len(keep.ign) - Len(bt.items)
  <2>1. /\ k + left <= Len(rx) /\ left \in Nat /\ WardFrom(k + left + 1)
        /\ \A i \in 1..left : rx[k + i] = LineOf("ignItem", Len(bt.items) + i, keep.ign[Len(bt.items) + i])
    BY <1>5 DEF RestAt
  <2>2. left' = left BY <1>5
  <2>3. k = 1 \/ left = 0 BY <1>0, <1>5 DEF KeepFine
  <2> HIDE DEF left
  <2>4. left <= Len(rx')
    <3>1. CASE k = 1 BY <3>1, <2>1, <1>1
    <3>2. CASE left = 0 BY <3>2, <1>1
    <3> QED BY <2>3, <3>1, <3>2
  <2>5. WardFrom(left + 1)'
    <3>1. CASE k = 1
      <4>1. left + 1 \in Nat /\ k + left + 1 = (left + 1) + 1 BY <3>1, <2>1
      <4>2. WardFrom((left + 1) + 1) BY <4>1, <2>1
      <4> QED BY <4>1, <4>2, <1>2, <2>2
    <3>2. CASE k = 0 /\ left = 0
      <4>1. WardFrom(1) BY <3>2, <2>1
      <4>2. WardFrom(1)' BY <4>1, <1>4
      <4>3. left' + 1 = 1 BY <3>2, <2>2
      <4> QED BY <4>2, <4>3 DEF WardFrom
    <3> QED BY <2>3, <3>1, <3>2
  <2>6. \A i \in 1..left : rx'[i] = LineOf("ignItem", Len(bt.items) + i, keep.ign[Len(bt.items) + i])
    <3>1. CASE k = 1
      <4>1. \A i \in 1..left : i \in 1..(Len(rx) - 1) /\ 1 + i = i + 1 BY <3>1, <2>1, <1>1
      <4> QED BY <3>1, <4>1, <2>1, <1>1
    <3>2. CASE left = 0 BY <3>2
    <3> QED BY <2>3, <3>1, <3>2
  <2>7. 0 + left <= Len(rx') /\ 0 + left + 1 = left + 1 /\ \A i \in 1..left : 0 + i = i
    BY <2>1, <2>4
  <2> QED BY <1>5, <2>1, <2>2, <2>5, <2>6, <2>7 DEF RestAt, left
<1>6. BusyAt(1) => BusyAt(0)'
  <2>1. BusyAt(1) => 1 \in 1..(Len(rx) - 1) /\ rx'[1] = rx[2] BY <1>1 DEF BusyAt
  <2> QED BY <2>1, <1>1, <1>2 DEF BusyAt
<1> QED BY <1>2, <1>3, <1>4, <1>5, <1>6

\* The next entry of the list is heard.
LEMMA EntryHeard ==
  ASSUME AllFine, rx # <<>>, rx' = Tail(rx), keep'.ign = keep.ign,
         HeardRight, RestAt(0), Len(bt.items) # Len(keep.ign)
  PROVE  /\ Len(bt.items) < IgnoreMax
         /\ rx[1].k = "ignItem"
         /\ bt'.items = Append(bt.items, [n |-> rx[1].n, x |-> rx[1].x]) =>
              HeardRight' /\ RestAt(0)'
<1> DEFINE h == Len(bt.items)
           n == Len(keep.ign)
<1>0. /\ rx \in Seq(Spoken) /\ keep.ign \in Seq(Ssids) /\ bt.items \in Seq(Item)
      /\ n <= IgnoreMax /\ IgnoreMax \in Nat /\ h \in Nat /\ n \in Nat /\ h <= n
  BY ToolsAssumption DEF AllFine, LinkFine, KeepFine, HeardFine, Listening, HeardRight
<1>1. /\ Len(rx') = Len(rx) - 1 /\ Len(rx) \in Nat
      /\ \A i \in 1..(Len(rx) - 1) : rx'[i] = rx[i + 1]
  BY <1>0
<1>2. /\ n - h <= Len(rx) /\ WardFrom(n - h + 1)
      /\ \A i \in 1..(n - h) : rx[i] = LineOf("ignItem", h + i, keep.ign[h + i])
  <2>1. 0 + (n - h) = n - h /\ 0 + (n - h) + 1 = n - h + 1 /\ \A i \in 1..(n - h) : 0 + i = i
    BY <1>0
  <2> QED BY <2>1 DEF RestAt
<1>3. h < n /\ h < IgnoreMax BY <1>0
<1>4. rx[1] = LineOf("ignItem", h + 1, keep.ign[h + 1]) BY <1>0, <1>2, <1>3
<1>5. rx[1].k = "ignItem" /\ rx[1].n = h + 1 /\ rx[1].x = keep.ign[h + 1]
  BY <1>4 DEF LineOf
<1>6. ASSUME bt'.items = Append(bt.items, [n |-> rx[1].n, x |-> rx[1].x])
      PROVE  HeardRight' /\ RestAt(0)'
  <2>1. /\ bt'.items = Append(bt.items, [n |-> h + 1, x |-> keep.ign[h + 1]])
    BY <1>6, <1>5
  <2>2. /\ Len(bt'.items) = h + 1
        /\ \A i \in 1..h : bt'.items[i] = bt.items[i]
        /\ bt'.items[h + 1] = [n |-> h + 1, x |-> keep.ign[h + 1]]
        /\ DOMAIN bt'.items = 1..(h + 1)
    BY <2>1, <1>0
  <2>3. \A i \in 1..h : bt.items[i] = [n |-> i, x |-> keep.ign[i]] BY <1>0 DEF HeardRight
  <2>4. HeardRight'
    <3>1. \A i \in 1..(h + 1) : i \in 1..h \/ i = h + 1 BY <1>0
    <3>2. \A i \in DOMAIN bt'.items : bt'.items[i] = [n |-> i, x |-> keep.ign[i]]
      BY <3>1, <2>2, <2>3
    <3>3. h + 1 <= n BY <1>3, <1>0
    <3> QED BY <2>2, <3>2, <3>3 DEF HeardRight
  <2>5. RestAt(0)'
    <3>0. \E m \in Int : m = n - (h + 1)
      <4>1. n - (h + 1) \in Int BY <1>0
      <4> HIDE DEF n, h
      <4> QED BY <4>1
    <3>p. PICK m \in Int : m = n - (h + 1) BY <3>0
    <3>1. m \in Nat /\ m <= Len(rx') /\ m + 1 \in Nat /\ n - h + 1 = (m + 1) + 1
      BY <3>p, <1>0, <1>1, <1>2, <1>3
    <3>2. WardFrom(m + 1)'
      <4>1. WardFrom((m + 1) + 1) BY <3>1, <1>2
      <4> QED BY <4>1, <3>1, Nearer
    <3>3. ASSUME NEW i \in 1..m
          PROVE  rx'[i] = LineOf("ignItem", (h + 1) + i, keep.ign[(h + 1) + i])
      <4>1. i + 1 \in 1..(n - h) /\ i \in 1..(Len(rx) - 1) /\ h + (i + 1) = (h + 1) + i
        <5>1. i \in Nat /\ i >= 1 /\ i <= m BY <3>1
        <5>2. m <= Len(rx) - 1 /\ Len(rx) \in Nat BY <3>1, <1>1
        <5>3. n \in Nat /\ h \in Nat BY <1>0
        <5> HIDE DEF n, h
        <5> QED BY <3>p, <5>1, <5>2, <5>3
      <4> QED BY <4>1, <1>1, <1>2
    <3>4. Len(keep'.ign) - Len(bt'.items) = m BY <2>2, <3>p
    <3>5. 0 + m = m /\ 0 + m + 1 = m + 1 /\ \A i \in 1..m : 0 + i = i BY <3>1
    <3>6. Len(bt.items') = h + 1 BY <2>2
    <3> HIDE DEF h, n
    <3> QED BY <3>1, <3>2, <3>3, <3>4, <3>5, <3>6 DEF RestAt
  <2> QED BY <2>4, <2>5
<1> QED BY <1>3, <1>5, <1>6

\* A line is applied.
LEMMA ListApply == ASSUME AllFine, ListInv, Apply PROVE ListInv'
<1> SUFFICES ASSUME Unhurried' PROVE ListInv'
  BY DEF ListInv
<1>0. /\ Unhurried
      /\ UNCHANGED <<tl, keep, slot, tx, board, scene>>
      /\ rx # <<>> /\ rx' = Tail(rx) /\ bt' = BtFeed(rx[1])
  BY DEF Apply, Heard, tally, Unhurried
<1>1. /\ rx \in Seq(Spoken) /\ bt \in Listening /\ bt.items \in Seq(Item)
      /\ IgnoreMax \in Nat /\ keep'.ign = keep.ign
  BY <1>0, ToolsAssumption DEF AllFine, LinkFine, HeardFine, Listening
<1>2. (NoChange => NoChange') /\ (OneChange => OneChange') /\ (RemovesRight => RemovesRight')
  BY <1>0 DEF NoChange, OneChange, RemovesRight, EntryIs
<1>3. /\ \A c : Only(c) => Only(c)'
      /\ (Nothing => Nothing') /\ (NoneSent => NoneSent')
  BY <1>0 DEF Only, Nothing, NoneSent
<1>4. bt' = bt => (HeardRight => HeardRight') /\ (HeardAll => HeardAll')
  BY <1>0 DEF HeardAll, HeardRight
<1>5. SettledRight => SettledRight'
  <2>1. bt.listen = "List" /\ bt.closed => bt' = bt BY <1>0 DEF BtFeed
  <2> QED BY <1>0, <1>2, <1>4, <2>1 DEF SettledRight, EntryIs
<1>6. /\ \A k \in Nat : WardFrom(k + 1) => WardFrom(k)'
      /\ WardFrom(1) => rx[1].k \in {"started", "stopped"} /\ WardFrom(1)'
      /\ bt'.items = bt.items => /\ RestAt(1) => RestAt(0)'
                                 /\ Len(bt.items) = Len(keep.ign) /\ RestAt(0) => RestAt(0)'
      /\ BusyAt(1) => BusyAt(0)'
  BY <1>0, <1>1, Nearer
<1>7. WardFrom(2) => WardFrom(1)' BY <1>6, 1 + 1 = 2, 1 \in Nat
<1>8. ListStage => ListStage'
  <2> SUFFICES ASSUME ListStage PROVE ListStage'
    OBVIOUS
  <2>1. ~bt.closed => bt' = BtListFeed(rx[1]) BY <1>0 DEF BtFeed, ListStage
  <2>2. bt.closed => bt' = bt BY <1>0 DEF BtFeed, ListStage
  <2>3. bt'.listen = "List" => (ListAsked' \/ ListTold' \/ BarrierNext' \/ BarrierSent' \/ BarrierTold'
                       \/ ListHeard' \/ ListRefused' => ListStage')
    BY <1>0, <1>2 DEF ListStage
  <2>4. CASE ListAsked
    <3>1. bt' = bt BY <2>4, <2>1, <1>6 DEF ListAsked, Untouched, BtListFeed
    <3>2. ListAsked' BY <2>4, <3>1, <1>3, <1>6 DEF ListAsked, Untouched
    <3> QED BY <2>3, <3>1, <3>2 DEF ListStage
  <2>5. CASE ListTold
    <3>1. bt' = [bt EXCEPT !.echo = TRUE, !.due = TRUE]
      BY <2>5, <2>1 DEF ListTold, Untouched, BtListFeed
    <3>2. /\ bt'.echo /\ bt'.due /\ bt'.listen = "List" /\ ~bt'.closed /\ ~bt'.busy /\ ~bt'.barrier
          /\ bt'.items = <<>> /\ bt.items = <<>>
      BY <2>5, <3>1, <1>1 DEF ListTold, Untouched, Listening, ListStage
    <3>3. HeardRight'
      <4>1. Len(<<>>) = 0 /\ DOMAIN <<>> = {} /\ Len(keep'.ign) \in Nat
        BY <1>1 DEF AllFine, KeepFine
      <4> QED BY <3>2, <4>1 DEF HeardRight
    <3>4. RestAt(0)' \/ BusyAt(0)' BY <2>5, <3>2, <1>6 DEF ListTold
    <3>5. BarrierNext' BY <2>5, <3>2, <3>3, <3>4, <1>3 DEF ListTold, BarrierNext, Hearing, Nothing
    <3> QED BY <2>3, <3>2, <3>5
  <2>6. CASE BarrierNext \/ BarrierSent
    <3>0. Hearing /\ (RestAt(0) \/ BusyAt(0)) BY <2>6 DEF BarrierNext, BarrierSent
    <3>1. CASE BusyAt(0)
      <4>1. rx[1].k = "busy" BY <3>1 DEF BusyAt
      <4>2. bt' = [Noted("busy") EXCEPT !.busy = TRUE, !.closed = TRUE]
        BY <3>0, <4>1, <2>1 DEF Hearing, BtListFeed
      <4>3. bt'.busy /\ bt'.closed /\ bt'.listen = "List"
        BY <4>2, <1>1 DEF Noted, Listening, ListStage
      <4>4. Nothing \/ Only(Cmd("channel")) BY <2>6 DEF BarrierNext, BarrierSent, Only, Nothing
      <4>5. ListRefused' BY <4>3, <4>4, <1>3 DEF ListRefused
      <4> QED BY <2>3, <4>3, <4>5
    <3>2. CASE RestAt(0) /\ Len(bt.items) = Len(keep.ign)
      <4>1. WardFrom(1)
        <5>1. 0 + (Len(keep.ign) - Len(bt.items)) + 1 = 1
          BY <3>2, <1>1 DEF AllFine, KeepFine
        <5> QED BY <3>2, <5>1 DEF RestAt
      <4>2. bt' = bt BY <4>1, <1>6, <3>0, <2>1 DEF Hearing, BtListFeed
      <4>3. HeardRight' /\ RestAt(0)' BY <4>2, <3>0, <3>2, <1>4, <1>6 DEF Hearing
      <4>4. Hearing' BY <4>2, <4>3, <3>0 DEF Hearing
      <4>5. BarrierNext' \/ BarrierSent' BY <2>6, <4>2, <4>3, <4>4, <1>0, <1>3 DEF BarrierNext, BarrierSent
      <4> QED BY <2>3, <4>2, <4>5 DEF ListStage
    <3>3. CASE RestAt(0) /\ Len(bt.items) # Len(keep.ign)
      <4>1. /\ Len(bt.items) < IgnoreMax /\ rx[1].k = "ignItem"
            /\ bt'.items = Append(bt.items, [n |-> rx[1].n, x |-> rx[1].x]) =>
                 HeardRight' /\ RestAt(0)'
        BY <3>0, <3>3, <1>0, <1>1, EntryHeard DEF Hearing
      <4>2. bt' = [bt EXCEPT !.items = Append(@, [n |-> rx[1].n, x |-> rx[1].x])]
        BY <4>1, <3>0, <2>1 DEF Hearing, BtListFeed
      <4>3. /\ bt'.items = Append(bt.items, [n |-> rx[1].n, x |-> rx[1].x])
            /\ bt'.echo = bt.echo /\ bt'.due = bt.due /\ bt'.closed = bt.closed
            /\ bt'.busy = bt.busy /\ bt'.barrier = bt.barrier /\ bt'.listen = bt.listen
        BY <4>2, <1>1 DEF Listening
      <4>4. Hearing' /\ RestAt(0)' BY <4>1, <4>3, <3>0 DEF Hearing
      <4>5. BarrierNext' \/ BarrierSent' BY <2>6, <4>3, <4>4, <1>0, <1>3 DEF BarrierNext, BarrierSent
      <4> QED BY <2>3, <4>3, <4>5 DEF ListStage
    <3> QED BY <3>0, <3>1, <3>2, <3>3
  <2>7. CASE BarrierTold
    <3>1. bt' = [bt EXCEPT !.closed = TRUE]
      BY <2>7, <2>1 DEF BarrierTold, Hearing, BtListFeed
    <3>2. bt'.closed /\ ~bt'.busy /\ bt'.items = bt.items /\ bt'.listen = "List"
      BY <2>7, <3>1, <1>1 DEF BarrierTold, Hearing, Listening, ListStage
    <3>3. HeardAll' BY <2>7, <3>2, <1>0 DEF BarrierTold, HeardAll, HeardRight
    <3>4. ListHeard' BY <2>7, <3>2, <3>3, <1>3 DEF BarrierTold, ListHeard
    <3> QED BY <2>3, <3>2, <3>4
  <2>8. CASE ListHeard \/ ListRefused
    <3>1. bt' = bt BY <2>8, <2>2 DEF ListHeard, ListRefused
    <3>2. ListHeard' \/ ListRefused' BY <2>8, <3>1, <1>3, <1>4 DEF ListHeard, ListRefused
    <3> QED BY <2>3, <3>1, <3>2 DEF ListStage
  <2> QED BY <2>4, <2>5, <2>6, <2>7, <2>8 DEF ListStage
<1>9. ChangeStage => ChangeStage'
  <2> SUFFICES ASSUME ChangeStage PROVE ChangeStage'
    OBVIOUS
  <2>1. bt' = BtReplyFeed(rx[1]) BY <1>0 DEF ChangeStage, BtFeed
  <2>2. bt'.listen = "Reply" BY <2>1, <1>1 DEF BtReplyFeed, Noted, Listening, ChangeStage
  <2>3. WardFrom(1) => bt' = bt /\ WardFrom(1)' BY <2>1, <1>6 DEF BtReplyFeed, Reply
  <2> QED BY <2>2, <2>3, <1>0, <1>3, <1>7 DEF ChangeStage, Nothing, NoneSent
<1> QED BY <1>0, <1>2, <1>5, <1>8, <1>9 DEF ListInv, Settled, ListPage

\* What the board does of a command that changes the list, and of another.
LEMMA ReadChanges ==
  ASSUME AllFine, Read, Head(tx).c \in ChangeWord
  PROVE  board' = board /\ \E w : rx' = <<w>>
<1>1. rx = <<>> BY DEF Read
<1>2. \A w : Say(<<w>>) => rx' = <<w>> BY <1>1 DEF Say
<1>3. ReadTools(Head(tx)) BY DEF Read, ReadUploads, ReadJoins, ChangeWord
<1>4. \/ BoardBusy
      \/ ReadIgnAdd(Head(tx).x) \/ ReadIgnRm(Head(tx).n) \/ ReadIgnClear
  BY <1>3 DEF ReadTools, ChangeWord
<1>5. board' = board BY <1>4 DEF BoardBusy, ReadIgnAdd, ReadIgnRm, ReadIgnClear
<1>6. \E w : Say(<<w>>) BY <1>4 DEF BoardBusy, ReadIgnAdd, ReadIgnRm, ReadIgnClear
<1> QED BY <1>2, <1>5, <1>6

\* Only the three commands that change the ignore list change it.
LEMMA ReadKeeps ==
  ASSUME AllFine, Read, Head(tx).c \notin ChangeWord
  PROVE  keep'.ign = keep.ign
<1>1. keep \in [ign : Seq(Ssids), size : Sizes, ward : BOOLEAN] BY DEF AllFine, KeepFine
<1>2. CASE ReadUploads(Head(tx)) \/ ReadJoins(Head(tx))
  BY <1>2 DEF ReadUploads, ReadJoins
<1>3. CASE ReadTools(Head(tx))
  <2>1. \/ ReadIgnList \/ BoardBusy \/ ReadRm(Head(tx).x) \/ ReadRmAll
        \/ ReadSplit(Head(tx).n, Head(tx).x)
    BY <1>3 DEF ReadTools, ChangeWord
  <2>2. ReadIgnList \/ BoardBusy \/ ReadRm(Head(tx).x) \/ ReadRmAll => keep' = keep
    BY DEF ReadIgnList, BoardBusy, ReadRm, ReadRmAll
  <2>3. ReadSplit(Head(tx).n, Head(tx).x) => keep'.ign = keep.ign
    <3>1. ReadSplit(Head(tx).n, Head(tx).x) =>
            keep' = keep \/ keep' = [keep EXCEPT !.size = Head(tx).x]
      BY DEF ReadSplit
    <3> QED BY <1>1, <3>1
  <2> QED BY <2>1, <2>2, <2>3
<1> QED BY <1>2, <1>3 DEF Read

\* The list is told: its entries in their order, or the board is busy.
LEMMA ReadTells ==
  ASSUME AllFine, Read, Head(tx) = Cmd("ignList"), bt' = bt, bt.items = <<>>
  PROVE  /\ board' = board /\ rx' # <<>> /\ rx'[1].k = "ignEcho"
         /\ RestAt(1)' \/ BusyAt(1)'
<1>0. rx = <<>> /\ ReadIgnList
  <2>1. Head(tx).c = "ignList" BY DEF Cmd
  <2> QED BY <2>1 DEF Read, ReadUploads, ReadJoins, ReadTools
<1>1. keep.ign \in Seq(Ssids) BY DEF AllFine, KeepFine
<1>2. PICK n \in Nat : n = Len(keep.ign) BY <1>1
<1>3. DOMAIN keep.ign = 1..n /\ n \in Nat BY <1>1, <1>2
<1>4. keep' = keep /\ board' = board BY <1>0 DEF ReadIgnList
<1>5. CASE keep.ward
  <2>1. rx' = <<Line("ignEcho")>> \o <<Line("busy")>> BY <1>0, <1>5 DEF ReadIgnList, Say
  <2>p. ASSUME NEW a, NEW b, rx' = <<a>> \o <<b>>
        PROVE  Len(rx') = 2 /\ rx'[1] = a /\ rx'[2] = b /\ DOMAIN rx' = 1..2 /\ rx' # <<>>
    <3>1. <<a>> \in Seq({a, b}) /\ <<b>> \in Seq({a, b}) /\ Len(<<a>>) = 1 /\ Len(<<b>>) = 1
      OBVIOUS
    <3> QED BY <2>p, <3>1
  <2>2. Len(rx') = 2 /\ rx'[1] = Line("ignEcho") /\ rx'[2] = Line("busy") /\ DOMAIN rx' = 1..2 /\ rx' # <<>>
    BY <2>1, <2>p
  <2>3. rx'[1].k = "ignEcho" /\ rx'[2].k = "busy" /\ Len(rx') = 2 /\ DOMAIN rx' = 1..2
    BY <2>2 DEF Line
  <2>4. BusyAt(1)'
    <3>1. WardFrom(3)' BY <2>3 DEF WardFrom
    <3> QED BY <2>3, <3>1, 1 + 1 = 2, 1 + 2 = 3, 2 <= 2 DEF BusyAt, WardFrom
  <2> QED BY <1>4, <2>3, <2>4, <2>2
<1>6. CASE ~keep.ward
  <2> DEFINE rows == IgnRows
  <2>1. rows = [i \in 1..n |-> LineOf("ignItem", i, keep.ign[i])] BY <1>3 DEF IgnRows
  <2>2. rx' = <<Line("ignEcho")>> \o rows BY <1>0, <1>6 DEF ReadIgnList, Say
  <2> HIDE DEF rows
  <2> DEFINE S == {LineOf("ignItem", i, keep.ign[i]) : i \in 1..n}
  <2>3. rows \in [1..n -> S] BY <2>1
  <2>4. rows \in Seq(S) /\ Len(rows) = n
    <3> HIDE DEF S
    <3> QED BY <2>3, <1>3
  <2> HIDE DEF S
  <2>5. /\ rx' # <<>> /\ Len(rx') = n + 1 /\ DOMAIN rx' = 1..(n + 1)
        /\ rx'[1] = Line("ignEcho") /\ \A i \in 1..n : rx'[i + 1] = rows[i]
    <3> DEFINE T == S \cup {Line("ignEcho")}
    <3>1. <<Line("ignEcho")>> \in Seq(T) /\ rows \in Seq(T) /\ Len(<<Line("ignEcho")>>) = 1
      BY <2>4
    <3> HIDE DEF T
    <3> QED BY <2>2, <2>4, <3>1, <1>3
  <2>6. RestAt(1)'
    <3>1. Len(bt.items') = 0 BY bt' = bt, bt.items = <<>>
    <3>2. Len(keep.ign') = n /\ n - 0 = n /\ n \in Nat BY <1>2, <1>3, <1>4
    <3>3. \A i \in 1..n : 0 + i = i /\ 1 + i = i + 1 BY <1>3
    <3>4. \A i \in 1..n : rx'[1 + i] = LineOf("ignItem", 0 + i, keep.ign'[0 + i])
      BY <2>1, <2>5, <3>3, <1>4
    <3>5. 1 + n <= Len(rx') /\ WardFrom(1 + n + 1)'
      <4>1. Len(keep'.ign) = n BY <3>2
      <4> QED BY <2>5, <1>3, <4>1 DEF WardFrom
    <3> QED BY <3>1, <3>2, <3>4, <3>5 DEF RestAt
  <2>7. rx'[1].k = "ignEcho" BY <2>5 DEF Line
  <2> QED BY <1>4, <2>5, <2>6, <2>7
<1> QED BY <1>5, <1>6

\* The board reading a command keeps ListInv: its answer is what the stage
\* expects.
LEMMA ListRead == ASSUME AllFine, ListInv, Read PROVE ListInv'
<1> SUFFICES ASSUME Unhurried' PROVE ListInv'
  BY DEF ListInv
<1>0. /\ Unhurried
      /\ UNCHANGED <<tl, bt, slot, scene>>
      /\ tx # <<>> /\ rx = <<>> /\ tx' = Tail(tx) /\ Head(tx) = tx[1] /\ board.job = "idle"
  BY DEF Read, Unhurried
<1>1. /\ tx \in Seq(Command)
      /\ keep.ign \in Seq(Ssids) /\ bt.items \in Seq(Item)
  BY DEF AllFine, LinkFine, KeepFine, HeardFine, Listening
<1>2. /\ Len(tx') = Len(tx) - 1 /\ DOMAIN tx' = 1..(Len(tx) - 1) /\ DOMAIN tx = 1..Len(tx)
      /\ Len(tx) >= 1 /\ 1 \in DOMAIN tx
      /\ \A i \in DOMAIN tx' : tx'[i] = tx[i + 1] /\ i + 1 \in DOMAIN tx /\ i + 1 # 1
  BY <1>0, <1>1
<1>3. (NoChange => NoChange') /\ (OneChange => OneChange')
  BY <1>0, <1>2 DEF NoChange, OneChange
<1>4. CASE tx[1].c \in ChangeWord
  <2>1. board' = board /\ \E w : rx' = <<w>> BY <1>0, <1>4, ReadChanges
  <2>2. ~Settled /\ tl.wait # "List"
    BY <1>0, <1>2, <1>4 DEF ListInv, SettledRight, ListStage, NoChange
  <2>3. tl.wait \in Changes => ChangeStage' /\ tl.cmd = NoCmd
    <3>1. SUFFICES ASSUME ChangeStage PROVE ChangeStage' /\ tl.cmd = NoCmd
      BY <1>0 DEF ListInv
    <3>2. ~bt.news /\ tl.cmd = NoCmd /\ slot = NoCmd /\ tx' = <<>>
      <4>1. /\ ~bt.news /\ tl.cmd = NoCmd /\ slot = NoCmd /\ Len(tx) = 1
        BY <3>1, <1>0 DEF ChangeStage, Nothing, NoneSent
      <4>2. tx' = <<>> BY <4>1, <1>0, <1>1
      <4> QED BY <4>1, <4>2
    <3>3. rx' # <<>> /\ WardFrom(2)'
      <4>1. PICK w : rx' = <<w>> BY <2>1
      <4>2. rx' # <<>> /\ DOMAIN rx' = {1} BY <4>1
      <4> QED BY <4>2 DEF WardFrom
    <3> QED BY <3>1, <3>2, <3>3, <2>1, <1>0 DEF ChangeStage, Nothing, NoneSent
  <2>4. RemovesRight'
    <3>1. slot.c \notin ChangeWord BY <1>0, <1>2, <1>4 DEF ListInv, OneChange
    <3>2. tl.cmd.c \notin ChangeWord BY <1>0, <2>3 DEF ListInv, NoCmd, Cmd, ChangeWord
    <3>3. \A i \in DOMAIN tx' : tx'[i].c \notin ChangeWord
      BY <1>0, <1>2, <1>4 DEF ListInv, OneChange
    <3> QED BY <3>1, <3>2, <3>3, <1>0 DEF RemovesRight, ChangeWord
  <2> QED BY <1>0, <1>3, <2>2, <2>3, <2>4 DEF ListInv, Settled, ListPage
<1>5. CASE tx[1].c \notin ChangeWord
  <2>1. keep'.ign = keep.ign BY <1>0, <1>5, ReadKeeps
  <2>2. (HeardRight => HeardRight') /\ (HeardAll => HeardAll') BY <1>0, <2>1 DEF HeardRight, HeardAll
  <2>3. SettledRight => SettledRight' BY <1>0, <1>3, <2>1, <2>2 DEF SettledRight, EntryIs
  <2>4. RemovesRight => RemovesRight' BY <1>0, <1>2, <2>1 DEF RemovesRight, EntryIs
  <2>5. ~ChangeStage
    <3>1. ChangeStage => Len(tx) = 1 /\ tx[1].c \in ChangeWord
      BY <1>0 DEF ChangeStage, Nothing, NoneSent
    <3> QED BY <3>1, <1>5
  <2>6. ListStage => ListStage'
    <3> SUFFICES ASSUME ListStage PROVE ListStage'
      OBVIOUS
    <3>1. ListAsked \/ BarrierSent \/ (ListRefused /\ Only(Cmd("channel")))
      BY <1>0 DEF ListStage, ListTold, BarrierNext, BarrierTold, ListHeard, ListRefused, Nothing, NoneSent
    <3>2. \A c : Only(c) => tl.cmd = NoCmd /\ slot = NoCmd /\ tx[1] = c /\ tx' = <<>>
      <4>1. \A c : Only(c) => tl.cmd = NoCmd /\ slot = NoCmd /\ tx = <<c>>
        BY <1>0 DEF Only, NoneSent
      <4>2. ASSUME NEW c, tx = <<c>> PROVE tx[1] = c /\ tx' = <<>>
        BY <4>2, <1>0, <1>1, <1>2
      <4> QED BY <4>1, <4>2
    <3>3. \A c : Only(c) => Nothing' BY <3>2, <1>0 DEF Nothing, NoneSent
    <3>4. board'.job = "idle" => (ListTold' \/ BarrierTold' \/ ListRefused' => ListStage')
      BY <1>0, <1>3 DEF ListStage
    <3>5. CASE ListAsked
      <4>1. Head(tx) = Cmd("ignList") /\ bt.items = <<>> /\ Nothing'
        BY <3>5, <3>2, <3>3, <1>0 DEF ListAsked, Untouched
      <4>2. board' = board /\ rx' # <<>> /\ rx'[1].k = "ignEcho" /\ (RestAt(1)' \/ BusyAt(1)')
        BY <4>1, <1>0, ReadTells
      <4>3. ListTold' BY <3>5, <4>1, <4>2, <1>0 DEF ListAsked, ListTold, Untouched
      <4> QED BY <3>4, <4>2, <4>3, <1>0
    <3>6. CASE BarrierSent \/ (ListRefused /\ Only(Cmd("channel")))
      <4>1. Only(Cmd("channel")) BY <3>6 DEF BarrierSent
      <4>2. Head(tx).c = "channel" /\ Nothing' BY <4>1, <3>2, <3>3, <1>0 DEF Cmd
      <4>3. ReadChannel BY <4>2 DEF Read, ReadUploads, ReadJoins, ReadTools
      <4>4. rx' = <<Line("chEcho")>> /\ board' = board BY <4>3, <1>0 DEF ReadChannel, Say
      <4>5. rx' # <<>> /\ rx'[1].k = "chEcho" /\ WardFrom(2)' BY <4>4 DEF Line, WardFrom
      <4>6. CASE BarrierSent
        <5>1. Len(rx) = 0 BY <1>0
        <5>2. ~BusyAt(0) BY <5>1 DEF BusyAt
        <5>3. RestAt(0) /\ HeardRight BY <5>2, <4>6 DEF BarrierSent, Hearing
        <5>4. Len(bt.items) = Len(keep.ign) BY <5>1, <5>3, <1>1 DEF RestAt, HeardRight
        <5>5. HeardAll' BY <2>2, <5>3, <5>4 DEF HeardAll
        <5>6. BarrierTold'
          BY <4>6, <4>2, <4>5, <5>5, <2>2, <1>0 DEF BarrierSent, BarrierTold, Hearing, HeardAll
        <5> QED BY <3>4, <4>4, <5>6, <1>0
      <4>7. CASE ListRefused
        <5>1. ListRefused' BY <4>7, <4>2, <1>0 DEF ListRefused
        <5> QED BY <3>4, <4>4, <5>1, <1>0
      <4> QED BY <3>6, <4>6, <4>7
    <3> QED BY <3>1, <3>5, <3>6
  <2> QED BY <1>0, <1>3, <2>3, <2>4, <2>5, <2>6 DEF ListInv, Settled, ListPage
<1> QED BY <1>4, <1>5

\* What turning a page and giving up leave of the screen.
LEMMA ScreenIs ==
  ASSUME NEW t, ToolFine(t), NEW page
  PROVE  /\ Show(t, page).page = page /\ ~Show(t, page).reading
         /\ Show(t, page).back = t.back /\ Show(t, page).ask = t.ask /\ Show(t, page).wait = t.wait
         /\ Show(t, page).listing = t.listing /\ Show(t, page).cmd = t.cmd
         /\ Show(t, page).tag = t.tag /\ Show(t, page).rm = t.rm
         /\ StopTx(t).page = t.page /\ StopTx(t).reading = t.reading /\ StopTx(t).back = t.back
         /\ StopTx(t).wait = "None" /\ StopTx(t).cmd = NoCmd
  BY DEF ToolFine, ToolScreen, Show, StopTx

\* A tools screen that stops its command waits for nothing.
LEMMA StopIs ==
  ASSUME NEW t, ToolFine(t), NEW page
  PROVE  /\ Show(StopTx(t), page).page = page /\ ~Show(StopTx(t), page).reading
         /\ Show(StopTx(t), page).back = t.back /\ Show(StopTx(t), page).wait = "None"
         /\ Show(StopTx(t), page).cmd = NoCmd
<1>1. ToolFine(StopTx(t)) BY ToolTypes
<1> DEFINE u == StopTx(t)
<1>2. u.back = t.back /\ u.wait = "None" /\ u.cmd = NoCmd BY ScreenIs
<1> HIDE DEF u
<1>3. /\ Show(u, page).page = page /\ ~Show(u, page).reading /\ Show(u, page).back = u.back
      /\ Show(u, page).wait = u.wait /\ Show(u, page).cmd = u.cmd
  BY <1>1, ScreenIs DEF u
<1> QED BY <1>2, <1>3 DEF u

\* A tools screen that shows a note waits for nothing.
LEMMA NoteIs ==
  ASSUME NEW t, ToolFine(t), NEW back
  PROVE  /\ ShowNote(t, back).page = "Note" /\ ~ShowNote(t, back).reading
         /\ ShowNote(t, back).back = back /\ ShowNote(t, back).wait = "None"
         /\ ShowNote(t, back).cmd = t.cmd /\ ShowNote(t, back).listing = t.listing
         /\ ShowNote(t, back).rm = t.rm
<1> DEFINE u == Show(t, "Note")
<1>1. ToolFine(u) BY ToolTypes DEF ToolPage
<1>2. u.page = "Note" /\ ~u.reading /\ u.cmd = t.cmd /\ u.listing = t.listing /\ u.rm = t.rm
  BY ScreenIs
<1>3. ShowNote(t, back) = [u EXCEPT !.wait = "None", !.back = back] BY DEF ShowNote
<1> HIDE DEF u
<1> QED BY <1>1, <1>2, <1>3 DEF ToolFine, ToolScreen

\* The gate is shown: nothing is awaited any more.
LEMMA ListGate ==
  ASSUME AllFine, ListInv, Unhurried' => Unhurried, UNCHANGED <<slot, tx, keep>>, ShowGate
  PROVE  ListInv'
<1>1. tl' = Show(StopTx(tl), "Gate") /\ ToolFine(tl) BY DEF ShowGate, AllFine
<1>2. tl'.page = "Gate" /\ ~tl'.reading /\ tl'.back = tl.back /\ tl'.wait = "None" /\ tl'.cmd = NoCmd
  BY <1>1, StopIs
<1>3. ~Settled' BY <1>2 DEF Settled, ListPage
<1>4. tl'.cmd.c \notin ChangeWord BY <1>2 DEF NoCmd, Cmd, ChangeWord
<1> QED BY <1>2, <1>3, <1>4, ListAway

\* The list is asked for when nothing is on its way.
LEMMA ListBegins ==
  ASSUME AllFine, ListInv, UNCHANGED <<slot, tx, rx, board, keep>>,
         NEW t, ToolFine(t), t.back = tl.back, StartList(t),
         Unhurried' => /\ Unhurried /\ Nothing /\ WardFrom(1) /\ board.job = "idle"
                       /\ scene'.at = "tools"
  PROVE  ListInv'
<1> SUFFICES ASSUME Unhurried' PROVE ListInv'
  BY DEF ListInv
<1>0. /\ Unhurried /\ tl.cmd = NoCmd /\ slot = NoCmd /\ tx = <<>> /\ WardFrom(1)
      /\ board.job = "idle" /\ scene'.at = "tools"
  BY DEF Nothing, NoneSent
<1>1. CASE ShowGate BY <1>1, ListGate
<1>2. CASE /\ bt' = [BtArmList EXCEPT !.news = FALSE]
           /\ tl' = [Begun(t, Cmd("ignList"), "List") EXCEPT !.listing = FALSE]
  <2>1. bt \in Listening BY DEF AllFine, HeardFine
  <2>2. /\ bt'.listen = "List" /\ ~bt'.echo /\ ~bt'.due /\ ~bt'.barrier /\ ~bt'.closed /\ ~bt'.busy
        /\ bt'.items = <<>>
    <3> DEFINE b == BtArmList
    <3>1. b \in Listening
      <4>1. <<>> \in Seq(Item) OBVIOUS
      <4> QED BY <2>1, <4>1 DEF BtArmList, Listening
    <3>2. /\ b.listen = "List" /\ ~b.echo /\ ~b.due /\ ~b.barrier /\ ~b.closed /\ ~b.busy
          /\ b.items = <<>>
      BY <2>1 DEF BtArmList, Listening
    <3>3. bt' = [b EXCEPT !.news = FALSE] BY <1>2
    <3> HIDE DEF b
    <3> QED BY <3>1, <3>2, <3>3 DEF Listening
  <2> DEFINE u == [t EXCEPT !.cmd = Cmd("ignList"), !.tag = "Plain", !.reading = TRUE, !.wait = "List"]
  <2>3. tl' = [u EXCEPT !.listing = FALSE] BY <1>0, <1>2 DEF Begun
  <2>4. u.cmd = Cmd("ignList") /\ u.reading /\ u.wait = "List" /\ u.back = t.back
    BY DEF ToolFine, ToolScreen
  <2>5. DOMAIN u = DOMAIN t /\ {"listing", "cmd", "reading", "wait", "back"} \subseteq DOMAIN t
    BY DEF ToolFine, ToolScreen
  <2>6. u = [f \in DOMAIN t |-> u[f]] BY DEF ToolFine, ToolScreen
  <2> HIDE DEF u
  <2>7. tl'.cmd = Cmd("ignList") /\ tl'.reading /\ tl'.wait = "List" /\ tl'.back = t.back /\ ~tl'.listing
    BY <2>3, <2>4, <2>5, <2>6
  <2>8. tl'.cmd.c \notin ChangeWord /\ slot'.c \notin ChangeWord /\ tl'.cmd.c # "ignRm" /\ slot'.c # "ignRm"
    BY <2>7, <1>0 DEF Cmd, NoCmd, ChangeWord
  <2>9. DOMAIN tx' = {} BY <1>0
  <2>10. ListStage'
    <3>1. NoChange' BY <2>8, <2>9 DEF NoChange
    <3>2. Only(Cmd("ignList"))' BY <2>7, <1>0 DEF Only, NoneSent
    <3>3. WardFrom(1)' BY <1>0 DEF WardFrom
    <3>4. ListAsked' BY <2>2, <3>2, <3>3 DEF ListAsked, Untouched
    <3> QED BY <1>0, <2>2, <2>7, <3>1, <3>4 DEF ListStage
  <2>11. OneChange' /\ RemovesRight' BY <2>8, <2>9 DEF OneChange, RemovesRight
  <2>12. ~Settled' BY <2>7 DEF Settled
  <2>13. tl'.back \in Backs BY <2>7, <1>0 DEF ListInv
  <2> QED BY <1>0, <2>7, <2>8, <2>10, <2>11, <2>12, <2>13 DEF ListInv, Changes
<1> QED BY <1>1, <1>2 DEF StartList

\* A command is kept for the tick.
LEMMA BegunIs ==
  ASSUME NEW t, ToolFine(t), tl.cmd = NoCmd, NEW c, NEW wait
  PROVE  /\ Begun(t, c, wait).cmd = c /\ Begun(t, c, wait).reading /\ Begun(t, c, wait).wait = wait
         /\ Begun(t, c, wait).back = t.back /\ Begun(t, c, wait).listing = t.listing
  BY DEF ToolFine, ToolScreen, Begun

\* Something else than the list or a change of it is asked for.
LEMMA OtherBegins ==
  ASSUME AllFine, ListInv, UNCHANGED <<slot, tx, keep>>,
         NEW t, ToolFine(t), t.back = tl.back, NEW c, c.c \notin ChangeWord,
         NEW wait \in Wait \ ({"None", "List"} \cup Changes),
         \/ StartReply(t, c, wait)
         \/ StartLs(t) /\ c = Cmd("ls") /\ wait = "Ls",
         Unhurried' => Unhurried /\ tl.cmd = NoCmd /\ scene'.at = "tools"
  PROVE  ListInv'
<1> SUFFICES ASSUME Unhurried' PROVE ListInv'
  BY DEF ListInv
<1>0. Unhurried /\ tl.cmd = NoCmd /\ scene'.at = "tools" OBVIOUS
<1>1. CASE ShowGate BY <1>1, <1>0, ListGate
<1> DEFINE u == Begun(t, c, wait)
           b == tl.cmd = NoCmd
<1>2. u.cmd = c /\ u.reading /\ u.wait = wait /\ u.back = t.back BY <1>0, BegunIs
<1>3. CASE tl' = u \/ tl' = [u EXCEPT !.listing = b]
  <2>1. {"cmd", "reading", "wait", "back"} \subseteq DOMAIN u /\ u = [f \in DOMAIN u |-> u[f]]
    BY <1>0 DEF ToolFine, ToolScreen, Begun
  <2> HIDE DEF u, b
  <2>2. tl'.cmd = c /\ tl'.reading /\ tl'.wait = wait /\ tl'.back = t.back
    BY <1>2, <1>3, <2>1
  <2>3. ~Settled' BY <2>2 DEF Settled
  <2> QED BY <1>0, <2>2, <2>3, ListAway
<1>4. ~ShowGate => tl' = u \/ tl' = [u EXCEPT !.listing = b] BY DEF StartReply, StartLs
<1> QED BY <1>1, <1>3, <1>4

\* A change of the list is asked for, of a list that is shown.
LEMMA ChangeBegins ==
  ASSUME AllFine, ListInv, UNCHANGED <<slot, tx, rx, board, keep>>, Settled,
         NEW t, ToolFine(t), t.back = tl.back, t.listing = tl.listing,
         NEW c, c.c \in ChangeWord, NEW wait \in Changes, StartReply(t, c, wait),
         Unhurried /\ c.c = "ignRm" => EntryIs(c.n, c.x),
         Unhurried' => /\ Unhurried /\ Nothing /\ WardFrom(1) /\ board.job = "idle"
                       /\ scene'.at = "tools"
  PROVE  ListInv'
<1> SUFFICES ASSUME Unhurried' PROVE ListInv'
  BY DEF ListInv
<1>0. /\ Unhurried /\ tl.cmd = NoCmd /\ slot = NoCmd /\ tx = <<>> /\ WardFrom(1)
      /\ board.job = "idle" /\ scene'.at = "tools"
  BY DEF Nothing, NoneSent
<1>1. CASE ShowGate BY <1>0, <1>1, ListGate
<1>2. CASE bt' = BtArmReply /\ tl' = Begun(t, c, wait)
  <2>1. bt \in Listening BY DEF AllFine, HeardFine
  <2>2. bt'.listen = "Reply" /\ ~bt'.news BY <1>2, <2>1 DEF BtArmReply, Listening
  <2>3. ~tl.listing BY <1>0 DEF ListInv, SettledRight
  <2>4. tl'.cmd = c /\ tl'.reading /\ tl'.wait = wait /\ tl'.back = t.back /\ ~tl'.listing
    BY <1>0, <1>2, <2>3, BegunIs
  <2>5. slot'.c \notin ChangeWord /\ DOMAIN tx' = {} BY <1>0 DEF NoCmd, Cmd, ChangeWord
  <2>6. ChangeStage'
    <3>1. WardFrom(1)' BY <1>0 DEF WardFrom
    <3> QED BY <1>0, <2>2, <2>4, <3>1 DEF ChangeStage, NoneSent
  <2>7. OneChange' BY <2>5 DEF OneChange
  <2>8. RemovesRight' BY <1>0, <2>4, <2>5 DEF RemovesRight, EntryIs, ChangeWord
  <2>9. ~Settled' BY <2>4 DEF Settled
  <2>10. tl'.wait # "None" /\ tl'.wait # "List" BY <2>4 DEF Changes
  <2>11. tl'.back \in Backs BY <2>4, <1>0 DEF ListInv
  <2> QED BY <1>0, <2>4, <2>6, <2>7, <2>8, <2>9, <2>10, <2>11 DEF ListInv
<1> QED BY <1>1, <1>2 DEF StartReply

\* The tools scene is entered with nothing under way, in an unhurried
\* behaviour.
LEMMA ToolAsked ==
  ASSUME AllFine, Ask("tools", NoneAwaited)
  PROVE  /\ scene'.at = "tools"
         /\ Unhurried' => /\ Unhurried /\ Nothing /\ rx = <<>> /\ WardFrom(1)
                          /\ board.job = "idle" /\ tl.wait = "None" /\ tl.cmd = NoCmd
<1>1. scene'.at = "tools" BY DEF Ask, AllFine, LinkFine
<1>2. Unhurried' => Unhurried /\ NoneAwaited BY AskUnhurried
<1>3. rx = <<>> => WardFrom(1) BY DEF WardFrom
<1> QED BY <1>1, <1>2, <1>3 DEF NoneAwaited, Answered, Quiet, Free, Nothing, NoneSent

\* The tools scene's keys that start a command keep ListInv.
LEMMA ListAsks ==
  ASSUME AllFine, ListInv, ToolsList \/ ToolsLogs \/ ToolsAdd \/ ToolsSend \/ ToolsSplit
  PROVE  ListInv'
<1>0. Ask("tools", NoneAwaited) /\ UNCHANGED <<slot, tx, rx, board, keep>> /\ ToolFine(tl)
  BY DEF ToolsList, ToolsLogs, ToolsAdd, ToolsSend, ToolsSplit, toolsRest, AllFine
<1>1. /\ scene'.at = "tools"
      /\ Unhurried' => /\ Unhurried /\ Nothing /\ rx = <<>> /\ WardFrom(1)
                       /\ board.job = "idle" /\ tl.wait = "None" /\ tl.cmd = NoCmd
  BY <1>0, ToolAsked
<1>2. CASE ToolsList BY <1>0, <1>1, <1>2, ListBegins DEF ToolsList
<1>3. CASE ToolsLogs
  <2>1. Cmd("ls").c \notin ChangeWord BY DEF Cmd, ChangeWord
  <2>2. "Ls" \in Wait \ ({"None", "List"} \cup Changes) BY DEF Wait, Changes
  <2> QED BY <1>0, <1>1, <1>3, <2>1, <2>2, OtherBegins DEF ToolsLogs
<1>4. CASE ToolsAdd
  <2>1. PICK x \in Ssids : StartReply(tl, CmdOf("ignAdd", 0, x), "Added") BY <1>4 DEF ToolsAdd
  <2>2. Settled BY <1>4 DEF ToolsAdd, Choosing, Settled, ListPage
  <2>3. CmdOf("ignAdd", 0, x).c \in ChangeWord /\ CmdOf("ignAdd", 0, x).c # "ignRm"
    BY DEF CmdOf, ChangeWord
  <2>4. "Added" \in Changes BY DEF Changes
  <2> QED BY <1>0, <1>1, <2>1, <2>2, <2>3, <2>4, ChangeBegins
<1>5. CASE ToolsSplit
  <2>0. Cmd("split").c = "split" /\ \A kb \in Sizes : CmdOf("split", 1, kb).c = "split"
    BY DEF Cmd, CmdOf
  <2>1. PICK c : StartReply(tl, c, "Split") /\ c.c = "split"
    <3>1. CASE StartReply(tl, Cmd("split"), "Split") BY <2>0, <3>1
    <3>2. CASE \E kb \in Sizes : StartReply(tl, CmdOf("split", 1, kb), "Split") BY <2>0, <3>2
    <3> QED BY <1>5, <3>1, <3>2 DEF ToolsSplit
  <2>2. c.c \notin ChangeWord BY <2>1 DEF ChangeWord
  <2>3. "Split" \in Wait \ ({"None", "List"} \cup Changes) BY DEF Wait, Changes
  <2> QED BY <1>0, <1>1, <2>1, <2>2, <2>3, OtherBegins
<1>6. CASE ToolsSend
  <2>1. PICK key \in {"Center", "Right"} :
          LET done == DelKey(key, Gate # "Ok")
          IN  done.act \in {"SendOne", "SendAll"} /\ Confirmed([tl EXCEPT !.del = done.del])
    BY <1>6 DEF ToolsSend
  <2> DEFINE d == DelKey(key, Gate # "Ok").del
             t == [tl EXCEPT !.del = d]
  <2>2. Confirmed(t) BY <2>1
  <2>3. d \in {"Idle", "One", "All1", "All2"} BY <1>0 DEF DelKey, ToolFine, ToolScreen
  <2>4. ToolFine(t) BY <1>0, <2>3, ToolTypes
  <2>5. /\ t.ask = tl.ask /\ t.back = tl.back /\ t.listing = tl.listing /\ t.rm = tl.rm
    BY <1>0 DEF ToolFine, ToolScreen
  <2>6. tl.page = "Ask" /\ ~tl.reading BY <1>6 DEF ToolsSend, Choosing
  <2> HIDE DEF t, d
  <2>7. t.ask \in {"Rm", "Clear", "Log", "All"}
    BY <1>0, <2>5, <2>6 DEF ToolFine, ToolScreen
  <2>8. CASE t.ask = "Rm"
    <3> DEFINE c == CmdOf("ignRm", t.rm.n, t.rm.x)
    <3>1. StartReply(t, c, "Removed") BY <2>2, <2>8 DEF Confirmed
    <3>2. c.c \in ChangeWord /\ c.c = "ignRm" /\ c.n = t.rm.n /\ c.x = t.rm.x BY DEF CmdOf, ChangeWord
    <3>3. Settled BY <2>5, <2>6, <2>8 DEF Settled, ListPage
    <3>4. Unhurried => EntryIs(c.n, c.x)
      BY <3>2, <3>3, <2>5, <2>6, <2>8 DEF ListInv, SettledRight
    <3>5. "Removed" \in Changes BY DEF Changes
    <3> HIDE DEF c
    <3> QED BY <1>0, <1>1, <2>4, <2>5, <3>1, <3>2, <3>3, <3>4, <3>5, ChangeBegins
  <2>9. CASE t.ask = "Clear"
    <3> DEFINE c == Cmd("ignClear")
    <3>1. StartReply(t, c, "Cleared") BY <2>2, <2>9 DEF Confirmed
    <3>2. c.c \in ChangeWord /\ c.c # "ignRm" BY DEF Cmd, ChangeWord
    <3>3. Settled BY <2>5, <2>6, <2>9 DEF Settled, ListPage
    <3>5. "Cleared" \in Changes BY DEF Changes
    <3> HIDE DEF c
    <3> QED BY <1>0, <1>1, <2>4, <2>5, <3>1, <3>2, <3>3, <3>5, ChangeBegins
  <2>10. CASE t.ask = "Log"
    <3> DEFINE c == CmdOf("rm", 0, t.file)
    <3>1. StartReply(t, c, "File") BY <2>2, <2>10 DEF Confirmed
    <3>2. c.c \notin ChangeWord BY DEF CmdOf, ChangeWord
    <3>5. "File" \in Wait \ ({"None", "List"} \cup Changes) BY DEF Wait, Changes
    <3> HIDE DEF c
    <3> QED BY <1>0, <1>1, <2>4, <2>5, <3>1, <3>2, <3>5, OtherBegins
  <2>11. CASE t.ask = "All"
    <3> DEFINE c == Cmd("rmAll")
    <3>1. StartReply(t, c, "Files") BY <2>2, <2>11 DEF Confirmed
    <3>2. c.c \notin ChangeWord BY DEF Cmd, ChangeWord
    <3>5. "Files" \in Wait \ ({"None", "List"} \cup Changes) BY DEF Wait, Changes
    <3> HIDE DEF c
    <3> QED BY <1>0, <1>1, <2>4, <2>5, <3>1, <3>2, <3>5, OtherBegins
  <2> QED BY <2>7, <2>8, <2>9, <2>10, <2>11
<1> QED BY <1>2, <1>3, <1>4, <1>5, <1>6

\* The screen turns from page to page.
LEMMA ListPages ==
  ASSUME AllFine, ListInv,
         EnterTools \/ ToolsOpenAdd \/ ToolsConfirm \/ ToolsButton \/ ToolsNoteOk
  PROVE  ListInv'
<1>0. ToolFine(tl) BY DEF AllFine
<1>1. CASE EnterTools
  <2>1. Unhurried' = Unhurried /\ UNCHANGED <<slot, tx, keep>> /\ scene.at = "menu"
    BY <1>1 DEF EnterTools, At, tally, toolsRest, Unhurried
  <2>2. \/ tl' = ToolsFresh
        \/ tl' = [ToolsFresh EXCEPT !.page = "Peer"] \/ tl' = [ToolsFresh EXCEPT !.page = "Gate"]
    BY <1>1 DEF EnterTools
  <2>3. /\ tl'.page \in {"Peer", "Gate", "Menu"} /\ ~tl'.reading /\ tl'.back = "Menu" /\ tl'.wait = "None" /\ tl'.cmd = NoCmd
    BY <2>2 DEF ToolsFresh
  <2>4. ~Settled' /\ tl'.back \in Backs /\ tl'.cmd.c \notin ChangeWord
    BY <2>3 DEF Settled, ListPage, Backs, NoCmd, Cmd, ChangeWord
  <2> QED BY <2>1, <2>3, <2>4, ListAway
<1>2. CASE ToolsOpenAdd
  <2>1. UNCHANGED <<scene, ghost, slot, bt, tx, rx, keep, board>>
    BY <1>2 DEF ToolsOpenAdd, tally, toolsRest
  <2>2. Settled BY <1>2 DEF ToolsOpenAdd, Choosing, Settled, ListPage
  <2>3. tl' = ShowNote(tl, "Ignore") \/ tl' = Show(tl, "Add") BY <1>2 DEF ToolsOpenAdd
  <2>4. CASE tl' = Show(tl, "Add")
    <3>1. /\ tl'.cmd = tl.cmd /\ tl'.tag = tl.tag /\ tl'.listing = tl.listing /\ tl'.wait = tl.wait
          /\ ~tl'.reading /\ tl'.back = tl.back /\ tl'.page = "Add"
      BY <1>0, <2>4, ScreenIs
    <3> QED BY <2>1, <2>2, <3>1, ListTurn DEF Unhurried
  <2>5. CASE tl' = ShowNote(tl, "Ignore")
    <3>1. /\ tl'.cmd = tl.cmd /\ tl'.listing = tl.listing /\ tl'.wait = "None" /\ ~tl'.reading
          /\ tl'.back = "Ignore" /\ tl'.page = "Note"
      BY <1>0, <2>5, NoteIs
    <3>2. tl'.tag = tl.tag
      <4> DEFINE u == Show(tl, "Note")
      <4>1. ToolFine(u) /\ u.tag = tl.tag BY <1>0, ToolTypes, ScreenIs DEF ToolPage
      <4>2. tl' = [u EXCEPT !.wait = "None", !.back = "Ignore"] BY <2>5 DEF ShowNote
      <4> HIDE DEF u
      <4> QED BY <4>1, <4>2 DEF ToolFine, ToolScreen
    <3>3. SUFFICES ASSUME Unhurried' PROVE ListInv'
      BY DEF ListInv
    <3>u. Unhurried BY <2>1, <3>3 DEF Unhurried
    <3>4. Unhurried /\ SettledRight BY <3>u, <2>2 DEF ListInv
    <3>5. NoChange' /\ OneChange' /\ RemovesRight'
      BY <2>1, <3>1, <3>4 DEF NoChange, OneChange, RemovesRight, SettledRight, ListInv, EntryIs
    <3>6. SettledRight' BY <2>1, <3>1, <3>4, <3>5 DEF SettledRight, HeardAll, HeardRight
    <3> QED BY <3>1, <3>4, <3>5, <3>6 DEF ListInv, Changes, Backs, SettledRight, NoChange
  <2> QED BY <2>3, <2>4, <2>5
<1>3. CASE ToolsNoteOk
  <2>1. UNCHANGED <<scene, ghost, slot, bt, tx, rx, keep, board>> /\ tl' = Show(tl, tl.back)
    BY <1>3 DEF ToolsNoteOk, tally, toolsRest
  <2>2. /\ tl'.cmd = tl.cmd /\ tl'.tag = tl.tag /\ tl'.listing = tl.listing /\ tl'.wait = tl.wait
        /\ ~tl'.reading /\ tl'.back = tl.back /\ tl'.page = tl.back
    BY <1>0, <2>1, ScreenIs
  <2>3. tl.page = "Note" /\ ~tl.reading BY <1>3 DEF ToolsNoteOk, Choosing
  <2>4. Unhurried => tl.back \in Backs BY DEF ListInv
  <2>5. Unhurried /\ Settled' => Settled /\ tl'.page # "Ask"
    BY <2>2, <2>3, <2>4 DEF Settled, ListPage, Backs
  <2> QED BY <2>1, <2>2, <2>5, ListTurn DEF Unhurried
<1>4. CASE ToolsConfirm
  <2>1. UNCHANGED <<scene, ghost, slot, bt, tx, rx, keep, board>>
    BY <1>4 DEF ToolsConfirm, tally, toolsRest
  <2> DEFINE u == Show(tl, "Ask")
  <2>2. \/ tl.page = "Ignore" /\ \E i \in DOMAIN bt.items :
             tl' = [u EXCEPT !.ask = "Rm", !.del = "One", !.rm = bt.items[i]]
        \/ tl.page = "Ignore" /\ tl' = [u EXCEPT !.ask = "Clear", !.del = "One"]
        \/ \E f : tl' = [u EXCEPT !.ask = "Log", !.del = "One", !.file = f]
        \/ tl' = [u EXCEPT !.ask = "All", !.del = "All1", !.ripe = FALSE]
    BY <1>4 DEF ToolsConfirm, Choosing
  <2>3. /\ u.page = "Ask" /\ ~u.reading /\ u.back = tl.back /\ u.wait = tl.wait
        /\ u.listing = tl.listing /\ u.cmd = tl.cmd /\ u.tag = tl.tag
    BY <1>0, ScreenIs
  <2>4. DOMAIN u = DOMAIN tl /\ u = [f \in DOMAIN tl |-> u[f]]
        /\ {"page", "reading", "back", "wait", "listing", "cmd", "tag", "ask", "rm"} \subseteq DOMAIN tl
    BY <1>0 DEF ToolFine, ToolScreen, Show
  <2>5. ~tl.reading BY <1>4 DEF ToolsConfirm, Choosing
  <2> HIDE DEF u
  <2>6. /\ tl'.page = "Ask" /\ ~tl'.reading /\ tl'.back = tl.back /\ tl'.wait = tl.wait
        /\ tl'.listing = tl.listing /\ tl'.cmd = tl.cmd /\ tl'.tag = tl.tag
    BY <2>2, <2>3, <2>4
  <2>7. tl'.ask \in {"Rm", "Clear"} => tl.page = "Ignore" BY <2>2, <2>4
  <2>8. tl'.ask = "Rm" => \E i \in DOMAIN bt.items : tl'.rm = bt.items[i] BY <2>2, <2>4
  <2>9. Unhurried /\ Settled' =>
           /\ Settled
           /\ tl'.page = "Ask" /\ tl'.ask = "Rm" => EntryIs(tl'.rm.n, tl'.rm.x)
    <3>1. SUFFICES ASSUME Unhurried, Settled'
                   PROVE  Settled /\ (tl'.ask = "Rm" => EntryIs(tl'.rm.n, tl'.rm.x))
      OBVIOUS
    <3>2. Settled BY <3>1, <2>5, <2>6, <2>7 DEF Settled, ListPage
    <3>3. HeardAll BY <3>1, <3>2 DEF ListInv, SettledRight
    <3>4. tl'.ask = "Rm" => EntryIs(tl'.rm.n, tl'.rm.x)
      <4>1. SUFFICES ASSUME NEW i \in DOMAIN bt.items, tl'.rm = bt.items[i]
                     PROVE  EntryIs(tl'.rm.n, tl'.rm.x)
        BY <2>8
      <4>2. tl'.rm = [n |-> i, x |-> keep.ign[i]] BY <4>1, <3>3 DEF HeardAll, HeardRight
      <4>3. i \in DOMAIN keep.ign
        BY <3>3 DEF HeardAll, AllFine, KeepFine, HeardFine, Listening
      <4> QED BY <4>2, <4>3 DEF EntryIs
    <3> QED BY <3>2, <3>4
  <2> QED BY <2>1, <2>6, <2>9, ListTurn DEF Unhurried
<1>5. CASE ToolsButton
  <2>1. UNCHANGED <<scene, ghost, slot, tx, rx, keep, board>>
    BY <1>5 DEF ToolsButton, tally, toolsRest
  <2>2. tl.page = "Ask" /\ ~tl.reading BY <1>5 DEF ToolsButton, Choosing
  <2>3. PICK key \in {"Left", "Center", "Right"} :
         LET done == DelKey(key, Gate # "Ok")
         IN  \/ tl' = BackList([tl EXCEPT !.del = done.del]) /\ bt' = bt
             \/ tl' = [Show(tl, "Ask") EXCEPT !.del = done.del, !.ripe = FALSE] /\ bt' = bt
             \/ ShowGate
    BY <1>5 DEF ToolsButton
  <2> DEFINE d == DelKey(key, Gate # "Ok").del
  <2>4. d \in {"Idle", "One", "All1", "All2"} BY <1>0 DEF DelKey, ToolFine, ToolScreen
  <2>p. \/ tl' = BackList([tl EXCEPT !.del = d]) /\ bt' = bt
        \/ tl' = [Show(tl, "Ask") EXCEPT !.del = d, !.ripe = FALSE] /\ bt' = bt
        \/ ShowGate
    BY <2>3
  <2> HIDE DEF d
  <2>5. CASE ShowGate BY <2>1, <2>5, ListGate DEF Unhurried
  <2>6. CASE tl' = BackList([tl EXCEPT !.del = d]) /\ bt' = bt
    <3> DEFINE t == [tl EXCEPT !.del = d]
               page == IF t.ask \in {"Log", "All"} \/ t.page = "Logs" THEN "Logs"
                       ELSE IF t.page = "Split" THEN "Split" ELSE "Ignore"
    <3>1. ToolFine(t) BY <1>0, <2>4, ToolTypes
    <3>2. tl' = Show(t, page) BY <2>6 DEF BackList
    <3>3. /\ t.back = tl.back /\ t.wait = tl.wait /\ t.listing = tl.listing /\ t.cmd = tl.cmd
          /\ t.tag = tl.tag /\ t.ask = tl.ask /\ t.page = tl.page
      BY <1>0 DEF ToolFine, ToolScreen
    <3> HIDE DEF t
    <3>4. page = IF tl.ask \in {"Log", "All"} THEN "Logs" ELSE "Ignore" BY <3>3, <2>2
    <3> HIDE DEF page
    <3>5. /\ tl'.page = page /\ ~tl'.reading /\ tl'.back = tl.back /\ tl'.wait = tl.wait
          /\ tl'.listing = tl.listing /\ tl'.cmd = tl.cmd /\ tl'.tag = tl.tag
      BY <3>1, <3>2, <3>3, ScreenIs
    <3>6. tl.ask \in {"Rm", "Clear", "Log", "All"} BY <1>0, <2>2 DEF ToolFine, ToolScreen
    <3>7. Settled' => Settled /\ tl'.page # "Ask"
      BY <2>2, <3>4, <3>5, <3>6 DEF Settled, ListPage
    <3> QED BY <2>1, <2>6, <3>5, <3>7, ListTurn DEF Unhurried
  <2>7. CASE tl' = [Show(tl, "Ask") EXCEPT !.del = d, !.ripe = FALSE] /\ bt' = bt
    <3> DEFINE u == Show(tl, "Ask")
    <3>1. /\ u.page = "Ask" /\ ~u.reading /\ u.back = tl.back /\ u.wait = tl.wait
          /\ u.listing = tl.listing /\ u.cmd = tl.cmd /\ u.tag = tl.tag /\ u.ask = tl.ask /\ u.rm = tl.rm
      BY <1>0, ScreenIs
    <3>2. DOMAIN u = DOMAIN tl /\ u = [f \in DOMAIN tl |-> u[f]]
          /\ {"page", "reading", "back", "wait", "listing", "cmd", "tag", "ask", "rm"} \subseteq DOMAIN tl
      BY <1>0 DEF ToolFine, ToolScreen, Show
    <3>3. tl' = [u EXCEPT !.del = d, !.ripe = FALSE] BY <2>7
    <3> HIDE DEF u
    <3>4. /\ tl'.page = "Ask" /\ ~tl'.reading /\ tl'.back = tl.back /\ tl'.wait = tl.wait
          /\ tl'.listing = tl.listing /\ tl'.cmd = tl.cmd /\ tl'.tag = tl.tag
          /\ tl'.ask = tl.ask /\ tl'.rm = tl.rm
      BY <3>1, <3>2, <3>3
    <3>5. Settled' => Settled BY <2>2, <3>4 DEF Settled, ListPage
    <3>6. Unhurried /\ Settled /\ tl'.ask = "Rm" => EntryIs(tl'.rm.n, tl'.rm.x)
      BY <2>2, <3>4 DEF ListInv, SettledRight
    <3> QED BY <2>1, <2>7, <3>4, <3>5, <3>6, ListTurn DEF Unhurried
  <2> QED BY <2>p, <2>5, <2>6, <2>7
<1> QED BY <1>1, <1>2, <1>3, <1>4, <1>5

\* Back in the tools scene keeps ListInv.
LEMMA ListBack == ASSUME AllFine, ListInv, ToolsBack PROVE ListInv'
<1> SUFFICES ASSUME Unhurried' PROVE ListInv'
  BY DEF ListInv
<1>0. ToolFine(tl) /\ UNCHANGED <<slot, tx, rx, keep, board>>
  BY DEF AllFine, ToolsBack, toolsRest
<1>1. Unhurried /\ tl.wait = "None"
  <2> DEFINE b == ghost.rushed \/ tl.wait # "None"
  <2>1. ghost \in [rushed : BOOLEAN, lost : BOOLEAN] BY DEF AllFine, LinkFine
  <2>2. ghost' = [ghost EXCEPT !.rushed = b] BY DEF ToolsBack
  <2>3. ghost'.rushed = b /\ ghost'.lost = ghost.lost
    <3> HIDE DEF b
    <3> QED BY <2>1, <2>2
  <2> QED BY <2>3 DEF Unhurried
<1>2. ~tl.reading /\ tl.back \in Backs BY <1>1 DEF ListInv
<1> DEFINE shown == IF tl.page = "Note" THEN Show(tl, tl.back) ELSE BackList(tl)
<1>3. CASE tl.page \in {"Ask", "Note", "Add"}
  <2>1. tl' = [shown EXCEPT !.del = "Idle"] /\ UNCHANGED <<scene, bt>>
    BY <1>3 DEF ToolsBack
  <2> DEFINE page == IF tl.page = "Note" THEN tl.back
                     ELSE IF tl.ask \in {"Log", "All"} THEN "Logs" ELSE "Ignore"
  <2>2. shown = Show(tl, page) BY <1>3 DEF BackList
  <2> HIDE DEF shown
  <2> DEFINE u == Show(tl, page)
  <2>3. /\ u.page = page /\ ~u.reading /\ u.back = tl.back /\ u.wait = tl.wait
        /\ u.listing = tl.listing /\ u.cmd = tl.cmd /\ u.tag = tl.tag
    <3> HIDE DEF page
    <3> QED BY <1>0, ScreenIs
  <2>4. DOMAIN u = DOMAIN tl /\ u = [f \in DOMAIN tl |-> u[f]]
        /\ {"page", "reading", "back", "wait", "listing", "cmd", "tag"} \subseteq DOMAIN tl
    BY <1>0 DEF ToolFine, ToolScreen, Show
  <2>5. tl' = [u EXCEPT !.del = "Idle"] BY <2>1, <2>2
  <2> HIDE DEF u
  <2>6. /\ tl'.page = page /\ ~tl'.reading /\ tl'.back = tl.back /\ tl'.wait = tl.wait
        /\ tl'.listing = tl.listing /\ tl'.cmd = tl.cmd /\ tl'.tag = tl.tag
    BY <2>3, <2>4, <2>5
  <2>7. Settled' => Settled /\ tl'.page # "Ask"
    <3>1. tl.page = "Ask" => tl.ask \in {"Rm", "Clear", "Log", "All"}
      BY <1>0 DEF ToolFine, ToolScreen
    <3> QED BY <1>2, <1>3, <2>6, <3>1 DEF Settled, ListPage, Backs
  <2> HIDE DEF page
  <2> QED BY <1>0, <1>1, <2>1, <2>6, <2>7, ListTurn
<1>4. CASE tl.page \notin {"Ask", "Note", "Add"}
  <2>1. \/ \E page \in {"Logs", "Menu"} : tl' = Show(StopTx(tl), page)
        \/ tl' = StopTx(tl) /\ tl.page \in {"Peer", "Menu", "Gate"}
    <3>1. tl.page \in ToolPage BY <1>0 DEF ToolFine, ToolScreen
    <3> QED BY <1>4, <3>1 DEF ToolsBack, ToolPage
  <2>2. tl'.wait = "None" /\ tl'.cmd = NoCmd /\ tl'.back = tl.back
        /\ tl'.page \in {"Logs", "Menu", "Peer", "Gate"} /\ ~tl'.reading
    BY <1>0, <1>2, <2>1, StopIs, ScreenIs
  <2>3. ~Settled' /\ tl'.cmd.c \notin ChangeWord
    BY <2>2 DEF Settled, ListPage, NoCmd, Cmd, ChangeWord
  <2> QED BY <1>0, <1>1, <2>2, <2>3, ListAway
<1> QED BY <1>3, <1>4

\* Every key of the tools scene keeps ListInv.
LEMMA ListUser == ASSUME AllFine, ListInv, ToolsUser PROVE ListInv'
  BY ListAsks, ListPages, ListBack DEF ToolsUser

\* The wait becoming ripe keeps ListInv: an unhurried behaviour has no such step
\* before the answer.
LEMMA ListRipe == ASSUME AllFine, ListInv, ToolsRipe PROVE ListInv'
<1>1. UNCHANGED <<scene, ghost, slot, bt, tx, rx, keep, board>> /\ tl' = [tl EXCEPT !.ripe = TRUE]
  BY DEF ToolsRipe, tally, toolsRest
<1>2. /\ tl'.page = tl.page /\ tl'.reading = tl.reading /\ tl'.back = tl.back /\ tl'.wait = tl.wait
      /\ tl'.listing = tl.listing /\ tl'.cmd = tl.cmd /\ tl'.tag = tl.tag /\ tl'.ask = tl.ask
      /\ tl'.rm = tl.rm
  BY <1>1 DEF AllFine, ToolFine, ToolScreen
<1>3. Settled' => Settled BY <1>2 DEF Settled, ListPage
<1>4. Unhurried /\ Settled /\ tl.page = "Ask" /\ tl.ask = "Rm" => EntryIs(tl'.rm.n, tl'.rm.x)
  BY <1>2 DEF ListInv, SettledRight
<1> QED BY <1>1, <1>2, <1>3, <1>4, ListTurn DEF Unhurried

\* The pump's gate keeps ListInv.
LEMMA ListPumpGate == ASSUME AllFine, ListInv, PumpGate PROVE ListInv'
<1>0. UNCHANGED <<scene, ghost, slot, tx, rx, keep>> /\ ToolFine(tl)
  BY DEF PumpGate, tally, toolsRest, AllFine
<1>1. CASE ShowGate BY <1>0, <1>1, ListGate DEF Unhurried
<1>2. CASE tl' = Show(StopTx(tl), "Menu")
  <2>1. tl'.page = "Menu" /\ ~tl'.reading /\ tl'.back = tl.back /\ tl'.wait = "None" /\ tl'.cmd = NoCmd
    BY <1>0, <1>2, StopIs
  <2>2. ~Settled' /\ tl'.cmd.c \notin ChangeWord
    BY <2>1 DEF Settled, ListPage, NoCmd, Cmd, ChangeWord
  <2> QED BY <1>0, <2>1, <2>2, ListAway DEF Unhurried
<1> QED BY <1>1, <1>2 DEF PumpGate

\* The pump sending the command keeps ListInv.
LEMMA ListPumpSend == ASSUME AllFine, ListInv, PumpSend PROVE ListInv'
<1> SUFFICES ASSUME Unhurried' PROVE ListInv'
  BY DEF ListInv
<1>0. /\ UNCHANGED <<scene, tx, rx, keep, board>> /\ tl.cmd # NoCmd /\ slot = NoCmd
      /\ slot' = tl.cmd /\ tl' = [tl EXCEPT !.cmd = NoCmd]
      /\ Unhurried
      /\ bt' = IF tl.tag = "IgnBar" /\ IgnoreBarrierDue THEN [bt EXCEPT !.barrier = TRUE] ELSE bt
  BY DEF PumpSend, tally, toolsRest, Free, Unhurried
<1>1. tl \in ToolScreen /\ bt \in Listening BY DEF AllFine, ToolFine, HeardFine
<1>2. /\ tl'.page = tl.page /\ tl'.reading = tl.reading /\ tl'.back = tl.back /\ tl'.wait = tl.wait
      /\ tl'.listing = tl.listing /\ tl'.cmd = NoCmd /\ tl'.tag = tl.tag /\ tl'.ask = tl.ask
      /\ tl'.rm = tl.rm
  BY <1>0, <1>1 DEF ToolScreen
<1>3. (Settled' <=> Settled) /\ tl'.cmd.c \notin ChangeWord
  BY <1>2 DEF Settled, ListPage, NoCmd, Cmd, ChangeWord
<1>4. NoChange => NoChange' BY <1>0, <1>3 DEF NoChange
<1>5. LineKept
  <2>1. bt'.items = bt.items BY <1>0, <1>1 DEF Listening
  <2> QED BY <1>0, <2>1 DEF LineKept, WardFrom, RestAt, BusyAt
<1>6. bt' = bt => (HeardRight => HeardRight') /\ (HeardAll => HeardAll')
  BY <1>0 DEF HeardAll, HeardRight
<1>7. SettledRight => SettledRight'
  <2>1. bt.closed => bt' = bt BY <1>0 DEF IgnoreBarrierDue
  <2> QED BY <1>0, <1>2, <1>4, <1>6, <2>1 DEF SettledRight, EntryIs
<1>8. tl.wait \in Changes /\ ChangeStage => ChangeStage'
  <2> SUFFICES ASSUME ChangeStage PROVE ChangeStage'
    OBVIOUS
  <2>1. bt' = bt BY <1>0 DEF ChangeStage, IgnoreBarrierDue
  <2>2. ~bt.news /\ WardFrom(1) /\ tl.cmd.c \in ChangeWord /\ tx = <<>>
    BY <1>0 DEF ChangeStage, Nothing, NoneSent
  <2>3. WardFrom(1)' BY <2>2, <1>5 DEF LineKept
  <2> QED BY <1>0, <1>2, <2>1, <2>2, <2>3 DEF ChangeStage
<1>9. OneChange' /\ RemovesRight'
  <2>1. tl.cmd.c \in ChangeWord => tx = <<>>
    BY <1>0 DEF ListInv, ChangeStage, Nothing, NoneSent
  <2>2. tl.cmd.c \in ChangeWord => DOMAIN tx = {} BY <2>1
  <2>3. OneChange' BY <1>0, <2>2 DEF ListInv, OneChange
  <2>4. RemovesRight' BY <1>0, <1>3 DEF ListInv, RemovesRight, EntryIs, ChangeWord
  <2> QED BY <2>3, <2>4
<1>10. ListStage => ListStage'
  <2> SUFFICES ASSUME ListStage PROVE ListStage'
    OBVIOUS
  <2>1. \A c : Only(c) => Only(c)' /\ tl.cmd = c /\ NoneSent
    BY <1>0, <1>2 DEF Only, NoneSent
  <2>2. ListAsked \/ BarrierNext \/ ListRefused
    BY <1>0 DEF ListStage, ListTold, BarrierSent, BarrierTold, ListHeard, Nothing
  <2>3. bt'.listen = "List" => (ListAsked' \/ BarrierSent' \/ ListRefused' => ListStage')
    BY <1>0, <1>2, <1>4 DEF ListStage
  <2>4. CASE ListAsked
    <3>1. bt' = bt BY <1>0, <2>4 DEF ListAsked, Untouched, IgnoreBarrierDue
    <3>2. ListAsked' BY <2>1, <2>4, <3>1, <1>5 DEF ListAsked, Untouched, LineKept
    <3> QED BY <2>3, <3>1, <3>2 DEF ListStage
  <2>5. CASE ListRefused
    <3>1. bt' = bt BY <1>0, <2>5 DEF ListRefused, IgnoreBarrierDue
    <3>2. Only(Cmd("channel")) BY <1>0, <2>5 DEF ListRefused, Nothing
    <3>3. ListRefused' BY <2>1, <2>5, <3>1, <3>2 DEF ListRefused
    <3> QED BY <2>3, <3>1, <3>3 DEF ListStage
  <2>6. CASE BarrierNext
    <3>1. tl.cmd = Cmd("channel") /\ tl.tag = "IgnBar" /\ NoneSent /\ Hearing /\ ~bt.barrier
      BY <1>0, <2>6 DEF BarrierNext
    <3>2. IgnoreBarrierDue BY <3>1 DEF IgnoreBarrierDue, Hearing, ListStage
    <3>3. bt' = [bt EXCEPT !.barrier = TRUE] BY <1>0, <3>1, <3>2
    <3>4. /\ bt'.barrier /\ bt'.listen = bt.listen /\ bt'.echo = bt.echo /\ bt'.due = bt.due
          /\ bt'.closed = bt.closed /\ bt'.busy = bt.busy /\ bt'.items = bt.items
      BY <3>3, <1>1 DEF Listening
    <3>5. Hearing' BY <1>0, <3>1, <3>4 DEF Hearing, HeardRight
    <3>6. RestAt(0)' \/ BusyAt(0)' BY <2>6, <1>5 DEF BarrierNext, LineKept
    <3>7. Only(Cmd("channel"))' BY <1>0, <1>2, <3>1 DEF Only, NoneSent
    <3>8. BarrierSent' BY <3>4, <3>5, <3>6, <3>7, <1>2 DEF BarrierSent
    <3> QED BY <2>3, <3>4, <3>8 DEF ListStage
  <2> QED BY <2>2, <2>4, <2>5, <2>6
<1> QED BY <1>0, <1>2, <1>3, <1>7, <1>8, <1>9, <1>10 DEF ListInv

\* The pump sending the barrier keeps ListInv.
LEMMA ListPumpBarrier == ASSUME AllFine, ListInv, PumpBarrier PROVE ListInv'
<1> SUFFICES ASSUME Unhurried' PROVE ListInv'
  BY DEF ListInv
<1> DEFINE tag == IF IgnoreBarrierDue THEN "IgnBar" ELSE "LsBar"
<1>0. /\ UNCHANGED <<scene, slot, tx, rx, keep, board, bt>> /\ tl.cmd = NoCmd
      /\ tl' = [tl EXCEPT !.cmd = Cmd("channel"), !.tag = tag]
      /\ Unhurried
      /\ IgnoreBarrierDue \/ tl.listing
  BY DEF PumpBarrier, tally, toolsRest, Unhurried, LsBarrierDue
<1>1. tl \in ToolScreen BY DEF AllFine, ToolFine
<1>2. /\ tl'.page = tl.page /\ tl'.reading = tl.reading /\ tl'.back = tl.back /\ tl'.wait = tl.wait
      /\ tl'.listing = tl.listing /\ tl'.cmd = Cmd("channel") /\ tl'.tag = tag
  <2> HIDE DEF tag
  <2> QED BY <1>0, <1>1 DEF ToolScreen
<1>3. (Settled' => Settled \/ ~ListPage) /\ tl'.cmd.c \notin ChangeWord /\ tl'.cmd.c # "ignRm"
  BY <1>2 DEF Settled, Cmd, ChangeWord
<1>4. ~Settled'
  <2>1. SettledRight => ~IgnoreBarrierDue /\ ~tl.listing
    BY DEF SettledRight, IgnoreBarrierDue
  <2>2. ~Settled BY <2>1, <1>0 DEF ListInv
  <2>3. tl'.ask = tl.ask BY <1>0, <1>1 DEF ToolScreen
  <2> QED BY <1>2, <2>2, <2>3 DEF Settled, ListPage
<1>5. tl.wait \notin Changes BY <1>0 DEF ListInv, ChangeStage, IgnoreBarrierDue
<1>6. OneChange' /\ RemovesRight'
  <2>1. OneChange /\ RemovesRight BY <1>0 DEF ListInv
  <2> QED BY <2>1, <1>0, <1>3 DEF OneChange, RemovesRight, EntryIs
<1>7. tl.wait = "List" => ListStage'
  <2> SUFFICES ASSUME ListStage PROVE ListStage'
    BY <1>0 DEF ListInv
  <2>1. IgnoreBarrierDue BY <1>0 DEF ListStage
  <2>2. BarrierNext
    BY <2>1 DEF ListStage, IgnoreBarrierDue, ListAsked, ListTold, Untouched, BarrierSent, BarrierTold,
       ListHeard, ListRefused
  <2>3. NoChange' BY <1>0, <1>3 DEF NoChange, ListStage
  <2>4. BarrierNext'
    BY <1>0, <1>2, <2>1, <2>2 DEF BarrierNext, Hearing, HeardRight, NoneSent, RestAt, BusyAt, WardFrom
  <2> QED BY <1>0, <1>2, <2>3, <2>4 DEF ListStage
<1> QED BY <1>0, <1>2, <1>3, <1>4, <1>5, <1>6, <1>7 DEF ListInv

\* The size the board told is taken.
LEMMA SplitIs ==
  ASSUME AllFine
  PROVE  /\ ToolFine(SplitTaken)
         /\ SplitTaken.cmd = tl.cmd /\ SplitTaken.tag = tl.tag /\ SplitTaken.listing = tl.listing
         /\ SplitTaken.back = tl.back /\ SplitTaken.ask = tl.ask /\ SplitTaken.rm = tl.rm
         /\ \/ /\ SplitTaken.page = tl.page /\ SplitTaken.reading = tl.reading
               /\ SplitTaken.wait = tl.wait
            \/ /\ SplitTaken.page = "Split" /\ ~SplitTaken.reading
               /\ SplitTaken.wait \in {tl.wait, "None"}
<1> DEFINE taken == IF bt.sized THEN [tl EXCEPT !.size = bt.size] ELSE tl
           ended == IF taken.wait = "Split" THEN [taken EXCEPT !.wait = "None"] ELSE taken
<1>0. ToolFine(tl) /\ bt.size \in Sizes \cup {"unknown"} BY DEF AllFine, HeardFine, Listening
<1>1. ToolFine(taken) BY <1>0, ToolTypes
<1>2. /\ taken.cmd = tl.cmd /\ taken.tag = tl.tag /\ taken.listing = tl.listing
      /\ taken.back = tl.back /\ taken.ask = tl.ask /\ taken.rm = tl.rm
      /\ taken.page = tl.page /\ taken.reading = tl.reading /\ taken.wait = tl.wait
  BY <1>0 DEF ToolFine, ToolScreen
<1>e. SplitTaken = IF bt.sized /\ (tl.page = "Split" \/ tl.wait = "Split")
                   THEN Show(ended, "Split") ELSE taken
  BY DEF SplitTaken
<1> HIDE DEF taken
<1>3. ToolFine(ended) BY <1>1, ToolTypes
<1>4. /\ ended.cmd = tl.cmd /\ ended.tag = tl.tag /\ ended.listing = tl.listing
      /\ ended.back = tl.back /\ ended.ask = tl.ask /\ ended.rm = tl.rm
      /\ ended.wait \in {tl.wait, "None"}
  BY <1>1, <1>2 DEF ToolFine, ToolScreen
<1> HIDE DEF ended
<1>5. ToolFine(Show(ended, "Split")) BY <1>3, ToolTypes DEF ToolPage
<1>6. /\ Show(ended, "Split").page = "Split" /\ ~Show(ended, "Split").reading
      /\ Show(ended, "Split").back = ended.back /\ Show(ended, "Split").ask = ended.ask
      /\ Show(ended, "Split").wait = ended.wait /\ Show(ended, "Split").listing = ended.listing
      /\ Show(ended, "Split").cmd = ended.cmd /\ Show(ended, "Split").tag = ended.tag
      /\ Show(ended, "Split").rm = ended.rm
  BY <1>3, ScreenIs
<1>7. CASE bt.sized /\ (tl.page = "Split" \/ tl.wait = "Split")
  <2>1. SplitTaken = Show(ended, "Split") BY <1>7, <1>e
  <2> QED BY <2>1, <1>4, <1>5, <1>6
<1>8. CASE ~(bt.sized /\ (tl.page = "Split" \/ tl.wait = "Split"))
  <2>1. SplitTaken = taken BY <1>8, <1>e
  <2> QED BY <2>1, <1>1, <1>2
<1> QED BY <1>7, <1>8

\* The answer to what was asked is looked at.
LEMMA ListFinish ==
  ASSUME AllFine, ListInv, UNCHANGED <<scene, ghost, slot, tx, rx, keep, board>>,
         tl.cmd = NoCmd, bt.news,
         NEW t, ToolFine(t), t.back = tl.back, t.cmd = tl.cmd, t.wait = tl.wait, t.wait # "None",
         \/ bt.kind \in {"busy", "sd"}
         \/ /\ t.tag = tl.tag /\ t.listing = tl.listing /\ t.ask = tl.ask /\ t.rm = tl.rm
            /\ \/ t.page = tl.page /\ t.reading = tl.reading
               \/ t.page = "Split" /\ ~t.reading,
         Finish(t)
  PROVE  ListInv'
<1> SUFFICES ASSUME Unhurried' PROVE ListInv'
  BY DEF ListInv
<1>0. Unhurried /\ bt \in Listening BY DEF Unhurried, AllFine, HeardFine
<1>1. CASE ShowGate BY <1>0, <1>1, ListGate
<1>2. CASE \E back \in {"Logs", "Split"} : tl' = ShowNote(t, back)
  <2>1. PICK back \in {"Logs", "Split"} : tl' = ShowNote(t, back) BY <1>2
  <2>2. /\ tl'.page = "Note" /\ ~tl'.reading /\ tl'.back = back /\ tl'.wait = "None" /\ tl'.cmd = NoCmd
    BY <2>1, NoteIs
  <2>3. ~Settled' /\ tl'.cmd.c \notin ChangeWord /\ tl'.back \in Backs
    BY <2>2 DEF Settled, ListPage, NoCmd, Cmd, ChangeWord, Backs
  <2> QED BY <1>0, <2>2, <2>3, ListAway
<1>3. CASE t.wait \in {"File", "Files"} /\ StartLs(t)
  <2>1. Cmd("ls").c \notin ChangeWord BY DEF Cmd, ChangeWord
  <2>2. "Ls" \in Wait \ ({"None", "List"} \cup Changes) BY DEF Wait, Changes
  <2>3. scene'.at = "tools" BY <1>0 DEF ListInv
  <2> QED BY <1>0, <1>3, <2>1, <2>2, <2>3, OtherBegins
<1>4. CASE t.wait \in Changes /\ StartList(t)
  <2>1. ChangeStage /\ scene'.at = "tools" BY <1>0, <1>4 DEF ListInv
  <2>2. Nothing /\ WardFrom(1) /\ board.job = "idle" BY <2>1 DEF ChangeStage
  <2> QED BY <1>0, <1>4, <2>1, <2>2, ListBegins
<1>5. CASE tl' = t /\ bt' = Looked /\ bt.kind \notin {"busy", "sd"}
  <2>1. /\ bt'.listen = bt.listen /\ bt'.echo = bt.echo /\ bt'.due = bt.due /\ bt'.barrier = bt.barrier
        /\ bt'.closed = bt.closed /\ bt'.busy = bt.busy /\ bt'.items = bt.items /\ ~bt'.news
    BY <1>0, <1>5 DEF Looked, Listening
  <2>2. /\ tl'.cmd = tl.cmd /\ tl'.tag = tl.tag /\ tl'.listing = tl.listing /\ tl'.wait = tl.wait
        /\ tl'.back = tl.back /\ (tl'.reading => tl.reading) /\ tl'.ask = tl.ask /\ tl'.rm = tl.rm
        /\ (tl'.page = tl.page /\ tl'.reading = tl.reading) \/ tl'.page = "Split"
    BY <1>5
  <2>3. Settled' => Settled /\ tl'.page = tl.page BY <2>2 DEF Settled, ListPage
  <2>4. Settled' /\ tl'.page = "Ask" /\ tl'.ask = "Rm" => EntryIs(tl'.rm.n, tl'.rm.x)
    BY <1>0, <2>2, <2>3 DEF ListInv, SettledRight
  <2> QED BY <1>0, <2>1, <2>2, <2>3, <2>4, ListTurn
<1>6. \/ ShowGate
      \/ \E back \in {"Logs", "Split"} : tl' = ShowNote(t, back)
      \/ t.wait \in {"File", "Files"} /\ StartLs(t)
      \/ t.wait \in Changes /\ StartList(t)
      \/ tl' = t /\ bt' = Looked /\ bt.kind \notin {"busy", "sd"}
  <2>1. DOMAIN Wanted = Changes \cup {"File", "Files"} BY DEF Wanted, Changes
  <2> HIDE DEF Wanted
  <2> QED BY <2>1 DEF Finish
<1> QED BY <1>1, <1>2, <1>3, <1>4, <1>5, <1>6

\* The pump looking at what was heard keeps ListInv: a list it settles is the
\* board's.
LEMMA ListObserve == ASSUME AllFine, ListInv, PumpObserve PROVE ListInv'
<1> SUFFICES ASSUME Unhurried' PROVE ListInv'
  BY DEF ListInv
<1>0. UNCHANGED <<scene, ghost, slot, tx, rx, keep, board>> /\ tl.cmd = NoCmd /\ Unhurried
  BY DEF PumpObserve, tally, toolsRest, Unhurried
<1>1. ToolFine(tl) /\ bt \in Listening BY DEF AllFine, HeardFine
<1>x. ~(ListOver /\ LsFailed) /\ ~(ListOver /\ LsOver) /\ ~(LsFailed /\ LsOver)
  BY DEF ListOver, LsFailed, LsOver
<1>2. CASE ListOver
  <2>1. ListHeard \/ ListRefused
    BY <1>0, <1>2 DEF ListOver, ListInv, ListStage, ListAsked, ListTold, BarrierNext, BarrierSent,
       BarrierTold, Hearing, Untouched
  <2>2. CASE bt.busy
    <3>1. ShowGate BY <1>2, <1>x, <2>2 DEF PumpObserve
    <3> QED BY <1>0, <3>1, ListGate
  <2>3. CASE ~bt.busy
    <3>1. tl' = [Show(tl, "Ignore") EXCEPT !.wait = "None"] /\ bt' = bt
      BY <1>2, <1>x, <2>3 DEF PumpObserve
    <3> DEFINE u == Show(tl, "Ignore")
    <3>2. ToolFine(u) BY <1>1, ToolTypes DEF ToolPage
    <3>3. /\ u.page = "Ignore" /\ ~u.reading /\ u.back = tl.back /\ u.listing = tl.listing
          /\ u.cmd = tl.cmd
      BY <1>1, ScreenIs
    <3>4. tl' = [u EXCEPT !.wait = "None"] BY <3>1
    <3> HIDE DEF u
    <3>5. /\ tl'.page = "Ignore" /\ ~tl'.reading /\ tl'.back = tl.back /\ tl'.listing = tl.listing
          /\ tl'.cmd = NoCmd /\ tl'.wait = "None"
      BY <1>0, <3>2, <3>3, <3>4 DEF ToolFine, ToolScreen
    <3>6. ListStage /\ ListHeard BY <1>0, <1>2, <2>1, <2>3 DEF ListInv, ListOver, ListRefused
    <3>7. NoChange' BY <1>0, <3>5, <3>6 DEF ListStage, NoChange
    <3>8. HeardAll' BY <1>0, <3>1, <3>6 DEF ListHeard, HeardAll, HeardRight
    <3>9. SettledRight' BY <3>1, <3>5, <3>6, <3>7, <3>8 DEF SettledRight, ListStage, ListHeard
    <3>10. OneChange' /\ RemovesRight'
      <4>1. OneChange /\ RemovesRight BY <1>0 DEF ListInv
      <4> QED BY <4>1, <1>0, <3>5 DEF OneChange, RemovesRight, EntryIs, NoCmd, Cmd
    <3>11. tl'.back \in Backs BY <1>0, <3>5 DEF ListInv
    <3> QED BY <3>5, <3>7, <3>9, <3>10, <3>11 DEF ListInv, Changes, NoChange
  <2> QED BY <2>2, <2>3
<1>3. CASE ~ListOver /\ LsFailed
  <2> DEFINE t == [tl EXCEPT !.listing = FALSE]
  <2>1. ToolFine(t) BY <1>1, ToolTypes
  <2>2. t.back = tl.back /\ t.cmd = tl.cmd /\ t.wait = tl.wait BY <1>1 DEF ToolFine, ToolScreen
  <2>3. Finish(t) BY <1>3, <1>x DEF PumpObserve
  <2> HIDE DEF t
  <2>4. bt.news /\ bt.kind \in {"busy", "sd"} /\ t.wait # "None" BY <1>3, <2>2 DEF LsFailed
  <2> QED BY <1>0, <2>1, <2>2, <2>3, <2>4, ListFinish
<1>4. CASE ~ListOver /\ ~LsFailed /\ LsOver
  <2>1. tl' = [Show(tl, "Logs") EXCEPT !.wait = "None", !.listing = FALSE]
    BY <1>4 DEF PumpObserve
  <2> DEFINE u == Show(tl, "Logs")
  <2>2. ToolFine(u) BY <1>1, ToolTypes DEF ToolPage
  <2>3. u.page = "Logs" /\ ~u.reading /\ u.back = tl.back /\ u.cmd = tl.cmd
    BY <1>1, ScreenIs
  <2>4. tl' = [u EXCEPT !.wait = "None", !.listing = FALSE] BY <2>1
  <2> HIDE DEF u
  <2>5. /\ tl'.page = "Logs" /\ ~tl'.reading /\ tl'.back = tl.back /\ tl'.cmd = NoCmd
        /\ tl'.wait = "None"
    BY <1>0, <2>2, <2>3, <2>4 DEF ToolFine, ToolScreen
  <2>6. ~Settled' /\ tl'.cmd.c \notin ChangeWord
    BY <2>5 DEF Settled, ListPage, NoCmd, Cmd, ChangeWord
  <2> QED BY <1>0, <2>5, <2>6, ListAway
<1>5. CASE ~ListOver /\ ~LsFailed /\ ~LsOver
  <2> DEFINE t == SplitTaken
  <2>1. /\ ToolFine(t)
        /\ t.cmd = tl.cmd /\ t.tag = tl.tag /\ t.listing = tl.listing
        /\ t.back = tl.back /\ t.ask = tl.ask /\ t.rm = tl.rm
        /\ \/ t.page = tl.page /\ t.reading = tl.reading /\ t.wait = tl.wait
           \/ t.page = "Split" /\ ~t.reading /\ t.wait \in {tl.wait, "None"}
    BY SplitIs
  <2>2. \/ bt.news /\ t.wait # "None" /\ Finish(t)
        \/ tl' = t /\ bt' = [bt EXCEPT !.sized = FALSE]
    BY <1>5 DEF PumpObserve
  <2> HIDE DEF t
  <2>3. CASE bt.news /\ t.wait # "None" /\ Finish(t)
    <3>1. t.wait = tl.wait BY <2>1, <2>3
    <3> QED BY <1>0, <2>1, <2>3, <3>1, ListFinish
  <2>4. CASE tl' = t /\ bt' = [bt EXCEPT !.sized = FALSE]
    <3>1. CASE t.page = "Split" /\ t.wait = "None" /\ ~t.reading
      <4>1. ~Settled' /\ tl'.cmd.c \notin ChangeWord
        BY <1>0, <2>1, <2>4, <3>1 DEF Settled, ListPage, NoCmd, Cmd, ChangeWord
      <4> QED BY <1>0, <2>1, <2>4, <3>1, <4>1, ListAway
    <3>2. CASE /\ t.wait = tl.wait
               /\ (t.page = tl.page /\ t.reading = tl.reading) \/ (t.page = "Split" /\ ~t.reading)
      <4>1. /\ bt'.listen = bt.listen /\ bt'.echo = bt.echo /\ bt'.due = bt.due
            /\ bt'.barrier = bt.barrier /\ bt'.closed = bt.closed /\ bt'.busy = bt.busy
            /\ bt'.items = bt.items /\ bt'.news = bt.news
        BY <1>1, <2>4 DEF Listening
      <4>2. Settled' => Settled /\ tl'.page = tl.page BY <2>1, <2>4, <3>2 DEF Settled, ListPage
      <4>3. Settled' /\ tl'.page = "Ask" /\ tl'.ask = "Rm" => EntryIs(tl'.rm.n, tl'.rm.x)
        BY <1>0, <2>1, <2>4, <4>2 DEF ListInv, SettledRight
      <4> QED BY <1>0, <2>1, <2>4, <3>2, <4>1, <4>2, <4>3, ListTurn
    <3> QED BY <2>1, <3>1, <3>2
  <2> QED BY <2>2, <2>3, <2>4
<1> QED BY <1>2, <1>3, <1>4, <1>5

\* The tools scene's ticks keep ListInv.
LEMMA ListTicks == ASSUME AllFine, ListInv, ToolsTicks PROVE ListInv'
  BY ListPumpGate, ListPumpSend, ListPumpBarrier, ListObserve DEF ToolsTicks

\* ListInv holds at the start.
LEMMA ListInit == Init => ListInv
<1> SUFFICES ASSUME Init PROVE ListInv
  OBVIOUS
<1>1. tl = ToolsFresh /\ slot = NoCmd /\ tx = <<>> BY DEF Init, ToolsInit, LinkInit
<1>2. /\ tl.page = "Menu" /\ tl.wait = "None" /\ tl.cmd = NoCmd /\ tl.back = "Menu" /\ ~tl.reading
  BY <1>1 DEF ToolsFresh
<1>3. NoCmd.c = "none" /\ DOMAIN tx = {} BY <1>1 DEF NoCmd, Cmd
<1>4. ~Settled BY <1>2 DEF Settled, ListPage
<1>5. OneChange /\ RemovesRight BY <1>1, <1>2, <1>3 DEF OneChange, RemovesRight, ChangeWord
<1> QED BY <1>2, <1>3, <1>4, <1>5 DEF ListInv, Changes, ChangeWord, Backs

\* Every step keeps ListInv.
LEMMA ListNext == AllFine /\ ListInv /\ [Next]_vars => ListInv'
<1> SUFFICES ASSUME AllFine, ListInv, [Next]_vars PROVE ListInv'
  OBVIOUS
<1>1. CASE Next
  <2>1. CASE Write \/ Apply \/ Lose BY <2>1, ListWrite, ListApply, ListLose
  <2>2. CASE UploadUser \/ JoinUser \/ UploadTicks \/ JoinTicks BY <2>2, ListElse
  <2>3. CASE ToolsUser \/ ToolsTicks BY <2>3, ListUser, ListTicks
  <2>4. CASE Time
    <3>1. CASE ToolsRipe BY <3>1, ListRipe
    <3>2. CASE \/ CapTime /\ UNCHANGED rest
               \/ (JoinAge \/ JoinHunt) /\ UNCHANGED toolVars
      BY <3>2, ListElse
    <3> QED BY <2>4, <3>1, <3>2 DEF Time
  <2>5. CASE BoardStep \/ BoardWard BY <2>5, ListRead, ListBoard, ListWard DEF BoardStep
  <2> QED BY <1>1, <2>1, <2>2, <2>3, <2>4, <2>5 DEF Next
<1>2. CASE UNCHANGED vars
  <2>1. UNCHANGED <<tl, bt, keep, tx, slot, rx, board, scene, ghost>>
    BY <1>2 DEF vars, link, tally, rest
  <2> QED BY <2>1, ListStill DEF Unhurried
<1> QED BY <1>1, <1>2

\* The list the screen shows is the list of the board, and the entry the
\* board is about to remove, which it is told by its number, is the one the
\* user confirmed, whatever the board's own menu does meanwhile.
THEOREM ListIsTrue == Spec => []RemovesConfirmed
<1>1. AllFine /\ ListInv => RemovesConfirmed
  <2> SUFFICES ASSUME AllFine, ListInv, Unhurried PROVE IgnoreListTrue /\ ConfirmedEntry
    BY DEF RemovesConfirmed
  <2>1. bt.items \in Seq(Item) /\ keep.ign \in Seq(Ssids) /\ tx \in Seq(Command)
    BY DEF AllFine, HeardFine, Listening, KeepFine, LinkFine
  <2>2. IgnoreListTrue
    <3> SUFFICES ASSUME tl.page = "Ignore", ~tl.reading
                 PROVE  bt.items = [i \in DOMAIN keep.ign |-> [n |-> i, x |-> keep.ign[i]]]
      BY DEF IgnoreListTrue
    <3>1. HeardAll BY DEF ListInv, Settled, ListPage, SettledRight
    <3>2. DOMAIN bt.items = DOMAIN keep.ign BY <3>1, <2>1 DEF HeardAll
    <3>3. bt.items = [i \in DOMAIN bt.items |-> bt.items[i]] BY <2>1
    <3> QED BY <3>1, <3>2, <3>3 DEF HeardAll, HeardRight
  <2>3. ConfirmedEntry
    <3> SUFFICES ASSUME tx # <<>>, Head(tx).c = "ignRm"
                 PROVE  Head(tx).n \in DOMAIN keep.ign /\ keep.ign[Head(tx).n] = Head(tx).x
      BY DEF ConfirmedEntry
    <3>1. Head(tx) = tx[1] /\ 1 \in DOMAIN tx BY <2>1
    <3> QED BY <3>1 DEF ListInv, RemovesRight, EntryIs
  <2> QED BY <2>2, <2>3
<1> QED BY InitFine, NextFine, ListInit, ListNext, <1>1, PTL DEF Spec

-----------------------------------------------------------------------------
(* The verdict on an upload.  What the flight holds after each line of the *)
(* board is what those lines told of the files walked so far: Told, by the *)
(* sets of files sent, passed over and failed.  In between, of the file    *)
(* the board speaks of, some lines are still on their way: FileStage names *)
(* which, and Walking that the rest of the walk is yet to come.            *)

\* No member twice.
Once(s) == \A i, j \in DOMAIN s : s[i] = s[j] => i = j

\* The files that went this way.
By(d, how) == {f \in LogNames : d[f] = how}

\* The words heard, of the files S that were sent and K that were passed over.
Worded(u, S, K) ==
  /\ u.succeeded <=> S # {}
  /\ u.ok <=> S \cup K # {}
  /\ u.skip <=> K # {}

\* What the flight holds when S were sent, K passed over and F failed: the
\* open file is counted when it closes.
Walk(u, S, K, F) ==
  /\ IsFiniteSet(S) /\ IsFiniteSet(K) /\ IsFiniteSet(F)
  /\ Worded(u, S, K)
  /\ u.fail <=> F # {}
  /\ u.failName \in (IF u.fail THEN F ELSE {NoName})
  /\ u.nFail > 0 \/ u.fileFail => u.fail
  /\ u.fileOk \/ u.fileFail => u.open
  /\ u.nOk + u.nFail + (IF u.fileOk \/ u.fileFail THEN 1 ELSE 0) = Cardinality(S \cup K \cup F)
  /\ Cardinality(F) <= u.nFail + (IF u.fileFail THEN 1 ELSE 0)

\* The flight holds what became of the files.
Told(u, d) == Walk(u, By(d, "sent"), By(d, "skipped"), By(d, "failed"))

\* A file is open, of which nothing is heard yet.
Untold(u) == u.open /\ ~u.fileOk /\ ~u.fileFail

\* The open file may have failed so far: what an attempt says may be taken back.
Trying(u, S, K, F) ==
  /\ IsFiniteSet(S) /\ IsFiniteSet(K) /\ IsFiniteSet(F)
  /\ u.nFail > 0 => u.fail /\ F # {} /\ u.failName \in F
  /\ u.open /\ ~u.fileOk
  /\ u.nOk + u.nFail = Cardinality(S \cup K \cup F)
  /\ Cardinality(F) <= u.nFail

\* So for the files as they went.
Tried(u, d) == Trying(u, By(d, "sent"), By(d, "skipped"), By(d, "failed"))

\* What the board says of a file, by how it went (FileLines).
ToTell ==
  [sent |-> {<<"succeeded", "uploadOk">>, <<"failed", "succeeded", "uploadOk">>,
             <<"noReply", "succeeded", "uploadOk">>},
   skipped |-> {<<"skipped", "uploadOk">>},
   failed |-> {<<"failed">>} \cup {<<why, "failed">> : why \in Causes},
   silent |-> {<< >>}]

\* These lines come first, and none but those of the board's own scan follow.
Hears(ks) ==
  /\ Len(ks) <= Len(rx)
  /\ \A i \in DOMAIN ks : rx[i].k = ks[i]
  /\ WardFrom(Len(ks) + 1)

\* How the files before this one went.
Past(f) == [up.done EXCEPT ![f] = "-"]

\* All lines of the file are to come, also the one that opens it.
Opening(f) ==
  /\ \E ks \in ToTell[up.done[f]] : Hears(<<"uploading">> \o ks)
  /\ rx[1].x = f /\ Told(up, Past(f))

\* The file is open and all that is said of it to come.
Before(f) ==
  /\ up.done[f] # "silent"
  /\ \E ks \in ToTell[up.done[f]] : Hears(ks)
  /\ Told(up, Past(f)) /\ Untold(up) /\ up.name = f

\* An attempt that failed, or had no answer, is heard: the one that worked is to come.
Again(f) ==
  /\ up.done[f] = "sent" /\ Hears(<<"succeeded", "uploadOk">>)
  /\ Tried(up, Past(f)) /\ Worded(up, By(Past(f), "sent"), By(Past(f), "skipped"))

\* The file is passed over: the line that confirms it is to come.
Skipping(f) ==
  /\ up.done[f] = "skipped" /\ Hears(<<"uploadOk">>)
  /\ Tried(up, Past(f)) /\ up.skip /\ (up.succeeded <=> By(Past(f), "sent") # {})

\* What became of the file is heard, and to be said again.
Sure(f) ==
  /\ Told(up, up.done)
  /\ \/ /\ up.done[f] = "sent" /\ Hears(<<"uploadOk">>)
        /\ up.fileOk /\ (up.fileFail => up.nFail > 0)
     \/ /\ up.done[f] = "failed" /\ Hears(<<"failed">>)
        /\ up.fileFail

\* The board is speaking of this file.
FileStage(f) ==
  /\ up.done[f] # "-"
  /\ Opening(f) \/ Before(f) \/ Again(f) \/ Skipping(f) \/ Sure(f)

\* While the board walks its card: the files left are not walked yet, and what
\* is heard of the others is true but for the lines still to come.
Walking ==
  /\ Once(board.left) /\ \A i \in DOMAIN board.left : up.done[board.left[i]] = "-"
  /\ \/ Told(up, up.done) /\ (Hears(<<"connected">>) \/ Hears(<<>>))
     \/ board.job = "noKey" /\ Hears(<<"uploading", "noKey", "failed">>)
     \/ board.job = "noKey" /\ Hears(<<"noKey", "failed">>)
     \/ board.job = "upload" /\ \E f \in LogNames : FileStage(f)

\* A flight in the air: nothing is told before the board has read the command,
\* and at the end of its work its last line is on its way.
InFlight ==
  /\ Pending =>
       /\ Hears(<<>>) /\ Told(up, up.done)
       /\ \A f \in LogNames : up.done[f] = "-"
  /\ ~Pending /\ board.job # "idle" => Walking
  /\ ~Pending /\ board.job = "idle" =>
       /\ rx # <<>>
       /\ rx[1].k \in DOMAIN EarlyEnd \/ (rx[1].k = "complete" /\ Told(up, up.done))

\* What VerdictTrue says of an upload that ran to its end.
Judged ==
  RanToEnd =>
      /\ up.face \in FailFace <=> Went("failed") # {}
      /\ up.face \in FailFace => up.failName \in Went("failed")
      /\ up.face = "Sent" => Went("sent") # {}
      /\ up.face = "Already" => Went("sent") = {} /\ Went("skipped") # {}
      /\ up.nFail >= Cardinality(Went("failed"))
      /\ up.nOk + up.nFail = Cardinality(Went("sent") \cup Went("skipped") \cup Went("failed"))

\* A file that was none of these is one more of them.
LEMMA OneMore ==
  ASSUME NEW S, IsFiniteSet(S), NEW f, f \notin S
  PROVE  /\ IsFiniteSet(S \cup {f})
         /\ Cardinality(S \cup {f}) = Cardinality(S) + 1
         /\ Cardinality(S) \in Nat
  BY FS_AddElement, FS_CardinalityType

\* Closing the open file counts it: CloseFile keeps what the flight tells.
LEMMA CloseTells ==
  ASSUME NEW u \in Flight, NEW S, NEW K, NEW F, Walk(u, S, K, F)
  PROVE  LET v == CloseFile(u)
         IN  /\ Walk(v, S, K, F) /\ v \in Flight
             /\ ~v.open /\ ~v.fileOk /\ ~v.fileFail
             /\ v.flight = u.flight /\ v.walked = u.walked
<1> DEFINE nFail == IF u.fileFail THEN u.nFail + 1 ELSE u.nFail
           nOk == IF ~u.fileFail /\ u.fileOk THEN u.nOk + 1 ELSE u.nOk
           v == CloseFile(u)
<1>1. v \in Flight BY FlightTypes
<1>2. CASE ~u.open
  <2>1. v = u BY <1>2 DEF CloseFile
  <2> QED BY <1>1, <1>2, <2>1 DEF Walk
<1>3. CASE u.open
  <2>1. v = [u EXCEPT !.nFail = nFail, !.nOk = nOk, !.open = FALSE,
                      !.fileOk = FALSE, !.fileFail = FALSE]
    BY <1>3 DEF CloseFile, Flight
  <2> HIDE DEF nFail, nOk, v
  <2>2. /\ v.nFail = nFail /\ v.nOk = nOk /\ ~v.open /\ ~v.fileOk /\ ~v.fileFail
        /\ v.succeeded = u.succeeded /\ v.ok = u.ok /\ v.skip = u.skip /\ v.fail = u.fail
        /\ v.failName = u.failName /\ v.flight = u.flight /\ v.walked = u.walked
    BY <2>1 DEF Flight
  <2>3. u.nFail \in Nat /\ u.nOk \in Nat BY DEF Flight
  <2>4. /\ Cardinality(F) \in Nat /\ Cardinality(S \cup K \cup F) \in Nat
    <3>1. IsFiniteSet(S \cup K \cup F) BY FS_Union DEF Walk
    <3> QED BY <3>1, FS_CardinalityType DEF Walk
  <2>5. v.nFail > 0 \/ v.fileFail => v.fail BY <2>2, <2>3 DEF nFail, Walk
  <2>6. v.nOk + v.nFail = Cardinality(S \cup K \cup F)
    BY <2>2, <2>3, <2>4 DEF nFail, nOk, Walk
  <2>7. Cardinality(F) <= v.nFail BY <2>2, <2>3, <2>4 DEF nFail, Walk
  <2>8. Walk(v, S, K, F)
    <3>1. v.nOk \in Nat /\ v.nFail \in Nat BY <1>1 DEF Flight
    <3> QED BY <2>2, <2>5, <2>6, <2>7, <3>1 DEF Walk, Worded
  <2> QED BY <1>1, <2>2, <2>8 DEF v
<1> QED BY <1>2, <1>3

\* The next file opens: the one before it is closed.
LEMMA OpenTells ==
  ASSUME NEW u \in Flight, NEW S, NEW K, NEW F, Walk(u, S, K, F), NEW f \in LogNames
  PROVE  LET v == [CloseFile(u) EXCEPT !.walked = TRUE, !.open = TRUE, !.name = f,
                                       !.face = "Sending"]
         IN  Walk(v, S, K, F) /\ Untold(v) /\ v.name = f
<1> DEFINE c == CloseFile(u)
           v == [c EXCEPT !.walked = TRUE, !.open = TRUE, !.name = f, !.face = "Sending"]
<1>1. c \in Flight /\ Walk(c, S, K, F) /\ ~c.open /\ ~c.fileOk /\ ~c.fileFail
  BY CloseTells
<1> HIDE DEF c
<1>2. /\ v.open /\ v.name = f /\ v.fileOk = c.fileOk /\ v.fileFail = c.fileFail
      /\ v.nOk = c.nOk /\ v.nFail = c.nFail /\ v.fail = c.fail /\ v.failName = c.failName
      /\ v.succeeded = c.succeeded /\ v.ok = c.ok /\ v.skip = c.skip
  BY <1>1 DEF Flight
<1> HIDE DEF v
<1>3. Walk(v, S, K, F) BY <1>1, <1>2 DEF Walk, Worded
<1> QED BY <1>1, <1>2, <1>3 DEF Untold, v, c

\* Two flights that say the same of the files.
Alike(u, v) ==
  /\ v.succeeded = u.succeeded /\ v.ok = u.ok /\ v.skip = u.skip /\ v.fail = u.fail
  /\ v.failName = u.failName /\ v.open = u.open /\ v.name = u.name
  /\ v.fileOk = u.fileOk /\ v.fileFail = u.fileFail /\ v.nOk = u.nOk /\ v.nFail = u.nFail

\* They agree on every set of files.
LEMMA AlikeTells ==
  ASSUME NEW u, NEW v, Alike(u, v), NEW S, NEW K, NEW F
  PROVE  /\ Walk(u, S, K, F) => Walk(v, S, K, F)
         /\ Trying(u, S, K, F) => Trying(v, S, K, F)
         /\ Untold(u) => Untold(v)
<1>1. Walk(u, S, K, F) => Walk(v, S, K, F) BY DEF Alike, Walk, Worded
<1>2. Trying(u, S, K, F) => Trying(v, S, K, F) BY DEF Alike, Trying
<1>3. Untold(u) => Untold(v) BY DEF Alike, Untold
<1> QED BY <1>1, <1>2, <1>3

\* A file of which nothing is told yet may still be told to be sent.
LEMMA UntoldTrying ==
  ASSUME NEW u \in Flight, NEW S, NEW K, NEW F, Walk(u, S, K, F), Untold(u)
  PROVE  Trying(u, S, K, F)
<1>1. u.nFail \in Nat /\ u.nOk \in Nat BY DEF Flight
<1>2. Cardinality(F) \in Nat /\ Cardinality(S \cup K \cup F) \in Nat
  BY FS_Union, FS_CardinalityType DEF Walk
<1>3. u.nFail > 0 => u.fail /\ F # {} /\ u.failName \in F BY DEF Walk
<1>4. u.nOk + u.nFail = Cardinality(S \cup K \cup F) BY <1>1, <1>2 DEF Walk, Untold
<1>5. Cardinality(F) <= u.nFail BY <1>1, <1>2 DEF Walk, Untold
<1> QED BY <1>3, <1>4, <1>5 DEF Walk, Untold, Trying

\* KeepFail on a file of which nothing is told yet: it is one that failed, and
\* it may yet be told to be sent.
LEMMA FailTells ==
  ASSUME NEW u \in Flight, NEW S, NEW K, NEW F, F \subseteq LogNames, Walk(u, S, K, F), Untold(u),
         u.name \in LogNames, u.name \notin S \cup K \cup F
  PROVE  LET v == KeepFail(u)
         IN  /\ Walk(v, S, K, F \cup {u.name}) /\ v.fileFail
             /\ Trying(v, S, K, F) /\ Worded(v, S, K)
<1> DEFINE v == KeepFail(u)
           name == IF u.failName = NoName THEN u.name ELSE u.failName
           f == u.name
<1>1. v = [u EXCEPT !.fileFail = TRUE, !.fail = TRUE, !.failName = name]
  BY DEF KeepFail, Flight
<1> HIDE DEF v, name
<1>2. /\ v.fileFail /\ v.fail /\ v.failName = name /\ v.fileOk = u.fileOk /\ v.open = u.open
      /\ v.succeeded = u.succeeded /\ v.ok = u.ok /\ v.skip = u.skip
      /\ v.nOk = u.nOk /\ v.nFail = u.nFail
  BY <1>1 DEF Flight
<1>3. u.nFail \in Nat /\ u.nOk \in Nat BY DEF Flight
<1>4. IsFiniteSet(S \cup K \cup F) /\ IsFiniteSet(F) BY FS_Union DEF Walk
<1>5. /\ Cardinality(F) \in Nat /\ Cardinality(S \cup K \cup F) \in Nat
      /\ Cardinality(F \cup {f}) = Cardinality(F) + 1 /\ IsFiniteSet(F \cup {f})
      /\ Cardinality((S \cup K \cup F) \cup {f}) = Cardinality(S \cup K \cup F) + 1
  <2>1. f \notin F /\ f \notin S \cup K \cup F OBVIOUS
  <2> QED BY <1>4, <2>1, OneMore
<1>6. S \cup K \cup (F \cup {f}) = (S \cup K \cup F) \cup {f} OBVIOUS
<1>7. /\ u.nOk + u.nFail = Cardinality(S \cup K \cup F) /\ Cardinality(F) <= u.nFail
      /\ u.nFail > 0 => u.fail /\ F # {} /\ u.failName \in F
  BY UntoldTrying DEF Trying
<1>8. name \in F \cup {f} /\ (u.fail => name \in F)
  <2>1. u.failName \in (IF u.fail THEN F ELSE {NoName}) BY DEF Walk
  <2>2. NoName \notin F BY UploadAssumption
  <2> QED BY <2>1, <2>2 DEF name
<1>9. Walk(v, S, K, F \cup {f})
  <2>1. v.nOk + v.nFail + 1 = Cardinality(S \cup K \cup (F \cup {f}))
    BY <1>2, <1>3, <1>5, <1>6, <1>7
  <2>2. Cardinality(F \cup {f}) <= v.nFail + 1 BY <1>2, <1>3, <1>5, <1>7
  <2> QED BY <1>2, <1>5, <1>8, <2>1, <2>2 DEF Walk, Worded, Untold
<1>10. Trying(v, S, K, F) BY <1>2, <1>7, <1>8 DEF Walk, Untold, Trying
<1>11. Worded(v, S, K) BY <1>2 DEF Walk, Worded
<1> QED BY <1>2, <1>9, <1>10, <1>11 DEF v

\* KeepFail on a file that is told to have failed: nothing new.
LEMMA FailAgain ==
  ASSUME NEW u \in Flight, NEW S, NEW K, NEW F, F \subseteq LogNames, Walk(u, S, K, F), u.fileFail
  PROVE  Walk(KeepFail(u), S, K, F)
<1> DEFINE v == KeepFail(u)
<1>1. u.fail /\ u.failName \in F BY DEF Walk
<1>2. u.failName # NoName BY <1>1, UploadAssumption
<1>3. v = [u EXCEPT !.fileFail = TRUE, !.fail = TRUE, !.failName = u.failName]
  BY <1>2 DEF KeepFail, Flight
<1>4. Alike(u, v) BY <1>1, <1>3 DEF Flight, Alike
<1> HIDE DEF v
<1>5. Walk(v, S, K, F) BY <1>4, AlikeTells
<1> QED BY <1>5 DEF v

\* A flight after KeepOk, but for the words heard.
OkAs(u, v, F) ==
  /\ v.succeeded = u.succeeded /\ v.ok = u.ok /\ v.skip = u.skip
  /\ v.fail <=> F # {}
  /\ v.failName \in (IF v.fail THEN F ELSE {NoName})
  /\ v.nOk = u.nOk /\ v.nFail = u.nFail /\ v.open /\ v.fileOk
  /\ v.fileFail => v.nFail > 0
  /\ v.nFail > 0 => v.fail

\* What KeepOk makes of a file that may be told to be sent.
LEMMA OkFields ==
  ASSUME NEW u \in Flight, NEW S, NEW K, NEW F, Trying(u, S, K, F)
  PROVE  OkAs(u, KeepOk(u), F)
<1> DEFINE v == KeepOk(u)
<1>1. u.nFail \in Nat /\ Cardinality(F) \in Nat /\ IsFiniteSet(F)
  BY FS_CardinalityType DEF Flight, Trying
<1>2. CASE u.nFail = 0
  <2>1. Cardinality(F) = 0 BY <1>1, <1>2 DEF Trying
  <2>2. F = {} BY <1>1, <2>1, FS_EmptySet
  <2>3. v = [u EXCEPT !.fileOk = TRUE, !.fileFail = FALSE, !.fail = FALSE,
                      !.why = {}, !.failName = NoName]
    BY <1>2 DEF KeepOk
  <2> HIDE DEF v
  <2>4. /\ v.succeeded = u.succeeded /\ v.ok = u.ok /\ v.skip = u.skip /\ ~v.fail
        /\ v.failName = NoName /\ v.nOk = u.nOk /\ v.nFail = u.nFail /\ v.open = u.open
        /\ v.fileOk /\ ~v.fileFail
    BY <2>3 DEF Flight
  <2> QED BY <1>2, <2>2, <2>4 DEF Trying, OkAs, v
<1>3. CASE u.nFail # 0
  <2>1. v = [u EXCEPT !.fileOk = TRUE] BY <1>3 DEF KeepOk
  <2> HIDE DEF v
  <2>2. /\ v.succeeded = u.succeeded /\ v.ok = u.ok /\ v.skip = u.skip /\ v.fail = u.fail
        /\ v.failName = u.failName /\ v.nOk = u.nOk /\ v.nFail = u.nFail /\ v.open = u.open
        /\ v.fileOk /\ v.fileFail = u.fileFail
    BY <2>1 DEF Flight
  <2>3. u.nFail > 0 BY <1>1, <1>3
  <2> QED BY <2>2, <2>3 DEF Trying, OkAs, v
<1> QED BY <1>2, <1>3

\* The counts after KeepOk, when the file is put among those sent or skipped.
LEMMA OkCounts ==
  ASSUME NEW u \in Flight, NEW v \in Flight, NEW S, NEW K, NEW F, Trying(u, S, K, F),
         OkAs(u, v, F), NEW f, f \notin S \cup K \cup F,
         NEW T, NEW L, IsFiniteSet(T), IsFiniteSet(L), Worded(v, T, L),
         T \cup L \cup F = (S \cup K \cup F) \cup {f}
  PROVE  Walk(v, T, L, F)
<1>1. IsFiniteSet(S \cup K \cup F) /\ IsFiniteSet(F) BY FS_Union DEF Trying
<1>2. /\ Cardinality(T \cup L \cup F) = Cardinality(S \cup K \cup F) + 1
      /\ Cardinality(S \cup K \cup F) \in Nat /\ Cardinality(F) \in Nat
  BY <1>1, OneMore, FS_CardinalityType
<1>3. u.nOk \in Nat /\ u.nFail \in Nat BY DEF Flight
<1>4. v.nOk + v.nFail + 1 = Cardinality(T \cup L \cup F) BY <1>2, <1>3 DEF Trying, OkAs
<1>5. Cardinality(F) <= v.nFail /\ Cardinality(F) <= v.nFail + 1
  BY <1>2, <1>3 DEF Trying, OkAs
<1>6. v.nFail > 0 \/ v.fileFail => v.fail BY DEF OkAs
<1>7. v.nOk + v.nFail + (IF v.fileOk \/ v.fileFail THEN 1 ELSE 0) = Cardinality(T \cup L \cup F)
  BY <1>4 DEF OkAs
<1>8. Cardinality(F) <= v.nFail + (IF v.fileFail THEN 1 ELSE 0) BY <1>3, <1>5 DEF OkAs
<1> QED BY <1>1, <1>6, <1>7, <1>8 DEF Walk, OkAs

\* The line of a file sent: it is one that was.
LEMMA SentTells ==
  ASSUME NEW u \in Flight, NEW S, NEW K, NEW F, NEW f, Trying(u, S, K, F),
         Worded(u, S, K), f \notin S \cup K \cup F
  PROVE  LET v == KeepOk([u EXCEPT !.ok = TRUE, !.succeeded = TRUE])
         IN  Walk(v, S \cup {f}, K, F) /\ v.fileOk /\ (v.fileFail => v.nFail > 0)
<1> DEFINE w == [u EXCEPT !.ok = TRUE, !.succeeded = TRUE]
           v == KeepOk(w)
<1>1. /\ w \in Flight /\ w.ok /\ w.succeeded /\ w.skip = u.skip /\ w.nFail = u.nFail
      /\ w.nOk = u.nOk /\ w.fail = u.fail /\ w.failName = u.failName /\ w.open = u.open
      /\ w.fileOk = u.fileOk
  BY DEF Flight
<1> HIDE DEF w
<1>2. Trying(w, S, K, F) BY <1>1 DEF Trying
<1>3. OkAs(w, v, F) BY <1>1, <1>2, OkFields
<1> HIDE DEF v
<1>4. Worded(v, S \cup {f}, K) BY <1>1, <1>3 DEF Worded, OkAs
<1>5. S \cup {f} \cup K \cup F = (S \cup K \cup F) \cup {f} OBVIOUS
<1>6. IsFiniteSet(S \cup {f}) /\ IsFiniteSet(K) BY FS_AddElement DEF Trying
<1>7. v \in Flight BY <1>1, FlightTypes DEF v
<1>8. Walk(v, S \cup {f}, K, F) BY <1>1, <1>2, <1>3, <1>4, <1>5, <1>6, <1>7, OkCounts
<1> QED BY <1>3, <1>8 DEF OkAs, v, w

\* The line of a file the board had sent before.
LEMMA SkippedTells ==
  ASSUME NEW u \in Flight, NEW S, NEW K, NEW F, NEW f, Trying(u, S, K, F),
         u.skip, u.succeeded <=> S # {}, f \notin S \cup K \cup F
  PROVE  LET v == KeepOk([u EXCEPT !.ok = TRUE]) IN Walk(v, S, K \cup {f}, F)
<1> DEFINE w == [u EXCEPT !.ok = TRUE]
           v == KeepOk(w)
<1>1. /\ w \in Flight /\ w.ok /\ w.succeeded = u.succeeded /\ w.skip = u.skip
      /\ w.nFail = u.nFail /\ w.nOk = u.nOk /\ w.fail = u.fail /\ w.failName = u.failName
      /\ w.open = u.open /\ w.fileOk = u.fileOk
  BY DEF Flight
<1> HIDE DEF w
<1>2. Trying(w, S, K, F) BY <1>1 DEF Trying
<1>3. OkAs(w, v, F) BY <1>1, <1>2, OkFields
<1> HIDE DEF v
<1>4. Worded(v, S, K \cup {f}) BY <1>1, <1>3 DEF Worded, OkAs
<1>5. S \cup (K \cup {f}) \cup F = (S \cup K \cup F) \cup {f} OBVIOUS
<1>6. IsFiniteSet(K \cup {f}) /\ IsFiniteSet(S) BY FS_AddElement DEF Trying
<1>7. v \in Flight BY <1>1, FlightTypes DEF v
<1>8. Walk(v, S, K \cup {f}, F) BY <1>1, <1>2, <1>3, <1>4, <1>5, <1>6, <1>7, OkCounts
<1> QED BY <1>8 DEF v, w

\* The second line of a file sent: nothing new.
LEMMA SentAgain ==
  ASSUME NEW u \in Flight, NEW S, NEW K, NEW F, Walk(u, S, K, F), S # {},
         u.fileOk, u.fileFail => u.nFail > 0
  PROVE  Walk(KeepOk([u EXCEPT !.ok = TRUE]), S, K, F)
<1> DEFINE w == [u EXCEPT !.ok = TRUE]
           v == KeepOk(w)
<1>1. u.ok BY DEF Walk, Worded
<1>2. w \in Flight /\ Alike(u, w) BY <1>1 DEF Flight, Alike
<1> HIDE DEF w
<1>3. Walk(w, S, K, F) /\ w.fileOk /\ (w.fileFail => w.nFail > 0)
  BY <1>2, AlikeTells DEF Alike
<1>4. w.nFail \in Nat /\ Cardinality(F) \in Nat BY <1>2, <1>3, FS_CardinalityType DEF Flight, Walk
<1>5. CASE w.nFail = 0
  <2>1. ~w.fileFail BY <1>3, <1>5
  <2>2. F = {}
    <3>1. Cardinality(F) = 0 BY <1>3, <1>4, <1>5, <2>1 DEF Walk
    <3> QED BY <1>3, <3>1, FS_EmptySet DEF Walk
  <2>3. ~w.fail /\ w.failName = NoName BY <1>3, <2>2 DEF Walk
  <2>4. v = [w EXCEPT !.fileOk = TRUE, !.fileFail = FALSE, !.fail = FALSE,
                      !.why = {}, !.failName = NoName]
    BY <1>5 DEF KeepOk
  <2>5. Alike(w, v) BY <1>2, <1>3, <2>1, <2>3, <2>4 DEF Flight, Alike
  <2> HIDE DEF v
  <2>6. Walk(v, S, K, F) BY <1>3, <2>5, AlikeTells
  <2> QED BY <2>6 DEF v, w
<1>6. CASE w.nFail # 0
  <2>1. v = [w EXCEPT !.fileOk = TRUE] BY <1>6 DEF KeepOk
  <2>2. Alike(w, v) BY <1>2, <1>3, <2>1 DEF Flight, Alike
  <2> HIDE DEF v
  <2>3. Walk(v, S, K, F) BY <1>3, <2>2, AlikeTells
  <2> QED BY <2>3 DEF v, w
<1> QED BY <1>5, <1>6

\* The files walked before this one.
LEMMA PastIs ==
  ASSUME up.done \in [LogNames -> Outcome], NEW f \in LogNames
  PROVE  /\ Past(f) \in [LogNames -> Outcome] /\ Past(f)[f] = "-"
         /\ up.done = [Past(f) EXCEPT ![f] = up.done[f]]
  BY DEF Past, Outcome

\* The line in front is applied, and those behind it are still to come.
LEMMA HearsFirst ==
  ASSUME rx \in Seq(Spoken), NEW ks \in Seq(LineKind), ks # <<>>, Hears(ks)
  PROVE  rx # <<>> /\ Head(rx).k = ks[1] /\ Head(rx) = rx[1] /\ Head(rx) \in Spoken
  BY DEF Hears

\* What was behind the line in front is to come next.
LEMMA HearsRest ==
  ASSUME rx \in Seq(Spoken), rx # <<>>, rx' = Tail(rx), NEW ks \in Seq(LineKind), ks # <<>>,
         Hears(ks)
  PROVE  Hears(Tail(ks))'
<1>1. /\ Len(rx) \in Nat /\ Len(rx') = Len(rx) - 1 /\ Len(ks) \in Nat /\ Len(ks) > 0
      /\ DOMAIN rx = 1..Len(rx) /\ DOMAIN rx' = 1..(Len(rx) - 1)
      /\ \A i \in 1..(Len(rx) - 1) : rx'[i] = rx[i + 1]
      /\ Len(Tail(ks)) = Len(ks) - 1 /\ DOMAIN Tail(ks) = 1..(Len(ks) - 1)
      /\ \A i \in 1..(Len(ks) - 1) : Tail(ks)[i] = ks[i + 1]
      /\ DOMAIN ks = 1..Len(ks)
  OBVIOUS
<1>2. /\ Len(ks) <= Len(rx) /\ \A i \in 1..Len(ks) : rx[i].k = ks[i]
      /\ \A i \in 1..Len(rx) : i >= Len(ks) + 1 => rx[i].k \in {"started", "stopped"}
  BY <1>1 DEF Hears, WardFrom
<1>3. Len(Tail(ks)) <= Len(rx') BY <1>1, <1>2
<1>4. ASSUME NEW i \in 1..(Len(ks) - 1) PROVE rx'[i].k = Tail(ks)[i]
  <2>1. i + 1 \in 1..Len(ks) /\ i \in 1..(Len(rx) - 1) BY <1>1, <1>2
  <2>2. rx[i + 1].k = ks[i + 1] BY <1>2, <2>1
  <2> QED BY <1>1, <2>1, <2>2
<1>5. ASSUME NEW i \in 1..(Len(rx) - 1), i >= (Len(ks) - 1) + 1
      PROVE  rx'[i].k \in {"started", "stopped"}
  <2>1. i + 1 \in 1..Len(rx) /\ i + 1 >= Len(ks) + 1 BY <1>1, <1>5
  <2>2. rx[i + 1].k \in {"started", "stopped"} BY <1>2, <2>1
  <2> QED BY <1>1, <2>2
<1>6. WardFrom(Len(Tail(ks)) + 1)' BY <1>1, <1>5 DEF WardFrom
<1> QED BY <1>1, <1>3, <1>4, <1>6 DEF Hears

\* With nothing to come a line is of the board's own scan.
LEMMA HearsNone ==
  ASSUME rx \in Seq(Spoken), rx # <<>>, rx' = Tail(rx), Hears(<<>>)
  PROVE  Hears(<<>>)' /\ Head(rx).k \in {"started", "stopped"} /\ Head(rx) \in Spoken
<1>1. /\ Len(rx) \in Nat /\ Len(rx) > 0 /\ DOMAIN rx = 1..Len(rx) /\ DOMAIN rx' = 1..(Len(rx) - 1)
      /\ \A i \in 1..(Len(rx) - 1) : rx'[i] = rx[i + 1]
      /\ Len(<<>>) = 0 /\ DOMAIN <<>> = 1..0 /\ Head(rx) = rx[1] /\ Len(rx') = Len(rx) - 1
      /\ Head(rx) \in Spoken
  OBVIOUS
<1>2. \A i \in 1..Len(rx) : i >= 0 + 1 => rx[i].k \in {"started", "stopped"}
  BY <1>1 DEF Hears, WardFrom
<1>3. \A i \in 1..(Len(rx) - 1) : i + 1 \in 1..Len(rx) /\ i + 1 >= 1 BY <1>1
<1>4. WardFrom(0 + 1)' BY <1>1, <1>2, <1>3 DEF WardFrom
<1>5. Head(rx).k \in {"started", "stopped"} BY <1>1, <1>2
<1> QED BY <1>1, <1>4, <1>5 DEF Hears

\* A line of the board's own scan goes behind what is to come.
LEMMA HearsWard ==
  ASSUME rx \in Seq(Spoken), NEW line \in Spoken, line.k \in {"started", "stopped"},
         rx' = Append(rx, line), NEW ks \in Seq(LineKind), Hears(ks)
  PROVE  Hears(ks)'
<1>1. /\ Len(rx) \in Nat /\ Len(ks) \in Nat /\ DOMAIN ks = 1..Len(ks) /\ DOMAIN rx = 1..Len(rx)
      /\ Len(rx') = Len(rx) + 1 /\ DOMAIN rx' = 1..(Len(rx) + 1)
      /\ \A i \in 1..Len(rx) : rx'[i] = rx[i]
      /\ rx'[Len(rx) + 1] = line
  OBVIOUS
<1>2. /\ Len(ks) <= Len(rx) /\ \A i \in 1..Len(ks) : rx[i].k = ks[i]
      /\ \A i \in 1..Len(rx) : i >= Len(ks) + 1 => rx[i].k \in {"started", "stopped"}
  BY <1>1 DEF Hears, WardFrom
<1>3. \A i \in 1..Len(ks) : i \in 1..Len(rx) BY <1>1, <1>2
<1>4. \A i \in 1..(Len(rx) + 1) : i \in 1..Len(rx) \/ i = Len(rx) + 1 BY <1>1
<1>5. WardFrom(Len(ks) + 1)' BY <1>1, <1>2, <1>4 DEF WardFrom
<1> QED BY <1>1, <1>2, <1>3, <1>5 DEF Hears

\* On a quiet line what the board says is what is to come.
LEMMA HearsSaid ==
  ASSUME NEW lines \in Seq(Spoken), rx' = lines, NEW ks \in Seq(LineKind), Len(ks) = Len(lines),
         \A i \in DOMAIN lines : lines[i].k = ks[i]
  PROVE  Hears(ks)'
  BY DEF Hears, WardFrom

\* What mau_finish_complete calls the flight is what became of the files.
LEMMA VerdictTells ==
  ASSUME NEW u \in Flight, NEW S, NEW K, NEW F, Walk(u, S, K, F), u.walked
  PROVE  /\ Verdict(u) \in FailFace <=> F # {}
         /\ Verdict(u) \in FailFace => u.failName \in F
         /\ Verdict(u) = "Sent" => S # {}
         /\ Verdict(u) = "Already" => S = {} /\ K # {}
<1>1. CASE u.fail
  <2>1. Verdict(u) \in {"NoRoute", "NoReply", "NoRam", "NoFile", "Rejected"} BY <1>1 DEF Verdict
  <2> QED BY <1>1, <2>1 DEF Walk, FailFace
<1>2. CASE ~u.fail
  <2>1. /\ Verdict(u) \in {"Sent", "Already", "NoOk"}
        /\ Verdict(u) = "Sent" => u.succeeded \/ (u.ok /\ ~u.skip)
        /\ Verdict(u) = "Already" => ~u.succeeded /\ u.ok /\ u.skip
    BY <1>2 DEF Verdict
  <2>2. F = {} BY <1>2 DEF Walk
  <2>3. Verdict(u) \notin FailFace BY <2>1 DEF FailFace
  <2> QED BY <2>1, <2>2, <2>3 DEF Walk, Worded
<1> QED BY <1>1, <1>2

\* The end of the flight: the open file is counted and the flight named.
LEMMA CompleteTells ==
  ASSUME up \in Flight, up' \in Flight, up.flight, Told(up, up.done), NEW line, line.k = "complete",
         up' = UpFeed(up, line)
  PROVE  ~up'.flight /\ Judged'
<1> DEFINE c == CloseFile(up)
           S == By(up.done, "sent")
           K == By(up.done, "skipped")
           F == By(up.done, "failed")
<1>1. /\ Walk(c, S, K, F) /\ c \in Flight /\ ~c.open /\ ~c.fileOk /\ ~c.fileFail
  BY CloseTells DEF Told
<1>2. up' = [c EXCEPT !.flight = FALSE, !.face = Verdict(c)]
  BY DEF UpFeed, EarlyEnd, Cause
<1>3. c.done = up.done
  <2>1. CASE up.open
    <3> DEFINE nFail == IF up.fileFail THEN up.nFail + 1 ELSE up.nFail
               nOk == IF ~up.fileFail /\ up.fileOk THEN up.nOk + 1 ELSE up.nOk
    <3>1. c = [up EXCEPT !.nFail = nFail, !.nOk = nOk, !.open = FALSE,
                         !.fileOk = FALSE, !.fileFail = FALSE]
      BY <2>1 DEF CloseFile, Flight
    <3> HIDE DEF nFail, nOk
    <3> QED BY <3>1 DEF Flight
  <2>2. CASE ~up.open BY <2>2 DEF CloseFile
  <2> QED BY <2>1, <2>2
<1> HIDE DEF c
<1>4. /\ ~up'.flight /\ up'.face = Verdict(c) /\ up'.done = up.done
      /\ up'.nOk = c.nOk /\ up'.nFail = c.nFail /\ up'.failName = c.failName
  BY <1>1, <1>2, <1>3 DEF Flight
<1>5. Went("sent")' = S /\ Went("skipped")' = K /\ Went("failed")' = F
  BY <1>4 DEF Went, By
<1>6. RanToEnd' => c.walked BY <1>4 DEF RanToEnd, Verdict, FailFace
<1>7. /\ c.nOk + c.nFail = Cardinality(S \cup K \cup F) /\ Cardinality(F) <= c.nFail
  <2>1. IsFiniteSet(S \cup K \cup F) /\ IsFiniteSet(F) BY <1>1, FS_Union DEF Walk
  <2>2. Cardinality(S \cup K \cup F) \in Nat /\ Cardinality(F) \in Nat BY <2>1, FS_CardinalityType
  <2>3. c.nOk \in Nat /\ c.nFail \in Nat BY <1>1 DEF Flight
  <2> HIDE DEF S, K, F
  <2> QED BY <1>1, <2>2, <2>3 DEF Walk
<1> HIDE DEF S, K, F
<1>8. ASSUME c.walked
      PROVE  /\ up'.face \in FailFace <=> F # {}
             /\ up'.face \in FailFace => up'.failName \in F
             /\ up'.face = "Sent" => S # {}
             /\ up'.face = "Already" => S = {} /\ K # {}
  BY <1>1, <1>4, <1>8, VerdictTells
<1>9. c.nFail >= Cardinality(F) BY <1>1, <1>7, FS_CardinalityType DEF Walk, Flight
<1> QED BY <1>4, <1>5, <1>6, <1>7, <1>8, <1>9 DEF Judged

\* A flight that ends before its walk is not one that ran to its end.
LEMMA EarlyTells ==
  ASSUME up \in Flight, up.flight, NEW line, line.k \in DOMAIN EarlyEnd, up' = UpFeed(up, line)
  PROVE  ~up'.flight /\ Judged'
<1>d. /\ DOMAIN EarlyEnd = {"noCreds", "unreached", "noKey", "unsupported"}
      /\ DOMAIN Cause = {"noConnect", "noReply", "noBuffer", "noFile"}
  BY DEF EarlyEnd, Cause
<1>1. up' = EndFlight(up, EarlyEnd[line.k])
  <2>1. /\ line.k \notin DOMAIN Cause
        /\ line.k \notin {"connected", "uploading", "skipped", "uploadOk", "succeeded", "noReply",
                         "failed", "complete"}
    BY <1>d
  <2> QED BY <2>1 DEF UpFeed
<1>2. EarlyEnd[line.k] \in {"NoWifi", "NoReach", "NoKey", "Unsupported"} BY DEF EarlyEnd
<1>3. PICK face \in {"NoWifi", "NoReach", "NoKey", "Unsupported"} : up' = EndFlight(up, face)
  BY <1>1, <1>2
<1>4. CloseFile(up) \in Flight BY FlightTypes
<1>5. ~up'.flight /\ up'.face = face BY <1>3, <1>4 DEF EndFlight, Flight
<1>6. ~RanToEnd' BY <1>5 DEF RanToEnd, FailFace
<1> QED BY <1>5, <1>6 DEF Judged

\* The lines that end a flight, and those that say why a file was not sent.
LEMMA Domains ==
  /\ DOMAIN EarlyEnd = {"noCreds", "unreached", "noKey", "unsupported"}
  /\ DOMAIN Cause = {"noConnect", "noReply", "noBuffer", "noFile"}
BY DEF EarlyEnd, Cause

\* No line changes how the files went.
LEMMA DoneStays ==
  ASSUME NEW u \in Flight
  PROVE  /\ CloseFile(u).done = u.done /\ KeepOk(u).done = u.done /\ KeepFail(u).done = u.done
         /\ KeepOk(u).name = u.name /\ KeepFail(u).name = u.name
         /\ KeepFail(u).open = u.open
<1>1. CloseFile(u).done = u.done
  <2>1. CASE u.open
    <3> DEFINE nFail == IF u.fileFail THEN u.nFail + 1 ELSE u.nFail
               nOk == IF ~u.fileFail /\ u.fileOk THEN u.nOk + 1 ELSE u.nOk
    <3>1. CloseFile(u) = [u EXCEPT !.nFail = nFail, !.nOk = nOk, !.open = FALSE,
                                   !.fileOk = FALSE, !.fileFail = FALSE]
      BY <2>1 DEF CloseFile, Flight
    <3> HIDE DEF nFail, nOk
    <3> QED BY <3>1 DEF Flight
  <2>2. CASE ~u.open BY <2>2 DEF CloseFile
  <2> QED BY <2>1, <2>2
<1>2. KeepOk(u).done = u.done /\ KeepOk(u).name = u.name BY DEF KeepOk, Flight
<1>3. KeepFail(u).done = u.done /\ KeepFail(u).name = u.name /\ KeepFail(u).open = u.open
  BY DEF KeepFail, Flight
<1> QED BY <1>1, <1>2, <1>3

\* Nor does a line of a flight in the air that does not end it.
LEMMA FeedDone ==
  ASSUME NEW u \in Flight, u.flight, NEW line \in Spoken,
         line.k \in {"uploading", "connected", "skipped", "uploadOk", "succeeded", "noReply",
                     "failed", "noConnect", "noBuffer", "noFile", "started", "stopped"}
  PROVE  UpFeed(u, line).done = u.done
<1>1. CASE line.k = "uploading"
  <2>1. CloseFile(u) \in Flight /\ CloseFile(u).done = u.done BY FlightTypes, DoneStays, Zenon
  <2>2. UpFeed(u, line) = [CloseFile(u) EXCEPT !.walked = TRUE, !.open = TRUE,
                                                     !.name = line.x, !.face = "Sending"]
    BY <1>1, Domains DEF UpFeed
  <2> QED BY <2>1, <2>2 DEF Flight
<1>2. CASE line.k = "connected"
  <2> DEFINE new == u.joined # NoName /\ u.joined = line.x
  <2>1. UpFeed(u, line) = [u EXCEPT !.wifiOk = TRUE, !.wifiJoined = new] BY <1>2, Domains DEF UpFeed
  <2> HIDE DEF new
  <2> QED BY <2>1 DEF Flight
<1>3. CASE line.k \in {"uploadOk", "succeeded", "skipped", "noReply"}
  <2>1. /\ [u EXCEPT !.ok = TRUE] \in Flight
        /\ [u EXCEPT !.ok = TRUE, !.succeeded = TRUE] \in Flight
        /\ [u EXCEPT !.ok = TRUE].done = u.done
        /\ [u EXCEPT !.ok = TRUE, !.succeeded = TRUE].done = u.done
        /\ [u EXCEPT !.skip = TRUE].done = u.done
        /\ [u EXCEPT !.why = u.why \cup {"reply"}].done = u.done
    BY DEF Flight
  <2>2. CASE line.k = "uploadOk"
    <3> DEFINE w == [u EXCEPT !.ok = TRUE]
    <3>1. w \in Flight /\ w.done = u.done BY <2>1, Zenon
    <3>2. UpFeed(u, line) = KeepOk(w) BY <2>2, Domains DEF UpFeed
    <3> HIDE DEF w
    <3> QED BY <3>1, <3>2, DoneStays
  <2>3. CASE line.k = "succeeded"
    <3> DEFINE w == [u EXCEPT !.ok = TRUE, !.succeeded = TRUE]
    <3>1. w \in Flight /\ w.done = u.done BY <2>1, Zenon
    <3>2. UpFeed(u, line) = KeepOk(w) BY <2>3, Domains DEF UpFeed
    <3> HIDE DEF w
    <3> QED BY <3>1, <3>2, DoneStays
  <2>4. CASE line.k \in {"skipped", "noReply"} BY <2>1, <2>4, Domains DEF UpFeed
  <2> QED BY <1>3, <2>2, <2>3, <2>4
<1>4. CASE line.k \in {"noConnect", "noBuffer", "noFile", "failed"}
  <2> DEFINE w == [u EXCEPT !.why = u.why \cup {Cause[line.k]}]
  <2>1. line.k # "failed" => w \in Flight /\ w.done = u.done
    BY <1>4 DEF Flight, Why, Cause
  <2>2. UpFeed(u, line) = IF line.k = "failed" THEN KeepFail(u) ELSE KeepFail(w)
    BY <1>4, Domains DEF UpFeed
  <2> HIDE DEF w
  <2> QED BY <2>1, <2>2, DoneStays
<1>5. CASE line.k \in {"started", "stopped"} BY <1>5, Domains DEF UpFeed
<1> QED BY <1>1, <1>2, <1>3, <1>4, <1>5

\* What is to be told of a file.
LEMMA ToTellType ==
  ASSUME NEW how \in {"sent", "skipped", "failed", "silent"}, NEW ks \in ToTell[how]
  PROVE  /\ ks \in Seq(LineKind) /\ (ks = <<>> <=> how = "silent")
         /\ how = "sent" =>
              ks \in {<<"succeeded", "uploadOk">>, <<"failed", "succeeded", "uploadOk">>,
                      <<"noReply", "succeeded", "uploadOk">>}
         /\ how = "skipped" => ks = <<"skipped", "uploadOk">>
         /\ how = "failed" =>
              \/ ks = <<"failed">>
              \/ \E why \in {"noConnect", "noReply", "noBuffer", "noFile"} : ks = <<why, "failed">>
<1>1. ToTell["failed"] = {<<"failed">>} \cup {<<why, "failed">> : why \in Causes} BY DEF ToTell
<1>2. CASE how = "failed"
  <2>1. \/ ks = <<"failed">>
        \/ \E why \in {"noConnect", "noReply", "noBuffer", "noFile"} : ks = <<why, "failed">>
    BY <1>1, <1>2, UploadAssumption
  <2>2. CASE ks = <<"failed">> BY <1>2, <2>1, <2>2 DEF LineKind
  <2>3. CASE \E why \in {"noConnect", "noReply", "noBuffer", "noFile"} : ks = <<why, "failed">>
    <3>1. PICK why \in {"noConnect", "noReply", "noBuffer", "noFile"} : ks = <<why, "failed">>
      BY <2>3
    <3>2. why \in LineKind /\ "failed" \in LineKind BY DEF LineKind
    <3> QED BY <1>2, <2>1, <3>1, <3>2
  <2> QED BY <2>1, <2>2, <2>3
<1>3. CASE how = "sent"
  <2>1. ks \in {<<"succeeded", "uploadOk">>, <<"failed", "succeeded", "uploadOk">>,
                <<"noReply", "succeeded", "uploadOk">>}
    BY <1>3 DEF ToTell
  <2>2. ks \in Seq(LineKind) /\ ks # <<>>
    <3>1. {"succeeded", "uploadOk", "failed", "noReply"} \subseteq LineKind BY DEF LineKind
    <3>2. CASE ks = <<"succeeded", "uploadOk">> BY <3>1, <3>2
    <3>3. CASE ks = <<"failed", "succeeded", "uploadOk">> BY <3>1, <3>3
    <3>4. CASE ks = <<"noReply", "succeeded", "uploadOk">> BY <3>1, <3>4
    <3> QED BY <2>1, <3>2, <3>3, <3>4
  <2> QED BY <1>3, <2>1, <2>2
<1>4. CASE how = "skipped"
  <2>1. ks = <<"skipped", "uploadOk">> BY <1>4 DEF ToTell
  <2>2. {"skipped", "uploadOk"} \subseteq LineKind BY DEF LineKind
  <2> QED BY <1>4, <2>1, <2>2
<1>5. CASE how = "silent" BY <1>5 DEF ToTell
<1> QED BY <1>2, <1>3, <1>4, <1>5

\* A line of a file is on its way to a flight in the air.
Applied ==
  /\ up \in Flight /\ up' \in Flight /\ up.flight /\ rx \in Seq(Spoken)
  /\ rx # <<>> => rx' = Tail(rx) /\ up' = UpFeed(up, Head(rx))

\* After it the files went as they did, and those walked before as well.
LEMMA AppliedStays ==
  ASSUME Applied, rx # <<>>, Head(rx) \in Spoken,
         Head(rx).k \in {"uploading", "connected", "skipped", "uploadOk", "succeeded", "noReply",
                         "failed", "noConnect", "noBuffer", "noFile", "started", "stopped"},
         NEW f
  PROVE  up'.done = up.done /\ Past(f)' = Past(f)
<1>1. up'.done = up.done BY FeedDone DEF Applied
<1> QED BY <1>1 DEF Past

\* What the line makes of the flight.
LEMMA AppliedIs ==
  ASSUME Applied, rx # <<>>, Head(rx) \in Spoken, NEW k, Head(rx).k = k
  PROVE  /\ k = "skipped" => up' = [up EXCEPT !.skip = TRUE]
         /\ k = "uploadOk" => up' = KeepOk([up EXCEPT !.ok = TRUE])
         /\ k = "succeeded" => up' = KeepOk([up EXCEPT !.ok = TRUE, !.succeeded = TRUE])
         /\ k = "noReply" => up' = [up EXCEPT !.why = up.why \cup {"reply"}]
         /\ k \in {"noConnect", "noBuffer", "noFile"} =>
              up' = KeepFail([up EXCEPT !.why = up.why \cup {Cause[k]}])
         /\ k = "failed" => up' = KeepFail(up)
         /\ k \in {"started", "stopped"} => up' = up
<1>1. PICK line \in Spoken : line = Head(rx) OBVIOUS
<1>2. up' = UpFeed(up, line) /\ line.k = k /\ up \in Flight /\ up.flight
  BY <1>1 DEF Applied
<1>4. k = "skipped" => up' = [up EXCEPT !.skip = TRUE] BY <1>2, Domains DEF UpFeed
<1>5. k = "uploadOk" => up' = KeepOk([up EXCEPT !.ok = TRUE]) BY <1>2, Domains DEF UpFeed
<1>6. k = "succeeded" => up' = KeepOk([up EXCEPT !.ok = TRUE, !.succeeded = TRUE])
  BY <1>2, Domains DEF UpFeed
<1>7. k = "noReply" => up' = [up EXCEPT !.why = up.why \cup {"reply"}] BY <1>2, Domains DEF UpFeed
<1>8. k \in {"noConnect", "noBuffer", "noFile"} =>
        up' = KeepFail([up EXCEPT !.why = up.why \cup {Cause[k]}])
  BY <1>2, Domains DEF UpFeed
<1>9. k = "failed" => up' = KeepFail(up) BY <1>2, Domains DEF UpFeed
<1>10. k \in {"started", "stopped"} => up' = up BY <1>2, Domains DEF UpFeed
<1> QED BY <1>4, <1>5, <1>6, <1>7, <1>8, <1>9, <1>10

\* The files told of with this one, and before it.
LEMMA PastTells ==
  ASSUME up.done \in [LogNames -> Outcome], NEW f \in LogNames
  PROVE  LET p == Past(f)
             d == up.done
         IN  /\ f \notin By(p, "sent") \cup By(p, "skipped") \cup By(p, "failed")
             /\ By(d, "sent") = IF d[f] = "sent" THEN By(p, "sent") \cup {f} ELSE By(p, "sent")
             /\ By(d, "skipped") =
                  IF d[f] = "skipped" THEN By(p, "skipped") \cup {f} ELSE By(p, "skipped")
             /\ By(d, "failed") =
                  IF d[f] = "failed" THEN By(p, "failed") \cup {f} ELSE By(p, "failed")
<1>1. PICK p, d, how : p = Past(f) /\ d = up.done /\ how = up.done[f] OBVIOUS
<1>2. /\ p \in [LogNames -> Outcome] /\ p[f] = "-" /\ d = [p EXCEPT ![f] = how]
      /\ d \in [LogNames -> Outcome] /\ how \in Outcome
  BY <1>1, PastIs
<1>3. /\ f \notin By(p, "sent") \cup By(p, "skipped") \cup By(p, "failed")
      /\ By(d, "sent") = IF how = "sent" THEN By(p, "sent") \cup {f} ELSE By(p, "sent")
      /\ By(d, "skipped") = IF how = "skipped" THEN By(p, "skipped") \cup {f} ELSE By(p, "skipped")
      /\ By(d, "failed") = IF how = "failed" THEN By(p, "failed") \cup {f} ELSE By(p, "failed")
  BY <1>2 DEF By, Outcome
<1> QED BY <1>1, <1>3

\* The line that opens a file.
LEMMA OpeningStep ==
  ASSUME Applied, NEW f \in LogNames, up.done[f] # "-", Opening(f)
  PROVE  /\ up'.done = up.done
         /\ Before(f)' \/ (Hears(<<>>) /\ Told(up, up.done))'
<1>0. up.done \in [LogNames -> Outcome] /\ up.done[f] \in {"sent", "skipped", "failed", "silent"}
  BY DEF Applied, Flight, Outcome
<1>1. PICK ks \in ToTell[up.done[f]] : Hears(<<"uploading">> \o ks)
  BY DEF Opening
<1>2. ks \in Seq(LineKind) /\ (ks = <<>> <=> up.done[f] = "silent") BY <1>0, ToTellType
<1> DEFINE all == <<"uploading">> \o ks
<1>3. all \in Seq(LineKind) /\ all # <<>> /\ all[1] = "uploading" /\ Tail(all) = ks
  <2>1. "uploading" \in LineKind BY DEF LineKind
  <2> QED BY <1>2, <2>1
<1> HIDE DEF all
<1>4. Hears(all) BY <1>1 DEF all
<1>5. rx # <<>> /\ Head(rx).k = "uploading" /\ Head(rx) = rx[1] /\ Head(rx) \in Spoken
  BY <1>3, <1>4, HearsFirst DEF Applied
<1>6. Hears(ks)' BY <1>3, <1>4, <1>5, HearsRest DEF Applied
<1>7. up'.done = up.done /\ Past(f)' = Past(f) BY <1>5, AppliedStays
<1>8. rx[1].x = f /\ Told(up, Past(f)) BY DEF Opening
<1>9. up' = [CloseFile(up) EXCEPT !.walked = TRUE, !.open = TRUE, !.name = f, !.face = "Sending"]
  <2>1. PICK line : line = Head(rx) OBVIOUS
  <2>2. up' = UpFeed(up, line) /\ line.k = "uploading" /\ line.x = f /\ line \in Spoken
    BY <1>5, <1>8, <2>1 DEF Applied
  <2>3. UpFeed(up, line) = [CloseFile(up) EXCEPT !.walked = TRUE, !.open = TRUE,
                                                 !.name = line.x, !.face = "Sending"]
    BY <2>2, Domains DEF Applied, UpFeed
  <2> QED BY <2>2, <2>3
<1>10. PICK p : p = Past(f) OBVIOUS
<1>11. Told(up', p) /\ Untold(up') /\ up'.name = f
  BY <1>8, <1>9, <1>10, OpenTells DEF Applied, Told
<1>12. CASE up.done[f] # "silent"
  BY <1>1, <1>6, <1>7, <1>10, <1>11, <1>12 DEF Before, Told
<1>13. CASE up.done[f] = "silent"
  <2>1. /\ By(up.done, "sent") = By(p, "sent") /\ By(up.done, "skipped") = By(p, "skipped")
        /\ By(up.done, "failed") = By(p, "failed")
    BY <1>0, <1>10, <1>13, PastTells
  <2>2. Told(up', up.done) BY <1>11, <2>1 DEF Told
  <2>3. Hears(<<>>)' BY <1>2, <1>6, <1>13
  <2> QED BY <1>7, <2>2, <2>3 DEF Told
<1> QED BY <1>7, <1>12, <1>13

\* The line that tells the file is sent.
LEMMA SentStep ==
  ASSUME Applied, NEW f \in LogNames, up.done[f] = "sent",
         Hears(<<"succeeded", "uploadOk">>), Tried(up, Past(f)),
         Worded(up, By(Past(f), "sent"), By(Past(f), "skipped"))
  PROVE  up'.done = up.done /\ Sure(f)'
<1> DEFINE ks == <<"succeeded", "uploadOk">>
<1>0. up.done \in [LogNames -> Outcome] BY DEF Applied, Flight
<1>1. ks \in Seq(LineKind) /\ ks # <<>> /\ ks[1] = "succeeded" /\ Tail(ks) = <<"uploadOk">>
  BY DEF LineKind
<1> HIDE DEF ks
<1>2. rx # <<>> /\ Head(rx).k = "succeeded" /\ Head(rx) \in Spoken
  BY <1>1, HearsFirst DEF Applied, ks
<1>3. Hears(<<"uploadOk">>)' BY <1>1, <1>2, HearsRest DEF Applied, ks
<1>4. up'.done = up.done /\ Past(f)' = Past(f) BY <1>2, AppliedStays
<1>5. up' = KeepOk([up EXCEPT !.ok = TRUE, !.succeeded = TRUE]) BY <1>2, Domains DEF Applied, UpFeed
<1> DEFINE p == Past(f)
           S == By(p, "sent")
           K == By(p, "skipped")
           F == By(p, "failed")
<1>6. /\ f \notin S \cup K \cup F /\ By(up.done, "sent") = S \cup {f}
      /\ By(up.done, "skipped") = K /\ By(up.done, "failed") = F
  BY <1>0, PastTells
<1>7. Walk(up', S \cup {f}, K, F) /\ up'.fileOk /\ (up'.fileFail => up'.nFail > 0)
  <2>1. Trying(up, S, K, F) /\ Worded(up, S, K) BY DEF Tried
  <2> HIDE DEF S, K, F
  <2> QED BY <1>5, <1>6, <2>1, SentTells DEF Applied
<1>8. Told(up', up.done) BY <1>6, <1>7 DEF Told
<1> QED BY <1>3, <1>4, <1>7, <1>8 DEF Sure, Told

\* Reading the next of what is to come.
LEMMA NextHeard ==
  ASSUME Applied, NEW ks \in Seq(LineKind), ks # <<>>, Hears(ks)
  PROVE  /\ rx # <<>> /\ Head(rx).k = ks[1] /\ Head(rx) \in Spoken
         /\ up' = UpFeed(up, Head(rx)) /\ Hears(Tail(ks))'
<1>1. rx # <<>> /\ Head(rx).k = ks[1] /\ Head(rx) \in Spoken BY HearsFirst DEF Applied
<1>2. Hears(Tail(ks))' BY <1>1, HearsRest DEF Applied
<1> QED BY <1>1, <1>2 DEF Applied

\* A reason is heard that changes nothing else.
LEMMA WhyAlike ==
  ASSUME NEW u \in Flight, NEW why \in Why
  PROVE  LET w == [u EXCEPT !.why = u.why \cup {why}] IN w \in Flight /\ Alike(u, w)
  BY DEF Flight, Alike

\* The line that tells a file has failed.
LEMMA FailedStep ==
  ASSUME Applied, NEW f \in LogNames, Told(up, Past(f)), Untold(up), up.name = f,
         NEW w \in Flight, Alike(up, w), up' = KeepFail(w)
  PROVE  /\ up.done[f] = "failed" => Told(up', up.done) /\ up'.fileFail
         /\ Tried(up', Past(f)) /\ Worded(up', By(Past(f), "sent"), By(Past(f), "skipped"))
<1> DEFINE S == By(Past(f), "sent")
           K == By(Past(f), "skipped")
           F == By(Past(f), "failed")
<1>0. up.done \in [LogNames -> Outcome] BY DEF Applied, Flight
<1>1. f \notin S \cup K \cup F /\ F \subseteq LogNames BY <1>0, PastTells DEF By
<1>2. up.done[f] = "failed" =>
        /\ By(up.done, "sent") = S /\ By(up.done, "skipped") = K
        /\ By(up.done, "failed") = F \cup {f}
  BY <1>0, PastTells
<1>3. Walk(up, S, K, F) BY DEF Told
<1> HIDE DEF S, K, F
<1>4. Walk(w, S, K, F) /\ Untold(w) /\ w.name = f BY <1>3, AlikeTells DEF Alike
<1>5. /\ Walk(up', S, K, F \cup {f}) /\ up'.fileFail
      /\ Trying(up', S, K, F) /\ Worded(up', S, K)
  BY <1>1, <1>4, FailTells
<1>6. up.done[f] = "failed" => Told(up', up.done) BY <1>2, <1>5 DEF Told
<1> QED BY <1>5, <1>6 DEF Tried, S, K, F

\* The first line about a file that is sent in the end.
LEMMA BeforeSent ==
  ASSUME Applied, NEW f \in LogNames, up.done[f] = "sent", Before(f)
  PROVE  up'.done = up.done /\ (Before(f) \/ Again(f) \/ Sure(f))'
<1>1. PICK ks \in ToTell["sent"] : Hears(ks) BY DEF Before
<1>2. /\ ks \in Seq(LineKind) /\ ks # <<>>
      /\ ks \in {<<"succeeded", "uploadOk">>, <<"failed", "succeeded", "uploadOk">>,
                 <<"noReply", "succeeded", "uploadOk">>}
  BY ToTellType
<1>3. Told(up, Past(f)) /\ Untold(up) /\ up.name = f BY DEF Before
<1>4. CASE ks = <<"succeeded", "uploadOk">>
  <2>1. Tried(up, Past(f)) BY <1>3, UntoldTrying DEF Applied, Told, Tried
  <2>2. Worded(up, By(Past(f), "sent"), By(Past(f), "skipped")) BY <1>3 DEF Told, Walk
  <2> QED BY <1>1, <1>4, <2>1, <2>2, SentStep
<1>5. CASE ks # <<"succeeded", "uploadOk">>
  <2>1. /\ rx # <<>> /\ Head(rx).k = ks[1] /\ Head(rx) \in Spoken
        /\ up' = UpFeed(up, Head(rx)) /\ Hears(Tail(ks))'
    BY <1>1, <1>2, NextHeard
  <2>2. ks[1] \in {"failed", "noReply"} /\ Tail(ks) = <<"succeeded", "uploadOk">>
    <3>1. CASE ks = <<"failed", "succeeded", "uploadOk">> BY <3>1
    <3>2. CASE ks = <<"noReply", "succeeded", "uploadOk">> BY <3>2
    <3> QED BY <1>2, <1>5, <3>1, <3>2
  <2>3. up'.done = up.done /\ Past(f)' = Past(f) BY <2>1, <2>2, AppliedStays
  <2>4. Hears(<<"succeeded", "uploadOk">>)' BY <2>1, <2>2
  <2>5. CASE ks[1] = "failed"
    <3>1. up' = KeepFail(up) BY <2>1, <2>5, AppliedIs
    <3>2. Alike(up, up) BY DEF Alike
    <3>3. Tried(up', Past(f)) /\ Worded(up', By(Past(f), "sent"), By(Past(f), "skipped"))
      BY <1>3, <3>1, <3>2, FailedStep DEF Applied
    <3>4. Again(f)' BY <2>3, <2>4, <3>3 DEF Again, Tried
    <3> QED BY <2>3, <3>4
  <2>6. CASE ks[1] = "noReply"
    <3>1. up' = [up EXCEPT !.why = up.why \cup {"reply"}] BY <2>1, <2>6, AppliedIs
    <3>2. Alike(up, up') BY <3>1, WhyAlike DEF Applied, Why
    <3>3. Told(up', Past(f)) /\ Untold(up') /\ up'.name = f
      BY <1>3, <3>2, AlikeTells DEF Told, Alike
    <3>4. <<"succeeded", "uploadOk">> \in ToTell["sent"] BY DEF ToTell
    <3>5. Before(f)' BY <2>3, <2>4, <3>3, <3>4 DEF Before, Told
    <3> QED BY <2>3, <3>5
  <2> QED BY <2>2, <2>5, <2>6
<1> QED BY <1>4, <1>5

\* The first line about a file the board had sent before.
LEMMA BeforeSkipped ==
  ASSUME Applied, NEW f \in LogNames, up.done[f] = "skipped", Before(f)
  PROVE  up'.done = up.done /\ Skipping(f)'
<1>1. PICK ks \in ToTell["skipped"] : Hears(ks) BY DEF Before
<1>2. ks \in Seq(LineKind) /\ ks # <<>> /\ ks = <<"skipped", "uploadOk">> BY ToTellType
<1>3. Told(up, Past(f)) /\ Untold(up) BY DEF Before
<1>4. /\ rx # <<>> /\ Head(rx).k = ks[1] /\ Head(rx) \in Spoken
      /\ up' = UpFeed(up, Head(rx)) /\ Hears(Tail(ks))'
  BY <1>1, <1>2, NextHeard
<1>5. ks[1] = "skipped" /\ Tail(ks) = <<"uploadOk">> BY <1>2
<1>6. up'.done = up.done /\ Past(f)' = Past(f) BY <1>4, <1>5, AppliedStays
<1>7. up' = [up EXCEPT !.skip = TRUE] BY <1>4, <1>5, AppliedIs
<1>8. /\ up'.skip /\ up'.succeeded = up.succeeded /\ up'.nFail = up.nFail /\ up'.fail = up.fail
      /\ up'.failName = up.failName /\ up'.open = up.open /\ up'.fileOk = up.fileOk
      /\ up'.nOk = up.nOk
  BY <1>7 DEF Applied, Flight
<1>9. Tried(up, Past(f)) BY <1>3, UntoldTrying DEF Applied, Told, Tried
<1>10. Tried(up', Past(f)) BY <1>8, <1>9 DEF Tried, Trying
<1>11. up'.succeeded <=> By(Past(f), "sent") # {} BY <1>3, <1>8 DEF Told, Walk, Worded
<1>12. Hears(<<"uploadOk">>)' BY <1>4, <1>5
<1> QED BY <1>6, <1>8, <1>10, <1>11, <1>12 DEF Skipping, Tried

\* The first line about a file that fails.
LEMMA BeforeFailed ==
  ASSUME Applied, NEW f \in LogNames, up.done[f] = "failed", Before(f)
  PROVE  /\ up'.done = up.done
         /\ (Before(f) \/ Sure(f) \/ (Hears(<<>>) /\ Told(up, up.done)))'
<1>1. PICK ks \in ToTell["failed"] : Hears(ks) BY DEF Before
<1>2. /\ ks \in Seq(LineKind) /\ ks # <<>>
      /\ \/ ks = <<"failed">>
         \/ \E why \in {"noConnect", "noReply", "noBuffer", "noFile"} : ks = <<why, "failed">>
  BY ToTellType
<1>3. Told(up, Past(f)) /\ Untold(up) /\ up.name = f BY DEF Before
<1>4. /\ rx # <<>> /\ Head(rx).k = ks[1] /\ Head(rx) \in Spoken
      /\ up' = UpFeed(up, Head(rx)) /\ Hears(Tail(ks))'
  BY <1>1, <1>2, NextHeard
<1>5. CASE ks = <<"failed">>
  <2>1. ks[1] = "failed" /\ Tail(ks) = <<>> BY <1>5
  <2>2. up'.done = up.done BY <1>4, <2>1, AppliedStays
  <2>3. up' = KeepFail(up) BY <1>4, <2>1, AppliedIs
  <2>4. Alike(up, up) BY DEF Alike
  <2>5. Told(up', up.done) BY <1>3, <2>3, <2>4, FailedStep DEF Applied
  <2>6. Hears(<<>>)' BY <1>4, <2>1
  <2> QED BY <2>2, <2>5, <2>6 DEF Told
<1>6. ASSUME NEW why \in {"noConnect", "noReply", "noBuffer", "noFile"}, ks = <<why, "failed">>
      PROVE  up'.done = up.done /\ (Before(f) \/ Sure(f))'
  <2>1. ks[1] = why /\ Tail(ks) = <<"failed">> BY <1>6
  <2>2. up'.done = up.done /\ Past(f)' = Past(f) BY <1>4, <2>1, AppliedStays
  <2>3. Hears(<<"failed">>)' BY <1>4, <2>1
  <2>4. CASE why = "noReply"
    <3>1. up' = [up EXCEPT !.why = up.why \cup {"reply"}] BY <1>4, <2>1, <2>4, AppliedIs
    <3>2. Alike(up, up') BY <3>1, WhyAlike DEF Applied, Why
    <3>3. Told(up', Past(f)) /\ Untold(up') /\ up'.name = f
      BY <1>3, <3>2, AlikeTells DEF Told, Alike
    <3>4. <<"failed">> \in ToTell["failed"] BY DEF ToTell
    <3>5. Before(f)' BY <2>2, <2>3, <3>3, <3>4 DEF Before, Told
    <3> QED BY <2>2, <3>5
  <2>5. CASE why # "noReply"
    <3>1. PICK c \in Why : c = Cause[why] BY <2>5 DEF Cause, Why
    <3> DEFINE w == [up EXCEPT !.why = up.why \cup {c}]
    <3>2. up' = KeepFail(w) BY <1>4, <2>1, <2>5, <3>1, AppliedIs
    <3>3. w \in Flight /\ Alike(up, w) BY WhyAlike DEF Applied
    <3> HIDE DEF w
    <3>4. Told(up', up.done) /\ up'.fileFail BY <1>3, <3>2, <3>3, FailedStep
    <3>5. Sure(f)' BY <2>2, <2>3, <3>4 DEF Sure, Told
    <3> QED BY <2>2, <3>5
  <2> QED BY <2>4, <2>5
<1> QED BY <1>2, <1>5, <1>6

\* The last line about a file the board had sent before.
LEMMA SkippingStep ==
  ASSUME Applied, NEW f \in LogNames, Skipping(f)
  PROVE  up'.done = up.done /\ (Hears(<<>>) /\ Told(up, up.done))'
<1> DEFINE ks == <<"uploadOk">>
           S == By(Past(f), "sent")
           K == By(Past(f), "skipped")
           F == By(Past(f), "failed")
<1>0. up.done \in [LogNames -> Outcome] BY DEF Applied, Flight
<1>1. ks \in Seq(LineKind) /\ ks # <<>> /\ ks[1] = "uploadOk" /\ Tail(ks) = <<>> BY DEF LineKind
<1> HIDE DEF ks
<1>2. Hears(ks) BY DEF Skipping, ks
<1>3. /\ rx # <<>> /\ Head(rx).k = "uploadOk" /\ Head(rx) \in Spoken /\ Hears(<<>>)'
  BY <1>1, <1>2, NextHeard
<1>4. up'.done = up.done BY <1>3, AppliedStays
<1>5. up' = KeepOk([up EXCEPT !.ok = TRUE]) BY <1>3, AppliedIs
<1>6. /\ f \notin S \cup K \cup F /\ By(up.done, "sent") = S
      /\ By(up.done, "skipped") = K \cup {f} /\ By(up.done, "failed") = F
  BY <1>0, PastTells DEF Skipping
<1>7. Trying(up, S, K, F) /\ up.skip /\ (up.succeeded <=> S # {}) BY DEF Skipping, Tried
<1> HIDE DEF S, K, F
<1>8. Walk(up', S, K \cup {f}, F) BY <1>5, <1>6, <1>7, SkippedTells DEF Applied
<1> QED BY <1>3, <1>4, <1>6, <1>8 DEF Told

\* The line that says again what became of a file.
LEMMA SureStep ==
  ASSUME Applied, NEW f \in LogNames, Sure(f)
  PROVE  up'.done = up.done /\ (Hears(<<>>) /\ Told(up, up.done))'
<1> DEFINE S == By(up.done, "sent")
           K == By(up.done, "skipped")
           F == By(up.done, "failed")
<1>1. Walk(up, S, K, F) BY DEF Sure, Told
<1>2. CASE /\ up.done[f] = "sent" /\ Hears(<<"uploadOk">>)
           /\ up.fileOk /\ (up.fileFail => up.nFail > 0)
  <2> DEFINE ks == <<"uploadOk">>
  <2>1. ks \in Seq(LineKind) /\ ks # <<>> /\ ks[1] = "uploadOk" /\ Tail(ks) = <<>> BY DEF LineKind
  <2> HIDE DEF ks
  <2>2. Hears(ks) BY <1>2 DEF ks
  <2>3. rx # <<>> /\ Head(rx).k = "uploadOk" /\ Head(rx) \in Spoken /\ Hears(<<>>)'
    BY <2>1, <2>2, NextHeard
  <2>4. up'.done = up.done BY <2>3, AppliedStays
  <2>5. up' = KeepOk([up EXCEPT !.ok = TRUE]) BY <2>3, AppliedIs
  <2>6. f \in S BY <1>2 DEF By
  <2> HIDE DEF S, K, F
  <2>7. Walk(up', S, K, F) BY <1>1, <1>2, <2>5, <2>6, SentAgain DEF Applied
  <2> QED BY <2>3, <2>4, <2>7 DEF Told, S, K, F
<1>3. CASE up.done[f] = "failed" /\ Hears(<<"failed">>) /\ up.fileFail
  <2> DEFINE ks == <<"failed">>
  <2>1. ks \in Seq(LineKind) /\ ks # <<>> /\ ks[1] = "failed" /\ Tail(ks) = <<>> BY DEF LineKind
  <2> HIDE DEF ks
  <2>2. Hears(ks) BY <1>3 DEF ks
  <2>3. rx # <<>> /\ Head(rx).k = "failed" /\ Head(rx) \in Spoken /\ Hears(<<>>)'
    BY <2>1, <2>2, NextHeard
  <2>4. up'.done = up.done BY <2>3, AppliedStays
  <2>5. up' = KeepFail(up) BY <2>3, AppliedIs
  <2>6. F \subseteq LogNames BY DEF By
  <2> HIDE DEF S, K, F
  <2>7. Walk(up', S, K, F) BY <1>1, <1>3, <2>5, <2>6, FailAgain DEF Applied
  <2> QED BY <2>3, <2>4, <2>7 DEF Told, S, K, F
<1> QED BY <1>2, <1>3 DEF Sure

\* Any line about a file.
LEMMA FileStep ==
  ASSUME Applied, NEW f \in LogNames, FileStage(f)
  PROVE  /\ up'.done = up.done
         /\ (FileStage(f) \/ (Hears(<<>>) /\ Told(up, up.done)))'
<1>0. up.done[f] \in {"sent", "skipped", "failed", "silent"} /\ up.done[f] # "-"
  BY DEF Applied, Flight, Outcome, FileStage
<1>1. CASE Opening(f) BY <1>0, <1>1, OpeningStep DEF FileStage
<1>2. CASE Before(f)
  <2>1. up.done[f] # "silent" BY <1>2 DEF Before
  <2> QED BY <1>0, <1>2, <2>1, BeforeSent, BeforeSkipped, BeforeFailed DEF FileStage
<1>3. CASE Again(f)
  <2>1. up'.done = up.done /\ Sure(f)' BY <1>3, SentStep DEF Again
  <2> QED BY <1>0, <2>1 DEF FileStage
<1>4. CASE Skipping(f) BY <1>4, SkippingStep
<1>5. CASE Sure(f) BY <1>5, SureStep
<1> QED BY <1>1, <1>2, <1>3, <1>4, <1>5 DEF FileStage

\* Any line while the board walks its card, or before.
LEMMA WalkingStep ==
  ASSUME Applied, rx # <<>>, board' = board, Walking, board.job = "noKey" \/ up'.flight
  PROVE  (up'.flight /\ Walking') \/ (~up'.flight /\ Judged')
<1>k. /\ <<"connected">> \in Seq(LineKind) /\ <<"connected">> # <<>>
      /\ <<"uploading", "noKey", "failed">> \in Seq(LineKind)
      /\ <<"uploading", "noKey", "failed">> # <<>>
      /\ <<"noKey", "failed">> \in Seq(LineKind) /\ <<"noKey", "failed">> # <<>>
      /\ <<"connected">>[1] = "connected" /\ Tail(<<"connected">>) = <<>>
      /\ <<"uploading", "noKey", "failed">>[1] = "uploading"
      /\ Tail(<<"uploading", "noKey", "failed">>) = <<"noKey", "failed">>
      /\ <<"noKey", "failed">>[1] = "noKey"
  BY DEF LineKind
<1>l. Once(board'.left) /\ (up'.done = up.done =>
         \A i \in DOMAIN board'.left : up'.done[board'.left[i]] = "-")
  BY DEF Walking
<1>1. CASE Told(up, up.done) /\ Hears(<<"connected">>)
  <2>1. rx # <<>> /\ Head(rx).k = "connected" /\ Head(rx) \in Spoken /\ Hears(<<>>)'
    BY <1>k, <1>1, NextHeard
  <2>2. up'.done = up.done BY <2>1, AppliedStays
  <2> DEFINE new == up.joined # NoName /\ up.joined = Head(rx).x
  <2>3. up' = [up EXCEPT !.wifiOk = TRUE, !.wifiJoined = new]
    <3>1. up' = UpFeed(up, Head(rx)) BY <2>1 DEF Applied
    <3> QED BY <2>1, <3>1, Domains DEF Applied, UpFeed
  <2> HIDE DEF new
  <2>4. Alike(up, up') /\ up'.flight BY <2>3 DEF Applied, Flight, Alike
  <2>5. Told(up', up.done) BY <1>1, <2>4, AlikeTells DEF Told
  <2> QED BY <1>l, <2>1, <2>2, <2>4, <2>5 DEF Walking, Told
<1>2. CASE Told(up, up.done) /\ Hears(<<>>)
  <2>1. Hears(<<>>)' /\ Head(rx).k \in {"started", "stopped"} /\ Head(rx) \in Spoken
    BY <1>2, HearsNone DEF Applied
  <2>2. up' = up BY <2>1, AppliedIs
  <2> QED BY <1>l, <1>2, <2>1, <2>2 DEF Walking, Told, Applied
<1>3. CASE board.job = "noKey" /\ Hears(<<"uploading", "noKey", "failed">>)
  <2>1. /\ Head(rx).k = "uploading" /\ Head(rx) \in Spoken
        /\ Hears(<<"noKey", "failed">>)'
    BY <1>k, <1>3, NextHeard
  <2>2. up'.done = up.done BY <2>1, AppliedStays
  <2>3. up'.flight
    <3>1. up' = UpFeed(up, Head(rx)) BY DEF Applied
    <3> QED BY <2>1, <3>1, FeedFlight DEF Applied, Ending
  <2> QED BY <1>l, <1>3, <2>1, <2>2, <2>3 DEF Walking
<1>4. CASE board.job = "noKey" /\ Hears(<<"noKey", "failed">>)
  <2>1. Head(rx).k = "noKey" BY <1>k, <1>4, NextHeard
  <2>2. Head(rx).k \in DOMAIN EarlyEnd BY <2>1 DEF EarlyEnd
  <2> QED BY <2>2, EarlyTells DEF Applied
<1>5. CASE board.job = "upload" /\ \E f \in LogNames : FileStage(f)
  <2>1. PICK f \in LogNames : FileStage(f) BY <1>5
  <2>2. up'.done = up.done /\ (FileStage(f) \/ (Hears(<<>>) /\ Told(up, up.done)))'
    BY <2>1, FileStep
  <2> QED BY <1>l, <1>5, <2>2 DEF Walking
<1> QED BY <1>1, <1>2, <1>3, <1>4, <1>5 DEF Walking

\* For a user who waits for every answer, as long as no line is lost: what the
\* flight holds and the lines on their way together tell how the files went.
VerdictFine == Unhurried => Judged /\ (up.flight => InFlight)

\* A line applied.
LEMMA VerdictApply ==
  ASSUME AllFine, FlightInv, VerdictFine, Apply
  PROVE  VerdictFine'
<1>0. /\ rx # <<>> /\ rx' = Tail(rx) /\ up' = UpFeed(up, Head(rx))
      /\ UNCHANGED <<slot, tx, ghost, pg, board>>
      /\ rx \in Seq(Spoken) /\ up \in Flight /\ Head(rx) \in Spoken
  BY DEF Apply, Heard, tally, AllFine, LinkFine
<1>1. SUFFICES ASSUME Unhurried' PROVE (Judged /\ (up.flight => InFlight))'
  BY DEF VerdictFine
<1>2. Unhurried /\ Judged /\ (up.flight => InFlight) BY <1>0, <1>1 DEF Unhurried, VerdictFine
<1>3. CASE ~up.flight
  <2>1. up' = up BY <1>0, <1>3 DEF UpFeed
  <2> QED BY <1>2, <1>3, <2>1 DEF Judged, RanToEnd, Went
<1>4. CASE up.flight
  <2>0. up' \in Flight BY <1>0, UpFeedType
  <2>1. Applied BY <1>0, <1>4, <2>0 DEF Applied
  <2>2. up'.flight => Judged' BY DEF Judged, RanToEnd
  <2>3. Pending' <=> Pending BY <1>0 DEF Pending
  <2>4. CASE Pending
    <3>1. Hears(<<>>) /\ Told(up, up.done) /\ \A f \in LogNames : up.done[f] = "-"
      BY <1>2, <1>4, <2>4 DEF InFlight
    <3>2. Hears(<<>>)' /\ Head(rx).k \in {"started", "stopped"} BY <1>0, <3>1, HearsNone
    <3>3. up' = up BY <1>0, <2>1, <3>2, AppliedIs
    <3> QED BY <1>4, <2>2, <2>3, <2>4, <3>1, <3>2, <3>3 DEF InFlight, Told
  <2>5. CASE ~Pending /\ board.job # "idle"
    <3>1. Walking BY <1>2, <1>4, <2>5 DEF InFlight
    <3>2. board.job = "noKey" \/ up'.flight
      <4>1. CASE board.job = "upload"
        <5>1. Head(rx).k \notin Ending BY <1>0, <1>2, <4>1 DEF FlightInv, NoEnd
        <5> QED BY <1>0, <1>4, <5>1, FeedFlight
      <4> QED BY <2>5, <4>1 DEF AllFine, UploadBoard
    <3>3. (up'.flight /\ Walking') \/ (~up'.flight /\ Judged')
      BY <1>0, <2>1, <3>1, <3>2, WalkingStep
    <3> QED BY <1>0, <2>2, <2>3, <2>5, <3>3 DEF InFlight
  <2>6. CASE ~Pending /\ board.job = "idle"
    <3>1. rx[1].k \in DOMAIN EarlyEnd \/ (rx[1].k = "complete" /\ Told(up, up.done))
      BY <1>2, <1>4, <2>6 DEF InFlight
    <3>2. rx[1] = Head(rx) BY <1>0
    <3> QED BY <1>0, <1>4, <2>0, <3>1, <3>2, EarlyTells, CompleteTells
  <2> QED BY <2>4, <2>5, <2>6
<1> QED BY <1>3, <1>4

\* A part of a sequence without repetitions has none.
LEMMA AmongOnce ==
  ASSUME NEW S, NEW s \in Seq(S), NEW set, Once(s)
  PROVE  Once(Among(s, set))
<1>1. PICK g : Keeps(g, Len(s), S, s, set) /\ Among(s, set) = g[Len(s)]
  BY AmongIs
<1>2. PICK n \in Nat : n = Len(s) OBVIOUS
<1>3. /\ \A i \in 0..n : g[i] \in Seq(S \cap set) /\ g[i] = Kept(g, s, set, i)
      /\ DOMAIN s = 1..n
  BY <1>1, <1>2 DEF Keeps, Runs
<1> DEFINE Ok(m) == Once(g[m]) /\ \A j \in DOMAIN g[m] : \E l \in 1..m : g[m][j] = s[l]
           P == {m \in Nat : m <= n => Ok(m)}
<1>4. 0 \in P
  <2>1. g[0] = <<>> BY <1>3 DEF Kept
  <2> QED BY <2>1 DEF Once
<1>5. ASSUME NEW m \in Nat, m \in P PROVE m + 1 \in P
  <2>1. SUFFICES ASSUME m + 1 <= n PROVE Ok(m + 1)
    OBVIOUS
  <2>2. m \in 0..n /\ m + 1 \in 0..n /\ m + 1 # 0 /\ (m + 1) - 1 = m /\ m + 1 \in 1..n
    BY <2>1
  <2>3. Ok(m) BY <1>5, <2>2
  <2>4. CASE s[m + 1] \notin set
    <3>1. g[m + 1] = g[m] BY <1>3, <2>2, <2>4 DEF Kept
    <3>2. \A l \in 1..m : l \in 1..(m + 1) OBVIOUS
    <3> QED BY <2>3, <3>1, <3>2
  <2>5. CASE s[m + 1] \in set
    <3> DEFINE h == g[m]
    <3>1. g[m + 1] = Append(h, s[m + 1]) BY <1>3, <2>2, <2>5 DEF Kept
    <3>2. h \in Seq(S \cap set) BY <1>3, <2>2
    <3>3. Once(h) /\ \A j \in DOMAIN h : \E l \in 1..m : h[j] = s[l] BY <2>3
    <3> HIDE DEF h
    <3>4. PICK e : e = Append(h, s[m + 1]) OBVIOUS
    <3>5. /\ Len(h) \in Nat /\ DOMAIN h = 1..Len(h) /\ DOMAIN e = 1..(Len(h) + 1)
          /\ \A i \in 1..Len(h) : e[i] = h[i]
          /\ e[Len(h) + 1] = s[m + 1]
      <4>1. s[m + 1] \in S \cap set BY <1>3, <2>2, <2>5
      <4> QED BY <3>2, <3>4, <4>1
    <3>6. \A i \in 1..Len(h) : h[i] # s[m + 1]
      <4>1. ASSUME NEW i \in 1..Len(h), h[i] = s[m + 1] PROVE FALSE
        <5>1. PICK l \in 1..m : h[i] = s[l] BY <3>3, <3>5
        <5>2. l \in 1..n /\ l # m + 1 BY <2>1
        <5> QED BY <1>3, <2>2, <4>1, <5>1, <5>2 DEF Once
      <4> QED BY <4>1
    <3>7. \A i \in DOMAIN e : i \in 1..Len(h) \/ i = Len(h) + 1 BY <3>5
    <3>8. Once(e)
      <4>1. \A i, j \in 1..Len(h) : h[i] = h[j] => i = j BY <3>3, <3>5 DEF Once
      <4> QED BY <3>5, <3>6, <3>7, <4>1 DEF Once
    <3>9. \A j \in DOMAIN e : \E l \in 1..(m + 1) : e[j] = s[l]
      <4>1. \A j \in 1..Len(h) : \E l \in 1..(m + 1) : e[j] = s[l]
        <5>1. \A l \in 1..m : l \in 1..(m + 1) OBVIOUS
        <5> QED BY <3>3, <3>5, <5>1
      <4>2. m + 1 \in 1..(m + 1) OBVIOUS
      <4> QED BY <3>5, <3>7, <4>1, <4>2
    <3> QED BY <3>1, <3>4, <3>8, <3>9
  <2> QED BY <2>4, <2>5
<1> HIDE DEF P
<1>6. P = Nat BY <1>4, <1>5, ByCounting DEF P
<1>7. Ok(n) BY <1>6 DEF P
<1> QED BY <1>1, <1>2, <1>7

\* The board walks no file twice.
LEMMA FilesOnce ==
  ASSUME board \in UploadBoard, Once(board.dir)
  PROVE  Once(Files)
<1> DEFINE set == [k : {"log"}, n : {0}, x : LogNames]
           logsOf == Among(board.dir, set)
<1>1. board.dir \in Seq(Entry) BY DEF UploadBoard
<1>2. logsOf \in Seq(Entry \cap set) BY <1>1, AmongType
<1>3. Once(logsOf) BY <1>1, AmongOnce
<1>4. Files = [i \in DOMAIN logsOf |-> logsOf[i].x] BY DEF Files
<1> HIDE DEF logsOf
<1>5. \A i \in DOMAIN logsOf : logsOf[i] \in set BY <1>2
<1>6. \A d, e \in set : d.x = e.x => d = e OBVIOUS
<1> HIDE DEF set
<1> QED BY <1>3, <1>4, <1>5, <1>6 DEF Once

\* Only the board itself changes what it does and what is on its card.
LEMMA BoardStays ==
  ASSUME \/ Write \/ Apply \/ Lose \/ UploadUser \/ JoinUser \/ ToolsUser
         \/ UploadTicks \/ JoinTicks \/ ToolsTicks \/ Time \/ BoardWard
  PROVE  board' = board
<1>1. CASE Write \/ Apply \/ Lose \/ BoardWard
  BY <1>1 DEF Write, Apply, Lose, BoardWard
<1>2. CASE UploadUser
  BY <1>2 DEF UploadUser, EnterUpload, UploadBack, UploadHelp, UploadLogs, UploadGo
<1>3. CASE JoinUser
  BY <1>3 DEF JoinUser, EnterJoin, JoinBackStop, JoinBackPass, JoinBackFail, JoinLeave, JoinScan,
     JoinAdd, JoinPick, JoinPass, keepJoin
<1>4. CASE ToolsUser
  BY <1>4 DEF ToolsUser, EnterTools, ToolsList, ToolsLogs, ToolsOpenAdd, ToolsAdd, ToolsConfirm,
     ToolsSend, ToolsButton, ToolsNoteOk, ToolsSplit, ToolsBack, toolsRest
<1>5. CASE UploadTicks
  BY <1>5 DEF UploadTicks, UploadTickFirst, UploadTickRetry, CapMark, CapDisarm
<1>6. CASE JoinTicks \/ ToolsTicks
  BY <1>6 DEF JoinTicks, JoinEnds, JoinTick, keepJoin, ToolsTicks, PumpGate, PumpSend, PumpBarrier,
     PumpObserve, toolsRest
<1>7. CASE Time
  BY <1>7 DEF Time, CapTime, JoinAge, JoinHunt, ToolsRipe, keepJoin, toolsRest
<1> QED BY <1>1, <1>2, <1>3, <1>4, <1>5, <1>6, <1>7

\* The card holds no name twice, whatever is sent and deleted.
DirOnce == Once(board.dir)

\* Every step keeps it so: a sidecar is added where there was none.
LEMMA DirNext ==
  ASSUME AllFine, DirOnce, Next
  PROVE  DirOnce'
<1>0. board \in UploadBoard BY DEF AllFine
<1>1. CASE UploadFile
  <2>1. PICK how \in DOMAIN FileLines :
             /\ (how = "skipped") = HasSidecar(Head(board.left))
             /\ board' = [board EXCEPT !.left = Tail(@),
                                       !.dir = IF how = "sent"
                                               THEN Append(@, Sidecar(Head(board.left))) ELSE @]
    BY <1>1 DEF UploadFile
  <2>2. CASE how # "sent"
    <3>1. board'.dir = board.dir BY <1>0, <2>1, <2>2 DEF UploadBoard
    <3> QED BY <3>1 DEF DirOnce
  <2>3. CASE how = "sent"
    <3>1. PICK x, h : x = Sidecar(Head(board.left)) /\ h = board.dir OBVIOUS
    <3>2. board'.dir = Append(h, x) BY <1>0, <2>1, <2>3, <3>1 DEF UploadBoard
    <3>3. h \in Seq(Entry) /\ Once(h) BY <1>0, <3>1 DEF UploadBoard, DirOnce
    <3>4. \A i \in DOMAIN h : h[i] # x
      <4>1. ~HasSidecar(Head(board.left)) BY <2>1, <2>3
      <4> QED BY <3>1, <4>1 DEF HasSidecar
    <3>5. PICK e : e = Append(h, x) OBVIOUS
    <3>6. /\ DOMAIN h = 1..Len(h) /\ Len(h) \in Nat /\ DOMAIN e = 1..(Len(h) + 1)
          /\ \A i \in 1..Len(h) : e[i] = h[i]
          /\ e[Len(h) + 1] = x
      BY <3>3, <3>5
    <3>7. \A i \in DOMAIN e : i \in 1..Len(h) \/ i = Len(h) + 1 BY <3>6
    <3>8. \A i, j \in 1..Len(h) : h[i] = h[j] => i = j BY <3>3, <3>6 DEF Once
    <3>9. Once(e) BY <3>4, <3>6, <3>7, <3>8 DEF Once
    <3> QED BY <3>2, <3>5, <3>9 DEF DirOnce
  <2> QED BY <2>2, <2>3
<1>2. CASE UploadNoKey \/ UploadComplete
  <2>1. board'.dir = board.dir BY <1>0, <1>2 DEF UploadNoKey, UploadComplete, UploadBoard
  <2> QED BY <2>1 DEF DirOnce
<1>3. CASE Read
  <2>1. CASE \E set : board' = [board EXCEPT !.dir = Among(board.dir, set)]
    <3>1. PICK set : board' = [board EXCEPT !.dir = Among(board.dir, set)] BY <2>1
    <3>2. board'.dir = Among(board.dir, set) BY <1>0, <3>1 DEF UploadBoard
    <3>3. Once(Among(board.dir, set)) BY <1>0, AmongOnce DEF DirOnce, UploadBoard
    <3> QED BY <3>2, <3>3 DEF DirOnce
  <2>2. CASE board'.dir = board.dir BY <2>2 DEF DirOnce
  <2>3. CASE ReadUpload
    <3>1. board'.dir = board.dir BY <1>0, <2>3 DEF ReadUpload, UploadBoard
    <3> QED BY <2>2, <3>1
  <2>4. CASE \E x : ReadRm(x) BY <2>1, <2>2, <2>4 DEF ReadRm
  <2>5. CASE ReadRmAll BY <2>1, <2>2, <2>5 DEF ReadRmAll
  <2>6. CASE UNCHANGED board BY <2>2, <2>6
  <2> QED BY <1>3, <2>3, <2>4, <2>5, <2>6 DEF Read, ReadUploads, ReadJoins, ReadTools, ReadLs,
           ReadChannel, BoardBusy, ReadIgnList, ReadIgnAdd, ReadIgnRm, ReadIgnClear, ReadSplit
<1>4. CASE UNCHANGED board BY <1>4 DEF DirOnce
<1> QED BY <1>1, <1>2, <1>3, <1>4, BoardStays DEF Next, BoardStep

\* Two flights that say the same, also of themselves.
Same(u, v) == Alike(u, v) /\ v.flight = u.flight /\ v.face = u.face /\ v.done = u.done

\* A step that changes neither what the board says nor what the flight says.
LEMMA VerdictKeeps ==
  ASSUME VerdictFine, UNCHANGED <<rx, board>>, Same(up, up'), Unhurried' => Unhurried,
         Unhurried' => (Pending' <=> Pending)
  PROVE  VerdictFine'
<1>1. SUFFICES ASSUME Unhurried' PROVE (Judged /\ (up.flight => InFlight))'
  BY DEF VerdictFine
<1>2. Judged /\ (up.flight => InFlight) BY <1>1 DEF VerdictFine
<1>3. Pending' <=> Pending BY <1>1
<1>4. Judged' BY <1>2 DEF Judged, RanToEnd, Went, Same, Alike
<1>5. \A S, K, F : /\ Walk(up, S, K, F) => Walk(up', S, K, F)
                   /\ Trying(up, S, K, F) => Trying(up', S, K, F)
                   /\ Untold(up) => Untold(up')
  BY AlikeTells DEF Same
<1>6. \A d : (Told(up, d) => Told(up', d)) /\ (Tried(up, d) => Tried(up', d))
  BY <1>5 DEF Told, Tried
<1>7. up'.done = up.done /\ \A f : Past(f)' = Past(f) BY DEF Past, Same
<1>8. \A ks : Hears(ks)' <=> Hears(ks) BY DEF Hears, WardFrom
<1>9. \A S, K : Worded(up, S, K) => Worded(up', S, K) BY DEF Same, Alike, Worded
<1>10. ASSUME NEW f, FileStage(f) PROVE FileStage(f)'
  <2>1. Opening(f) => Opening(f)' BY <1>6, <1>7, <1>8 DEF Opening, Told
  <2>2. Before(f) => Before(f)'
    BY <1>5, <1>6, <1>7, <1>8 DEF Before, Told, Untold, Same, Alike
  <2>3. Again(f) => Again(f)' BY <1>6, <1>7, <1>8, <1>9 DEF Again, Tried
  <2>4. Skipping(f) => Skipping(f)' BY <1>6, <1>7, <1>8 DEF Skipping, Tried, Same, Alike
  <2>5. Sure(f) => Sure(f)' BY <1>6, <1>7, <1>8 DEF Sure, Told, Same, Alike
  <2> QED BY <1>7, <1>10, <2>1, <2>2, <2>3, <2>4, <2>5 DEF FileStage
<1>11. Walking => Walking' BY <1>6, <1>7, <1>8, <1>10 DEF Walking, Told
<1>12. up'.flight => InFlight'
  BY <1>2, <1>3, <1>6, <1>7, <1>8, <1>11 DEF InFlight, Told, Same
<1> QED BY <1>4, <1>12

\* A step that leaves the line, and puts no upload in the slot.
LEMMA VerdictFrame ==
  ASSUME VerdictFine, UNCHANGED <<tx, rx, board>>, Same(up, up'), Unhurried' => Unhurried,
         slot' = slot \/ (Free /\ slot'.c # "upload")
  PROVE  VerdictFine'
<1>1. Pending' <=> Pending BY DEF Pending, Free, NoCmd, Cmd
<1> QED BY <1>1, VerdictKeeps

\* Nothing is heard of a file yet.
LEMMA FreshTells ==
  ASSUME NEW u \in Flight, u.done = [f \in LogNames |-> "-"],
         ~u.succeeded, ~u.ok, ~u.skip, ~u.fail, u.failName = NoName, ~u.fileOk, ~u.fileFail,
         u.nOk = 0, u.nFail = 0
  PROVE  Told(u, u.done)
<1>1. By(u.done, "sent") = {} /\ By(u.done, "skipped") = {} /\ By(u.done, "failed") = {}
  BY DEF By
<1>2. IsFiniteSet({}) /\ Cardinality({}) = 0 /\ {} \cup {} \cup {} = {} BY FS_EmptySet
<1>3. Walk(u, {}, {}, {}) BY <1>2 DEF Walk, Worded
<1> QED BY <1>1, <1>3 DEF Told

\* mau_clear_flight: the fields of a flight nothing is known of.
LEMMA ClearIs ==
  ASSUME NEW u \in Flight
  PROVE  LET v == ClearFlight(u)
         IN  /\ v \in Flight /\ v.done = [f \in LogNames |-> "-"]
             /\ ~v.succeeded /\ ~v.ok /\ ~v.skip /\ ~v.fail /\ v.failName = NoName
             /\ ~v.fileOk /\ ~v.fileFail /\ v.nOk = 0 /\ v.nFail = 0
             /\ v.face = "Idle" /\ ~v.flight
<1>1. ClearFlight(u) \in Flight BY FlightTypes
<1> QED BY <1>1 DEF ClearFlight, Flight

\* An upload is asked for when nothing is on its way.
LEMMA VerdictGo ==
  ASSUME AllFine, VerdictFine, Quiet, board.job = "idle", TryGo, UNCHANGED <<tx, rx, board>>
  PROVE  VerdictFine'
<1>1. Free /\ tx = <<>> /\ rx = <<>> BY DEF Quiet
<1>2. slot' = Cmd("upload") /\ up' = OnSend(up) BY <1>1 DEF TryGo, Send
<1>3. up \in Flight BY DEF AllFine
<1>4. PICK c \in Flight : c = ClearFlight(up) BY <1>3, ClearIs
<1>5. /\ c.done = [f \in LogNames |-> "-"] /\ ~c.succeeded /\ ~c.ok /\ ~c.skip
      /\ ~c.fail /\ c.failName = NoName /\ ~c.fileOk /\ ~c.fileFail /\ c.nOk = 0 /\ c.nFail = 0
  BY <1>3, <1>4, ClearIs
<1>6. up' = [c EXCEPT !.flight = TRUE, !.face = "Sending"] BY <1>2, <1>4 DEF OnSend
<1>7. up' \in Flight BY <1>2, <1>3, FlightTypes
<1>8. /\ up'.flight /\ up'.done = c.done /\ up'.succeeded = c.succeeded /\ up'.ok = c.ok
      /\ up'.skip = c.skip /\ up'.fail = c.fail /\ up'.failName = c.failName
      /\ up'.fileOk = c.fileOk /\ up'.fileFail = c.fileFail
      /\ up'.nOk = c.nOk /\ up'.nFail = c.nFail
  BY <1>6 DEF Flight
<1>9. Told(up', up'.done) BY <1>5, <1>7, <1>8, FreshTells
<1>10. Pending' BY <1>2 DEF Pending, Cmd
<1>11. Hears(<<>>)' BY <1>1 DEF Hears, WardFrom
<1>12. \A f \in LogNames : up'.done[f] = "-" BY <1>5, <1>8
<1>13. Judged' BY <1>8 DEF Judged, RanToEnd
<1> QED BY <1>9, <1>10, <1>11, <1>12, <1>13 DEF VerdictFine, InFlight, Told

\* The Upload screen opens, from the menu or from Join.
LEMMA VerdictEntered ==
  ASSUME AllFine, VerdictFine, UploadEntered, UNCHANGED <<tx, rx, board>>,
         Unhurried' => Unhurried
  PROVE  VerdictFine'
<1>1. up \in Flight BY DEF AllFine
<1>2. slot' = slot \/ (Free /\ slot'.c # "upload") BY DEF UploadEntered, Send, Cmd
<1>3. CASE up.flight
  <2>1. up' = up BY <1>3 DEF UploadEntered
  <2>2. Same(up, up') BY <2>1 DEF Same, Alike
  <2> QED BY <1>2, <2>2, VerdictFrame
<1>4. CASE ~up.flight
  <2>1. up' = ClearFlight(up) BY <1>4 DEF UploadEntered
  <2>2. ~up'.flight /\ up'.face = "Idle" BY <1>1, <2>1, ClearIs
  <2> QED BY <2>2 DEF VerdictFine, Judged, RanToEnd, FailFace
<1> QED BY <1>3, <1>4

\* A key of Board tools does not make the user less hasty.
LEMMA ToolsUnhurried ==
  ASSUME AllFine, ToolsUser
  PROVE  Unhurried' => Unhurried
<1>1. CASE Ask("tools", NoneAwaited) BY <1>1, AskUnhurried
<1>2. CASE UNCHANGED tally BY <1>2 DEF tally, Unhurried
<1>3. CASE ToolsBack
  <2> DEFINE b == ghost.rushed \/ tl.wait # "None"
  <2>1. ghost \in [rushed : BOOLEAN, lost : BOOLEAN] BY DEF AllFine, LinkFine
  <2>2. ghost' = [ghost EXCEPT !.rushed = b] BY <1>3 DEF ToolsBack
  <2>3. ghost'.rushed = b /\ ghost'.lost = ghost.lost
    <3> HIDE DEF b
    <3> QED BY <2>1, <2>2
  <2> QED BY <2>3 DEF Unhurried
<1> QED BY <1>1, <1>2, <1>3 DEF ToolsUser, EnterTools, ToolsList, ToolsLogs, ToolsOpenAdd,
       ToolsAdd, ToolsConfirm, ToolsSend, ToolsButton, ToolsNoteOk, ToolsSplit

\* Every key the user presses.
LEMMA VerdictUser ==
  ASSUME AllFine, FlightInv, VerdictFine, UploadUser \/ JoinUser \/ ToolsUser
  PROVE  VerdictFine'
<1>0. Same(up, up) BY DEF Same, Alike
<1>1. CASE UploadUser
  <2>1. CASE EnterUpload
    <3>1. Unhurried' => Unhurried BY <2>1, AskUnhurried DEF EnterUpload, tally, Unhurried
    <3> QED BY <2>1, <3>1, VerdictEntered DEF EnterUpload
  <2>2. CASE UploadBack \/ UploadHelp
    <3>1. UNCHANGED <<slot, tx, rx, board, up>> /\ Unhurried' = Unhurried
      BY <2>2 DEF UploadBack, UploadHelp, link, tally, Unhurried
    <3> QED BY <1>0, <3>1, VerdictFrame
  <2>3. CASE UploadLogs(JoinBusy)
    <3>1. Unhurried' => Unhurried BY <2>3, AskUnhurried DEF UploadLogs
    <3>2. UNCHANGED <<tx, rx, board, up>> BY <2>3 DEF UploadLogs
    <3>3. slot' = slot \/ (Free /\ slot'.c # "upload") BY <2>3 DEF UploadLogs, Send, Cmd
    <3> QED BY <1>0, <3>1, <3>2, <3>3, VerdictFrame
  <2>4. CASE UploadGo
    <3>1. Unhurried' => Unhurried /\ Answered BY <2>4, AskUnhurried DEF UploadGo
    <3>2. UNCHANGED <<tx, rx, board>> BY <2>4 DEF UploadGo
    <3>3. CASE ~Unhurried' BY <3>3 DEF VerdictFine
    <3>4. CASE Unhurried' /\ TryGo
      BY <3>1, <3>2, <3>4, VerdictGo DEF Answered
    <3>5. CASE UNCHANGED <<slot, up>> BY <1>0, <3>1, <3>2, <3>5, VerdictFrame
    <3> QED BY <2>4, <3>3, <3>4, <3>5 DEF UploadGo
  <2> QED BY <1>1, <2>1, <2>2, <2>3, <2>4 DEF UploadUser
<1>2. CASE JoinUser
  <2>1. CASE JoinLeave
    <3>1. Unhurried' = Unhurried /\ UNCHANGED <<tx, rx, board>> /\ UploadEntered
      BY <2>1 DEF JoinLeave, tally, Unhurried
    <3> QED BY <3>1, VerdictEntered
  <2>2. CASE EnterJoin
    <3>1. Unhurried' => Unhurried BY <2>2, AskUnhurried DEF EnterJoin
    <3> QED BY <1>0, <2>2, <3>1, VerdictFrame DEF EnterJoin
  <2>3. CASE JoinBackStop
    <3>1. Unhurried' => Unhurried BY <2>3, AskUnhurried DEF JoinBackStop, tally, Unhurried
    <3> QED BY <1>0, <2>3, <3>1, VerdictFrame DEF JoinBackStop, keepJoin
  <2>4. CASE JoinBackPass \/ JoinBackFail \/ JoinPick
    <3>1. Unhurried' = Unhurried /\ UNCHANGED <<slot, tx, rx, board, up>>
      BY <2>4 DEF JoinBackPass, JoinBackFail, JoinPick, keepJoin, tally, Unhurried
    <3> QED BY <1>0, <3>1, VerdictFrame
  <2>5. CASE JoinScan \/ JoinAdd \/ JoinPass
    <3>1. Ask("join", Answered) /\ UNCHANGED <<slot, tx, rx, board, up>>
      BY <2>5 DEF JoinScan, JoinAdd, JoinPass, keepJoin
    <3>2. Unhurried' => Unhurried BY <3>1, AskUnhurried
    <3> QED BY <1>0, <3>1, <3>2, VerdictFrame
  <2> QED BY <1>2, <2>1, <2>2, <2>3, <2>4, <2>5 DEF JoinUser
<1>3. CASE ToolsUser
  <2>1. UNCHANGED <<slot, tx, rx, board, up>>
    BY <1>3 DEF ToolsUser, EnterTools, ToolsList, ToolsLogs, ToolsOpenAdd, ToolsAdd, ToolsConfirm,
       ToolsSend, ToolsButton, ToolsNoteOk, ToolsSplit, ToolsBack, toolsRest
  <2>2. Unhurried' => Unhurried BY <1>3, ToolsUnhurried
  <2> QED BY <1>0, <2>1, <2>2, VerdictFrame
<1> QED BY <1>1, <1>2, <1>3

\* The ticks of every screen, and time passing.
LEMMA VerdictTicks ==
  ASSUME AllFine, FlightInv, VerdictFine, UploadTicks \/ JoinTicks \/ ToolsTicks \/ Time
  PROVE  VerdictFine'
<1>0. Same(up, up) /\ up \in Flight BY DEF Same, Alike, AllFine
<1>u. Unhurried' = Unhurried
  BY DEF UploadTicks, JoinTicks, ToolsTicks, Time, UploadTickFirst, UploadTickRetry, CapMark,
     CapDisarm, JoinEnds, JoinTick, Tick, PumpGate, PumpSend, PumpBarrier, PumpObserve, CapTime,
     JoinAge, JoinHunt, ToolsRipe, tally, Unhurried
<1>1. CASE UploadTickFirst
  <2>1. UNCHANGED <<tx, rx, board, up>> BY <1>1 DEF UploadTickFirst
  <2>2. slot' = slot \/ (Free /\ slot'.c # "upload") BY <1>1 DEF UploadTickFirst, Send, Cmd
  <2> QED BY <1>0, <1>u, <2>1, <2>2, VerdictFrame
<1>2. CASE UploadTickRetry
  <2>1. CASE ~Unhurried' BY <2>1 DEF VerdictFine
  <2>2. CASE Unhurried BY <1>2, <2>2 DEF FlightInv, UploadTickRetry
  <2> QED BY <1>u, <2>1, <2>2
<1>3. CASE CapMark \/ CapDisarm \/ CapTime
  BY <1>0, <1>3, <1>u, VerdictFrame DEF CapMark, CapDisarm, CapTime, link
<1>4. CASE JoinEnds \/ JoinAge \/ JoinHunt
  BY <1>0, <1>4, <1>u, VerdictFrame DEF JoinEnds, JoinAge, JoinHunt, keepJoin
<1>5. CASE JoinTick
  <2>1. UNCHANGED <<tx, rx, board>> BY <1>5 DEF JoinTick, Tick, keepJoin
  <2>2. slot' = slot \/ (Free /\ slot'.c # "upload")
    <3>1. jn \in JoinScreen BY DEF AllFine, JoinFine
    <3> QED BY <1>5, <3>1, PendType DEF JoinTick, Tick
  <2>3. Same(up, up')
    <3>1. up' = up \/ up' = [up EXCEPT !.joined = jn.cursor.x] BY <1>5 DEF JoinTick, JoinedStep
    <3> QED BY <1>0, <3>1 DEF Flight, Same, Alike
  <2> QED BY <1>u, <2>1, <2>2, <2>3, VerdictFrame
<1>6. CASE ToolsTicks \/ ToolsRipe
  <2>1. tl.cmd.c # "upload" BY DEF AllFine, ToolFine, ToolScreen, ToolWord
  <2>2. UNCHANGED <<tx, rx, board, up>> /\ (slot' = slot \/ (Free /\ slot' = tl.cmd))
    BY <1>6 DEF ToolsTicks, PumpGate, PumpSend, PumpBarrier, PumpObserve, ToolsRipe, toolsRest
  <2> QED BY <1>0, <1>u, <2>1, <2>2, VerdictFrame
<1> QED BY <1>1, <1>2, <1>3, <1>4, <1>5, <1>6 DEF UploadTicks, JoinTicks, Time

\* The worker writes what is in the slot.
LEMMA VerdictWrite == ASSUME AllFine, FlightInv, VerdictFine, Write PROVE VerdictFine'
<1>1. /\ slot # NoCmd /\ tx' = Append(tx, slot) /\ slot' = NoCmd
      /\ UNCHANGED <<rx, ghost, up, board>> /\ tx \in Seq(Command)
  BY DEF Write, WriteSlot, Free, tally, uploadVars, AllFine, LinkFine
<1>2. slot'.c # "upload" BY <1>1 DEF NoCmd, Cmd
<1>3. /\ tx' # <<>>
      /\ tx = <<>> => tx'[1] = slot
      /\ tx # <<>> => tx'[1] = tx[1]
  BY <1>1
<1>4. Unhurried' = Unhurried BY <1>1 DEF Unhurried
<1>5. Unhurried => (Pending' <=> Pending)
  <2> SUFFICES ASSUME Unhurried PROVE Pending' <=> Pending
    OBVIOUS
  <2>1. slot.c = "upload" => tx = <<>> BY DEF FlightInv
  <2> QED BY <1>2, <1>3, <2>1 DEF Pending
<1>6. Same(up, up') BY <1>1 DEF Same, Alike
<1> QED BY <1>1, <1>4, <1>5, <1>6, VerdictKeeps

\* What is to come is still to come when the board tells of its own scan.
LEMMA WardStage ==
  ASSUME rx \in Seq(Spoken), rx' \in Seq(Spoken), up' = up, \A i \in DOMAIN rx : rx'[i] = rx[i],
         up \in Flight, \A ks \in Seq(LineKind) : Hears(ks) => Hears(ks)', NEW f \in LogNames,
         FileStage(f)
  PROVE  FileStage(f)'
<1>0. up.done[f] \in {"sent", "skipped", "failed", "silent"} BY DEF FileStage, Flight, Outcome
<1>1. Past(f)' = Past(f) BY DEF Past
<1>k. /\ <<"succeeded", "uploadOk">> \in Seq(LineKind) /\ <<"uploadOk">> \in Seq(LineKind)
      /\ <<"failed">> \in Seq(LineKind) /\ "uploading" \in LineKind
  BY DEF LineKind
<1>2. CASE Opening(f)
  <2>1. PICK ks \in ToTell[up.done[f]] : Hears(<<"uploading">> \o ks) BY <1>2 DEF Opening
  <2>2. ks \in Seq(LineKind) BY <1>0, ToTellType
  <2>3. <<"uploading">> \o ks \in Seq(LineKind) /\ <<"uploading">> \o ks # <<>>
    BY <1>k, <2>2
  <2>4. Hears(<<"uploading">> \o ks)' BY <2>1, <2>3
  <2>5. rx'[1] = rx[1]
    <3>1. rx # <<>> BY <2>1, <2>3, HearsFirst
    <3> QED BY <3>1
  <2>6. Opening(f)' BY <1>1, <1>2, <2>1, <2>4, <2>5 DEF Opening, Told
  <2> QED BY <2>6 DEF FileStage
<1>3. CASE Before(f)
  <2>1. PICK ks \in ToTell[up.done[f]] : Hears(ks) BY <1>3 DEF Before
  <2>2. ks \in Seq(LineKind) BY <1>0, ToTellType
  <2>3. Hears(ks)' BY <2>1, <2>2
  <2>4. Before(f)' BY <1>1, <1>3, <2>1, <2>3 DEF Before, Told, Untold
  <2> QED BY <2>4 DEF FileStage
<1>4. CASE Again(f)
  <2>1. Again(f)' BY <1>1, <1>4, <1>k DEF Again, Tried
  <2> QED BY <1>4, <2>1 DEF FileStage
<1>5. CASE Skipping(f)
  <2>1. Skipping(f)' BY <1>1, <1>5, <1>k DEF Skipping, Tried
  <2> QED BY <1>5, <2>1 DEF FileStage
<1>6. CASE Sure(f)
  <2>1. Sure(f)' BY <1>6, <1>k DEF Sure, Told
  <2> QED BY <1>6, <2>1 DEF FileStage
<1> QED BY <1>2, <1>3, <1>4, <1>5, <1>6 DEF FileStage

\* The board starts or stops a scan of its own.
LEMMA VerdictWard == ASSUME AllFine, VerdictFine, BoardWard PROVE VerdictFine'
<1>1. /\ UNCHANGED <<slot, tx, up, board>> /\ Unhurried' = Unhurried
      /\ Say(<<Line(IF keep.ward THEN "stopped" ELSE "started")>>)
      /\ rx \in Seq(Spoken) /\ up \in Flight
  BY DEF BoardWard, uploadVars, Unhurried, AllFine, LinkFine
<1>2. PICK line \in Spoken : line.k \in {"started", "stopped"} /\ rx' = Append(rx, line)
  <2>1. Line("stopped") \in Spoken /\ Line("started") \in Spoken BY LineType DEF LineKind
  <2>2. PICK line : line = Line(IF keep.ward THEN "stopped" ELSE "started") OBVIOUS
  <2>3. line \in Spoken /\ line.k \in {"started", "stopped"} BY <2>1, <2>2 DEF Line
  <2>4. rx' = rx \o <<line>> BY <1>1, <2>2 DEF Say
  <2> QED BY <1>1, <2>3, <2>4
<1>3. rx' \in Seq(Spoken) /\ (\A i \in DOMAIN rx : rx'[i] = rx[i]) /\ rx' # <<>>
  BY <1>1, <1>2
<1>4. \A ks \in Seq(LineKind) : Hears(ks) => Hears(ks)' BY <1>1, <1>2, HearsWard
<1>5. SUFFICES ASSUME Unhurried' PROVE (Judged /\ (up.flight => InFlight))'
  BY DEF VerdictFine
<1>6. Judged /\ (up.flight => InFlight) BY <1>1, <1>5 DEF VerdictFine
<1>7. Pending' <=> Pending BY <1>1 DEF Pending
<1>8. Judged' BY <1>1, <1>6 DEF Judged, RanToEnd, Went
<1>9. \A f \in LogNames : FileStage(f) => FileStage(f)' BY <1>1, <1>3, <1>4, WardStage
<1>k. /\ <<>> \in Seq(LineKind) /\ <<"connected">> \in Seq(LineKind)
      /\ <<"uploading", "noKey", "failed">> \in Seq(LineKind)
      /\ <<"noKey", "failed">> \in Seq(LineKind)
  BY DEF LineKind
<1>10. Walking => Walking'
  <2>1. /\ Hears(<<>>) => Hears(<<>>)'
        /\ Hears(<<"connected">>) => Hears(<<"connected">>)'
        /\ Hears(<<"uploading", "noKey", "failed">>) => Hears(<<"uploading", "noKey", "failed">>)'
        /\ Hears(<<"noKey", "failed">>) => Hears(<<"noKey", "failed">>)'
    BY <1>4, <1>k
  <2> QED BY <1>1, <1>9, <2>1 DEF Walking, Told
<1>11. ASSUME up.flight PROVE InFlight'
  <2>1. Pending => (Hears(<<>>) /\ Told(up, up.done) /\ \A f \in LogNames : up.done[f] = "-")'
    BY <1>1, <1>4, <1>6, <1>11, <1>k DEF InFlight, Told
  <2>2. ~Pending /\ board.job = "idle" =>
          (rx # <<>> /\ (rx[1].k \in DOMAIN EarlyEnd
                         \/ (rx[1].k = "complete" /\ Told(up, up.done))))'
    <3> SUFFICES ASSUME ~Pending, board.job = "idle"
                 PROVE (rx # <<>> /\ (rx[1].k \in DOMAIN EarlyEnd
                                      \/ (rx[1].k = "complete" /\ Told(up, up.done))))'
      OBVIOUS
    <3>1. rx # <<>> /\ (rx[1].k \in DOMAIN EarlyEnd \/ (rx[1].k = "complete" /\ Told(up, up.done)))
      BY <1>6, <1>11 DEF InFlight
    <3>2. rx'[1] = rx[1] BY <1>1, <1>3, <3>1
    <3> QED BY <1>1, <1>3, <3>1, <3>2 DEF Told
  <2> QED BY <1>1, <1>6, <1>7, <1>10, <1>11, <2>1, <2>2 DEF InFlight
<1> QED BY <1>1, <1>8, <1>11

\* The lines the board prints of a file tell how it went.
LEMMA FileTells ==
  ASSUME NEW how \in DOMAIN FileLines, NEW lines \in FileLines[how]
  PROVE  \E ks \in ToTell[how] :
           Len(ks) = Len(lines) /\ \A i \in DOMAIN lines : lines[i].k = ks[i]
<1>0. how \in {"sent", "skipped", "failed", "silent"} BY FileLinesType
<1>k. \A k : Line(k).k = k BY DEF Line
<1>t. /\ FileLines["sent"] = {<<Line("succeeded"), Line("uploadOk")>>,
               <<Line("failed"), Line("succeeded"), Line("uploadOk")>>,
               <<Line("noReply"), Line("succeeded"), Line("uploadOk")>>}
      /\ FileLines["skipped"] = {<<Line("skipped"), Line("uploadOk")>>}
      /\ FileLines["failed"] =
           {<<Line("failed")>>} \cup {<<Line(why), Line("failed")>> : why \in Causes}
      /\ FileLines["silent"] = {<<>>}
      /\ ToTell["sent"] = {<<"succeeded", "uploadOk">>, <<"failed", "succeeded", "uploadOk">>,
             <<"noReply", "succeeded", "uploadOk">>}
      /\ ToTell["skipped"] = {<<"skipped", "uploadOk">>}
      /\ ToTell["failed"] = {<<"failed">>} \cup {<<why, "failed">> : why \in Causes}
      /\ ToTell["silent"] = {<<>>}
  BY DEF FileLines, ToTell
<1>1. ASSUME NEW a, lines = <<Line(a)>>, <<a>> \in ToTell[how]
      PROVE  \E ks \in ToTell[how] :
               Len(ks) = Len(lines) /\ \A i \in DOMAIN lines : lines[i].k = ks[i]
  BY <1>1, <1>k
<1>2. ASSUME NEW a, NEW b, lines = <<Line(a), Line(b)>>, <<a, b>> \in ToTell[how]
      PROVE  \E ks \in ToTell[how] :
               Len(ks) = Len(lines) /\ \A i \in DOMAIN lines : lines[i].k = ks[i]
  BY <1>2, <1>k
<1>3. ASSUME NEW a, NEW b, NEW c, lines = <<Line(a), Line(b), Line(c)>>, <<a, b, c>> \in ToTell[how]
      PROVE  \E ks \in ToTell[how] :
               Len(ks) = Len(lines) /\ \A i \in DOMAIN lines : lines[i].k = ks[i]
  BY <1>3, <1>k
<1>4. CASE how = "sent"
  <2>1. CASE lines = <<Line("succeeded"), Line("uploadOk")>> BY <1>2, <1>4, <1>t, <2>1
  <2>2. CASE lines = <<Line("failed"), Line("succeeded"), Line("uploadOk")>>
    BY <1>3, <1>4, <1>t, <2>2
  <2>3. CASE lines = <<Line("noReply"), Line("succeeded"), Line("uploadOk")>>
    BY <1>3, <1>4, <1>t, <2>3
  <2> QED BY <1>4, <1>t, <2>1, <2>2, <2>3
<1>5. CASE how = "skipped" BY <1>2, <1>5, <1>t
<1>6. CASE how = "failed"
  <2>1. CASE lines = <<Line("failed")>> BY <1>1, <1>6, <1>t, <2>1
  <2>2. CASE \E why \in Causes : lines = <<Line(why), Line("failed")>>
    <3>1. PICK why \in Causes : lines = <<Line(why), Line("failed")>> BY <2>2
    <3>2. <<why, "failed">> \in ToTell[how] BY <1>6, <1>t
    <3> QED BY <1>2, <3>1, <3>2
  <2> QED BY <1>6, <1>t, <2>1, <2>2
<1>7. CASE how = "silent"
  <2>1. lines = <<>> /\ <<>> \in ToTell[how] BY <1>7, <1>t
  <2> QED BY <2>1
<1> QED BY <1>0, <1>4, <1>5, <1>6, <1>7

\* With nothing under way the board has told all it did.
LEMMA NothingHeard ==
  ASSUME rx = <<>>, Walking, board.job # "idle", up \in Flight
  PROVE  /\ Told(up, up.done) /\ Once(board.left)
         /\ \A i \in DOMAIN board.left : up.done[board.left[i]] = "-"
<1>1. \A ks \in Seq(LineKind) : Hears(ks) => ks = <<>> BY DEF Hears
<1>k. /\ <<"connected">> \in Seq(LineKind) /\ <<"connected">> # <<>>
      /\ <<"uploading", "noKey", "failed">> \in Seq(LineKind)
      /\ <<"uploading", "noKey", "failed">> # <<>>
      /\ <<"noKey", "failed">> \in Seq(LineKind) /\ <<"noKey", "failed">> # <<>>
      /\ <<"succeeded", "uploadOk">> \in Seq(LineKind) /\ <<"succeeded", "uploadOk">> # <<>>
      /\ <<"uploadOk">> \in Seq(LineKind) /\ <<"uploadOk">> # <<>>
      /\ <<"failed">> \in Seq(LineKind) /\ <<"failed">> # <<>> /\ "uploading" \in LineKind
  BY DEF LineKind
<1>2. \A f \in LogNames : ~FileStage(f)
  <2> SUFFICES ASSUME NEW f \in LogNames, FileStage(f) PROVE FALSE
    OBVIOUS
  <2>0. up.done[f] \in {"sent", "skipped", "failed", "silent"} BY DEF FileStage, Flight, Outcome
  <2>1. ~Opening(f)
    <3>1. ASSUME NEW ks \in ToTell[up.done[f]], Hears(<<"uploading">> \o ks) PROVE FALSE
      <4>1. ks \in Seq(LineKind) BY <2>0, <3>1, ToTellType
      <4>2. <<"uploading">> \o ks \in Seq(LineKind) /\ <<"uploading">> \o ks # <<>>
        BY <1>k, <4>1
      <4> QED BY <1>1, <3>1, <4>2
    <3> QED BY <3>1 DEF Opening
  <2>2. ~Before(f)
    <3>1. ASSUME NEW ks \in ToTell[up.done[f]], Hears(ks), up.done[f] # "silent" PROVE FALSE
      <4>1. ks \in Seq(LineKind) /\ ks # <<>> BY <2>0, <3>1, ToTellType
      <4> QED BY <1>1, <3>1, <4>1
    <3> QED BY <3>1 DEF Before
  <2>3. ~Again(f) /\ ~Skipping(f) /\ ~Sure(f) BY <1>1, <1>k DEF Again, Skipping, Sure
  <2> QED BY <2>1, <2>2, <2>3 DEF FileStage
<1> QED BY <1>1, <1>2, <1>k DEF Walking

\* A sequence without repetitions without its head.
LEMMA TailOnce ==
  ASSUME NEW S, NEW s \in Seq(S), s # <<>>, Once(s)
  PROVE  /\ Once(Tail(s)) /\ Head(s) \in S /\ Tail(s) \in Seq(S)
         /\ \A i \in DOMAIN Tail(s) :
              Tail(s)[i] # Head(s) /\ i + 1 \in DOMAIN s /\ Tail(s)[i] = s[i + 1]
<1>1. PICK t : t = Tail(s) OBVIOUS
<1>2. /\ DOMAIN s = 1..Len(s) /\ Len(s) \in Nat /\ Len(s) > 0 /\ DOMAIN t = 1..(Len(s) - 1)
      /\ \A i \in 1..(Len(s) - 1) : t[i] = s[i + 1]
      /\ Head(s) = s[1] /\ t \in Seq(S) /\ Head(s) \in S
  BY <1>1
<1>3. \A i \in 1..(Len(s) - 1) : i + 1 \in 1..Len(s) /\ i + 1 # 1 /\ 1 \in 1..Len(s) BY <1>2
<1>4. \A i \in DOMAIN t : t[i] # s[1] BY <1>2, <1>3 DEF Once
<1>5. Once(t)
  <2> SUFFICES ASSUME NEW i \in DOMAIN t, NEW j \in DOMAIN t, t[i] = t[j] PROVE i = j
    BY DEF Once
  <2>1. s[i + 1] = s[j + 1] /\ i + 1 \in DOMAIN s /\ j + 1 \in DOMAIN s BY <1>2, <1>3
  <2>2. i + 1 = j + 1 BY <2>1 DEF Once
  <2> QED BY <1>2, <2>2
<1> QED BY <1>1, <1>2, <1>3, <1>4, <1>5

\* The board walks a file.
LEMMA VerdictFile == ASSUME AllFine, FlightInv, VerdictFine, UploadFile PROVE VerdictFine'
<1>1. /\ up \in Flight /\ board \in UploadBoard /\ rx = <<>> /\ board.job = "upload"
      /\ board.left # <<>> /\ board.left \in Seq(LogNames)
      /\ UNCHANGED <<slot, tx>> /\ Unhurried' = Unhurried
  BY DEF UploadFile, tally, Unhurried, AllFine, UploadBoard
<1>2. SUFFICES ASSUME Unhurried' PROVE (Judged /\ (up.flight => InFlight))'
  BY DEF VerdictFine
<1>3. up.flight /\ ~Pending /\ InFlight BY <1>1, <1>2 DEF FlightInv, VerdictFine
<1>4. /\ Told(up, up.done) /\ Once(board.left)
      /\ \A i \in DOMAIN board.left : up.done[board.left[i]] = "-"
  BY <1>1, <1>3, NothingHeard DEF InFlight
<1>5. PICK f : f = Head(board.left) OBVIOUS
<1>6. PICK how \in DOMAIN FileLines :
        /\ \E lines \in FileLines[how] : Say(<<LineOf("uploading", 0, f)>> \o lines)
        /\ board' = [board EXCEPT !.left = Tail(@),
                                  !.dir = IF how = "sent" THEN Append(@, Sidecar(f)) ELSE @]
        /\ up' = [up EXCEPT !.done[f] = how]
  BY <1>1, <1>5 DEF UploadFile
<1>7. board'.left = Tail(board.left) /\ board'.job = "upload" BY <1>1, <1>6 DEF UploadBoard
<1>8. /\ Once(board'.left) /\ f \in LogNames
      /\ \A i \in DOMAIN board'.left : /\ board'.left[i] # f
                                       /\ i + 1 \in DOMAIN board.left
                                       /\ board'.left[i] = board.left[i + 1]
  BY <1>1, <1>4, <1>5, <1>7, TailOnce
<1>9. up.done[f] = "-"
  <2>1. 1 \in DOMAIN board.left /\ f = board.left[1] BY <1>1, <1>5
  <2> QED BY <1>4, <2>1
<1>10. how \in {"sent", "skipped", "failed", "silent"} BY FileLinesType
<1>11. /\ up'.done = [up.done EXCEPT ![f] = how] /\ Alike(up, up') /\ up'.flight
       /\ up.done \in [LogNames -> Outcome]
  <2>1. up' = [up EXCEPT !.done = [up.done EXCEPT ![f] = how]] BY <1>6
  <2> QED BY <1>1, <1>3, <2>1 DEF Flight, Alike
<1>12. up'.done[f] = how /\ Past(f)' = up.done
  <2>1. up'.done[f] = how BY <1>8, <1>11
  <2>2. [up'.done EXCEPT ![f] = "-"] = up.done BY <1>8, <1>9, <1>11
  <2> QED BY <2>1, <2>2 DEF Past
<1>13. Told(up', up.done) BY <1>4, <1>11, AlikeTells DEF Told
<1>14. PICK lines \in FileLines[how] : rx' = <<LineOf("uploading", 0, f)>> \o lines
  BY <1>1, <1>6 DEF Say
<1>15. PICK ks \in ToTell[how] : Len(ks) = Len(lines) /\ \A i \in DOMAIN lines : lines[i].k = ks[i]
  BY <1>14, FileTells
<1>16. /\ ks \in Seq(LineKind) /\ lines \in Seq(Spoken) BY <1>10, <1>15, ToTellType, FileLinesType
<1>17. PICK line \in Spoken : line = LineOf("uploading", 0, f) /\ line.k = "uploading" /\ line.x = f
  BY <1>8, LineOfType DEF LineOf
<1>18. Hears(<<"uploading">> \o ks)' /\ rx'[1] = line
  <2> DEFINE said == <<line>> \o lines
             told == <<"uploading">> \o ks
  <2>1. "uploading" \in LineKind BY DEF LineKind
  <2>2. /\ said \in Seq(Spoken) /\ told \in Seq(LineKind) /\ Len(told) = Len(said)
        /\ DOMAIN said = 1..(1 + Len(lines)) /\ said[1] = line /\ told[1] = "uploading"
        /\ \A i \in 2..(1 + Len(lines)) :
             said[i] = lines[i - 1] /\ told[i] = ks[i - 1] /\ i - 1 \in DOMAIN lines
        /\ Len(lines) \in Nat
    BY <1>15, <1>16, <1>17, <2>1
  <2>3. rx' = said BY <1>14, <1>17
  <2> HIDE DEF said, told
  <2>4. \A i \in 1..(1 + Len(lines)) : i = 1 \/ i \in 2..(1 + Len(lines)) BY <2>2
  <2>5. \A i \in DOMAIN said : said[i].k = told[i] BY <1>15, <1>17, <2>2, <2>4
  <2>6. Hears(told)' BY <2>2, <2>3, <2>5, HearsSaid
  <2> QED BY <2>2, <2>3, <2>6 DEF told
<1>19. Opening(f)' BY <1>12, <1>13, <1>15, <1>17, <1>18 DEF Opening, Told
<1>20. FileStage(f)' BY <1>10, <1>12, <1>19 DEF FileStage
<1>21. \A i \in DOMAIN board'.left : up'.done[board'.left[i]] = "-"
  <2> SUFFICES ASSUME NEW i \in DOMAIN board'.left PROVE up'.done[board'.left[i]] = "-"
    OBVIOUS
  <2>1. board'.left[i] # f /\ up.done[board'.left[i]] = "-" BY <1>4, <1>8
  <2>2. board'.left[i] \in LogNames
    <3>1. board'.left \in Seq(LogNames) BY <1>1, <1>7
    <3> QED BY <3>1
  <2> QED BY <1>11, <2>1, <2>2
<1>22. Walking' BY <1>7, <1>8, <1>20, <1>21 DEF Walking
<1>23. ~Pending' BY <1>1, <1>3 DEF Pending
<1> QED BY <1>7, <1>11, <1>22, <1>23 DEF InFlight, Judged, RanToEnd

\* The board without a key refuses a file.
LEMMA VerdictNoKey == ASSUME AllFine, FlightInv, VerdictFine, UploadNoKey PROVE VerdictFine'
<1>1. /\ up \in Flight /\ board \in UploadBoard /\ rx = <<>> /\ board.job = "noKey"
      /\ board.left # <<>> /\ board.left \in Seq(LogNames)
      /\ UNCHANGED <<slot, tx, up>> /\ Unhurried' = Unhurried
  BY DEF UploadNoKey, tally, uploadVars, Unhurried, AllFine, UploadBoard
<1>2. SUFFICES ASSUME Unhurried' PROVE (Judged /\ (up.flight => InFlight))'
  BY DEF VerdictFine
<1>3. Judged' BY <1>1, <1>2 DEF VerdictFine, Judged, RanToEnd, Went
<1>4. ASSUME up.flight PROVE InFlight'
  <2>1. ~Pending /\ InFlight BY <1>1, <1>2, <1>4 DEF FlightInv, VerdictFine
  <2>2. /\ Told(up, up.done) /\ Once(board.left)
        /\ \A i \in DOMAIN board.left : up.done[board.left[i]] = "-"
    BY <1>1, <2>1, NothingHeard DEF InFlight
  <2>3. board'.left = Tail(board.left) /\ board'.job = "noKey"
    BY <1>1 DEF UploadNoKey, UploadBoard
  <2>4. /\ Once(board'.left)
        /\ \A i \in DOMAIN board'.left : /\ i + 1 \in DOMAIN board.left
                                         /\ board'.left[i] = board.left[i + 1]
    BY <1>1, <2>2, <2>3, TailOnce
  <2>5. Hears(<<"uploading", "noKey", "failed">>)'
    <3>1. PICK f \in LogNames : f = Head(board.left) BY <1>1
    <3>2. rx' = <<LineOf("uploading", 0, f), Line("noKey"), Line("failed")>>
      BY <1>1, <3>1 DEF UploadNoKey, Say
    <3>3. /\ LineOf("uploading", 0, f) \in Spoken /\ Line("noKey") \in Spoken
          /\ Line("failed") \in Spoken
      BY LineType, LineOfType DEF LineKind
    <3>4. {"uploading", "noKey", "failed"} \subseteq LineKind BY DEF LineKind
    <3>5. PICK a \in Spoken, b \in Spoken, c \in Spoken :
            rx' = <<a, b, c>> /\ a.k = "uploading" /\ b.k = "noKey" /\ c.k = "failed"
      BY <3>2, <3>3 DEF Line, LineOf
    <3> DEFINE said == <<a, b, c>>
               told == <<"uploading", "noKey", "failed">>
    <3>6. /\ said \in Seq(Spoken) /\ told \in Seq(LineKind) /\ Len(told) = Len(said)
          /\ \A i \in DOMAIN said : said[i].k = told[i]
          /\ rx' = said
      BY <3>4, <3>5
    <3> HIDE DEF said
    <3>7. Hears(told)' BY <3>6, HearsSaid
    <3> QED BY <3>7
  <2>6. Walking' BY <1>1, <2>2, <2>3, <2>4, <2>5 DEF Walking
  <2>7. ~Pending' BY <1>1, <2>1 DEF Pending
  <2> QED BY <2>3, <2>6, <2>7 DEF InFlight
<1> QED BY <1>1, <1>3, <1>4

\* The board has walked its card.
LEMMA VerdictComplete == ASSUME AllFine, FlightInv, VerdictFine, UploadComplete PROVE VerdictFine'
<1>1. /\ up \in Flight /\ board \in UploadBoard /\ rx = <<>> /\ board.job # "idle"
      /\ UNCHANGED <<slot, tx, up>> /\ Unhurried' = Unhurried
  BY DEF UploadComplete, tally, uploadVars, Unhurried, AllFine
<1>2. SUFFICES ASSUME Unhurried' PROVE (Judged /\ (up.flight => InFlight))'
  BY DEF VerdictFine
<1>3. Judged' BY <1>1, <1>2 DEF VerdictFine, Judged, RanToEnd, Went
<1>4. ASSUME up.flight PROVE InFlight'
  <2>1. ~Pending /\ InFlight BY <1>1, <1>2, <1>4 DEF FlightInv, VerdictFine
  <2>2. Told(up, up.done) BY <1>1, <2>1, NothingHeard DEF InFlight
  <2>3. board'.job = "idle" BY <1>1 DEF UploadComplete, UploadBoard
  <2>4. rx' = <<Line("complete")>> BY <1>1 DEF UploadComplete, Say
  <2>5. rx' # <<>> /\ rx'[1].k = "complete" BY <2>4 DEF Line
  <2>6. ~Pending' BY <1>1, <2>1 DEF Pending
  <2> QED BY <1>1, <2>2, <2>3, <2>5, <2>6 DEF InFlight, Told
<1> QED BY <1>1, <1>3, <1>4

\* The board reads its next command: the upload itself, if one is asked for.
LEMMA VerdictRead == ASSUME AllFine, FlightInv, DirOnce, VerdictFine, Read PROVE VerdictFine'
<1>0. /\ tx # <<>> /\ rx = <<>> /\ board.job = "idle" /\ tx' = Tail(tx)
      /\ UNCHANGED <<slot, up>> /\ Unhurried' = Unhurried
      /\ tx \in Seq(Command) /\ board \in UploadBoard /\ up \in Flight
  BY DEF Read, uploadVars, AllFine, LinkFine, Unhurried
<1>1. /\ Head(tx) = tx[1]
      /\ \A i \in DOMAIN tx' : i + 1 \in DOMAIN tx /\ tx'[i] = tx[i + 1] /\ i + 1 > 1
  BY <1>0
<1>2. SUFFICES ASSUME Unhurried' PROVE (Judged /\ (up.flight => InFlight))'
  BY DEF VerdictFine
<1>3. Judged' BY <1>0, <1>2 DEF VerdictFine, Judged, RanToEnd, Went
<1>4. ASSUME up.flight PROVE InFlight'
  <2>1. InFlight BY <1>0, <1>2, <1>4 DEF VerdictFine
  <2>2. Pending BY <1>0, <2>1 DEF InFlight
  <2>3. Told(up, up.done) /\ \A f \in LogNames : up.done[f] = "-" BY <2>1, <2>2 DEF InFlight
  <2>4. slot.c # "upload" /\ tx[1].c = "upload" BY <1>0, <1>2, <2>2 DEF FlightInv, Pending
  <2>5. ~Pending'
    <3>1. \A i \in DOMAIN tx' : tx'[i].c # "upload" BY <1>0, <1>1, <1>2 DEF FlightInv
    <3>2. tx' # <<>> => 1 \in DOMAIN tx' BY <1>0
    <3> QED BY <1>0, <2>4, <3>1, <3>2 DEF Pending
  <2>6. ReadUpload BY <1>1, <2>4 DEF Read, ReadUploads, ReadJoins, ReadTools
  <2>7. CASE UNCHANGED board
    <3>1. PICK bad \in {<<Line("noCreds")>>, <<Line("unsupported")>>,
                        <<Line("unreached"), Line("unreached")>>} : Say(bad)
      BY <1>0, <2>6, <2>7 DEF ReadUpload, UploadBoard
    <3>2. rx' = bad BY <1>0, <3>1 DEF Say
    <3>3. rx' # <<>> /\ rx'[1].k \in DOMAIN EarlyEnd BY <3>1, <3>2 DEF Line, EarlyEnd
    <3> QED BY <1>0, <2>5, <2>7, <3>3 DEF InFlight
  <2>8. CASE \E s \in Ssids : Say(<<LineOf("connected", 0, s)>>) /\ \E job \in {"upload", "noKey"} :
                               board' = [board EXCEPT !.job = job, !.left = Files]
    <3>1. PICK s \in Ssids : rx' = <<LineOf("connected", 0, s)>>
      BY <1>0, <2>8 DEF Say
    <3>2. board'.job \in {"upload", "noKey"} /\ board'.left = Files
      BY <1>0, <2>8 DEF UploadBoard
    <3>3. Once(Files) /\ Files \in Seq(LogNames) BY <1>0, FilesOnce, FilesType DEF DirOnce
    <3>4. \A i \in DOMAIN board'.left : up'.done[board'.left[i]] = "-"
      <4>1. \A i \in DOMAIN board'.left : board'.left[i] \in LogNames
        <5>1. board'.left \in Seq(LogNames) BY <3>2, <3>3
        <5> QED BY <5>1
      <4> QED BY <1>0, <2>3, <4>1
    <3>5. Hears(<<"connected">>)'
      <4>1. PICK line \in Spoken : line.k = "connected" /\ rx' = <<line>>
        BY <3>1, LineOfType DEF LineOf
      <4>2. "connected" \in LineKind BY DEF LineKind
      <4>3. /\ <<line>> \in Seq(Spoken) /\ <<"connected">> \in Seq(LineKind)
            /\ Len(<<"connected">>) = Len(<<line>>)
            /\ \A i \in DOMAIN <<line>> : <<line>>[i].k = <<"connected">>[i]
        BY <4>1, <4>2
      <4> QED BY <4>1, <4>3, HearsSaid
    <3>6. Walking' BY <1>0, <2>3, <3>2, <3>3, <3>4, <3>5 DEF Walking, Told
    <3> QED BY <2>5, <3>2, <3>6 DEF InFlight
  <2> QED BY <2>6, <2>7, <2>8 DEF ReadUpload
<1> QED BY <1>0, <1>3, <1>4

\* Every step keeps what is known of the verdict.
LEMMA VerdictNext ==
  AllFine /\ FlightInv /\ DirOnce /\ VerdictFine /\ [Next]_vars => DirOnce' /\ VerdictFine'
<1> SUFFICES ASSUME AllFine, FlightInv, DirOnce, VerdictFine, [Next]_vars
             PROVE  DirOnce' /\ VerdictFine'
  OBVIOUS
<1>1. CASE Lose
  <2>1. ghost' = [ghost EXCEPT !.lost = TRUE] /\ ghost \in [rushed : BOOLEAN, lost : BOOLEAN]
    BY <1>1 DEF Lose, LoseLine, AllFine, LinkFine
  <2>2. DirOnce' BY <1>1, DirNext DEF Next
  <2> QED BY <2>1, <2>2 DEF VerdictFine, Unhurried
<1>2. CASE UNCHANGED vars
  <2>1. UNCHANGED <<slot, tx, rx, board, up, ghost>> BY <1>2 DEF vars, link, uploadVars
  <2>2. Same(up, up') BY <2>1 DEF Same, Alike
  <2>3. VerdictFine' BY <2>1, <2>2, VerdictFrame DEF Unhurried
  <2> QED BY <2>1, <2>3 DEF DirOnce
<1>3. CASE Next /\ ~Lose
  <2>1. DirOnce' BY <1>3, DirNext
  <2>2. VerdictFine'
    BY <1>3, VerdictWrite, VerdictApply, VerdictUser, VerdictTicks, VerdictRead, VerdictFile,
       VerdictNoKey, VerdictComplete, VerdictWard DEF Next, BoardStep
  <2> QED BY <2>1, <2>2
<1> QED BY <1>1, <1>2, <1>3

\* What the screen says of an upload that ran to its end is what happened to
\* the files: it failed if one did and it names one of those, it says sent only
\* if one was and none failed, it says already sent only if none was sent and
\* one was passed over, and the counts miss none, however often a file was
\* tried and whatever the board's own menu said in between (sr_mau_up_feed,
\* mau_close_file, mau_keep_ok, mau_keep_fail, mau_finish_complete), for a user
\* who waits for every answer and as long as no line is lost.
THEOREM VerdictIsTrue == Spec => []VerdictTrue
<1>1. Init => FlightInv /\ DirOnce /\ VerdictFine
  <2> SUFFICES ASSUME Init PROVE FlightInv /\ DirOnce /\ VerdictFine
    OBVIOUS
  <2>1. /\ pg.retry = FALSE /\ board.job = "idle" /\ slot = NoCmd /\ tx = <<>>
        /\ board.dir = play.card /\ play \in Plays /\ up.face = "Idle" /\ ~up.flight
    BY DEF Init, LinkInit, UploadInit
  <2>2. FlightInv BY <2>1 DEF FlightInv, Pending, NoCmd, Cmd
  <2>3. DirOnce
    <3>1. \A p \in Plays : \A i, j \in DOMAIN p.card : p.card[i] = p.card[j] => i = j
      BY UploadAssumption
    <3> QED BY <2>1, <3>1 DEF DirOnce, Once
  <2>4. VerdictFine BY <2>1 DEF VerdictFine, Judged, RanToEnd, FailFace
  <2> QED BY <2>2, <2>3, <2>4
<1>2. VerdictFine => VerdictTrue BY DEF VerdictFine, Judged, VerdictTrue
<1> QED BY InitFine, NextFine, <1>1, <1>2, FlightNext, VerdictNext, PTL DEF Spec

-----------------------------------------------------------------------------
(* The join that is confirmed.  A join the user gave up may still be under *)
(* way when he comes to the next one: what keeps the two apart is that     *)
(* four commands go out in between, and that no more than three wait at a  *)
(* time.  Behind(n) says that n have gone out since a join did; Parted,    *)
(* how many by each phase of the screen.  From the join on its answer is   *)
(* yet to come (Expecting) or comes line by line (Answering).              *)

JoinWord == {"joinEcho", "using", "joinFail"}

\* No line under way is of an answer to a join.
NoneSaid == \A i \in DOMAIN rx : rx[i].k \notin JoinWord

\* No join waits at the board.
NoneAhead == \A i \in DOMAIN tx : tx[i].c # "join"

Waiting == Len(tx) + (IF Free THEN 0 ELSE 1)

\* A join was sent n commands ago or more: what waits is behind it, and its
\* answer is read before that.
Behind(n) ==
  /\ n > 0 => slot.c # "join"
  /\ \A i \in DOMAIN tx : tx[i].c = "join" => Waiting - i >= n
  /\ NoneSaid \/ Waiting >= n

Parted ==
  /\ jn.phase = "Stop1" /\ ~jn.need => Behind(1)
  /\ jn.phase = "Scan" => Behind(IF jn.need THEN 1 ELSE 2)
  /\ jn.phase = "List1" => Behind(IF jn.need THEN 2 ELSE 3)
  /\ jn.phase \in {"Stop2", "List2", "Pick", "Pass", "Verify"} => Behind(3)
  /\ jn.phase \in ScanPhase /\ jn.shown # {} => Behind(3)
  /\ jn.phase = "Verify" /\ ~jn.need => Behind(4)

\* The join of the network the user chose.
Chosen == CmdOf("join", jn.cursor.n, "-")

Unheard == ~li.joinEcho /\ li.essid = NoName /\ li.receipt = "Pending" /\ ~li.marked

\* The join is due, in the slot or at the board, and it is the only one.
Expecting ==
  /\ Unheard /\ NoneSaid
  /\ jn.pend.c = "join" => jn.pend = Chosen /\ slot.c # "join" /\ NoneAhead
  /\ slot.c = "join" => slot = Chosen /\ NoneAhead
  /\ \A i \in DOMAIN tx : tx[i].c = "join" =>
       tx[i] = Chosen /\ \A j \in DOMAIN tx : tx[j].c = "join" => j = i

\* The network named, or to be named, is the one the board is on.
Connected ==
  /\ li.essid # NoName => li.essid = radio.on
  /\ \A i \in DOMAIN rx : rx[i].k = "using" => rx[i].x = radio.on

\* The board has answered the join; its failure, if it failed, is heard or
\* still under way, and nothing of it when the echo behind it arrives.
Answering ==
  /\ jn.pend.c # "join" /\ slot.c # "join" /\ NoneAhead
  /\ li.joinEcho \/ (Unheard /\ rx # <<>> /\ rx[1] = LineOf("joinEcho", jn.cursor.n, "-"))
  /\ NoneSaid \/ \A i \in DOMAIN rx : rx[i].k # "chEcho"
  /\ li.marked => NoneSaid
  /\ \/ li.receipt = "Fail"
     \/ \E i \in DOMAIN rx : rx[i].k = "joinFail"
     \/ Connected
  /\ li.receipt = "Joined" => li.essid # NoName /\ li.essid = radio.on

ChoiceInv ==
  ~ghost.lost =>
    /\ Len(tx) <= MaxTx
    /\ Table(radio.aps)
    /\ jn.pend.c = "join" => jn.phase = "Join"
    /\ jn.need => jn.pend # NoCmd
    /\ Parted
    /\ jn.phase = "Join" => li.mode = "Join" /\ li.index = jn.cursor.n /\ (Expecting \/ Answering)

\* A step that keeps how far behind a join is keeps what the phases need.
LEMMA PartedKeeps ==
  ASSUME Parted, \A n \in 1..4 : Behind(n) => Behind(n)',
         jn'.phase = jn.phase, jn'.need = jn.need, jn'.shown = jn.shown
  PROVE  Parted'
<1>1. /\ Behind(1) => Behind(1)'
      /\ Behind(2) => Behind(2)'
      /\ Behind(3) => Behind(3)'
      /\ Behind(4) => Behind(4)'
  OBVIOUS
<1> QED BY <1>1 DEF Parted

\* What was sent longer ago was sent that long ago.
LEMMA BehindLess ==
  ASSUME tx \in Seq(Command), NEW n \in Nat, NEW m \in Nat, m <= n, Behind(n)
  PROVE  Behind(m)
<1>1. Waiting \in Nat /\ DOMAIN tx = 1..Len(tx) /\ Len(tx) \in Nat BY DEF Waiting
<1>2. \A i \in DOMAIN tx : i \in Nat BY <1>1
<1> QED BY <1>1, <1>2 DEF Behind

\* Another command may be sent meanwhile; sent to a free slot it is one more.
LEMMA BehindSends ==
  ASSUME tx \in Seq(Command), UNCHANGED <<tx, rx>>, NEW n \in Nat, Behind(n),
         slot' = slot \/ (Free /\ slot'.c # "join")
  PROVE  /\ Behind(n)'
         /\ Free /\ slot' # NoCmd /\ slot'.c # "join" => Behind(n + 1)'
<1>1. Waiting \in Nat /\ DOMAIN tx = 1..Len(tx) /\ Len(tx) \in Nat /\ Waiting' \in Nat
  BY DEF Waiting
<1>2. \A i \in DOMAIN tx : i \in Nat BY <1>1
<1>3. NoneSaid' = NoneSaid BY DEF NoneSaid
<1>4. Waiting' >= Waiting /\ (Free /\ slot' # NoCmd => Waiting' = Waiting + 1)
  BY <1>1 DEF Waiting, Free
<1>5. Behind(n)' BY <1>1, <1>2, <1>3, <1>4 DEF Behind
<1>6. ASSUME Free, slot' # NoCmd, slot'.c # "join" PROVE Behind(n + 1)'
  BY <1>1, <1>2, <1>3, <1>4, <1>6 DEF Behind
<1> QED BY <1>5, <1>6

\* A step of another screen, or of this one that sends no join.
LEMMA ChoiceKeeps ==
  ASSUME AllFine, ChoiceInv, ~ghost'.lost => ~ghost.lost,
         UNCHANGED <<tx, rx, radio>>, slot' = slot \/ (Free /\ slot'.c # "join"),
         jn'.phase = jn.phase, jn'.need = jn.need, jn'.shown = jn.shown, jn'.pend = jn.pend,
         jn'.cursor = jn.cursor, li' = li
  PROVE  ChoiceInv'
<1> SUFFICES ASSUME ~ghost'.lost PROVE ChoiceInv'
  BY DEF ChoiceInv
<1>1. tx \in Seq(Command) BY DEF AllFine, LinkFine
<1>2. \A n \in 1..4 : Behind(n) => Behind(n)'
  <2>1. ASSUME NEW n \in 1..4, Behind(n) PROVE Behind(n)'
    <3>1. n \in Nat OBVIOUS
    <3> QED BY <1>1, <2>1, <3>1, BehindSends
  <2> QED BY <2>1
<1>3. Parted' BY <1>2, PartedKeeps DEF ChoiceInv
<1>4. Chosen' = Chosen /\ Unheard' = Unheard /\ NoneSaid' = NoneSaid /\ NoneAhead' = NoneAhead
  BY DEF Chosen, Unheard, NoneSaid, NoneAhead
<1>5. slot'.c = "join" => slot' = slot OBVIOUS
<1>6. Expecting => Expecting' BY <1>4, <1>5 DEF Expecting
<1>7. Answering => Answering'
  <2>1. Connected' = Connected BY DEF Connected
  <2> QED BY <1>4, <1>5, <2>1 DEF Answering
<1> QED BY <1>3, <1>6, <1>7 DEF ChoiceInv, Table

\* A phase of the screen that has nothing to do with a join.
LEMMA ChoiceAway ==
  ASSUME ChoiceInv, ~ghost'.lost => ~ghost.lost, UNCHANGED <<tx, radio>>,
         jn'.phase \in {"Blocked", "Saved", "SavedList", "StopBack", "Fail", "Joined"}
           \/ (jn'.phase = "Stop1" /\ jn'.need /\ jn'.shown = {}),
         jn'.pend.c # "join", jn'.need => jn'.pend # NoCmd
  PROVE  ChoiceInv'
  BY DEF ChoiceInv, Parted, ScanPhase, Table

\* The other screens.
LEMMA ChoiceElse ==
  ASSUME AllFine, ChoiceInv,
         \/ UploadUser \/ ToolsUser \/ UploadTicks \/ ToolsTicks
         \/ CapTime /\ UNCHANGED rest
         \/ ToolsRipe
  PROVE  ChoiceInv'
<1>0. tl.cmd \in Command /\ tl.cmd.c # "join" /\ ghost \in [rushed : BOOLEAN, lost : BOOLEAN]
  BY DEF AllFine, LinkFine, ToolFine, ToolScreen, ToolWord
<1>a. ASSUME NEW screen, NEW inTime, Ask(screen, inTime) PROVE ghost'.lost = ghost.lost
  <2> DEFINE b == ghost.rushed \/ ~inTime
  <2>1. ghost' = [ghost EXCEPT !.rushed = b] BY <1>a DEF Ask
  <2> HIDE DEF b
  <2> QED BY <1>0, <2>1
<1>1. CASE UploadUser
  <2>1. UNCHANGED <<tx, rx, radio, jn, li>>
    BY <1>1 DEF UploadUser, EnterUpload, UploadBack, UploadHelp, UploadLogs, UploadGo, link, rest,
       joinVars
  <2>2. slot' = slot \/ (Free /\ slot'.c # "join")
    <3>1. EnterUpload => slot' = slot \/ (Free /\ slot' = Cmd("sigroam"))
      BY DEF EnterUpload, UploadEntered, Send
    <3>2. UploadLogs(JoinBusy) => slot' = slot \/ (Free /\ slot' = Cmd("ls"))
      BY DEF UploadLogs, Send
    <3>3. UploadGo => slot' = slot \/ (Free /\ slot' = Cmd("upload")) BY DEF UploadGo, TryGo, Send
    <3>4. UploadBack \/ UploadHelp => slot' = slot BY DEF UploadBack, UploadHelp, link
    <3> QED BY <1>1, <3>1, <3>2, <3>3, <3>4 DEF UploadUser, Cmd
  <2>3. ghost'.lost = ghost.lost
    BY <1>1, <1>a DEF UploadUser, EnterUpload, UploadBack, UploadHelp, UploadLogs, UploadGo, tally
  <2> QED BY <2>1, <2>2, <2>3, ChoiceKeeps
<1>2. CASE ToolsUser
  <2>1. UNCHANGED <<slot, tx, rx, radio, jn, li>>
    BY <1>2 DEF ToolsUser, EnterTools, ToolsList, ToolsLogs, ToolsOpenAdd, ToolsAdd, ToolsConfirm,
       ToolsSend, ToolsButton, ToolsNoteOk, ToolsSplit, ToolsBack, toolsRest, joinVars
  <2>2. ghost'.lost = ghost.lost
    <3>1. CASE Ask("tools", NoneAwaited) BY <3>1, <1>a
    <3>2. CASE UNCHANGED tally BY <3>2 DEF tally
    <3>3. CASE ToolsBack
      <4> DEFINE b == ghost.rushed \/ tl.wait # "None"
      <4>1. ghost' = [ghost EXCEPT !.rushed = b] BY <3>3 DEF ToolsBack
      <4> HIDE DEF b
      <4> QED BY <1>0, <4>1
    <3> QED BY <1>2, <3>1, <3>2, <3>3 DEF ToolsUser, EnterTools, ToolsList, ToolsLogs,
             ToolsOpenAdd, ToolsAdd, ToolsConfirm, ToolsSend, ToolsButton, ToolsNoteOk, ToolsSplit
  <2> QED BY <2>1, <2>2, ChoiceKeeps
<1>3. CASE UploadTicks \/ (CapTime /\ UNCHANGED rest)
  <2>1. UNCHANGED <<tx, rx, radio, jn, li, ghost>>
    BY <1>3 DEF UploadTicks, UploadTickFirst, UploadTickRetry, CapMark, CapDisarm, CapTime, link,
       rest, joinVars, tally
  <2>2. slot' = slot \/ (Free /\ slot'.c # "join")
    <3>1. \A c : Send(c) => slot' = slot \/ (Free /\ slot' = c) BY DEF Send
    <3> QED BY <1>3, <3>1 DEF UploadTicks, UploadTickFirst, UploadTickRetry, CapMark, CapDisarm,
             CapTime, TryGo, link, Cmd
  <2> QED BY <2>1, <2>2, ChoiceKeeps
<1>4. CASE ToolsTicks \/ ToolsRipe
  <2>1. /\ UNCHANGED <<tx, rx, radio, jn, li, ghost>>
        /\ slot' = slot \/ (Free /\ slot' = tl.cmd)
    BY <1>4 DEF ToolsTicks, PumpGate, PumpSend, PumpBarrier, PumpObserve, ToolsRipe, toolsRest,
       joinVars, tally
  <2> QED BY <1>0, <2>1, ChoiceKeeps
<1> QED BY <1>1, <1>2, <1>3, <1>4

\* The worker writes the slot: what waits is the same.
LEMMA ChoiceWrite == ASSUME AllFine, ChoiceInv, Write PROVE ChoiceInv'
<1> SUFFICES ASSUME ~ghost'.lost PROVE ChoiceInv'
  BY DEF ChoiceInv
<1>1. /\ slot # NoCmd /\ tx' = Append(tx, slot) /\ slot' = NoCmd /\ Len(tx) < MaxTx
      /\ UNCHANGED <<rx, ghost, jn, li, radio>> /\ tx \in Seq(Command) /\ slot \in Command
  BY DEF Write, WriteSlot, Free, tally, uploadVars, rest, joinVars, AllFine, LinkFine
<1>2. /\ DOMAIN tx' = 1..(Len(tx) + 1) /\ tx'[Len(tx) + 1] = slot /\ Len(tx) \in Nat
      /\ \A i \in 1..Len(tx) : tx'[i] = tx[i] /\ i \in DOMAIN tx
      /\ Len(tx') = Len(tx) + 1
  BY <1>1
<1>3. slot'.c # "join" /\ slot'.c = "none" BY <1>1 DEF NoCmd, Cmd
<1>4. Waiting' = Waiting /\ Waiting = Len(tx) + 1 BY <1>1, <1>2 DEF Waiting, Free
<1>5. NoneSaid' = NoneSaid BY <1>1 DEF NoneSaid
<1>6. ASSUME NEW i \in DOMAIN tx', tx'[i].c = "join"
      PROVE  \/ i \in DOMAIN tx /\ tx'[i] = tx[i]
             \/ i = Len(tx) + 1 /\ slot.c = "join" /\ tx'[i] = slot
  <2>1. i \in 1..Len(tx) \/ i = Len(tx) + 1 BY <1>2
  <2> QED BY <1>2, <1>6, <2>1
<1>7. \A n \in 1..4 : Behind(n) => Behind(n)'
  <2>1. ASSUME NEW n \in 1..4, Behind(n) PROVE Behind(n)'
    <3>1. slot.c # "join" BY <2>1 DEF Behind
    <3>2. \A i \in DOMAIN tx' : tx'[i].c = "join" => Waiting' - i >= n
      BY <1>4, <1>6, <2>1, <3>1 DEF Behind
    <3> QED BY <1>3, <1>4, <1>5, <2>1, <3>2 DEF Behind
  <2> QED BY <2>1
<1>8. Parted' BY <1>1, <1>7, PartedKeeps DEF ChoiceInv
<1>9. Chosen' = Chosen /\ Unheard' = Unheard BY <1>1 DEF Chosen, Unheard
<1>10. NoneAhead /\ slot.c # "join" => NoneAhead' BY <1>6 DEF NoneAhead
<1>11. Expecting => Expecting'
  <2> SUFFICES ASSUME Expecting PROVE Expecting'
    OBVIOUS
  <2>1. jn.pend.c = "join" => NoneAhead' /\ jn'.pend = Chosen' BY <1>1, <1>9, <1>10 DEF Expecting
  <2>2. ASSUME NEW i \in DOMAIN tx', tx'[i].c = "join"
        PROVE  tx'[i] = Chosen' /\ \A j \in DOMAIN tx' : tx'[j].c = "join" => j = i
    <3>1. CASE slot.c = "join"
      BY <1>6, <1>9, <2>2, <3>1 DEF Expecting, NoneAhead
    <3>2. CASE slot.c # "join"
      BY <1>6, <1>9, <2>2, <3>2 DEF Expecting
    <3> QED BY <3>1, <3>2
  <2> QED BY <1>1, <1>3, <1>5, <1>9, <2>1, <2>2 DEF Expecting
<1>12. Answering => Answering'
  <2>1. Connected' = Connected BY <1>1 DEF Connected
  <2> QED BY <1>1, <1>3, <1>5, <1>9, <1>10, <2>1 DEF Answering
<1>13. Len(tx') <= MaxTx BY <1>1, <1>2, PanelAssumption
<1> QED BY <1>1, <1>8, <1>11, <1>12, <1>13 DEF ChoiceInv, Table

\* The fields of the screen that is calmed or armed.
LEMMA ArmedIs ==
  ASSUME NEW j \in JoinScreen, NEW phase
  PROVE  /\ Calm(j, phase).phase = phase /\ ~Calm(j, phase).need
         /\ Calm(j, phase).pend = NoCmd /\ Calm(j, phase).shown = j.shown
         /\ Calm(j, phase).cursor = j.cursor
         /\ \A c : /\ Arm(j, phase, c).phase = phase /\ Arm(j, phase, c).need
                   /\ Arm(j, phase, c).pend = c /\ Arm(j, phase, c).shown = j.shown
                   /\ Arm(j, phase, c).cursor = j.cursor
  BY DEF Calm, Arm, JoinScreen

\* What the user does on the screen: a row is chosen from a list asked for
\* three commands after a join at least.
LEMMA ChoiceUser == ASSUME AllFine, ChoiceInv, JoinUser PROVE ChoiceInv'
<1>0. /\ jn \in JoinScreen /\ ghost \in [rushed : BOOLEAN, lost : BOOLEAN]
      /\ "wifi" # "join" /\ "stopscan" # "join"
  BY DEF AllFine, LinkFine, JoinFine
<1>a. ASSUME NEW screen, NEW inTime, Ask(screen, inTime) PROVE ghost'.lost = ghost.lost
  <2> DEFINE b == ghost.rushed \/ ~inTime
  <2>1. ghost' = [ghost EXCEPT !.rushed = b] BY <1>a DEF Ask
  <2> HIDE DEF b
  <2> QED BY <1>0, <2>1
<1>l. ghost'.lost = ghost.lost /\ UNCHANGED <<tx, radio>>
  BY <1>a DEF JoinUser, EnterJoin, JoinBackStop, JoinBackPass, JoinBackFail, JoinLeave, JoinScan,
     JoinAdd, JoinPick, JoinPass, keepJoin, tally
<1>c. \A c \in {"wifi", "stopscan", "list"} : Cmd(c).c # "join" /\ Cmd(c) # NoCmd
  BY DEF Cmd, NoCmd
<1>n. NoCmd.c # "join" BY DEF Cmd, NoCmd
<1>1. CASE EnterJoin
  <2>1. PICK j \in JoinScreen : jn' = Arm(j, "Saved", Cmd("wifi"))
    <3> DEFINE fresh == [jn EXCEPT !.queued = FALSE, !.sent = FALSE, !.shown = {},
                                   !.cursor = NoRow, !.saved = {}]
    <3>1. fresh \in JoinScreen BY <1>0 DEF JoinScreen
    <3>2. jn' = Arm(fresh, "Saved", Cmd("wifi")) BY <1>1 DEF EnterJoin
    <3> HIDE DEF fresh
    <3> QED BY <3>1, <3>2
  <2>2. jn'.phase = "Saved" /\ jn'.pend = Cmd("wifi")
    <3>1. /\ Arm(j, "Saved", Cmd("wifi")).phase = "Saved"
          /\ Arm(j, "Saved", Cmd("wifi")).pend = Cmd("wifi")
      BY DEF Arm, JoinScreen
    <3> QED BY <2>1, <3>1
  <2> QED BY <1>l, <1>c, <2>2, ChoiceAway
<1>2. CASE JoinBackStop
  <2> DEFINE A == Arm(jn, "StopBack", Cmd("stopscan"))
  <2>1. A \in JoinScreen /\ A.phase = "StopBack" /\ A.pend = Cmd("stopscan")
    BY <1>0, ArmTypes, ArmedIs DEF Phase
  <2>2. jn' = [A EXCEPT !.stopped = FALSE] BY <1>2 DEF JoinBackStop
  <2> HIDE DEF A
  <2>3. jn'.phase = "StopBack" /\ jn'.pend = Cmd("stopscan") BY <2>1, <2>2 DEF JoinScreen
  <2> QED BY <1>l, <1>c, <2>3, ChoiceAway
<1>3. CASE JoinBackFail
  <2>1. jn'.phase = "SavedList" /\ jn'.pend = NoCmd /\ ~jn'.need
    BY <1>0, <1>3, ArmedIs DEF JoinBackFail
  <2> QED BY <1>l, <1>n, <2>1, ChoiceAway
<1>4. CASE JoinLeave
  <2>1. jn'.phase \in {"SavedList", "Blocked", "Joined", "Saved"} /\ jn'.pend = NoCmd /\ ~jn'.need
    BY <1>0, <1>4 DEF JoinLeave, JoinScreen
  <2> QED BY <1>l, <1>n, <2>1, ChoiceAway
<1>5. CASE JoinScan
  <2> DEFINE A == Arm(jn, "Stop1", Cmd("stopscan"))
  <2>1. A \in JoinScreen /\ A.phase = "Stop1" /\ A.pend = Cmd("stopscan") /\ A.need
    BY <1>0, ArmTypes, ArmedIs DEF Phase
  <2>2. jn' = [A EXCEPT !.shown = {}, !.stopped = FALSE, !.hunt = "early"] BY <1>5 DEF JoinScan
  <2> HIDE DEF A
  <2>3. jn'.phase = "Stop1" /\ jn'.pend = Cmd("stopscan") /\ jn'.need /\ jn'.shown = {}
    BY <2>1, <2>2 DEF JoinScreen
  <2> QED BY <1>l, <1>c, <2>3, ChoiceAway
<1>6. CASE JoinAdd
  <2> DEFINE A == Arm(jn, "Saved", Cmd("wifi"))
  <2>1. A \in JoinScreen /\ A.phase = "Saved" /\ A.pend = Cmd("wifi")
    BY <1>0, ArmTypes, ArmedIs DEF Phase
  <2>2. jn' = [A EXCEPT !.shown = {}, !.cursor = NoRow] BY <1>6 DEF JoinAdd
  <2> HIDE DEF A
  <2>3. jn'.phase = "Saved" /\ jn'.pend = Cmd("wifi") BY <2>1, <2>2 DEF JoinScreen
  <2> QED BY <1>l, <1>c, <2>3, ChoiceAway
<1>7. CASE JoinBackPass \/ JoinPick \/ JoinPass
  <2> SUFFICES ASSUME ~ghost'.lost PROVE ChoiceInv'
    BY DEF ChoiceInv
  <2>1. UNCHANGED <<slot, tx, rx, radio>> /\ ~ghost.lost
    BY <1>7, <1>l DEF JoinBackPass, JoinPick, JoinPass, keepJoin
  <2>2. /\ jn'.phase \in {"Pick", "Pass"} \/ (jn'.phase = "Verify" /\ jn'.need)
        /\ jn'.pend.c # "join" /\ (jn'.need => jn'.pend # NoCmd)
    <3>1. CASE JoinBackPass \/ JoinPick
      <4>1. jn'.phase \in {"Pick", "Pass"} /\ jn'.pend = jn.pend /\ jn'.need = jn.need
        BY <1>0, <3>1 DEF JoinBackPass, JoinPick, JoinScreen
      <4>2. jn.phase # "Join" BY <3>1 DEF JoinBackPass, JoinPick, ScanPhase
      <4> QED BY <2>1, <4>1, <4>2 DEF ChoiceInv
    <3>2. CASE JoinPass
      <4>1. jn'.phase = "Verify" /\ jn'.need /\ jn'.pend = Cmd("list")
        BY <1>0, <3>2, ArmedIs DEF JoinPass
      <4> QED BY <1>c, <4>1
    <3> QED BY <1>7, <3>1, <3>2
  <2>3. Behind(3)
    <3>1. jn.phase = "Pass" \/ (jn.phase \in ScanPhase /\ jn.shown # {})
      BY <1>7 DEF JoinBackPass, JoinPick, JoinPass
    <3> QED BY <2>1, <3>1 DEF ChoiceInv, Parted
  <2>4. Behind(3)' BY <2>1, <2>3 DEF Behind, Waiting, Free, NoneSaid
  <2>5. Parted' BY <2>2, <2>4 DEF Parted
  <2> QED BY <2>1, <2>2, <2>5 DEF ChoiceInv, Table
<1> QED BY <1>1, <1>2, <1>3, <1>4, <1>5, <1>6, <1>7 DEF JoinUser

\* What a tick that sends what is due leaves behind a join.
LEMMA TickBehind ==
  ASSUME AllFine, ChoiceInv, ~ghost.lost, Tick, UNCHANGED <<tx, rx>>, jn.phase # "Join"
  PROVE  /\ jn.phase = "Stop1" => Behind(1)'
         /\ jn.phase = "Scan" => Behind(2)'
         /\ jn.phase = "List1" => Behind(2)'
         /\ jn.phase \in {"List1", "Stop2", "List2", "Verify"} => Behind(3)'
         /\ jn.phase = "Verify" => Behind(4)'
         /\ jn.phase \in ScanPhase /\ jn.shown # {} => Behind(3)'
<1>1. tx \in Seq(Command) /\ slot \in Command /\ jn.need \in BOOLEAN
  BY DEF AllFine, LinkFine, JoinFine, JoinScreen
<1>2. /\ jn.pend.c # "join" /\ (jn.need => jn.pend # NoCmd)
      /\ Parted
  BY DEF ChoiceInv
<1>3. /\ jn.need => Free /\ slot' = jn.pend
      /\ ~jn.need => slot' = slot
  BY DEF Tick
<1>4. slot' = slot \/ (Free /\ slot'.c # "join") BY <1>2, <1>3
<1>5. \A n \in Nat : Behind(n) => Behind(n)' /\ (jn.need => Behind(n + 1)')
  <2>1. ASSUME NEW n \in Nat, Behind(n) PROVE Behind(n)' /\ (jn.need => Behind(n + 1)')
    BY <1>1, <1>2, <1>3, <1>4, <2>1, BehindSends
  <2> QED BY <2>1
<1>6. /\ Behind(1) => Behind(1)' /\ (jn.need => Behind(2)')
      /\ Behind(2) => Behind(2)' /\ (jn.need => Behind(3)')
      /\ Behind(3) => Behind(3)' /\ (jn.need => Behind(4)')
      /\ Behind(4) => Behind(4)'
  <2>1. /\ Behind(1) => Behind(1)' /\ (jn.need => Behind(1 + 1)')
        /\ Behind(2) => Behind(2)' /\ (jn.need => Behind(2 + 1)')
        /\ Behind(3) => Behind(3)' /\ (jn.need => Behind(3 + 1)')
        /\ Behind(4) => Behind(4)'
    BY <1>5
  <2>2. 1 + 1 = 2 /\ 2 + 1 = 3 /\ 3 + 1 = 4 OBVIOUS
  <2> QED BY <2>1, <2>2
<1>7. jn.need => Behind(1)'
  <2>1. Waiting \in Nat /\ DOMAIN tx = 1..Len(tx) /\ Len(tx) \in Nat BY <1>1 DEF Waiting
  <2>2. jn.need => Waiting' = Len(tx) + 1 BY <1>2, <1>3, <2>1 DEF Waiting, Free
  <2>3. \A i \in DOMAIN tx : i \in Nat /\ i <= Len(tx) BY <2>1
  <2> QED BY <1>2, <1>3, <2>1, <2>2, <2>3 DEF Behind
<1>8. Behind(3) => Behind(2) BY <1>1, BehindLess
<1> QED BY <1>2, <1>6, <1>7, <1>8 DEF Parted, ScanPhase

\* What is due goes out: the join, and then the command behind it.
LEMMA JoinSends ==
  ASSUME UNCHANGED <<tx, rx, radio>>, slot' = IF jn.need THEN jn.pend ELSE slot,
         jn'.pend.c # "join", jn'.cursor = jn.cursor,
         li'.joinEcho = li.joinEcho, li'.essid = li.essid, li'.receipt = li.receipt,
         li'.marked = li.marked
  PROVE  (Expecting => Expecting') /\ (Answering => Answering')
<1>1. /\ Chosen' = Chosen /\ Unheard' = Unheard /\ NoneSaid' = NoneSaid /\ NoneAhead' = NoneAhead
      /\ Connected' = Connected
  BY DEF Chosen, Unheard, NoneSaid, NoneAhead, Connected
<1>2. Expecting => Expecting' BY <1>1 DEF Expecting
<1>3. Answering => Answering' BY <1>1 DEF Answering
<1> QED BY <1>2, <1>3

\* The tick: the join goes out when nothing is left of the one before it.
LEMMA ChoiceTick ==
  ASSUME AllFine, ChoiceInv, MaxTx <= 2, JoinTick
  PROVE  ChoiceInv'
<1> SUFFICES ASSUME ~ghost'.lost PROVE ChoiceInv'
  BY DEF ChoiceInv
<1>0. /\ Tick /\ UNCHANGED <<tx, rx, radio, ghost>> /\ ~ghost.lost
      /\ slot' = IF jn.need THEN jn.pend ELSE slot
  BY DEF JoinTick, Tick, keepJoin, tally
<1>1. jn \in JoinScreen /\ li \in Listener /\ tx \in Seq(Command)
  BY DEF AllFine, LinkFine, JoinFine
<1>2. PICK F \in JoinScreen :
        /\ F = Flushed /\ F.phase = jn.phase /\ F.cursor = jn.cursor /\ F.shown = jn.shown
        /\ ~F.need /\ F.pend = NoCmd
  <2> DEFINE f == [jn EXCEPT !.need = FALSE, !.pend = NoCmd]
  <2>1. /\ f \in JoinScreen /\ f.phase = jn.phase /\ f.cursor = jn.cursor /\ f.shown = jn.shown
        /\ ~f.need /\ f.pend = NoCmd
    BY <1>1 DEF JoinScreen
  <2>2. f = Flushed BY DEF Flushed
  <2> HIDE DEF f
  <2> QED BY <2>1, <2>2
<1>3. ChoiceInv /\ Len(tx') <= MaxTx /\ Table(radio'.aps) BY <1>0 DEF ChoiceInv
<1>c. /\ \A c \in {"stopscan", "scanall", "list", "channel"} : Cmd(c).c # "join" /\ Cmd(c) # NoCmd
      /\ NoCmd.c # "join"
  BY DEF Cmd, NoCmd
<1>4. CASE jn.phase = "Join"
  <2>1. CASE CheckStep \/ (jn' = Flushed /\ UNCHANGED li)
    <3>1. /\ jn'.phase = "Join" /\ jn'.cursor = jn.cursor /\ jn'.pend.c # "join"
          /\ jn'.need => jn'.pend # NoCmd
      <4>1. CASE jn' = [F EXCEPT !.queued = TRUE, !.need = TRUE, !.pend = Cmd("channel")]
        <5>1. jn'.phase = F.phase /\ jn'.cursor = F.cursor /\ jn'.pend = Cmd("channel")
          BY <4>1 DEF JoinScreen
        <5> QED BY <1>2, <1>4, <1>c, <5>1
      <4>2. CASE jn' = [F EXCEPT !.sent = TRUE] \/ jn' = F
        <5>1. /\ jn'.phase = F.phase /\ jn'.cursor = F.cursor /\ jn'.pend = F.pend
              /\ jn'.need = F.need
          BY <4>2 DEF JoinScreen
        <5> QED BY <1>2, <1>4, <1>c, <5>1
      <4> QED BY <1>2, <2>1, <4>1, <4>2 DEF CheckStep
    <3>2. /\ li'.mode = li.mode /\ li'.index = li.index /\ li'.joinEcho = li.joinEcho
          /\ li'.essid = li.essid /\ li'.receipt = li.receipt /\ li'.marked = li.marked
      BY <1>1, <2>1 DEF CheckStep, Listener
    <3>3. (Expecting => Expecting') /\ (Answering => Answering')
      BY <1>0, <3>1, <3>2, JoinSends
    <3>4. Parted' BY <3>1 DEF Parted, ScanPhase
    <3> QED BY <1>0, <1>3, <1>4, <3>1, <3>2, <3>3, <3>4 DEF ChoiceInv
  <2>2. CASE JoinedStep
    <3>1. PICK C \in JoinScreen : /\ C = Calm(F, "Joined") /\ C.phase = "Joined" /\ ~C.need
                                  /\ C.pend = NoCmd
      BY <1>2, ArmTypes, ArmedIs DEF Phase
    <3>2. \E names : jn' = [C EXCEPT !.saved = names]
      BY <1>2, <2>2, <3>1 DEF JoinedStep, Remembered
    <3>3. jn'.phase = "Joined" /\ jn'.pend = NoCmd /\ ~jn'.need BY <3>1, <3>2 DEF JoinScreen
    <3> QED BY <1>0, <1>c, <3>3, ChoiceAway
  <2> QED BY <1>4, <2>1, <2>2 DEF JoinTick, ScanStep, SavedStep, StopBackStep, VerifyStep
<1>5. CASE jn.phase # "Join"
  <2>0. /\ jn.phase = "Stop1" => Behind(1)'
        /\ jn.phase = "Scan" => Behind(2)'
        /\ jn.phase = "List1" => Behind(2)'
        /\ jn.phase \in {"List1", "Stop2", "List2", "Verify"} => Behind(3)'
        /\ jn.phase = "Verify" => Behind(4)'
        /\ jn.phase \in ScanPhase /\ jn.shown # {} => Behind(3)'
    BY <1>0, <1>3, <1>5, TickBehind
  <2>k. ASSUME Parted', jn'.pend.c # "join", jn'.need => jn'.pend # NoCmd, jn'.phase # "Join"
        PROVE  ChoiceInv'
    BY <1>3, <2>k DEF ChoiceInv
  <2>n. jn.phase \notin {"Pick", "Pass"} BY <1>0 DEF Tick, Still
  <2>1. CASE jn' = Flushed
    <3>1. jn'.phase = jn.phase /\ jn'.shown = jn.shown /\ ~jn'.need /\ jn'.pend = NoCmd
      BY <1>2, <2>1
    <3>2. Parted' BY <2>0, <2>n, <3>1 DEF Parted
    <3> QED BY <1>5, <1>c, <2>k, <3>1, <3>2
  <2>2. CASE SavedStep \/ StopBackStep
    <3>1. PICK C \in JoinScreen : /\ C = Calm(F, "SavedList") /\ C.phase = "SavedList" /\ ~C.need
                                  /\ C.pend = NoCmd
      BY <1>2, ArmTypes, ArmedIs DEF Phase
    <3>2. jn' = C \/ jn' = [C EXCEPT !.saved = li.saved]
      BY <1>2, <2>2, <3>1 DEF SavedStep, StopBackStep
    <3>3. jn'.phase = "SavedList" /\ jn'.pend = NoCmd /\ ~jn'.need BY <3>1, <3>2 DEF JoinScreen
    <3> QED BY <1>0, <1>c, <3>3, ChoiceAway
  <2>3. CASE ScanStep
    <3>1. CASE /\ jn.phase = "Stop1"
               /\ jn' = [Arm(Flushed, "Scan", Cmd("scanall")) EXCEPT !.hunt = "early"]
      <4>1. PICK A \in JoinScreen :
              /\ A = Arm(F, "Scan", Cmd("scanall")) /\ A.phase = "Scan" /\ A.need
              /\ A.pend = Cmd("scanall") /\ A.shown = F.shown
        BY <1>2, ArmTypes, ArmedIs DEF Phase
      <4>2. jn' = [A EXCEPT !.hunt = "early"] BY <1>2, <3>1, <4>1
      <4>3. jn'.phase = "Scan" /\ jn'.need /\ jn'.pend = Cmd("scanall") /\ jn'.shown = jn.shown
        BY <1>2, <4>1, <4>2 DEF JoinScreen
      <4>4. Parted' BY <2>0, <3>1, <4>3 DEF Parted, ScanPhase
      <4> QED BY <1>c, <2>k, <4>3, <4>4
    <3>2. CASE \/ jn.phase = "Scan" /\ jn' = Arm(Flushed, "List1", Cmd("list"))
               \/ jn.phase = "Stop2" /\ jn' = Arm(Flushed, "List2", Cmd("list"))
      <4>1. /\ \/ jn.phase = "Scan" /\ jn'.phase = "List1"
               \/ jn.phase = "Stop2" /\ jn'.phase = "List2"
            /\ jn'.need /\ jn'.pend = Cmd("list") /\ jn'.shown = jn.shown
        <5>1. \A p \in {"List1", "List2"} :
                /\ Arm(F, p, Cmd("list")).phase = p /\ Arm(F, p, Cmd("list")).need
                /\ Arm(F, p, Cmd("list")).pend = Cmd("list")
                /\ Arm(F, p, Cmd("list")).shown = F.shown
          BY DEF Arm, JoinScreen
        <5> QED BY <1>2, <3>2, <5>1
      <4>2. Parted' BY <2>0, <4>1 DEF Parted, ScanPhase
      <4> QED BY <1>c, <2>k, <4>1, <4>2
    <3>3. CASE /\ jn.phase = "List1"
               /\ \E seen \in {F, Published(F)} :
                    \/ jn' = Calm(seen, "Scan")
                    \/ jn' = [Arm(seen, "Stop2", Cmd("stopscan")) EXCEPT !.stopped = FALSE]
      <4>1. PICK seen \in {F, Published(F)} :
                    \/ jn' = Calm(seen, "Scan")
                    \/ jn' = [Arm(seen, "Stop2", Cmd("stopscan")) EXCEPT !.stopped = FALSE]
        BY <3>3, SMTT(30)
      <4>2. seen \in JoinScreen
        <5>1. li.rows \in SUBSET Row BY <1>1 DEF Listener
        <5> QED BY <4>1, <5>1, SetTypes DEF Published
      <4>3. PICK s \in JoinScreen : s = seen BY <4>2
      <4>4. PICK A \in JoinScreen :
              /\ A = Arm(s, "Stop2", Cmd("stopscan")) /\ A.phase = "Stop2" /\ A.need
              /\ A.pend = Cmd("stopscan")
        BY ArmTypes, ArmedIs DEF Phase
      <4>5. Calm(s, "Scan").phase = "Scan" /\ ~Calm(s, "Scan").need /\ Calm(s, "Scan").pend = NoCmd
        BY ArmedIs
      <4>6. \/ jn'.phase = "Scan" /\ ~jn'.need /\ jn'.pend = NoCmd
            \/ jn'.phase = "Stop2" /\ jn'.need /\ jn'.pend = Cmd("stopscan")
        <5>1. jn' = Calm(s, "Scan") \/ jn' = [A EXCEPT !.stopped = FALSE] BY <4>1, <4>3, <4>4
        <5> QED BY <4>4, <4>5, <5>1 DEF JoinScreen
      <4>7. Behind(2)' /\ Behind(3)' BY <2>0, <3>3
      <4>8. Parted' BY <4>6, <4>7 DEF Parted
      <4> QED BY <1>c, <2>k, <4>6, <4>8
    <3>4. CASE jn.phase = "List2" /\ jn' \in {Failed(F), Calm(F, "Pick"), Published(Calm(F, "Pick"))}
      <4>1. PICK C \in JoinScreen : /\ C = Calm(F, "Pick") /\ C.phase = "Pick" /\ ~C.need
                                    /\ C.pend = NoCmd
        BY <1>2, ArmTypes, ArmedIs DEF Phase
      <4>2. Calm(F, "Fail").phase = "Fail" /\ ~Calm(F, "Fail").need /\ Calm(F, "Fail").pend = NoCmd
        BY ArmedIs
      <4>3. jn' \in {Calm(F, "Fail"), C, [C EXCEPT !.shown = li.rows]}
        BY <1>2, <3>4, <4>1 DEF Failed, Published
      <4>4. jn'.phase \in {"Fail", "Pick"} /\ ~jn'.need /\ jn'.pend = NoCmd
        BY <4>1, <4>2, <4>3 DEF JoinScreen
      <4>5. Behind(3)' BY <2>0, <3>4
      <4>6. Parted' BY <4>4, <4>5 DEF Parted, ScanPhase
      <4> QED BY <1>c, <2>k, <4>4, <4>6
    <3> QED BY <1>2, <2>3, <3>1, <3>2, <3>3, <3>4, Zenon DEF ScanStep, StepTo, MayPublish
  <2>4. CASE VerifyStep
    <3>1. jn.phase = "Verify" /\ jn.cursor \in Row /\ Behind(4)' /\ Behind(3)'
      BY <2>0, <2>4 DEF VerifyStep, AllFine, JoinFine
    <3>2. CASE li.end /\ Matches(jn.cursor)
      <4>1. PICK A \in JoinScreen :
              /\ A = Arm(F, "Join", CmdOf("join", jn.cursor.n, "-")) /\ A.phase = "Join" /\ A.need
              /\ A.pend = CmdOf("join", jn.cursor.n, "-") /\ A.cursor = F.cursor
        <5>1. jn.cursor.n \in Indices BY <3>1 DEF Row
        <5> QED BY <1>2, <5>1, ArmTypes, ArmedIs DEF Phase
      <4>2. /\ jn' = [A EXCEPT !.queued = FALSE, !.sent = FALSE]
            /\ li' = [Listen("Join") EXCEPT !.index = jn.cursor.n]
        BY <1>2, <2>4, <3>2, <4>1 DEF VerifyStep
      <4>3. /\ jn'.phase = "Join" /\ jn'.need /\ jn'.cursor = jn.cursor /\ jn'.pend = Chosen
            /\ Chosen' = Chosen
        <5>1. jn'.phase = A.phase /\ jn'.need = A.need /\ jn'.cursor = A.cursor /\ jn'.pend = A.pend
          BY <4>1, <4>2 DEF JoinScreen
        <5> QED BY <1>2, <4>1, <5>1 DEF Chosen
      <4>4. /\ li'.mode = "Join" /\ li'.index = jn.cursor.n
            /\ Unheard'
        BY <4>2 DEF Listen, Unheard
      <4>5. slot'.c # "join" /\ NoneAhead' /\ NoneSaid'
        <5>1. /\ Waiting' = Len(tx') + (IF slot' = NoCmd THEN 0 ELSE 1) /\ Len(tx') \in Nat
              /\ DOMAIN tx' = 1..Len(tx') /\ MaxTx \in Nat
          BY <1>0, <1>1, PanelAssumption DEF Waiting, Free
        <5>2. Waiting' <= 3 /\ Waiting' \in Nat BY <1>3, <5>1
        <5>3. \A i \in DOMAIN tx' : i \in Nat /\ i >= 1 BY <5>1
        <5> QED BY <3>1, <5>2, <5>3 DEF Behind, NoneAhead
      <4>6. Expecting' BY <4>3, <4>4, <4>5 DEF Expecting, NoneAhead
      <4>7. Parted' BY <4>3 DEF Parted, ScanPhase
      <4>8. jn'.pend # NoCmd BY <4>3 DEF Chosen, CmdOf, NoCmd, Cmd
      <4> QED BY <1>3, <4>3, <4>4, <4>6, <4>7, <4>8 DEF ChoiceInv
    <3>3. CASE ~(li.end /\ Matches(jn.cursor))
      <4>1. jn' = Calm(F, "Fail") BY <1>2, <2>4, <3>3 DEF VerifyStep, Failed
      <4>2. jn'.phase = "Fail" /\ ~jn'.need /\ jn'.pend = NoCmd BY <4>1, ArmedIs
      <4> QED BY <1>0, <1>c, <4>2, ChoiceAway
    <3> QED BY <3>2, <3>3
  <2> QED BY <1>5, <2>1, <2>2, <2>3, <2>4 DEF JoinTick, CheckStep, JoinedStep
<1> QED BY <1>4, <1>5

\* A wait that ends, and time.
LEMMA ChoiceTime ==
  ASSUME AllFine, ChoiceInv, JoinEnds \/ JoinAge \/ JoinHunt
  PROVE  ChoiceInv'
<1>1. /\ UNCHANGED <<slot, tx, rx, radio, ghost>> /\ jn \in JoinScreen
      /\ NoCmd.c # "join"
  BY DEF JoinEnds, JoinAge, JoinHunt, keepJoin, tally, AllFine, JoinFine, NoCmd, Cmd
<1>2. CASE JoinEnds
  <2>1. jn' = Calm(jn, "Fail") BY <1>2 DEF JoinEnds, Failed
  <2>2. jn'.phase = "Fail" /\ ~jn'.need /\ jn'.pend = NoCmd BY <1>1, <2>1, ArmedIs
  <2> QED BY <1>1, <2>2, ChoiceAway
<1>3. CASE JoinAge \/ JoinHunt
  <2>1. /\ jn'.phase = jn.phase /\ jn'.need = jn.need /\ jn'.shown = jn.shown
        /\ jn'.pend = jn.pend /\ jn'.cursor = jn.cursor /\ li' = li
    BY <1>1, <1>3 DEF JoinAge, JoinHunt, JoinScreen
  <2> QED BY <1>1, <2>1, ChoiceKeeps
<1> QED BY <1>2, <1>3

\* The lines of anything else but an answer to a join.
Plain == [k : LineKind \ JoinWord, n : Nat, x : Names]

\* Which lines these are.
LEMMA PlainLines ==
  /\ \A k \in LineKind \ JoinWord : Line(k) \in Plain
  /\ \A k \in LineKind \ JoinWord, n \in Nat, x \in Names : LineOf(k, n, x) \in Plain
  /\ Entry \subseteq Plain
<1>1. "-" \in Names BY DEF Names
<1>2. {"log", "side"} \subseteq LineKind \ JoinWord BY DEF LineKind, JoinWord
<1>3. LogNames \subseteq Names BY DEF Names
<1> HIDE DEF Names
<1> QED BY <1>1, <1>2, <1>3 DEF Plain, Line, LineOf, Entry

\* Such lines are added: if nothing of an answer was under way, nothing is.
LEMMA PlainSay ==
  ASSUME rx \in Seq(Spoken), NEW lines \in Seq(Plain), Say(lines), NoneSaid
  PROVE  NoneSaid'
<1>1. rx' = rx \o lines BY DEF Say
<1>2. /\ DOMAIN rx = 1..Len(rx) /\ DOMAIN lines = 1..Len(lines) /\ Len(rx) \in Nat
      /\ Len(lines) \in Nat /\ DOMAIN rx' = 1..(Len(rx) + Len(lines))
      /\ \A i \in 1..(Len(rx) + Len(lines)) :
           rx'[i] = IF i <= Len(rx) THEN rx[i] ELSE lines[i - Len(rx)]
  BY <1>1
<1>3. ASSUME NEW i \in DOMAIN rx' PROVE rx'[i].k \notin JoinWord
  <2>1. CASE i <= Len(rx) BY <1>2, <1>3, <2>1 DEF NoneSaid
  <2>2. CASE i > Len(rx)
    <3>1. i - Len(rx) \in DOMAIN lines BY <1>2, <2>2
    <3>2. lines[i - Len(rx)] \in Plain BY <3>1
    <3>3. rx'[i] = lines[i - Len(rx)] BY <1>2, <2>2
    <3> QED BY <3>2, <3>3 DEF Plain
  <2> QED BY <1>2, <2>1, <2>2
<1> QED BY <1>3 DEF NoneSaid

\* A line of one kind is added.
LEMMA PlainOne ==
  ASSUME rx \in Seq(Spoken), NoneSaid, NEW w \in Plain, Say(<<w>>)
  PROVE  NoneSaid'
<1>1. <<w>> \in Seq(Plain) OBVIOUS
<1> QED BY <1>1, PlainSay

\* What the board prints of a file is no answer to a join.
LEMMA FileLinesPlain ==
  ASSUME NEW how \in DOMAIN FileLines
  PROVE  FileLines[how] \subseteq Seq(Plain)
<1>1. how \in {"sent", "skipped", "failed", "silent"} BY DEF FileLines
<1>2. /\ Line("succeeded") \in Plain /\ Line("uploadOk") \in Plain /\ Line("failed") \in Plain
      /\ Line("noReply") \in Plain /\ Line("skipped") \in Plain
  BY PlainLines DEF LineKind, JoinWord
<1>3. \A why \in Causes : Line(why) \in Plain
  <2>1. Causes \subseteq LineKind \ JoinWord BY UploadAssumption DEF LineKind, JoinWord
  <2> QED BY <2>1, PlainLines
<1>4. FileLines["sent"] \subseteq Seq(Plain) BY <1>2 DEF FileLines
<1>5. FileLines["skipped"] \subseteq Seq(Plain) /\ FileLines["silent"] \subseteq Seq(Plain)
  BY <1>2 DEF FileLines
<1>6. FileLines["failed"] \subseteq Seq(Plain)
  <2>1. FileLines["failed"] =
          {<<Line("failed")>>} \cup {<<Line(why), Line("failed")>> : why \in Causes}
    BY DEF FileLines
  <2>2. ASSUME NEW why \in Causes PROVE <<Line(why), Line("failed")>> \in Seq(Plain)
    <3>1. Line(why) \in Plain BY <1>3
    <3> QED BY <1>2, <3>1
  <2>3. <<Line("failed")>> \in Seq(Plain) BY <1>2
  <2> QED BY <2>1, <2>2, <2>3
<1> QED BY <1>1, <1>4, <1>5, <1>6

\* Nor what it prints at its own instance.
LEMMA BoardPlain ==
  ASSUME AllFine, NoneSaid, UploadFile \/ UploadNoKey \/ UploadComplete \/ BoardWard
  PROVE  NoneSaid'
<1>0. rx \in Seq(Spoken) /\ board \in UploadBoard BY DEF AllFine, LinkFine
<1>k. {"uploading", "noKey", "failed", "complete", "stopped", "started"}
        \subseteq LineKind \ JoinWord
  BY DEF LineKind, JoinWord
<1>f. ASSUME board.left # <<>>
      PROVE  LineOf("uploading", 0, Head(board.left)) \in Plain
  <2>1. Head(board.left) \in LogNames BY <1>0, <1>f DEF UploadBoard
  <2>2. LogNames \subseteq Names /\ 0 \in Nat BY DEF Names
  <2> QED BY <1>k, <2>1, <2>2, PlainLines
<1>1. CASE UploadFile
  <2> DEFINE w == LineOf("uploading", 0, Head(board.left))
  <2>1. PICK how \in DOMAIN FileLines : \E lines \in FileLines[how] : Say(<<w>> \o lines)
    BY <1>1 DEF UploadFile
  <2>2. PICK lines \in FileLines[how] : Say(<<w>> \o lines) BY <2>1
  <2>3. w \in Plain BY <1>1, <1>f DEF UploadFile
  <2> HIDE DEF w
  <2>4. lines \in Seq(Plain) BY FileLinesPlain
  <2>5. <<w>> \o lines \in Seq(Plain)
    <3>1. <<w>> \in Seq(Plain) BY <2>3
    <3> QED BY <2>4, <3>1
  <2> QED BY <1>0, <2>2, <2>5, PlainSay
<1>2. CASE UploadNoKey
  <2> DEFINE w == LineOf("uploading", 0, Head(board.left))
  <2>1. w \in Plain BY <1>2, <1>f DEF UploadNoKey
  <2>2. Say(<<w, Line("noKey"), Line("failed")>>) BY <1>2 DEF UploadNoKey
  <2> HIDE DEF w
  <2>3. Line("noKey") \in Plain /\ Line("failed") \in Plain BY <1>k, PlainLines
  <2>4. <<w, Line("noKey"), Line("failed")>> \in Seq(Plain) BY <2>1, <2>3
  <2> QED BY <1>0, <2>2, <2>4, PlainSay
<1>3. CASE UploadComplete
  <2>1. Line("complete") \in Plain BY <1>k, PlainLines
  <2> QED BY <1>0, <1>3, <2>1, PlainOne DEF UploadComplete
<1>4. CASE BoardWard
  <2>1. Line("stopped") \in Plain /\ Line("started") \in Plain BY <1>k, PlainLines
  <2>2. Line(IF keep.ward THEN "stopped" ELSE "started") \in Plain BY <2>1
  <2> QED BY <1>0, <1>4, <2>2, PlainOne DEF BoardWard
<1> QED BY <1>1, <1>2, <1>3, <1>4

\* The board goes on with its work, or is asked something at its own menu.
LEMMA ChoiceBoard ==
  ASSUME AllFine, ChoiceInv,
         BoardWard \/ ((UploadFile \/ UploadNoKey \/ UploadComplete) /\ UNCHANGED rest)
  PROVE  ChoiceInv'
<1> SUFFICES ASSUME ~ghost'.lost PROVE ChoiceInv'
  BY DEF ChoiceInv
<1>1. UNCHANGED <<slot, tx, jn, li, radio, ghost>>
  BY DEF BoardWard, UploadFile, UploadNoKey, UploadComplete, tally, rest, joinVars
<1>2. NoneSaid => NoneSaid' BY BoardPlain
<1>3. rx # <<>> => BoardWard /\ Say(<<Line(IF keep.ward THEN "stopped" ELSE "started")>>)
  BY DEF BoardWard, UploadFile, UploadNoKey, UploadComplete
<1>4. ASSUME rx # <<>>
      PROVE  /\ rx' # <<>> /\ rx'[1] = rx[1]
             /\ \A i \in DOMAIN rx : i \in DOMAIN rx' /\ rx'[i] = rx[i]
             /\ \A i \in DOMAIN rx' : \/ i \in DOMAIN rx /\ rx'[i] = rx[i]
                                     \/ rx'[i].k \in {"stopped", "started"}
  <2>1. PICK w : w.k \in {"stopped", "started"} /\ Say(<<w>>) BY <1>3, <1>4 DEF Line
  <2>2. rx \in Seq(Spoken) BY DEF AllFine, LinkFine
  <2>3. rx' = Append(rx, w)
    <3>1. rx' = rx \o <<w>> BY <2>1 DEF Say
    <3>2. rx \in Seq(Spoken \cup {w}) BY <2>2
    <3> HIDE DEF Spoken
    <3> QED BY <3>1, <3>2
  <2> HIDE DEF Spoken
  <2>4. /\ DOMAIN rx = 1..Len(rx) /\ Len(rx) \in Nat /\ DOMAIN rx' = 1..(Len(rx) + 1)
        /\ rx'[Len(rx) + 1] = w /\ \A i \in 1..Len(rx) : rx'[i] = rx[i]
    BY <2>2, <2>3
  <2>5. 1 \in DOMAIN rx BY <1>4, <2>2, <2>4
  <2> QED BY <2>1, <2>4, <2>5
<1>5. \A n \in 1..4 : Behind(n) => Behind(n)'
  <2>1. Waiting' = Waiting BY <1>1 DEF Waiting, Free
  <2>2. ASSUME NEW n \in 1..4, Behind(n) PROVE Behind(n)'
    BY <1>1, <1>2, <2>1, <2>2 DEF Behind
  <2> QED BY <2>2
<1>6. Parted' BY <1>1, <1>5, PartedKeeps DEF ChoiceInv
<1>7. Chosen' = Chosen /\ Unheard' = Unheard /\ NoneAhead' = NoneAhead
  BY <1>1 DEF Chosen, Unheard, NoneAhead
<1>8. Expecting => Expecting' BY <1>1, <1>2, <1>7 DEF Expecting
<1>9. Answering => Answering'
  <2> SUFFICES ASSUME Answering PROVE Answering'
    OBVIOUS
  <2>1. CASE rx # <<>>
    <3>1. NoneSaid' \/ \A i \in DOMAIN rx' : rx'[i].k # "chEcho"
      BY <1>2, <1>4, <2>1 DEF Answering
    <3>2. (\E i \in DOMAIN rx : rx[i].k = "joinFail") => \E i \in DOMAIN rx' : rx'[i].k = "joinFail"
      BY <1>4, <2>1
    <3>3. Connected => Connected' BY <1>1, <1>4, <2>1 DEF Connected
    <3>4. rx' # <<>> /\ rx'[1] = rx[1] BY <1>4, <2>1
    <3> QED BY <1>1, <1>2, <1>7, <3>1, <3>2, <3>3, <3>4 DEF Answering
  <2>2. CASE rx = <<>>
    <3>1. NoneSaid BY <2>2 DEF NoneSaid
    <3>2. Connected => Connected' BY <1>1, <1>2, <3>1 DEF Connected, NoneSaid, JoinWord
    <3> QED BY <1>1, <1>2, <1>7, <2>2, <3>1, <3>2 DEF Answering
  <2> QED BY <2>1, <2>2
<1> QED BY <1>1, <1>6, <1>8, <1>9 DEF ChoiceInv, Table

\* A command of the Upload screen is answered with no such line.
LEMMA UploadsPlain ==
  ASSUME AllFine, NoneSaid, NEW c, ReadUploads(c)
  PROVE  NoneSaid'
<1>0. rx \in Seq(Spoken) /\ board.dir \in Seq(Entry) BY DEF AllFine, LinkFine, UploadBoard
<1>k. {"noCreds", "unsupported", "unreached", "connected", "lsEcho", "noMount", "busy", "chEcho"}
        \subseteq LineKind \ JoinWord
  BY DEF LineKind, JoinWord
<1>l. /\ Line("noCreds") \in Plain /\ Line("unsupported") \in Plain /\ Line("unreached") \in Plain
      /\ Line("lsEcho") \in Plain /\ Line("noMount") \in Plain /\ Line("busy") \in Plain
      /\ Line("chEcho") \in Plain
  BY <1>k, PlainLines
<1>1. CASE ReadUpload
  <2>1. CASE \E bad \in {<<Line("noCreds")>>, <<Line("unsupported")>>,
                          <<Line("unreached"), Line("unreached")>>} : Say(bad)
    <3>1. {<<Line("noCreds")>>, <<Line("unsupported")>>,
           <<Line("unreached"), Line("unreached")>>} \subseteq Seq(Plain)
      BY <1>l
    <3>2. PICK bad \in Seq(Plain) : Say(bad) BY <2>1, <3>1
    <3> QED BY <1>0, <3>2, PlainSay
  <2>2. CASE \E s \in Ssids : Say(<<LineOf("connected", 0, s)>>)
    <3>1. PICK s \in Ssids : Say(<<LineOf("connected", 0, s)>>) BY <2>2
    <3>2. s \in Names /\ 0 \in Nat BY DEF Names
    <3>3. LineOf("connected", 0, s) \in Plain BY <1>k, <3>2, PlainLines
    <3> QED BY <1>0, <3>1, <3>3, PlainOne
  <2> QED BY <1>1, <2>1, <2>2 DEF ReadUpload
<1>2. CASE ReadLs \/ Say(<<Line("lsEcho"), Line("busy")>>)
  <2>1. /\ <<Line("lsEcho"), Line("noMount")>> \in Seq(Plain)
        /\ <<Line("lsEcho"), Line("busy")>> \in Seq(Plain) /\ <<Line("lsEcho")>> \in Seq(Plain)
    BY <1>l
  <2>2. board.dir \in Seq(Plain)
    <3> HIDE DEF Entry, Plain
    <3> QED BY <1>0, PlainLines
  <2>3. <<Line("lsEcho")>> \o board.dir \in Seq(Plain) BY <2>1, <2>2
  <2> QED BY <1>0, <1>2, <2>1, <2>3, PlainSay DEF ReadLs
<1>3. CASE ReadChannel
  BY <1>0, <1>3, <1>l, PlainOne DEF ReadChannel
<1>4. CASE UNCHANGED rx
  BY <1>4 DEF NoneSaid
<1> QED BY <1>1, <1>2, <1>3, <1>4 DEF ReadUploads

\* So is a command of Board tools.
LEMMA ToolsPlain ==
  ASSUME AllFine, NoneSaid, NEW c \in Command, ReadTools(c)
  PROVE  NoneSaid'
<1>0. /\ rx \in Seq(Spoken) /\ board \in UploadBoard /\ KeepFine /\ keep.size \in Sizes
      /\ CmdFits(c) /\ c.n \in Nat
  BY DEF AllFine, LinkFine, KeepFine, Command
<1>k. {"busy", "ignEcho", "addFail", "badIndex", "cleared", "rmFail", "sd", "files", "added",
       "removed", "file", "splitIs", "ignItem"} \subseteq LineKind \ JoinWord
  BY DEF LineKind, JoinWord
<1>l. /\ Line("busy") \in Plain /\ Line("ignEcho") \in Plain /\ Line("addFail") \in Plain
      /\ Line("badIndex") \in Plain /\ Line("cleared") \in Plain /\ Line("rmFail") \in Plain
      /\ Line("sd") \in Plain /\ Line("files") \in Plain
  BY <1>k, PlainLines
<1>n. /\ Ssids \subseteq Names /\ LogNames \subseteq Names /\ Sizes \subseteq Names
      /\ "-" \in Names /\ 0 \in Nat
  BY DEF Names
<1>1. CASE ReadIgnList
  <2>1. /\ keep.ign \in Seq(Ssids) /\ Len(keep.ign) \in Nat /\ DOMAIN keep.ign = 1..Len(keep.ign)
    BY <1>0 DEF KeepFine
  <2>2. ASSUME NEW i \in 1..Len(keep.ign) PROVE LineOf("ignItem", i, keep.ign[i]) \in Plain
    <3>1. i \in Nat /\ keep.ign[i] \in Names BY <1>n, <2>1
    <3> QED BY <1>k, <3>1, PlainLines
  <2>3. IgnRows \in [1..Len(keep.ign) -> Plain] BY <2>1, <2>2 DEF IgnRows
  <2>4. IgnRows \in Seq(Plain) BY <2>1, <2>3
  <2>5. <<Line("ignEcho")>> \in Seq(Plain) /\ <<Line("busy")>> \in Seq(Plain) BY <1>l
  <2>6. <<Line("ignEcho")>> \o (IF keep.ward THEN <<Line("busy")>> ELSE IgnRows) \in Seq(Plain)
    BY <2>4, <2>5
  <2> QED BY <1>0, <1>1, <2>6, PlainSay DEF ReadIgnList
<1>2. CASE BoardBusy \/ ReadIgnClear
  BY <1>0, <1>2, <1>l, PlainOne DEF BoardBusy, ReadIgnClear
<1>3. CASE c.c = "ignAdd" /\ ReadIgnAdd(c.x)
  <2>1. c.x \in Names BY <1>0, <1>3, <1>n DEF CmdFits
  <2>2. LineOf("added", 0, c.x) \in Plain BY <1>k, <1>n, <2>1, PlainLines
  <2> QED BY <1>0, <1>3, <1>l, <2>2, PlainOne DEF ReadIgnAdd
<1>4. CASE ReadIgnRm(c.n)
  <2>1. LineOf("removed", c.n, "-") \in Plain BY <1>0, <1>k, <1>n, PlainLines
  <2> QED BY <1>0, <1>4, <1>l, <2>1, PlainOne DEF ReadIgnRm
<1>5. CASE c.c = "rm" /\ ReadRm(c.x)
  <2>1. c.x \in Names BY <1>0, <1>5, <1>n DEF CmdFits
  <2>2. LineOf("file", 0, c.x) \in Plain BY <1>k, <1>n, <2>1, PlainLines
  <2>3. \/ Say(<<LineOf("file", 0, c.x)>>) \/ Say(<<Line("rmFail")>>) \/ Say(<<Line("sd")>>)
    BY <1>5, Zenon DEF ReadRm
  <2> QED BY <1>0, <1>l, <2>2, <2>3, PlainOne
<1>6. CASE ReadRmAll
  <2>1. CASE Say(<<Line("sd")>>)
    BY <1>0, <1>l, <2>1, PlainOne
  <2>2. CASE \E gone \in SUBSET ToSet(Files) :
              Say([i \in DOMAIN Files |->
                     IF Files[i] \in gone THEN Line("rmFail") ELSE LineOf("file", 0, Files[i])]
                  \o <<Line("files")>>)
    <3>1. PICK gone \in SUBSET ToSet(Files) :
              Say([i \in DOMAIN Files |->
                     IF Files[i] \in gone THEN Line("rmFail") ELSE LineOf("file", 0, Files[i])]
                  \o <<Line("files")>>)
      BY <2>2
    <3> DEFINE lines == [i \in DOMAIN Files |->
                     IF Files[i] \in gone THEN Line("rmFail") ELSE LineOf("file", 0, Files[i])]
    <3>2. lines \in Seq(Plain)
      <4> DEFINE n == Len(Files)
      <4>1. Files \in Seq(LogNames) /\ n \in Nat /\ DOMAIN Files = 1..n
        BY <1>0, FilesType DEF UploadBoard
      <4>2. ASSUME NEW i \in 1..n
            PROVE  (IF Files[i] \in gone THEN Line("rmFail") ELSE LineOf("file", 0, Files[i]))
                     \in Plain
        <5>1. Files[i] \in Names BY <1>n, <4>1
        <5>2. LineOf("file", 0, Files[i]) \in Plain BY <1>k, <1>n, <5>1, PlainLines
        <5> QED BY <1>l, <5>2
      <4> HIDE DEF n
      <4>3. lines \in [1..n -> Plain] BY <4>1, <4>2
      <4> QED BY <4>1, <4>3
    <3>3. Say(lines \o <<Line("files")>>) BY <3>1
    <3> HIDE DEF lines
    <3>4. lines \o <<Line("files")>> \in Seq(Plain)
      <4>1. <<Line("files")>> \in Seq(Plain) BY <1>l
      <4> QED BY <3>2, <4>1
    <3> QED BY <1>0, <3>3, <3>4, PlainSay
  <2> QED BY <1>6, <2>1, <2>2, Zenon DEF ReadRmAll
<1>7. CASE c.c = "split" /\ ReadSplit(c.n, c.x)
  <2>1. LineOf("splitIs", 0, keep.size) \in Plain BY <1>0, <1>k, <1>n, PlainLines
  <2>2. c.n # 0 => LineOf("splitIs", 0, c.x) \in Plain
    <3>1. c.n # 0 => c.x \in Names BY <1>0, <1>7, <1>n DEF CmdFits
    <3> QED BY <1>k, <1>n, <3>1, PlainLines
  <2> QED BY <1>0, <1>7, <2>1, <2>2, PlainOne DEF ReadSplit
<1> QED BY <1>1, <1>2, <1>3, <1>4, <1>5, <1>6, <1>7 DEF ReadTools

\* An order of a set of lines is a sequence of its members.
LEMMA OrderOf ==
  ASSUME NEW S, IsFiniteSet(S), NEW f \in AnyOrder(S)
  PROVE  f \in Seq(S)
<1>1. Cardinality(S) \in Nat BY FS_CardinalityType
<1>2. f \in [1..Cardinality(S) -> S] BY Zenon DEF AnyOrder, SetToSeqs
<1> QED BY <1>1, <1>2

\* So is any other command of the Join screen.
LEMMA JoinsPlain ==
  ASSUME AllFine, NoneSaid, NEW c, c.c # "join", ReadJoins(c)
  PROVE  NoneSaid'
<1>0. rx \in Seq(Spoken) /\ radio \in Radio BY DEF AllFine, LinkFine
<1>k. {"wifiRow", "wifiEnd", "stopped", "scanBanner", "listEcho", "ap", "listEnd"}
        \subseteq LineKind \ JoinWord
  BY DEF LineKind, JoinWord
<1>l. /\ Line("wifiEnd") \in Plain /\ Line("stopped") \in Plain /\ Line("scanBanner") \in Plain
      /\ Line("listEcho") \in Plain /\ Line("listEnd") \in Plain
  BY <1>k, PlainLines
<1>n. Ssids \subseteq Names /\ 0 \in Nat BY DEF Names
<1>1. CASE ReadWifi
  <2>1. CASE rx' = rx
    BY <2>1 DEF NoneSaid
  <2>2. CASE rx' # rx
    <3> DEFINE S == {LineOf("wifiRow", 0, s) : s \in radio.profiles}
    <3>1. PICK rows \in AnyOrder(S) : Say(rows \o <<Line("wifiEnd")>>)
      BY <1>1, <2>2 DEF ReadWifi
    <3>2. radio.profiles \in SUBSET Ssids BY <1>0 DEF Radio
    <3>3. IsFiniteSet(S) BY <3>2, NamesFinite
    <3>4. S \subseteq Plain
      <4>1. \A s \in radio.profiles : LineOf("wifiRow", 0, s) \in Plain
        BY <1>k, <1>n, <3>2, PlainLines
      <4> QED BY <4>1
    <3> HIDE DEF S
    <3>5. rows \in Seq(S) BY <3>3, OrderOf
    <3>6. rows \in Seq(Plain)
      <4> HIDE DEF Plain
      <4> QED BY <3>4, <3>5
    <3>7. rows \o <<Line("wifiEnd")>> \in Seq(Plain)
      <4>1. <<Line("wifiEnd")>> \in Seq(Plain) BY <1>l
      <4> QED BY <3>6, <4>1
    <3> QED BY <1>0, <3>1, <3>7, PlainSay
  <2> QED BY <2>1, <2>2
<1>2. CASE ReadStop \/ ReadScanAll
  BY <1>0, <1>2, <1>l, PlainOne DEF ReadStop, ReadScanAll
<1>3. CASE ReadList
  <2>1. PICK rows \in Tables :
           \E aps \in AnyOrder({LineOf("ap", r.n, r.x) : r \in rows}) :
             Say(<<Line("listEcho")>> \o aps \o <<Line("listEnd")>>)
    BY <1>3, Zenon DEF ReadList
  <2> DEFINE S == {LineOf("ap", r.n, r.x) : r \in rows}
  <2>2. PICK aps \in AnyOrder(S) : Say(<<Line("listEcho")>> \o aps \o <<Line("listEnd")>>)
    BY <2>1
  <2>3. rows \in SUBSET Row BY TablesType
  <2>4. IsFiniteSet(S) BY <2>3, RowsFinite
  <2>5. S \subseteq Plain
    <3>1. ASSUME NEW r \in rows PROVE LineOf("ap", r.n, r.x) \in Plain
      <4>1. r.n \in Nat /\ r.x \in Names BY <1>n, <2>3, JoinAssumption DEF Row
      <4> QED BY <1>k, <4>1, PlainLines
    <3> QED BY <3>1
  <2> HIDE DEF S
  <2>6. aps \in Seq(S) BY <2>4, OrderOf
  <2>7. aps \in Seq(Plain)
    <3> HIDE DEF Plain
    <3> QED BY <2>5, <2>6
  <2>8. <<Line("listEcho")>> \in Seq(Plain) /\ <<Line("listEnd")>> \in Seq(Plain) BY <1>l
  <2>9. <<Line("listEcho")>> \o aps \o <<Line("listEnd")>> \in Seq(Plain) BY <2>7, <2>8
  <2> QED BY <1>0, <2>2, <2>9, PlainSay
<1> QED BY <1>1, <1>2, <1>3 DEF ReadJoins

\* The answer to a join: its echo, the network, and a failure unless the
\* board is on that network.
LEMMA JoinAnswer ==
  ASSUME AllFine, Table(radio.aps), rx = <<>>, NEW n, n \in Nat, ReadJoin(n)
  PROVE  /\ Table(radio'.aps)
         /\ rx' # <<>> /\ rx'[1] = LineOf("joinEcho", n, "-")
         /\ \A i \in DOMAIN rx' : rx'[i].k # "chEcho"
         /\ \/ \E i \in DOMAIN rx' : rx'[i].k = "joinFail"
            \/ \A i \in DOMAIN rx' : rx'[i].k = "using" => rx'[i].x = radio'.on
<1> DEFINE at(rows) == {r.x : r \in {r \in rows : r.n = n}}
<1>1. PICK rows \in Tables, connects \in BOOLEAN :
        /\ connects => at(rows) # {}
        /\ \E using \in AnyOrder({LineOf("using", 0, x) : x \in at(rows)}) :
             Say(<<LineOf("joinEcho", n, "-")>> \o using
                 \o (IF connects THEN <<>> ELSE <<Line("joinFail")>>))
        /\ radio' = [radio EXCEPT
                       !.aps = rows,
                       !.on = IF connects THEN CHOOSE x \in at(rows) : TRUE ELSE NoName,
                       !.profiles = IF connects THEN @ \cup at(rows) ELSE @]
  BY Zenon DEF ReadJoin
<1> DEFINE seen == at(rows)
           S == {LineOf("using", 0, x) : x \in seen}
           on == IF connects THEN CHOOSE x \in seen : TRUE ELSE NoName
           profiles == IF connects THEN radio.profiles \cup seen ELSE radio.profiles
           echo == LineOf("joinEcho", n, "-")
           tail == IF connects THEN <<>> ELSE <<Line("joinFail")>>
<1>2. PICK using \in AnyOrder(S) : Say(<<echo>> \o using \o tail) BY <1>1
<1>3. rows \in SUBSET Row /\ Table(rows) BY TablesType DEF Tables, Grown
<1>4. seen \in SUBSET Ssids BY <1>3 DEF Row
<1>5. radio' = [radio EXCEPT !.aps = rows, !.on = on, !.profiles = profiles] BY <1>1
<1>6. \A x, y \in seen : x = y BY <1>3 DEF Table
<1>7. connects => \A x \in seen : x = on
  <2>1. connects => seen # {} BY <1>1
  <2> HIDE DEF seen
  <2> QED BY <1>6, <2>1
<1>8. IsFiniteSet(S) BY <1>4, NamesFinite
<1>9. \A w \in S : w.k = "using" /\ w.x \in seen BY DEF LineOf
<1>10. /\ tail \in Seq({Line("joinFail")})
       /\ ~connects => 1 \in DOMAIN tail /\ tail[1] = Line("joinFail")
  <2>1. ASSUME NEW w PROVE <<w>> \in Seq({w}) /\ 1 \in DOMAIN <<w>> /\ <<w>>[1] = w
    OBVIOUS
  <2>2. <<>> \in Seq({Line("joinFail")}) OBVIOUS
  <2> QED BY <2>1, <2>2
<1>11. echo.k = "joinEcho" /\ Line("joinFail").k = "joinFail" BY DEF LineOf, Line
<1> HIDE DEF seen, S, on, profiles, echo, tail
<1>12. using \in Seq(S) BY <1>8, OrderOf
<1>13. radio'.aps = rows /\ radio'.on = on
  <2>1. radio \in Radio BY DEF AllFine
  <2> QED BY <1>5, <2>1 DEF Radio
<1> DEFINE T == S \cup {echo, Line("joinFail")}
<1>14. echo \in T /\ <<echo>> \in Seq(T) /\ using \in Seq(T) /\ tail \in Seq(T)
  BY <1>10, <1>12
<1>15. rx' = <<echo>> \o using \o tail
  <2>1. <<echo>> \o using \o tail \in Seq(T) BY <1>14
  <2> HIDE DEF T
  <2> QED BY <1>2, <2>1 DEF Say
<1>16. /\ \A w \in T : w.k # "chEcho"
       /\ \A w \in T : w.k = "using" => w \in S
  BY <1>9, <1>11
<1> HIDE DEF T
<1>17. /\ rx' \in Seq(T) /\ rx' # <<>> /\ rx'[1] = echo
       /\ ~connects => \E i \in DOMAIN rx' : rx'[i] = Line("joinFail")
  <2>1. PICK U, a, u, v, s :
          /\ U = T /\ a = echo /\ u = using /\ v = tail /\ s = <<a>> \o u \o v
          /\ a \in U /\ u \in Seq(U) /\ v \in Seq(U)
    BY <1>12, <1>14, Zenon
  <2>2. /\ s \in Seq(U) /\ s # <<>> /\ s[1] = a
        /\ \A i \in DOMAIN v : \E j \in DOMAIN s : s[j] = v[i]
    <3>1. PICK b \in Seq(U) : b = <<a>> /\ Len(b) = 1 /\ b[1] = a
      <4>1. <<a>> \in Seq(U) /\ Len(<<a>>) = 1 /\ <<a>>[1] = a BY <2>1
      <4> QED BY <4>1
    <3>2. PICK c \in Seq(U) : c = b \o u /\ Len(c) = 1 + Len(u) /\ c[1] = a
      <4>1. b \o u \in Seq(U) /\ Len(b \o u) = 1 + Len(u) /\ (b \o u)[1] = a BY <2>1, <3>1
      <4> QED BY <4>1
    <3>3. s = c \o v BY <2>1, <3>1, <3>2
    <3>4. /\ s \in Seq(U) /\ DOMAIN s = 1..(Len(c) + Len(v)) /\ Len(c) \in Nat /\ Len(v) \in Nat
          /\ Len(c) >= 1 /\ s[1] = a /\ DOMAIN v = 1..Len(v)
          /\ \A i \in 1..Len(v) : s[Len(c) + i] = v[i]
      <4>1. Len(u) \in Nat /\ Len(c) >= 1 BY <2>1, <3>2
      <4> QED BY <2>1, <3>2, <3>3, <4>1
    <3>5. \A i \in DOMAIN v : Len(c) + i \in DOMAIN s BY <3>4
    <3>6. 1 \in DOMAIN s BY <3>4
    <3> QED BY <3>4, <3>5, <3>6
  <2>3. rx' = s BY <1>15, <2>1
  <2>4. ~connects => \E i \in DOMAIN rx' : rx'[i] = Line("joinFail") BY <1>10, <2>1, <2>2, <2>3
  <2> QED BY <2>1, <2>2, <2>3, <2>4
<1>18. \A i \in DOMAIN rx' : rx'[i] \in T BY <1>17
<1>19. ~connects => \E i \in DOMAIN rx' : rx'[i].k = "joinFail" BY <1>11, <1>17
<1>20. connects => \A i \in DOMAIN rx' : rx'[i].k = "using" => rx'[i].x = radio'.on
  BY <1>7, <1>9, <1>13, <1>16, <1>18
<1> QED BY <1>3, <1>13, <1>16, <1>17, <1>18, <1>19, <1>20 DEF echo

\* The board reads a command: the join's answer comes when the join is read.
LEMMA ChoiceRead == ASSUME AllFine, ChoiceInv, Read PROVE ChoiceInv'
<1> SUFFICES ASSUME ~ghost'.lost PROVE ChoiceInv'
  BY DEF ChoiceInv
<1> DEFINE c == Head(tx)
<1>0. /\ tx # <<>> /\ rx = <<>> /\ tx' = Tail(tx) /\ UNCHANGED <<slot, jn, li, ghost>>
      /\ ReadUploads(c) \/ ReadJoins(c) \/ ReadTools(c)
      /\ tx \in Seq(Command) /\ ~ghost.lost
  BY DEF Read, joinVars, AllFine, LinkFine
<1>1. /\ c \in Command /\ c = tx[1] /\ 1 \in DOMAIN tx /\ Len(tx) \in Nat
      /\ Len(tx') = Len(tx) - 1 /\ DOMAIN tx = 1..Len(tx) /\ DOMAIN tx' = 1..(Len(tx) - 1)
      /\ \A i \in DOMAIN tx' : i \in Nat /\ i + 1 \in DOMAIN tx /\ tx'[i] = tx[i + 1] /\ i + 1 # 1
  BY <1>0
<1> HIDE DEF c
<1>2. NoneSaid BY <1>0 DEF NoneSaid
<1>3. CASE c.c # "join"
  <2>1. NoneSaid' BY <1>0, <1>1, <1>2, <1>3, UploadsPlain, JoinsPlain, ToolsPlain
  <2>2. radio'.on = radio.on /\ (Table(radio.aps) => Table(radio'.aps))
    <3>1. radio \in Radio BY DEF AllFine
    <3>2. CASE ReadUploads(c) \/ ReadTools(c)
      BY <3>2 DEF ReadUploads, ReadTools
    <3>3. CASE ReadJoins(c)
      <4>1. CASE ReadWifi BY <4>1 DEF ReadWifi
      <4>2. CASE ReadStop BY <3>1, <4>2 DEF ReadStop, Radio
      <4>3. CASE ReadScanAll
        <5>1. radio'.on = radio.on /\ radio'.aps = {} BY <3>1, <4>3 DEF ReadScanAll, Radio
        <5> QED BY <5>1 DEF Table
      <4>4. CASE ReadList
        <5>1. PICK rows \in Tables : radio' = [radio EXCEPT !.aps = rows] BY <4>4 DEF ReadList
        <5>2. radio'.on = radio.on /\ radio'.aps = rows BY <3>1, <5>1 DEF Radio
        <5>3. Table(radio.aps) => Table(rows) BY DEF Tables, Grown
        <5> QED BY <5>2, <5>3
      <4> QED BY <1>3, <3>3, <4>1, <4>2, <4>3, <4>4 DEF ReadJoins
    <3> QED BY <1>0, <3>2, <3>3
  <2>3. Chosen' = Chosen /\ Unheard' = Unheard /\ (NoneAhead => NoneAhead')
    BY <1>0, <1>1 DEF Chosen, Unheard, NoneAhead
  <2>4. \A n \in 1..4 : Behind(n) => Behind(n)'
    <3>1. Waiting' = Waiting - 1 /\ Waiting \in Nat BY <1>0, <1>1 DEF Waiting, Free
    <3>2. ASSUME NEW n \in 1..4, Behind(n) PROVE Behind(n)'
      <4>1. ASSUME NEW i \in DOMAIN tx', tx'[i].c = "join" PROVE Waiting' - i >= n
        <5>1. i + 1 \in DOMAIN tx /\ tx[i + 1].c = "join" /\ i \in Nat BY <1>1, <4>1
        <5>2. Waiting - (i + 1) >= n BY <3>2, <5>1 DEF Behind
        <5> QED BY <3>1, <5>1, <5>2
      <4> QED BY <1>0, <2>1, <3>2, <4>1 DEF Behind
    <3> QED BY <3>2
  <2>5. Parted' BY <1>0, <2>4, PartedKeeps DEF ChoiceInv
  <2>6. Expecting => Expecting'
    <3> SUFFICES ASSUME Expecting PROVE Expecting'
      OBVIOUS
    <3>1. ASSUME NEW i \in DOMAIN tx', tx'[i].c = "join"
          PROVE  tx'[i] = Chosen' /\ \A j \in DOMAIN tx' : tx'[j].c = "join" => j = i
      <4>1. i + 1 \in DOMAIN tx /\ tx[i + 1] = tx'[i] /\ i \in Nat BY <1>1, <3>1
      <4>2. tx[i + 1] = Chosen /\ \A j \in DOMAIN tx : tx[j].c = "join" => j = i + 1
        BY <3>1, <4>1 DEF Expecting
      <4>3. ASSUME NEW j \in DOMAIN tx', tx'[j].c = "join" PROVE j = i
        <5>1. j + 1 \in DOMAIN tx /\ tx[j + 1] = tx'[j] /\ j \in Nat BY <1>1, <4>3
        <5>2. j + 1 = i + 1 BY <4>2, <4>3, <5>1
        <5> QED BY <4>1, <5>1, <5>2
      <4> QED BY <2>3, <4>1, <4>2, <4>3
    <3>2. /\ Unheard' /\ NoneSaid'
          /\ jn'.pend.c = "join" => jn'.pend = Chosen' /\ slot'.c # "join" /\ NoneAhead'
          /\ slot'.c = "join" => slot' = Chosen' /\ NoneAhead'
      BY <1>0, <2>1, <2>3 DEF Expecting
    <3> QED BY <3>1, <3>2 DEF Expecting
  <2>7. Answering => Answering'
    <3> SUFFICES ASSUME Answering PROVE Answering'
      OBVIOUS
    <3>1. li.joinEcho /\ ~(\E i \in DOMAIN rx : rx[i].k = "joinFail") BY <1>0 DEF Answering
    <3>2. Connected => Connected' BY <1>0, <2>1, <2>2 DEF Connected, NoneSaid, JoinWord
    <3> QED BY <1>0, <2>1, <2>2, <2>3, <3>1, <3>2 DEF Answering
  <2>8. Len(tx') <= MaxTx BY <1>0, <1>1, PanelAssumption DEF ChoiceInv
  <2> QED BY <1>0, <2>2, <2>5, <2>6, <2>7, <2>8 DEF ChoiceInv
<1>4. CASE c.c = "join"
  <2>1. ReadJoin(c.n) /\ c.n \in Nat
    BY <1>0, <1>1, <1>4 DEF ReadUploads, ReadJoins, ReadTools, Command
  <2>2. /\ Table(radio'.aps)
        /\ rx' # <<>> /\ rx'[1] = LineOf("joinEcho", c.n, "-")
        /\ \A i \in DOMAIN rx' : rx'[i].k # "chEcho"
        /\ \/ \E i \in DOMAIN rx' : rx'[i].k = "joinFail"
           \/ \A i \in DOMAIN rx' : rx'[i].k = "using" => rx'[i].x = radio'.on
    BY <1>0, <2>1, JoinAnswer DEF ChoiceInv
  <2>3. \A n \in 1..4 : Behind(n) => Behind(n)'
    <3>1. Waiting' = Waiting - 1 /\ Waiting \in Nat BY <1>0, <1>1 DEF Waiting, Free
    <3>2. ASSUME NEW n \in 1..4, Behind(n) PROVE Behind(n)'
      <4>1. ASSUME NEW i \in DOMAIN tx', tx'[i].c = "join" PROVE Waiting' - i >= n
        <5>1. i + 1 \in DOMAIN tx /\ tx[i + 1].c = "join" /\ i \in Nat BY <1>1, <4>1
        <5>2. Waiting - (i + 1) >= n BY <3>2, <5>1 DEF Behind
        <5> QED BY <3>1, <5>1, <5>2
      <4>2. Waiting - 1 >= n BY <1>1, <1>4, <3>2 DEF Behind
      <4> QED BY <1>0, <3>1, <3>2, <4>1, <4>2 DEF Behind
    <3> QED BY <3>2
  <2>4. Parted' BY <1>0, <2>3, PartedKeeps DEF ChoiceInv
  <2>5. Len(tx') <= MaxTx BY <1>0, <1>1, PanelAssumption DEF ChoiceInv
  <2>6. ASSUME jn.phase = "Join" PROVE Answering'
    <3>1. Expecting BY <1>0, <1>1, <1>4, <2>6 DEF ChoiceInv, Answering, NoneAhead
    <3>2. /\ c = Chosen /\ jn.pend.c # "join" /\ slot.c # "join"
          /\ \A j \in DOMAIN tx : tx[j].c = "join" => j = 1
      BY <1>1, <1>4, <3>1 DEF Expecting, NoneAhead
    <3>3. NoneAhead'
      <4>1. ASSUME NEW i \in DOMAIN tx' PROVE tx'[i].c # "join"
        BY <1>1, <3>2, <4>1
      <4> QED BY <4>1 DEF NoneAhead
    <3>4. c.n = jn.cursor.n BY <3>2 DEF Chosen, CmdOf
    <3>5. Unheard /\ Unheard' BY <1>0, <3>1 DEF Expecting, Unheard
    <3>6. (\E i \in DOMAIN rx' : rx'[i].k = "joinFail") \/ Connected'
      BY <2>2, <3>5 DEF Connected, Unheard
    <3> QED BY <1>0, <2>2, <3>2, <3>3, <3>4, <3>5, <3>6 DEF Answering, Unheard
  <2> QED BY <1>0, <2>2, <2>4, <2>5, <2>6 DEF ChoiceInv
<1> QED BY <1>3, <1>4

\* A line is heard: the wait ends at the echo of the command behind the join,
\* and by then what became of the join has been heard.
LEMMA ChoiceApply == ASSUME AllFine, ChoiceInv, Apply PROVE ChoiceInv'
<1> SUFFICES ASSUME ~ghost'.lost PROVE ChoiceInv'
  BY DEF ChoiceInv
<1> DEFINE w == Head(rx)
<1>0. /\ rx # <<>> /\ rx' = Tail(rx) /\ UNCHANGED <<slot, tx, radio, ghost>>
      /\ li' = Observe(w) /\ (jn' = jn \/ jn' = [jn EXCEPT !.stopped = TRUE])
      /\ rx \in Seq(Spoken) /\ ~ghost.lost /\ jn \in JoinScreen /\ li \in Listener
  BY DEF Apply, Heard, tally, AllFine, LinkFine, JoinFine
<1>1. /\ w = rx[1] /\ 1 \in DOMAIN rx
      /\ \A i \in DOMAIN rx' : i + 1 \in DOMAIN rx /\ rx'[i] = rx[i + 1]
      /\ \A i \in DOMAIN rx : i # 1 => i - 1 \in DOMAIN rx' /\ rx'[i - 1] = rx[i]
  <2> HIDE DEF Spoken, w
  <2>1. /\ Len(rx) \in Nat /\ DOMAIN rx = 1..Len(rx) /\ DOMAIN rx' = 1..(Len(rx) - 1)
        /\ 1 \in DOMAIN rx
        /\ \A i \in 1..(Len(rx) - 1) : rx'[i] = rx[i + 1]
    BY <1>0
  <2>2. \A i \in DOMAIN rx : i # 1 => i - 1 \in DOMAIN rx' /\ (i - 1) + 1 = i BY <2>1
  <2>3. w = rx[1] BY <1>0 DEF w
  <2> QED BY <2>1, <2>2, <2>3
<1> HIDE DEF w
<1>2. /\ jn'.phase = jn.phase /\ jn'.need = jn.need /\ jn'.shown = jn.shown
      /\ jn'.pend = jn.pend /\ jn'.cursor = jn.cursor
  BY <1>0 DEF JoinScreen
<1>3. /\ NoneSaid => NoneSaid' /\ w.k \notin JoinWord
      /\ NoneAhead' = NoneAhead /\ Chosen' = Chosen
  BY <1>0, <1>1, <1>2 DEF NoneSaid, NoneAhead, Chosen
<1>4. \A n \in 1..4 : Behind(n) => Behind(n)'
  <2>1. Waiting' = Waiting BY <1>0 DEF Waiting, Free
  <2>2. ASSUME NEW n \in 1..4, Behind(n) PROVE Behind(n)'
    BY <1>0, <1>3, <2>1, <2>2 DEF Behind
  <2> QED BY <2>2
<1>5. Parted' BY <1>0, <1>2, <1>4, PartedKeeps DEF ChoiceInv
<1>6. ASSUME jn.phase = "Join"
      PROVE  li'.mode = "Join" /\ li'.index = jn'.cursor.n /\ (Expecting' \/ Answering')
  <2>0. /\ li.mode = "Join" /\ li.index = jn.cursor.n
        /\ Expecting \/ Answering
        /\ li' = ReceiptFeed(w)
    BY <1>0, <1>6 DEF ChoiceInv, Observe
  <2>1. CASE ~li.joinEcho
    <3> DEFINE b == w.k = "joinEcho" /\ w.n = li.index
    <3>1. li' = [li EXCEPT !.joinEcho = b] BY <2>0, <2>1 DEF ReceiptFeed
    <3> HIDE DEF b
    <3>2. /\ li'.joinEcho = b /\ li'.mode = li.mode /\ li'.index = li.index
          /\ li'.essid = li.essid /\ li'.receipt = li.receipt /\ li'.marked = li.marked
      BY <1>0, <3>1 DEF Listener
    <3>3. CASE Expecting
      <4>1. ~b BY <1>3, <3>3 DEF b, Expecting, JoinWord
      <4>2. Unheard' BY <3>2, <3>3, <4>1 DEF Expecting, Unheard
      <4> QED BY <1>0, <1>2, <1>3, <2>0, <3>2, <3>3, <4>2 DEF Expecting
    <3>4. CASE Answering
      <4>1. w = LineOf("joinEcho", jn.cursor.n, "-") /\ Unheard
        BY <1>1, <2>1, <3>4 DEF Answering
      <4>2. b /\ w.k # "joinFail" BY <2>0, <4>1 DEF b, LineOf
      <4>3. NoneSaid' \/ \A i \in DOMAIN rx' : rx'[i].k # "chEcho"
        BY <1>1, <1>3, <3>4 DEF Answering
      <4>4. (\E i \in DOMAIN rx : rx[i].k = "joinFail") =>
              \E i \in DOMAIN rx' : rx'[i].k = "joinFail"
        BY <1>1, <4>2
      <4>5. Connected => Connected' BY <1>0, <1>1, <3>2 DEF Connected
      <4> QED BY <1>0, <1>2, <1>3, <2>0, <3>2, <3>4, <4>1, <4>2, <4>3, <4>4, <4>5
              DEF Answering, Unheard
    <3> QED BY <2>0, <3>3, <3>4
  <2>2. CASE li.joinEcho
    <3>0. Answering BY <2>0, <2>2 DEF Expecting, Unheard
    <3>1. NoneSaid' \/ \A i \in DOMAIN rx' : rx'[i].k # "chEcho"
      BY <1>1, <1>3, <3>0 DEF Answering
    <3>2. w.k # "joinFail" =>
            ((\E i \in DOMAIN rx : rx[i].k = "joinFail") =>
               \E i \in DOMAIN rx' : rx'[i].k = "joinFail")
      BY <1>1
    <3>3. CASE w.k = "using"
      <4> DEFINE e == IF li.essid = NoName THEN w.x ELSE li.essid
      <4>1. li' = [li EXCEPT !.essid = e] BY <2>0, <2>2, <3>3 DEF ReceiptFeed
      <4> HIDE DEF e
      <4>2. /\ li'.essid = e /\ li'.joinEcho = li.joinEcho /\ li'.mode = li.mode
            /\ li'.index = li.index /\ li'.receipt = li.receipt /\ li'.marked = li.marked
        BY <1>0, <4>1 DEF Listener
      <4>3. Connected => Connected' BY <1>0, <1>1, <3>3, <4>2 DEF Connected, e
      <4>4. li'.receipt = "Joined" => li'.essid # NoName /\ li'.essid = radio'.on
        BY <1>0, <3>0, <4>2 DEF Answering, e
      <4> QED BY <1>0, <1>2, <1>3, <2>0, <2>2, <3>0, <3>1, <3>2, <3>3, <4>2, <4>3, <4>4
              DEF Answering
    <3>4. CASE ~li.marked /\ w.k = "joinFail"
      <4>1. li' = [li EXCEPT !.receipt = "Fail"] BY <2>0, <2>2, <3>4 DEF ReceiptFeed
      <4>2. /\ li'.essid = li.essid /\ li'.joinEcho = li.joinEcho /\ li'.mode = li.mode
            /\ li'.index = li.index /\ li'.receipt = "Fail" /\ li'.marked = li.marked
        BY <1>0, <4>1 DEF Listener
      <4> QED BY <1>0, <1>2, <1>3, <2>0, <2>2, <3>0, <3>1, <4>2 DEF Answering
    <3>5. CASE ~li.marked /\ w.k = "chEcho" /\ li.expect
      <4> DEFINE r == IF li.essid # NoName /\ li.receipt = "Pending" THEN "Joined" ELSE li.receipt
      <4>1. li' = [li EXCEPT !.marked = TRUE, !.receipt = r]
        <5>1. w.k # "using" /\ w.k # "joinFail" BY <3>5
        <5> QED BY <2>0, <2>2, <3>5, <5>1 DEF ReceiptFeed
      <4> HIDE DEF r
      <4>2. /\ li'.essid = li.essid /\ li'.joinEcho = li.joinEcho /\ li'.mode = li.mode
            /\ li'.index = li.index /\ li'.receipt = r
        BY <1>0, <4>1 DEF Listener
      <4>3. NoneSaid BY <1>1, <3>0, <3>5 DEF Answering
      <4>4. ~(\E i \in DOMAIN rx : rx[i].k = "joinFail") BY <4>3 DEF NoneSaid, JoinWord
      <4>5. li.receipt = "Fail" \/ Connected BY <3>0, <4>4 DEF Answering
      <4>6. Connected => Connected' BY <1>0, <1>1, <4>2 DEF Connected
      <4>7. r = "Joined" => li.essid # NoName /\ li.essid = radio.on
        BY <3>0, <4>5 DEF r, Answering, Connected
      <4>8. li.receipt = "Fail" => r = "Fail" BY DEF r
      <4> QED BY <1>0, <1>2, <1>3, <2>0, <2>2, <3>0, <4>2, <4>3, <4>5, <4>6, <4>7, <4>8
              DEF Answering
    <3>6. CASE /\ w.k # "using" /\ ~(~li.marked /\ w.k = "joinFail")
               /\ ~(~li.marked /\ w.k = "chEcho" /\ li.expect)
      <4>1. li' = li BY <2>0, <2>2, <3>6 DEF ReceiptFeed
      <4>2. w.k # "joinFail" BY <1>1, <3>0, <3>6 DEF Answering, NoneSaid, JoinWord
      <4>3. Connected => Connected' BY <1>0, <1>1, <4>1 DEF Connected
      <4> QED BY <1>0, <1>2, <1>3, <2>0, <2>2, <3>0, <3>1, <3>2, <4>1, <4>2, <4>3 DEF Answering
    <3> QED BY <3>3, <3>4, <3>5, <3>6
  <2> QED BY <1>2, <2>1, <2>2
<1> QED BY <1>0, <1>2, <1>5, <1>6 DEF ChoiceInv, Table

\* Every step keeps what is known of the join.
LEMMA ChoiceNext ==
  ASSUME MaxTx <= 2, AllFine, ChoiceInv, [Next]_vars
  PROVE  ChoiceInv'
<1>1. CASE Lose
  <2>1. ghost' = [ghost EXCEPT !.lost = TRUE] /\ ghost \in [rushed : BOOLEAN, lost : BOOLEAN]
    BY <1>1 DEF Lose, LoseLine, AllFine, LinkFine
  <2> QED BY <2>1 DEF ChoiceInv
<1>2. CASE UNCHANGED vars
  <2>1. UNCHANGED <<slot, tx, rx, jn, li, radio, ghost>> BY <1>2 DEF vars, link, rest, joinVars
  <2> QED BY <2>1, ChoiceKeeps
<1>3. CASE Time
  BY <1>3, ChoiceElse, ChoiceTime DEF Time
<1>4. CASE BoardStep \/ BoardWard
  BY <1>4, ChoiceRead, ChoiceBoard DEF BoardStep
<1>5. CASE JoinTicks
  BY <1>5, ChoiceTick, ChoiceTime DEF JoinTicks
<1> QED BY <1>1, <1>2, <1>3, <1>4, <1>5, ChoiceWrite, ChoiceApply, ChoiceUser, ChoiceElse DEF Next

\* Only the tick that looks at the receipt says "Connected".
LEMMA OnlyJoinedStep ==
  ASSUME AllFine, Next, jn.phase # "Joined", jn'.phase = "Joined"
  PROVE  Tick /\ JoinedStep /\ UNCHANGED radio
<1>0. /\ jn \in JoinScreen BY DEF AllFine, JoinFine
<1>1. jn' # jn OBVIOUS
<1>p. PICK F \in JoinScreen : F = Flushed /\ F.phase = jn.phase
  <2> DEFINE f == [jn EXCEPT !.need = FALSE, !.pend = NoCmd]
  <2>1. f \in JoinScreen /\ f.phase = jn.phase BY <1>0 DEF JoinScreen
  <2>2. f = Flushed BY DEF Flushed
  <2> HIDE DEF f
  <2> QED BY <2>1, <2>2
<1>2. CASE Apply
  BY <1>0, <1>2 DEF Apply, Heard, JoinScreen
<1>3. CASE JoinUser
  BY <1>0, <1>3 DEF JoinUser, EnterJoin, JoinBackStop, JoinBackPass, JoinBackFail, JoinLeave,
     JoinScan, JoinAdd, JoinPick, JoinPass, Arm, Calm, JoinScreen
<1>4. CASE JoinEnds \/ JoinAge \/ JoinHunt
  BY <1>0, <1>4 DEF JoinEnds, JoinAge, JoinHunt, Failed, Calm, JoinScreen
<1>5. CASE JoinTick
  <2>1. jn' # Flushed BY <1>p
  <2>2. ~ScanStep
    <3>1. \A p \in {"Scan", "List1", "List2", "Stop2"},
             c \in {Cmd("scanall"), Cmd("list"), Cmd("stopscan")} :
            /\ Arm(F, p, c).phase = p /\ [Arm(F, p, c) EXCEPT !.hunt = "early"].phase = p
            /\ [Arm(F, p, c) EXCEPT !.stopped = FALSE].phase = p
            /\ [Arm(Published(F), p, c) EXCEPT !.stopped = FALSE].phase = p
      BY DEF Arm, Published, JoinScreen
    <3>2. /\ Calm(F, "Scan").phase = "Scan" /\ Calm(Published(F), "Scan").phase = "Scan"
          /\ Failed(F).phase = "Fail"
          /\ Published(Calm(F, "Pick")).phase = "Pick" /\ Calm(F, "Pick").phase = "Pick"
      BY DEF Calm, Failed, Published, JoinScreen
    <3>3. ScanStep => \/ jn' = [Arm(F, "Scan", Cmd("scanall")) EXCEPT !.hunt = "early"]
                      \/ \E p \in {"List1", "List2"} : jn' = Arm(F, p, Cmd("list"))
                      \/ \E s \in {F, Published(F)} :
                           \/ jn' = Calm(s, "Scan")
                           \/ jn' = [Arm(s, "Stop2", Cmd("stopscan")) EXCEPT !.stopped = FALSE]
                      \/ jn' \in {Failed(F), Calm(F, "Pick"), Published(Calm(F, "Pick"))}
      BY <1>p DEF ScanStep, StepTo, MayPublish
    <3>4. \A s \in {F, Published(F)} :
            /\ Calm(s, "Scan").phase = "Scan"
            /\ [Arm(s, "Stop2", Cmd("stopscan")) EXCEPT !.stopped = FALSE].phase = "Stop2"
      BY <3>1, <3>2
    <3>5. ASSUME ScanStep PROVE FALSE
      <4>1. CASE jn' = [Arm(F, "Scan", Cmd("scanall")) EXCEPT !.hunt = "early"] BY <3>1, <4>1
      <4>2. CASE \E p \in {"List1", "List2"} : jn' = Arm(F, p, Cmd("list")) BY <3>1, <4>2
      <4>3. CASE \E s \in {F, Published(F)} :
                   \/ jn' = Calm(s, "Scan")
                   \/ jn' = [Arm(s, "Stop2", Cmd("stopscan")) EXCEPT !.stopped = FALSE]
        BY <3>4, <4>3
      <4> QED BY <3>2, <3>3, <3>5, <4>1, <4>2, <4>3
    <3> QED BY <3>5
  <2>3. ~SavedStep /\ ~StopBackStep /\ ~CheckStep /\ ~VerifyStep
    BY <1>p DEF SavedStep, StopBackStep, CheckStep, VerifyStep, Arm, Calm, Failed, JoinScreen
  <2> QED BY <1>5, <2>1, <2>2, <2>3 DEF JoinTick, keepJoin
<1>6. CASE \/ Write \/ Lose \/ UploadUser \/ ToolsUser \/ UploadTicks \/ ToolsTicks
           \/ CapTime /\ UNCHANGED rest
           \/ ToolsRipe \/ BoardStep \/ BoardWard
  <2>1. jn' = jn
    BY <1>6 DEF Write, Lose, UploadUser, ToolsUser, EnterTools, ToolsList, ToolsLogs, ToolsOpenAdd,
       ToolsAdd, ToolsConfirm, ToolsSend, ToolsButton, ToolsNoteOk, ToolsSplit, ToolsBack,
       toolsRest, UploadTicks, ToolsTicks, PumpGate, PumpSend, PumpBarrier, PumpObserve,
       ToolsRipe, BoardStep, Read, BoardWard, rest, joinVars
  <2> QED BY <1>1, <2>1
<1> QED BY <1>2, <1>3, <1>4, <1>5, <1>6 DEF Next, Time, JoinTicks

\* "Connected" is said of the network the user chose, and the board is on it:
\* also to a user who gives up joins and starts others, when answers come after
\* their timeout and when the list of the board changes meanwhile, as long as
\* no line is lost and no more than two commands wait at the board behind the
\* one in the slot: with three the echo of a join that was given up is taken
\* for that of the next (sr_join_observe, join_receipt_line, join_tick).
THEOREM ConfirmedIsChosen ==
  ASSUME MaxTx <= 2
  PROVE  Spec => JoinedIsChosen
<1>1. Init => ChoiceInv
  <2> SUFFICES ASSUME Init PROVE ChoiceInv
    OBVIOUS
  <2>1. /\ tx = <<>> /\ radio.aps = {} /\ jn.pend = NoCmd /\ jn.phase = "Blocked" /\ ~jn.need
        /\ jn.shown = {} /\ MaxTx \in Nat
    BY PanelAssumption DEF Init, LinkInit, JoinInit
  <2>2. jn.pend.c # "join" /\ Len(tx) <= MaxTx BY <2>1 DEF NoCmd, Cmd
  <2>3. Parted BY <2>1 DEF Parted, ScanPhase
  <2> QED BY <2>1, <2>2, <2>3 DEF ChoiceInv, Table
<1>2. AllFine /\ ChoiceInv /\ [Next]_vars => ChoiceInv' BY ChoiceNext
<1>3. AllFine /\ ChoiceInv /\ [Next]_vars =>
        [jn.phase # "Joined" /\ jn'.phase = "Joined" /\ ~ghost.lost => radio.on = jn.cursor.x]_vars
  <2> SUFFICES ASSUME AllFine, ChoiceInv, Next, jn.phase # "Joined", jn'.phase = "Joined",
                      ~ghost.lost
               PROVE  radio.on = jn.cursor.x
    BY DEF vars, rest, joinVars
  <2>1. Tick /\ JoinedStep BY OnlyJoinedStep
  <2>2. jn.phase = "Join" /\ li.receipt = "Joined" BY <2>1 DEF JoinedStep
  <2>3. li.essid # NoName /\ li.essid = radio.on
    BY <2>2 DEF ChoiceInv, Expecting, Unheard, Answering
  <2> QED BY <2>1, <2>2, <2>3 DEF Tick, Usurped
<1> QED BY InitFine, NextFine, <1>1, <1>2, <1>3, PTL DEF Spec, JoinedIsChosen

=============================================================================
