----------------------------- MODULE PanelLink -----------------------------
(***************************************************************************)
(* What the panels outside the Dash share: the screen shown, the command   *)
(* slot to the worker, the serial line, the session and the peer kept by   *)
(* SrModel, and the board at the other end, a stock Marauder or one with   *)
(* the Lite status command.                                                *)
(*                                                                         *)
(* The board serves one command at a time and answers it to the end before *)
(* it reads the next: what it prints for a command is appended to rx when  *)
(* the command is read, and it reads the next one when all of that has     *)
(* been applied.  How long a line has to wait in rx is not bounded.        *)
(*                                                                         *)
(* A handler of a screen and the worker's apply hold one mutex.  A handler *)
(* that sends twice is two steps, as the worker may empty the slot between *)
(* them; other handlers are one.                                           *)
(***************************************************************************)
EXTENDS Naturals, Sequences, FiniteSets

CONSTANTS
    Plays,       \* bound: what may happen in one run of the app, see Play
    MaxTx        \* bound: commands written and not yet read by the board

VARIABLES
    scene,       \* [at: the screen, half: between the two sends of a tick]
    play,        \* what is left of a member of Plays
    slot,        \* the worker's command slot
    tx,          \* commands on the line to the board
    rx,          \* lines on the way to the app
    model,       \* [session, fw], from SrModel
    ghost        \* [rushed: the user once acted before everything was answered,
                 \*  lost: a line was lost]

link == <<slot, tx, rx>>
tally == <<play, ghost>>

Peer == {"generic", "lite"}
Screen == {"menu", "upload", "join", "tools"}
PanelSession == {"Idle", "Running", "Stopped"}

\* What bounds a run: the peer, the logs and sidecars on its card and the
\* SSIDs it ignores at first, the screens the user opens (Join is reached
\* through Upload; "join" alone passes it by), how often the
\* user asks for something that is sent, how often the board's own menu
\* starts or stops a scan or changes the list of access points, how many
\* lines are lost, and whether the board answers within every timeout.
Play == [fw : Peer, open : SUBSET (Screen \ {"menu"}), acts : Nat, wards : Nat,
         changes : Nat, losses : Nat, prompt : BOOLEAN,
         card : Seq([k : {"log", "side"}, n : {0}, x : STRING]),
         ign : Seq(STRING)]

ASSUME PanelAssumption ==
    /\ Plays \subseteq Play
    /\ MaxTx \in Nat \ {0}

\* A command: its words and, where it has them, an index and a name.
Cmd(c) == [c |-> c, n |-> 0, x |-> "-"]
CmdOf(c, n, x) == [c |-> c, n |-> n, x |-> x]
NoCmd == Cmd("none")

\* A line: what it says and, where it has them, a number and a name.
Line(k) == [k |-> k, n |-> 0, x |-> "-"]
LineOf(k, n, x) == [k |-> k, n |-> n, x |-> x]

LinkInit ==
    /\ slot = NoCmd /\ tx = <<>> /\ rx = <<>>
    /\ play \in Plays
    /\ model = [session |-> "Idle", fw |-> play.fw]
    /\ ghost = [rushed |-> FALSE, lost |-> FALSE]
    /\ scene = [at |-> "menu", half |-> FALSE]

-----------------------------------------------------------------------------
(* sr_worker_send_cmd, and the worker that empties the slot.               *)

Free == slot = NoCmd

Send(c) == slot' = IF Free THEN c ELSE slot

\* Nothing is on its way between the app and the board.
Quiet == Free /\ tx = <<>> /\ rx = <<>>

WriteSlot ==
    /\ ~Free /\ Len(tx) < MaxTx
    /\ tx' = Append(tx, slot)
    /\ slot' = NoCmd

\* What ties the session to the lines of the board (sr_model.c).
SessionAfter(session, line) ==
    CASE line.k = "started" -> "Running"
      [] line.k = "stopped" -> "Stopped"
      [] OTHER -> session

\* The line in front is lost: the app never sees it.
LoseLine ==
    /\ play.losses > 0 /\ rx # <<>>
    /\ play' = [play EXCEPT !.losses = @ - 1]
    /\ rx' = Tail(rx)
    /\ ghost' = [ghost EXCEPT !.lost = TRUE]
    /\ UNCHANGED <<scene, slot, tx, model>>

At(screen) == scene.at = screen /\ ~scene.half

Goto(screen) == scene' = [scene EXCEPT !.at = screen]

\* The user asks for something that is sent to the board, on this screen or
\* by going to another one.  A user who does so before everything is
\* answered is a hasty one from then on.
Ask(screen, inTime) ==
    /\ play.acts > 0
    /\ play' = [play EXCEPT !.acts = @ - 1]
    /\ scene' = [scene EXCEPT !.at = screen]
    /\ ghost' = [ghost EXCEPT !.rushed = @ \/ ~inTime]
=============================================================================
