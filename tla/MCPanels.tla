------------------------------ MODULE MCPanels -----------------------------
(* Values for the constants of Panels.                                     *)
EXTENDS Panels

Log(f) == LineOf("log", 0, f)

Full == <<Log("a"), Log("b"), Log("c"), Sidecar("c")>>

Twice == <<Sidecar("a"), Log("b"), Log("a")>>

Pair == <<Sidecar("a"), Log("a"), Log("b")>>

PlayOf(fw, open, acts) ==
    [fw |-> fw, open |-> open, acts |-> acts, wards |-> 0, changes |-> 0, losses |-> 0, prompt |-> FALSE,
     card |-> <<>>, ign |-> <<>>]

MCPlays ==
    {[PlayOf("lite", {"tools"}, 3) EXCEPT !.ign = <<"home", "cafe">>],
     [PlayOf("lite", {"tools"}, 2) EXCEPT !.card = Full],
     [PlayOf("lite", {"tools"}, 2) EXCEPT !.card = Twice],
     [PlayOf("lite", {"tools"}, 2) EXCEPT !.ign = <<"home", "cafe">>, !.wards = 2],
     [PlayOf("generic", {"upload"}, 3) EXCEPT !.card = Pair],
     [PlayOf("generic", {"upload"}, 1) EXCEPT !.card = Twice, !.losses = 1],
     PlayOf("generic", {"upload", "join"}, 2),
     [PlayOf("generic", {"upload", "join"}, 3) EXCEPT !.prompt = TRUE],
     [PlayOf("generic", {"upload", "join"}, 2) EXCEPT !.losses = 1, !.prompt = TRUE],
     [PlayOf("generic", {"join"}, 3) EXCEPT !.changes = 1],
     [PlayOf("lite", {"upload"}, 2) EXCEPT !.card = Twice],
     [PlayOf("lite", {"upload", "tools"}, 2) EXCEPT !.card = Twice]}
=============================================================================
