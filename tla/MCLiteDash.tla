----------------------------- MODULE MCLiteDash ----------------------------
(* Values for the constants of LiteDash.                                   *)
EXTENDS LiteDash

PlayOf(tabs, acts) ==
    [scans |-> FALSE, tabs |-> tabs, acts |-> acts, hasty |-> FALSE, duds |-> 0,
     late |-> FALSE, losses |-> 0]

MCPlays ==
    {[PlayOf({"dash", "gps"}, 5) EXCEPT !.duds = 3],
     [PlayOf({"dash", "gps"}, 5) EXCEPT !.duds = 2, !.late = TRUE],
     [PlayOf({"dash", "gps"}, 5) EXCEPT !.scans = TRUE],
     [PlayOf({"dash", "gps"}, 3) EXCEPT !.hasty = TRUE, !.scans = TRUE],
     [PlayOf({"dash", "gps"}, 4) EXCEPT !.hasty = TRUE, !.duds = 2, !.late = TRUE],
     [PlayOf({"dash", "gps"}, 3) EXCEPT !.losses = 1, !.duds = 1]}

\* A user who starts a scan while a sample waits for its block.
SamplePlays == {[PlayOf({"dash", "gps"}, 3) EXCEPT !.hasty = TRUE]}
=============================================================================
