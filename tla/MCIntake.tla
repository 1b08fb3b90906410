------------------------------ MODULE MCIntake -----------------------------
(* Values for the constants of Intake.                                     *)
EXTENDS Intake

PlayOf(kind, asked) ==
    [kind |-> kind, asked |-> asked, asks |-> 3, bursts |-> 0, arms |-> 0, fails |-> 0]

MCPlays ==
    {[PlayOf(kind, {"info", "sigroam", "help", "wardrive", "stopscan"}) EXCEPT !.asks = 4] :
        kind \in {"sigroam", "lite", "stock"}}
        \cup {[PlayOf("stock", {"gpsdata", "stopscan"}) EXCEPT !.asks = 4, !.bursts = 2],
              [PlayOf("sigroam", {"info", "wardrive"}) EXCEPT !.asks = 2, !.bursts = 2],
              [PlayOf("lite", {"sigroam", "help"}) EXCEPT !.asks = 2, !.bursts = 2],
              [PlayOf("stock", {"wardrive", "stopscan", "info"}) EXCEPT !.bursts = 1],
              [PlayOf("stock", {"help"}) EXCEPT !.asks = 1, !.arms = 2, !.fails = 2],
              [PlayOf("stock", {"stopscan", "help"}) EXCEPT !.asks = 2, !.arms = 1,
                                                            !.fails = 1]}
=============================================================================
