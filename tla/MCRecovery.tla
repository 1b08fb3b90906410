----------------------------- MODULE MCRecovery ----------------------------
(* Values for the constants of Recovery.                                   *)
EXTENDS Recovery

MCPlays ==
    [kind : {"sigroam", "generic"}, card : {TRUE}, handover : {FALSE}, prompt : {TRUE},
     probe : {FALSE}, gpsTab : {FALSE}, patient : {TRUE}, lossy : {FALSE}]
=============================================================================
