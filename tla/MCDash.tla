------------------------------- MODULE MCDash ------------------------------
(* Values for the constants of DashScan.                                   *)
EXTENDS DashScan

PlayOf(kind) ==
    [kind |-> kind, card |-> TRUE, handover |-> FALSE, prompt |-> FALSE, probe |-> FALSE,
     gpsTab |-> FALSE, patient |-> TRUE, lossy |-> FALSE]

\* Nothing is lost and the user waits for the answers, however late they are.
PatientPlays ==
    {[PlayOf("sigroam") EXCEPT !.card = card, !.handover = TRUE, !.probe = TRUE] :
        card \in BOOLEAN}
        \cup {[PlayOf("generic") EXCEPT !.probe = TRUE]}
        \cup {[PlayOf("sigroam") EXCEPT !.handover = TRUE, !.probe = TRUE, !.gpsTab = TRUE],
              [PlayOf("generic") EXCEPT !.probe = TRUE, !.gpsTab = TRUE]}

\* A user who does not wait, and samples the GPS.
Sampler(kind) ==
    [PlayOf(kind) EXCEPT !.patient = FALSE, !.prompt = TRUE, !.gpsTab = TRUE]

\* The user is hasty, with a stock board or with a -sigroam- one that has no
\* card, or the line lossy.
SafetyPlays ==
    {[PlayOf("generic") EXCEPT !.patient = FALSE],
     [PlayOf("generic") EXCEPT !.patient = FALSE, !.prompt = TRUE, !.probe = TRUE],
     [PlayOf("generic") EXCEPT !.prompt = TRUE, !.handover = TRUE, !.lossy = TRUE],
     Sampler("generic"),
     [Sampler("sigroam") EXCEPT !.card = FALSE],
     [PlayOf("sigroam") EXCEPT !.gpsTab = TRUE, !.handover = TRUE, !.prompt = TRUE,
                               !.lossy = TRUE]}
        \cup {[PlayOf("sigroam") EXCEPT !.card = card, !.handover = TRUE, !.probe = TRUE,
                                        !.lossy = TRUE] : card \in BOOLEAN}
        \cup PatientPlays

\* A -sigroam- board that was left scanning, and a hasty user; one that is
\* idle, and a patient user.
Hurried(prompt) == [PlayOf("sigroam") EXCEPT !.patient = FALSE, !.handover = TRUE,
                                             !.prompt = prompt]
HastyPlays == {Hurried(FALSE)}
PromptPlays == {Hurried(TRUE)}
IdlePlays == {[PlayOf("sigroam") EXCEPT !.prompt = TRUE]}
=============================================================================
