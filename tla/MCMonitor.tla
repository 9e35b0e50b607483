------------------------------ MODULE MCMonitor ------------------------------
(***************************************************************************)
(* Small instances of Monitor for TLC.                                     *)
(***************************************************************************)
EXTENDS Monitor

CONSTANTS LastTime, LastReport

Frame(source, kind, target, seq, nonce) ==
    [source |-> source, kind |-> kind, target |-> target, seq |-> seq, nonce |-> nonce]

\* The automatic plane trips two targets, one of them twice; a console switches the other.
MCCommands ==
    {Frame("AI", "TRIP", "A", 1, 1), Frame("AI", "TRIP", "B", 1, 1), Frame("AI", "TRIP", "B", 2, 2),
     Frame("SCADA", "TRIP", "A", 1, 1)}
WithPrivileged == MCCommands \cup {Frame("SCADA", "PRIVILEGED", "A", 2, 2)}

\* Reports in and out of the order of their times, the first of them older than the others, the
\* last one only above adaptive sensitivity; and a call without a report.
Corroborated(t, seq) == [t |-> t, seq |-> seq, sound |-> TRUE, level |-> 2, cert |-> FALSE]
MCReports ==
    {Corroborated(0, 1), Corroborated(1, 2), Corroborated(1, LastReport),
     [Corroborated(LastTime, LastReport) EXCEPT !.level = 1, !.cert = TRUE],
     [t |-> LastTime, seq |-> NoSeq, sound |-> FALSE, level |-> 0, cert |-> FALSE]}
=============================================================================
