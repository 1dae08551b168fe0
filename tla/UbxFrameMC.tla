----------------------------- MODULE UbxFrameMC -----------------------------
(* Values of UbxFrame's constants for TLC.                                 *)
EXTENDS UbxFrame

CONSTANTS reader, client

TwoWriters == {reader, client}

\* 250 has no high byte, the others have; a header alone in front of the frame
\* for 6207 reads as a frame for 25269.
SomePeriods == {250, 1000, 6207}
=============================================================================
