----------------------------- MODULE NmeaSvsMC -----------------------------
(* Values of NmeaSvs's constants for TLC.                                  *)
EXTENDS NmeaSvs

\* Two talkers of one constellation, and one of another.
ThreeTalkers == {"GP", "GB", "BD"}

\* Nothing in view; one full message; two messages, the second one short.
FewViews == {<<>>, <<1, 2>>, <<2, 1, 3>>}
=============================================================================
