----------------------------- MODULE NmeaLineMC -----------------------------
(* Values of the constants of NmeaLine and of NmeaTokens, which takes the   *)
(* lines apart, for TLC.                                                   *)
EXTENDS NmeaTokens

\* Too short for a sentence, fit, full, one byte too long (the '\n' is the
\* byte that overflows), and so long that its tail is a sentence again.
AllLengths == {1, 2, 3, 5, 9, 10, 13}

\* Empty, numbers of one and two digits, text, and numbers with a sign, and
\* with a letter behind.
SampleFields == {<<>>, <<55>>, <<48, 57>>, <<71, 80, 86>>, <<45, 49>>, <<49, 65>>}
=============================================================================
