----------------------------- MODULE NmeaFixMC -----------------------------
(* Values of NmeaFix's constants for TLC.                                  *)
EXTENDS NmeaFix

\* A SiRF receiver; one with two constellations; and one that sends RMC
\* before the rest, GGA last.
ReceiverOrders == {<<"GGA", "GSA", "RMC", "VTG">>,
                   <<"RMC", "VTG", "GGA", "GSA", "GSA">>,
                   <<"RMC", "GSA", "GGA">>}
=============================================================================
