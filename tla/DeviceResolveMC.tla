-------------------------- MODULE DeviceResolveMC --------------------------
(* Values of DeviceResolve's constants for TLC.                            *)
EXTENDS DeviceResolve

CONSTANTS gps, hub

Tty(usb, depth, above) == [usb |-> usb, depth |-> depth, above |-> above]

\* A receiver near and one as far from its tty as the walk goes, another
\* device below a hub with the receiver's ids, and a port of the board.
SomeTtys == {Tty(gps, 2, hub), Tty(gps, 4, hub), Tty(hub, 2, gps), Tty(NoId, 5, NoId)}

ThreeNames == 0 .. 2
=============================================================================
