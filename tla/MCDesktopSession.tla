-------------------------- MODULE MCDesktopSession --------------------------
(* Model checking of DesktopSession. *)
EXTENDS DesktopSession

CONSTANTS Localhost, Loopback

(* //localhost: becomes //127.0.0.1:, other URLs stay as they are. *)
Normalized == [s \in Servers |-> IF s = Localhost THEN Loopback ELSE s]
=============================================================================
