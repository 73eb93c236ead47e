---------------------------- MODULE MCHidSession ----------------------------
(***************************************************************************)
(* Instance of HidSession for TLC.  The head of a configuration is three   *)
(* units long and takes two packets, or one; the last packet of a transfer *)
(* is a short one, or a full one.  A keyboard's report is as long as what  *)
(* a poll asks for, a mouse's is shorter.  The third device is no boot     *)
(* device, and the configuration of the fourth does not fit into bigbuf.   *)
(***************************************************************************)
EXTENDS HidSession

ConfigHead == <<"config", "config", "config">>

Keyboard == [config |-> ConfigHead \o <<"keyboard", "hid", "endpoint">>,
             max0 |-> 2, max1 |-> 2, report |-> 2]
Mouse    == [config |-> ConfigHead \o <<"mouse", "endpoint">>,
             max0 |-> 3, max1 |-> 2, report |-> 1]
Other    == [config |-> ConfigHead \o <<"otherInterface", "endpoint", "keyboard", "endpoint">>,
             max0 |-> 3, max1 |-> 2, report |-> 2]
Long     == [config |-> ConfigHead \o <<"mouse", "hid", "hid", "endpoint">>,
             max0 |-> 3, max1 |-> 2, report |-> 2]

\* Its report fills a packet, and is shorter than what a poll asks for.
FullPacketMouse == [Mouse EXCEPT !.max1 = 1]

MCDevices == {Keyboard, Mouse, Other, Long}

ASSUME \A d \in MCDevices : WellSized(d)

MCFullPacket == {FullPacketMouse}
=============================================================================
