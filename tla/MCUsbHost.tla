----------------------------- MODULE MCUsbHost -----------------------------
(* UsbHost with a clock of a few milliseconds and one or two addresses. *)
EXTENDS UsbHost

MCKinds == {[speed |-> "full", class |-> "keyboard"], [speed |-> "low", class |-> "mouse"]}

OneKeyboard == {[speed |-> "low", class |-> "keyboard"]}
=============================================================================
