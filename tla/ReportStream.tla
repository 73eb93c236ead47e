---------------------------- MODULE ReportStream ----------------------------
(***************************************************************************)
(* What polling a keyboard or mouse promises, without packets: the device  *)
(* makes one report after the other, and each is read exactly once before  *)
(* the next is made, unless the device goes away with a report still open. *)
(***************************************************************************)
EXTENDS Naturals, Sequences

CONSTANT MaxReports  \* a bound on the reports that are made

VARIABLES
  there,  \* the device can make reports
  made,   \* the number of the last report made
  open,   \* it has not been read
  read    \* the numbers of the reports read

vars == <<there, made, open, read>>

Init == there = FALSE /\ made = 0 /\ open = FALSE /\ read = <<>>

Come == ~there /\ there' = TRUE /\ UNCHANGED <<made, open, read>>

Go == there /\ there' = FALSE /\ open' = FALSE /\ UNCHANGED <<made, read>>

Make == /\ there /\ ~open /\ made < MaxReports
        /\ made' = made + 1 /\ open' = TRUE
        /\ UNCHANGED <<there, read>>

Read == /\ open
        /\ open' = FALSE /\ read' = Append(read, made)
        /\ UNCHANGED <<there, made>>

Next == Come \/ Go \/ Make \/ Read

Spec == Init /\ [][Next]_vars
=============================================================================
