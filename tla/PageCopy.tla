------------------------------ MODULE PageCopy ------------------------------
(***************************************************************************)
(* What sprite DMA promises its programmer, without clocks or buses: a     *)
(* program stores to memory and to OAM, and may ask for a page.  While the *)
(* request is open it does nothing else; then the whole page is in OAM at  *)
(* once.  A page outside memory (I/O) leaves unknown bytes.                *)
(***************************************************************************)
CONSTANTS Page, MemPage, Offset, Byte, NoPage

VARIABLES source,  \* what each page of memory reads as
          oam,     \* object attribute memory
          req      \* the page asked for, or NoPage

vars == <<source, oam, req>>

Init == /\ source \in [MemPage -> [Offset -> Byte]]
        /\ oam \in [Offset -> Byte]
        /\ req = NoPage

\* A store changes one offset, in every page that mirrors the same memory.
Store == /\ req = NoPage
         /\ \E P \in SUBSET MemPage, i \in Offset, d \in Byte :
              source' = [p \in MemPage |->
                           IF p \in P THEN [source[p] EXCEPT ![i] = d]
                                      ELSE source[p]]
         /\ UNCHANGED <<oam, req>>

OamStore == /\ req = NoPage
            /\ \E i \in Offset, d \in Byte : oam' = [oam EXCEPT ![i] = d]
            /\ UNCHANGED <<source, req>>

Request == /\ req = NoPage
           /\ req' \in Page
           /\ UNCHANGED <<source, oam>>

Copy == /\ req \in MemPage
        /\ oam' = source[req]
        /\ req' = NoPage
        /\ UNCHANGED source

IoByte == /\ req \in Page \ MemPage
          /\ \E i \in Offset, d \in Byte : oam' = [oam EXCEPT ![i] = d]
          /\ UNCHANGED source

IoCopy  == IoByte /\ req' = req
IoEnd   == IoByte /\ req' = NoPage

Next == Store \/ OamStore \/ Request \/ Copy \/ IoCopy \/ IoEnd

Spec     == Init /\ [][Next]_vars
FairSpec == Spec /\ WF_vars(Copy \/ IoEnd)
=============================================================================
