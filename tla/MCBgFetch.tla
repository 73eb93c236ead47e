----------------------------- MODULE MCBgFetch -----------------------------
(***************************************************************************)
(* A picture of 8 by 5 tiles, each 2 dots high.  The horizontal scrolls    *)
(* have fine parts 0, 3, 4 and 5, the last with a line that runs almost    *)
(* wholly in the next name table; the vertical ones are none, one that     *)
(* wraps within the picture and one beyond its height.  The program writes *)
(* within a line, between two, and while the next line's first tile is     *)
(* fetched.                                                                *)
(***************************************************************************)
EXTENDS BgFetch

MCScrollXs == {0, 3, 20, 61}
MCScrollYs == {0, 7, 11}
MCControls == {[x |-> 0, y |-> 0, half |-> 0], [x |-> 1, y |-> 0, half |-> 1]}
MCWritePixels == {37, 143, 150}
=============================================================================
