------------------------------ MODULE MCDataset ------------------------------
(***************************************************************************)
(* The instance of Collection_day: three cycles of the day on the grid,    *)
(* the fourth off it, as a `--once` cycle after the close.                 *)
(***************************************************************************)
EXTENDS Dataset, MCCollection

ThreeCycles == [d \in Dates |-> 1 .. 3]
=============================================================================
