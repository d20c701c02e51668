--------------------------- MODULE MCMlx5Registry ---------------------------
(* Mlx5Registry with a small memory.                                       *)
EXTENDS Mlx5Registry

MCCells == 1 .. 4
MCSizes == <<2, 2, 1>>
=============================================================================
