---------------------------- MODULE MCSdcSolver ----------------------------
(* Instance of SdcSolver for TLC: four variables, with cycles of two, three *)
(* and four of them, and a loop.                                            *)
EXTENDS SdcSolver
MCIds == 0 .. 3
MCPairs == {<<0, 0>>, <<0, 1>>, <<1, 2>>, <<2, 3>>, <<3, 0>>, <<1, 0>>, <<2, 0>>, <<0, 2>>}
MCWeights == {-1, 1}
MCValues == -3 .. 0
=============================================================================
