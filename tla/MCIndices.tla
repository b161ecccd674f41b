------------------------------ MODULE MCIndices ------------------------------
(***************************************************************************)
(* Two peers that share two files with this device: both change the first, *)
(* at the same time or at different ones, and one changes the second. A    *)
(* third name is only that of renamed files.                               *)
(***************************************************************************)
EXTENDS Indices

MCPeer == {1, 2}
MCName == {"f", "g", "h"}
MCClock == [x \in MCPeer \X MCName |-> CASE x[2] = "f" -> IF x[1] = 1 THEN {1} ELSE {1, 2}
                                        [] x[2] = "g" -> IF x[1] = 1 THEN {1} ELSE {}
                                        [] x[2] = "h" -> {}]
=============================================================================
