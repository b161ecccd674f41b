------------------------- MODULE MCOutgoingRequests -------------------------
(***************************************************************************)
(* Five blocks of two files for the request queue: three small ones and a  *)
(* large one of the first file, and one of the second.                     *)
(***************************************************************************)
EXTENDS OutgoingRequests

MCBlock == 1 .. 5
MCName == {"f", "g"}
MCNameOf == [b \in MCBlock |-> IF b = 5 THEN "g" ELSE "f"]
MCSizeOf == [b \in MCBlock |-> IF b = 4 THEN 3 ELSE 1]
MCOrder == [b \in MCBlock |-> b]
=============================================================================
