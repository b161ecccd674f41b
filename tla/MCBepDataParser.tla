-------------------------- MODULE MCBepDataParser --------------------------
(***************************************************************************)
(* Messages at the edges of the format: no header bytes, no body, a body   *)
(* that looks like a length, a compressed one, an empty and a short Hello. *)
(***************************************************************************)
EXTENDS BepDataParser

MCHello == {[type |-> 8, lz4 |-> FALSE, body |-> b] : b \in {<<>>, <<0, 1>>}}
MCMessage == {[type |-> 0, lz4 |-> FALSE, body |-> <<0>>],
              [type |-> 6, lz4 |-> FALSE, body |-> <<>>],
              [type |-> 1, lz4 |-> TRUE, body |-> <<0, 2>>]}
MCOtherMagic == <<159, 121, 188, 64>>
=============================================================================
