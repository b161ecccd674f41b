--------------------------- MODULE MCBepProcessor ---------------------------
(***************************************************************************)
(* Small instances of the processor. A block is the record of its file,    *)
(* its position and its hash; every block but the empty one has size 1.    *)
(* "-" is the hash of no data.                                             *)
(***************************************************************************)
EXTENDS BepProcessor, TLC

MCName == DOMAIN Content
MCBlock == UNION {UNION {BlocksOf(f, v) : v \in Versions(f)} : f \in MCName}
MCNameOf == [b \in MCBlock |-> b.name]
MCSizeOf == [b \in MCBlock |-> IF b.hash = EmptyHash THEN 0 ELSE 1]

Hashes == <<"-", "a", "b", "c", "d">>
MCOrder == [b \in MCBlock |->
              (CASE b.name = "f" -> 0 [] b.name = "g" -> 100 [] b.name = "h" -> 200) + 10 * b.pos
                  + (CHOOSE n \in 1 .. 5 : Hashes[n] = b.hash)]

\* A file of two blocks, and an empty file.
TwoFiles == "f" :> <<<<"a", "b">>>> @@ "g" :> <<<<"-">>>>

\* A file of two blocks.
OneFile == "f" :> <<<<"a", "b">>>>

\* A file of two blocks, one of which changes.
Edited == "f" :> <<<<"a", "b">>, <<"a", "c">>>>

\* A file whose two blocks have the same content.
Repeated == "f" :> <<<<"a", "a">>>>

\* A file of one block that changes, next to one of two blocks and an empty one.
Changing == "f" :> <<<<"a">>, <<"b">>>> @@ "g" :> <<<<"c", "d">>>> @@ "h" :> <<<<"-">>>>
=============================================================================
