----------------------------- MODULE MCFuseTree -----------------------------
(***************************************************************************)
(* A folder with a directory and a file in it, and an empty folder; a peer *)
(* may add a second file to the directory, or the first one again after it *)
(* has been moved.                                                         *)
(***************************************************************************)
EXTENDS FuseTree, TLC

MCFolder == "F" :> 1 @@ "G" :> 2
Row(id, located) == [id |-> id, version |-> 1, located |-> located, dir |-> ~located]
MCRows == <<"F", "d">> :> Row(1, FALSE)
          @@ <<"F", "d", "a">> :> Row(2, TRUE)
MCArriving == {<<"F", "d", "a">>, <<"F", "d", "b">>}
=============================================================================
