----------------------------- MODULE MCReadCache -----------------------------
(* Three files of two versions each, one of which shrinks, in a cache that  *)
(* holds the small one and one of the large ones.                           *)
EXTENDS ReadCache, TLC

Sizes == "f" :> <<1, 1>> @@ "g" :> <<2, 1>> @@ "h" :> <<2, 2>>
Files == DOMAIN Sizes
=============================================================================
