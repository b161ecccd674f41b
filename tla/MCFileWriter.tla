---------------------------- MODULE MCFileWriter ----------------------------
(***************************************************************************)
(* Three tasks on a file of two chunks, the second shorter than the first. *)
(***************************************************************************)
EXTENDS FileWriter

CONSTANTS t1, t2, t3, a, b
MCTask == {t1, t2, t3}
MCData == {a, b}
=============================================================================
