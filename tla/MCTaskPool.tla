----------------------------- MODULE MCTaskPool -----------------------------
(* A small instance of TaskPool for TLC; the constants are in the cfg file. *)
EXTENDS TaskPool
=============================================================================
