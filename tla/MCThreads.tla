----------------------------- MODULE MCThreads -----------------------------
(***************************************************************************)
(* Threads with two children a process, within the quotas their parents    *)
(* have left.                                                              *)
(***************************************************************************)
EXTENDS Threads

MCQuotas == {0, 2}
=============================================================================
