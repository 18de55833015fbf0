----------------------------- MODULE MCVirtMem -----------------------------
(***************************************************************************)
(* VirtMem with directories and tables of three entries: nine virtual and  *)
(* nine physical pages, of which 3 .. 8 are the user half.  Two processes  *)
(* of three pages can exist, or one of four, whose quota is enough for two *)
(* pages in different tables.                                              *)
(***************************************************************************)
EXTENDS VirtMem

MCRamSets == {1 .. 8}
MCQuotas == {3, 4}
=============================================================================
