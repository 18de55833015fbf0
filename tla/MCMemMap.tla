------------------------------ MODULE MCMemMap ------------------------------
(***************************************************************************)
(* MemMap with addresses of five bits and pages of four bytes: eight       *)
(* pages, of which 2 .. 5 are the user window.  The entries start at page  *)
(* boundaries, between them and above the word size, and end below, at and *)
(* above it; the maps have one or two of them.                             *)
(***************************************************************************)
EXTENDS MemMap

Entries == [baseAddr : {0, 6, 8, 16, 32, 40, 48}, length : {4, 6, 12, 16, 24}, type : {1, 2}]
MCMaps == {<<e>> : e \in Entries} \cup (Entries \X Entries)
=============================================================================
