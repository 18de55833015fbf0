----------------------------- MODULE MCConsole -----------------------------
(***************************************************************************)
(* Console with buffers of four places and one letter: lines of up to      *)
(* three characters, so of up to two words, which are both passed.         *)
(***************************************************************************)
EXTENDS Console

MCLetters == {"x"}
=============================================================================
