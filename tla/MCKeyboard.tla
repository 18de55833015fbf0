----------------------------- MODULE MCKeyboard -----------------------------
(***************************************************************************)
(* Keyboard with both shift keys, an escaped control key and one that is   *)
(* not, one alternate key, Caps Lock, a letter, and the two keys that      *)
(* share a code.  Two bytes may wait: a whole escaped code, or one key     *)
(* behind another.                                                         *)
(***************************************************************************)
EXTENDS Keyboard

MCKeys == {"LSHIFT", "RSHIFT", "LCTL", "RCTL", "LALT", "CAPS", "A", "DOT", "DEL"}
=============================================================================
