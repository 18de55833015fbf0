------------------------------ MODULE Keyboard ------------------------------
(***************************************************************************)
(* KeyboardGetData of keyboard.c and the keyboard it polls.                *)
(*                                                                         *)
(* A key sends its scan code when it goes down, again while it repeats,    *)
(* and the code with the high bit set when it goes up; some keys send the  *)
(* byte E0 first.  The kernel reads one byte a call, long after the key    *)
(* moved perhaps, and has only shift to know what is held.                 *)
(*                                                                         *)
(* The model adds heard, the keys that are down as far as the bytes read   *)
(* tell, and caps, whether Caps Lock went down an odd number of times.     *)
(***************************************************************************)
EXTENDS Integers, Sequences

CONSTANTS Keys,        \* the keys the keyboard has
          KBD_BYTES    \* bytes the keyboard holds until they are read

\* Scan code set 1: the code a key sends, and whether E0 comes first.
Scan == [LSHIFT |-> \h2A, RSHIFT |-> \h36, LCTL |-> \h1D, RCTL |-> \h1D,
         LALT |-> \h38, RALT |-> \h38, CAPS |-> \h3A, A |-> \h1E,
         DOT |-> \h53, DEL |-> \h53]
Escaped == {"RCTL", "RALT", "DEL"}

ASSUME KeyboardAssumption ==
  Keys \subseteq DOMAIN Scan /\ KBD_BYTES \in Nat

VARIABLES down,       \* the keys held down
          bytes,      \* the bytes sent and not yet read
          shift,      \* the flags of KeyboardGetData
          result,     \* the character it returned last
          rebooting,
          heard, caps
vars == <<down, bytes, shift, result, rebooting, heard, caps>>

Flags == {"SHIFT", "CTL", "ALT", "CAPSLOCK", "E0ESC"}
Characters == {"NO", "a", "A", "^A", ".", "KEY_DEL"}

\* A byte and, for the properties, the key and movement it is the last byte of.
Byte == [data : 0 .. 255, key : Keys, up : BOOLEAN, ends : BOOLEAN]
-----------------------------------------------------------------------------
(***************************************************************************)
(* The keyboard.                                                           *)
(***************************************************************************)
Sent(key, up) ==
  LET code == IF up THEN Scan[key] + \h80 ELSE Scan[key]
      of(data, ends) == [data |-> data, key |-> key, up |-> up, ends |-> ends]
  IN IF key \in Escaped THEN <<of(\hE0, FALSE), of(code, TRUE)>>
     ELSE <<of(code, TRUE)>>

Send(key, up) ==
  /\ bytes' = bytes \o Sent(key, up)
  /\ Len(bytes') <= KBD_BYTES
  /\ UNCHANGED <<shift, result, rebooting, heard, caps>>

\* A key goes down, or is held and repeats.
Press(key) == down' = down \cup {key} /\ Send(key, FALSE)

Release(key) == key \in down /\ down' = down \ {key} /\ Send(key, TRUE)
-----------------------------------------------------------------------------
(***************************************************************************)
(* The kernel.                                                             *)
(***************************************************************************)
shiftcode(data) ==
  CASE data \in {\h1D, \h9D} -> {"CTL"}
    [] data \in {\h2A, \h36} -> {"SHIFT"}
    [] data \in {\h38, \hB8} -> {"ALT"}
    [] OTHER -> {}

togglecode(data) == IF data = \h3A THEN {"CAPSLOCK"} ELSE {}

\* Mutant: the escaped DEL key has the character of the one that is not.
charcode_NoEscape(flags, data) ==
  CASE data = \h1E -> IF "CTL" \in flags THEN "^A"
                      ELSE IF "SHIFT" \in flags THEN "A" ELSE "a"
    [] data \in {\h53, \hD3} -> "KEY_DEL"
    [] OTHER -> "NO"

\* normalmap, shiftmap and ctlmap for the codes of Scan.
charcode(flags, data) ==
  CASE data = \h1E -> IF "CTL" \in flags THEN "^A"
                      ELSE IF "SHIFT" \in flags THEN "A" ELSE "a"
    [] data = \h53 -> IF "CTL" \in flags THEN "NO" ELSE "."
    [] data = \hD3 -> "KEY_DEL"
    [] OTHER -> "NO"

Toggled(flags, toggle) == (flags \ toggle) \cup (toggle \ flags)

\* Mutant: the sum is done without asking for a letter.
SwapCase_AnyCharacter(c) ==
  IF c = "a" THEN "A" ELSE IF c = "A" THEN "a" ELSE IF c = "." THEN "N" ELSE c

\* 'A' - 'a' is added to small letters and subtracted from capitals.
SwapCase(c) == IF c = "a" THEN "A" ELSE IF c = "A" THEN "a" ELSE c

\* Mutant: a release looks its flag up under the byte as it was read.
KeyReleased_HighBit(data) ==
  /\ shift' = shift \ (shiftcode(data) \cup {"E0ESC"})
  /\ result' = "NO"
  /\ UNCHANGED rebooting

\* Mutant: a release leaves the escape pending.
KeyReleased_KeepEscape(data) ==
  LET code == IF "E0ESC" \in shift THEN data ELSE data - \h80
  IN /\ shift' = shift \ shiftcode(code)
     /\ result' = "NO"
     /\ UNCHANGED rebooting

\* One flag for both keys of a modifier: either release clears it.
KeyReleased(data) ==
  LET code == IF "E0ESC" \in shift THEN data ELSE data - \h80
  IN /\ shift' = shift \ (shiftcode(code) \cup {"E0ESC"})
     /\ result' = "NO"
     /\ UNCHANGED rebooting

\* Mutant: Caps Lock is a flag like the modifiers.
KeyPressed_CapsHeld(data) ==
  LET code  == IF "E0ESC" \in shift THEN data + \h80 ELSE data
      flags == (shift \ {"E0ESC"}) \cup shiftcode(code) \cup togglecode(code)
      c     == charcode(flags, code)
  IN /\ shift' = flags
     /\ result' = IF "CAPSLOCK" \in flags THEN SwapCase(c) ELSE c
     /\ rebooting' = ({"CTL", "ALT"} \subseteq flags /\ c = "KEY_DEL")

KeyPressed(data) ==
  LET code  == IF "E0ESC" \in shift THEN data + \h80 ELSE data
      flags == Toggled((shift \ {"E0ESC"}) \cup shiftcode(code), togglecode(code))
      c     == charcode(flags, code)
  IN /\ shift' = flags
     /\ result' = IF "CAPSLOCK" \in flags THEN SwapCase(c) ELSE c
     /\ rebooting' = ({"CTL", "ALT"} \subseteq flags /\ c = "KEY_DEL")

KeyEscaped == /\ shift' = shift \cup {"E0ESC"}
              /\ result' = "NO"
              /\ UNCHANGED rebooting

\* A call that finds a byte; one that does not returns -1 and changes nothing.
KeyboardGetData ==
  LET b == Head(bytes)
  IN /\ bytes # <<>>
     /\ bytes' = Tail(bytes)
     /\ CASE b.data = \hE0 -> KeyEscaped
          [] b.data # \hE0 /\ b.data >= \h80 -> KeyReleased(b.data)
          [] OTHER -> KeyPressed(b.data)
     /\ heard' = IF ~b.ends THEN heard
                 ELSE IF b.up THEN heard \ {b.key} ELSE heard \cup {b.key}
     /\ caps' = (caps # (b.key = "CAPS" /\ ~b.up))
     /\ UNCHANGED down

Init == /\ down = {} /\ bytes = <<>>
        /\ shift = {} /\ result = "NO" /\ rebooting = FALSE
        /\ heard = {} /\ caps = FALSE

\* Once the reset is written to port 92h nothing follows.
Next == /\ ~rebooting
        /\ \/ \E key \in Keys : Press(key) \/ Release(key)
           \/ KeyboardGetData

Spec == Init /\ [][Next]_vars
-----------------------------------------------------------------------------
(***************************************************************************)
(* Properties.                                                             *)
(***************************************************************************)
\* The state keeps its types.
TypeOK == /\ down \subseteq Keys /\ heard \subseteq Keys
          /\ bytes \in Seq(Byte) /\ Len(bytes) <= KBD_BYTES
          /\ shift \subseteq Flags
          /\ result \in Characters
          /\ rebooting \in BOOLEAN /\ caps \in BOOLEAN

KeysOf(flag) == CASE flag = "SHIFT" -> {"LSHIFT", "RSHIFT"}
                  [] flag = "CTL" -> {"LCTL", "RCTL"}
                  [] flag = "ALT" -> {"LALT", "RALT"}

\* No modifier sticks: a modifier counts as held only while one of its two keys
\* is, with or without an escape in its code, in any order of presses, repeats
\* and releases.
NoStuckModifier ==
  \A flag \in shift \cap {"SHIFT", "CTL", "ALT"} : KeysOf(flag) \cap heard # {}

\* The escape is pending exactly between the two bytes of a key that has one, so
\* no byte is taken for another key's.
EscapeInStep == "E0ESC" \in shift <=> bytes # <<>> /\ Head(bytes).ends
                                      /\ Head(bytes).key \in Escaped

\* The machine restarts only while control, alternate and delete are held, and
\* not for the keypad's point, which shares delete's code.
RebootsByThreeKeys ==
  rebooting => /\ KeysOf("CTL") \cap heard # {}
               /\ KeysOf("ALT") \cap heard # {}
               /\ "DEL" \in heard

\* A letter is a capital only for a reason, a shift key that is held or Caps Lock
\* pressed an odd number of times, whatever was pressed and released before.
CapitalsAreMeant ==
  [][result' = "A" /\ KeyboardGetData
       => caps' \/ KeysOf("SHIFT") \cap heard # {}]_vars
=============================================================================
