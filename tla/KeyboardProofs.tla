--------------------------- MODULE KeyboardProofs ---------------------------
(***************************************************************************)
(* Theorems about Keyboard, for every choice of keys and every number of   *)
(* bytes the keyboard can hold.                                            *)
(***************************************************************************)
EXTENDS Keyboard, TLAPS

Modifiers == {"SHIFT", "CTL", "ALT"}

\* The flag a key stands for, if it is a modifier's.
ModifierOf(key) == {flag \in Modifiers : key \in KeysOf(flag)}

\* The code a key is looked up by.
CodeOf(key) == IF key \in Escaped THEN Scan[key] + \h80 ELSE Scan[key]
-----------------------------------------------------------------------------
(***************************************************************************)
(* The tables.                                                             *)
(***************************************************************************)
LEMMA AllKeys ==
  \A key \in Keys : \/ key \in {"LSHIFT", "RSHIFT", "LCTL", "RCTL", "LALT"}
                    \/ key \in {"RALT", "CAPS", "A", "DOT", "DEL"}
BY KeyboardAssumption DEF Scan

\* The scan codes: below the high bit, and none is taken for the escape.
LEMMA ScanCodes ==
  ASSUME NEW key \in Keys
  PROVE  /\ Scan[key] \in 1 .. \h5F
         /\ CodeOf(key) = \h2A <=> key = "LSHIFT"
         /\ CodeOf(key) = \h36 <=> key = "RSHIFT"
         /\ CodeOf(key) = \h1D <=> key = "LCTL"
         /\ CodeOf(key) = \h9D <=> key = "RCTL"
         /\ CodeOf(key) = \h38 <=> key = "LALT"
         /\ CodeOf(key) = \hB8 <=> key = "RALT"
         /\ CodeOf(key) = \h3A <=> key = "CAPS"
         /\ CodeOf(key) = \h1E <=> key = "A"
         /\ CodeOf(key) = \h53 <=> key = "DOT"
         /\ CodeOf(key) = \hD3 <=> key = "DEL"
BY AllKeys DEF CodeOf, Scan, Escaped

LEMMA ModifierCodes ==
  ASSUME NEW key \in Keys
  PROVE  shiftcode(CodeOf(key)) = ModifierOf(key)
<1>1. CASE key \in {"LCTL", "RCTL"}
  <2>1. CodeOf(key) \in {\h1D, \h9D}
    BY <1>1, ScanCodes
  <2>2. ModifierOf(key) = {"CTL"}
    BY <1>1 DEF ModifierOf, Modifiers, KeysOf
  <2> QED
    BY <2>1, <2>2 DEF shiftcode
<1>2. CASE key \in {"LSHIFT", "RSHIFT"}
  <2>1. CodeOf(key) \in {\h2A, \h36}
    BY <1>2, ScanCodes
  <2>2. ModifierOf(key) = {"SHIFT"}
    BY <1>2 DEF ModifierOf, Modifiers, KeysOf
  <2> QED
    BY <2>1, <2>2 DEF shiftcode
<1>3. CASE key \in {"LALT", "RALT"}
  <2>1. CodeOf(key) \in {\h38, \hB8}
    BY <1>3, ScanCodes
  <2>2. ModifierOf(key) = {"ALT"}
    BY <1>3 DEF ModifierOf, Modifiers, KeysOf
  <2> QED
    BY <2>1, <2>2 DEF shiftcode
<1>4. CASE key \notin {"LCTL", "RCTL", "LSHIFT", "RSHIFT", "LALT", "RALT"}
  <2>1. CodeOf(key) \notin {\h1D, \h9D} \cup {\h2A, \h36} \cup {\h38, \hB8}
    BY <1>4, ScanCodes
  <2>2. ModifierOf(key) = {}
    BY <1>4 DEF ModifierOf, Modifiers, KeysOf
  <2> QED
    BY <2>1, <2>2 DEF shiftcode
<1> QED
  BY <1>1, <1>2, <1>3, <1>4

\* The characters that matter to the theorems.
LEMMA CharacterCodes ==
  ASSUME NEW key \in Keys, NEW flags
  PROVE  LET c == charcode(flags, CodeOf(key)) IN
         /\ c \in Characters
         /\ c = "A" => key = "A" /\ "SHIFT" \in flags
         /\ c = "KEY_DEL" => key = "DEL"
<1>1. CASE CodeOf(key) = \h1E
  BY <1>1, ScanCodes DEF charcode, Characters
<1>2. CASE CodeOf(key) = \h53
  BY <1>2, ScanCodes DEF charcode, Characters
<1>3. CASE CodeOf(key) = \hD3
  BY <1>3, ScanCodes DEF charcode, Characters
<1>4. CASE CodeOf(key) \notin {\h1E, \h53, \hD3}
  BY <1>4 DEF charcode, Characters
<1> QED
  BY <1>1, <1>2, <1>3, <1>4

LEMMA ToggleCodes ==
  ASSUME NEW key \in Keys
  PROVE  togglecode(CodeOf(key)) = IF key = "CAPS" THEN {"CAPSLOCK"} ELSE {}
BY ScanCodes DEF togglecode
-----------------------------------------------------------------------------
(***************************************************************************)
(* The bytes on their way.                                                 *)
(***************************************************************************)
\* A byte on its own: an escape of a key that has one, or the code of a key.
ByteOK(b) ==
  /\ b \in Byte
  /\ IF b.ends THEN b.data = IF b.up THEN Scan[b.key] + \h80 ELSE Scan[b.key]
     ELSE b.data = \hE0 /\ b.key \in Escaped

\* An escape is followed by the code of its key, and by nothing else.
Follows(b, c) ==
  /\ ~b.ends => c.ends /\ c.key = b.key
  /\ b.ends => ~(c.ends /\ c.key \in Escaped)

\* The bytes s are those of whole keys, but for the first, which may follow an
\* escape that was read already.
Whole(s) ==
  /\ \A i \in 1 .. Len(s) : ByteOK(s[i])
  /\ \A i \in 1 .. Len(s) - 1 : Follows(s[i], s[i + 1])
  /\ Len(s) > 0 => s[Len(s)].ends

LEMMA SentBytes ==
  ASSUME NEW key \in Keys, NEW up \in BOOLEAN
  PROVE  LET s == Sent(key, up) IN
         /\ s \in Seq(Byte) /\ Len(s) \in {1, 2} /\ Whole(s)
         /\ s[1].ends <=> key \notin Escaped
         /\ s[1].key = key
<1> DEFINE code == IF up THEN Scan[key] + \h80 ELSE Scan[key]
           e == [data |-> \hE0, key |-> key, up |-> up, ends |-> FALSE]
           c == [data |-> code, key |-> key, up |-> up, ends |-> TRUE]
<1>1. code \in 0 .. 255
  BY ScanCodes
<1>2. e \in Byte /\ c \in Byte
  BY <1>1 DEF Byte
<1>3. Sent(key, up) = IF key \in Escaped THEN <<e, c>> ELSE <<c>>
  BY DEF Sent
<1>4. /\ ByteOK(c) /\ c.ends /\ c.key = key
  BY <1>2 DEF ByteOK
<1>5. ~e.ends /\ e.key = key /\ (key \in Escaped => ByteOK(e))
  BY <1>2 DEF ByteOK
<1> HIDE DEF e, c, code
<1>6. CASE key \in Escaped
  <2>1. Sent(key, up) = <<e, c>>
    BY <1>3, <1>6
  <2>2. Follows(e, c)
    BY <1>4, <1>5 DEF Follows
  <2> QED
    BY <2>1, <2>2, <1>2, <1>4, <1>5, <1>6 DEF Whole
<1>7. CASE key \notin Escaped
  <2>1. Sent(key, up) = <<c>>
    BY <1>3, <1>7
  <2> QED
    BY <2>1, <1>2, <1>4, <1>7 DEF Whole
<1> QED
  BY <1>6, <1>7

\* Whole keys sent after whole keys are whole keys.
LEMMA AppendWhole ==
  ASSUME NEW s \in Seq(Byte), NEW t \in Seq(Byte), Whole(s), Whole(t), Len(t) > 0,
         t[1].ends => t[1].key \notin Escaped
  PROVE  /\ s \o t \in Seq(Byte) /\ Whole(s \o t)
         /\ Len(s \o t) > 0
         /\ (s \o t)[1] = IF s = <<>> THEN t[1] ELSE s[1]
<1> DEFINE u == s \o t
<1>1. /\ u \in Seq(Byte) /\ Len(u) = Len(s) + Len(t)
      /\ \A i \in 1 .. Len(u) : u[i] = IF i <= Len(s) THEN s[i] ELSE t[i - Len(s)]
  OBVIOUS
<1>2. Len(s) \in Nat /\ Len(t) \in Nat
  OBVIOUS
<1> HIDE DEF u
<1>3. \A i \in 1 .. Len(u) : ByteOK(u[i])
  <2> SUFFICES ASSUME NEW i \in 1 .. Len(u) PROVE ByteOK(u[i])
    OBVIOUS
  <2>1. CASE i <= Len(s)
    BY <2>1, <1>1, <1>2 DEF Whole
  <2>2. CASE i > Len(s)
    <3>1. i - Len(s) \in 1 .. Len(t) /\ u[i] = t[i - Len(s)]
      BY <2>2, <1>1, <1>2
    <3>2. ByteOK(t[i - Len(s)])
      BY <3>1 DEF Whole
    <3> QED
      BY <3>1, <3>2
  <2> QED
    BY <2>1, <2>2, <1>2
<1>4. \A i \in 1 .. Len(u) - 1 : Follows(u[i], u[i + 1])
  <2> SUFFICES ASSUME NEW i \in 1 .. Len(u) - 1 PROVE Follows(u[i], u[i + 1])
    OBVIOUS
  <2>0. i \in Nat /\ i + 1 \in 1 .. Len(u) /\ i \in 1 .. Len(u)
    BY <1>1, <1>2
  <2>1. CASE i + 1 <= Len(s)
    <3>1. u[i] = s[i] /\ u[i + 1] = s[i + 1] /\ i \in 1 .. Len(s) - 1
      BY <2>0, <2>1, <1>1, <1>2
    <3> QED
      BY <3>1 DEF Whole
  <2>2. CASE i = Len(s)
    <3>1. u[i] = s[Len(s)] /\ u[i + 1] = t[1] /\ Len(s) > 0
      BY <2>0, <2>2, <1>1, <1>2
    <3> QED
      BY <3>1 DEF Whole, Follows
  <2>3. CASE i > Len(s)
    <3>1. u[i] = t[i - Len(s)] /\ u[i + 1] = t[(i - Len(s)) + 1]
          /\ i - Len(s) \in 1 .. Len(t) - 1
      <4>1. i + 1 - Len(s) = (i - Len(s)) + 1
        BY <2>0, <1>2
      <4> QED
        BY <4>1, <2>0, <2>3, <1>1, <1>2
    <3> QED
      BY <3>1 DEF Whole
  <2> QED
    BY <2>0, <2>1, <2>2, <2>3, <1>2
<1>5. Len(u) > 0 /\ u[Len(u)].ends
  <2>1. u[Len(u)] = t[Len(t)]
    BY <1>1, <1>2
  <2> QED
    BY <2>1, <1>1, <1>2 DEF Whole
<1>6. u[1] = IF s = <<>> THEN t[1] ELSE s[1]
  BY <1>1, <1>2
<1> QED
  BY <1>1, <1>3, <1>4, <1>5, <1>6 DEF Whole, u

\* What is left when the first byte of whole keys is read.
LEMMA TailWhole ==
  ASSUME NEW s \in Seq(Byte), Whole(s), s # <<>>
  PROVE  /\ ByteOK(Head(s))
         /\ Tail(s) \in Seq(Byte) /\ Whole(Tail(s))
         /\ Len(Tail(s)) = Len(s) - 1
         /\ ~Head(s).ends => Tail(s) # <<>>
         /\ Tail(s) # <<>> => Follows(Head(s), Head(Tail(s)))
<1>1. /\ Head(s) = s[1] /\ Len(s) \in Nat /\ Len(s) > 0
      /\ Tail(s) \in Seq(Byte) /\ Len(Tail(s)) = Len(s) - 1
      /\ \A i \in 1 .. Len(s) - 1 : Tail(s)[i] = s[i + 1]
  OBVIOUS
<1>2. ByteOK(Head(s))
  BY <1>1 DEF Whole
<1>3. ~Head(s).ends => Tail(s) # <<>>
  <2>1. Tail(s) = <<>> => Len(s) = 1
    BY <1>1
  <2>2. s[Len(s)].ends
    BY <1>1 DEF Whole
  <2>3. CASE Tail(s) = <<>>
    <3>1. Head(s) = s[Len(s)]
      BY <2>1, <2>3, <1>1
    <3> QED
      BY <3>1, <2>2
  <2> QED
    BY <2>3
<1>4. Tail(s) # <<>> => Follows(Head(s), Head(Tail(s)))
  <2> SUFFICES ASSUME Tail(s) # <<>> PROVE Follows(Head(s), Head(Tail(s)))
    OBVIOUS
  <2>1. Len(s) > 1 /\ Head(Tail(s)) = s[2]
    BY <1>1
  <2>2. Follows(s[1], s[2])
    BY <2>1, <1>1 DEF Whole
  <2> QED
    BY <2>1, <2>2, <1>1
<1>5. Whole(Tail(s))
  <2> DEFINE t == Tail(s)
  <2>1. /\ Len(t) = Len(s) - 1
        /\ \A i \in 1 .. Len(t) : t[i] = s[i + 1]
    BY <1>1
  <2> HIDE DEF t
  <2>2. \A i \in 1 .. Len(t) : ByteOK(t[i])
    <3> SUFFICES ASSUME NEW i \in 1 .. Len(t) PROVE ByteOK(t[i])
      OBVIOUS
    <3>1. i + 1 \in 1 .. Len(s)
      BY <1>1, <2>1
    <3> QED
      BY <3>1, <2>1 DEF Whole
  <2>3. \A i \in 1 .. Len(t) - 1 : Follows(t[i], t[i + 1])
    <3> SUFFICES ASSUME NEW i \in 1 .. Len(t) - 1 PROVE Follows(t[i], t[i + 1])
      OBVIOUS
    <3>1. i + 1 \in 1 .. Len(s) - 1 /\ i \in 1 .. Len(t) /\ i + 1 \in 1 .. Len(t)
      BY <1>1, <2>1
    <3>2. Follows(s[i + 1], s[(i + 1) + 1])
      BY <3>1 DEF Whole
    <3> QED
      BY <3>1, <3>2, <2>1
  <2>4. Len(t) > 0 => t[Len(t)].ends
    BY <1>1, <2>1 DEF Whole
  <2> QED
    BY <2>2, <2>3, <2>4 DEF Whole, t
<1> QED
  BY <1>1, <1>2, <1>3, <1>4, <1>5
-----------------------------------------------------------------------------
(***************************************************************************)
(* The inductive invariant: whole keys are on their way, and the flags say *)
(* what the bytes read so far mean.                                        *)
(***************************************************************************)
Escaping == bytes # <<>> /\ Head(bytes).ends /\ Head(bytes).key \in Escaped

Inv == /\ TypeOK
       /\ Whole(bytes)
       /\ EscapeInStep
       /\ NoStuckModifier
       /\ caps <=> "CAPSLOCK" \in shift
       /\ RebootsByThreeKeys

LEMMA InitInv == Init => Inv
<1> SUFFICES ASSUME Init PROVE Inv
  OBVIOUS
<1>1. /\ down = {} /\ bytes = <<>> /\ shift = {} /\ result = "NO"
      /\ rebooting = FALSE /\ heard = {} /\ caps = FALSE
  BY DEF Init
<1>2. TypeOK
  <2>1. bytes \in Seq(Byte) /\ Len(bytes) <= KBD_BYTES
    BY <1>1, KeyboardAssumption
  <2>2. rebooting \in BOOLEAN /\ caps \in BOOLEAN
    BY <1>1
  <2> QED
    BY <1>1, <2>1, <2>2 DEF TypeOK, Characters
<1>3. Whole(bytes)
  BY <1>1 DEF Whole
<1>4. EscapeInStep /\ NoStuckModifier /\ (caps <=> "CAPSLOCK" \in shift) /\ RebootsByThreeKeys
  BY <1>1 DEF EscapeInStep, NoStuckModifier, RebootsByThreeKeys
<1> QED
  BY <1>2, <1>3, <1>4 DEF Inv

\* The keyboard only adds whole keys at the end.
LEMMA SendInv ==
  ASSUME Inv, NEW key \in Keys, NEW up \in BOOLEAN, Send(key, up), down' \subseteq Keys
  PROVE  Inv'
<1> DEFINE t == Sent(key, up)
<1>1. /\ t \in Seq(Byte) /\ Len(t) > 0 /\ Whole(t)
      /\ t[1].ends => t[1].key \notin Escaped
  BY SentBytes
<1>2. bytes \in Seq(Byte) /\ Whole(bytes)
  BY DEF Inv, TypeOK
<1>3. /\ bytes' = bytes \o t /\ Len(bytes') <= KBD_BYTES
      /\ UNCHANGED <<shift, result, rebooting, heard, caps>>
  BY DEF Send
<1> HIDE DEF t
<1>4. /\ bytes' \in Seq(Byte) /\ Whole(bytes')
      /\ bytes' # <<>>
      /\ Head(bytes') = IF bytes = <<>> THEN t[1] ELSE Head(bytes)
  BY <1>1, <1>2, <1>3, AppendWhole
<1>5. TypeOK'
  BY <1>3, <1>4 DEF Inv, TypeOK
<1>6. EscapeInStep'
  BY <1>1, <1>3, <1>4 DEF Inv, EscapeInStep
<1>7. NoStuckModifier' /\ RebootsByThreeKeys'
  BY <1>3 DEF Inv, NoStuckModifier, RebootsByThreeKeys
<1>8. (caps <=> "CAPSLOCK" \in shift)'
  BY <1>3 DEF Inv
<1> QED
  BY <1>4, <1>5, <1>6, <1>7, <1>8 DEF Inv

\* What a byte means when it is read, and the code it is looked up by.
LEMMA ByteRead ==
  ASSUME Inv, bytes # <<>>
  PROVE  LET b == Head(bytes) IN
         /\ b.key \in Keys /\ b.up \in BOOLEAN /\ b.ends \in BOOLEAN
         /\ bytes \in Seq(Byte) /\ Whole(bytes)
         /\ ~b.ends => b.data = \hE0 /\ b.key \in Escaped /\ b.key # "CAPS"
         /\ b.ends => /\ b.key \in Escaped <=> "E0ESC" \in shift
                      /\ b.up => /\ b.data # \hE0 /\ b.data >= \h80
                                 /\ (IF "E0ESC" \in shift THEN b.data ELSE b.data - \h80)
                                      = CodeOf(b.key)
                      /\ ~b.up => /\ b.data # \hE0 /\ ~(b.data >= \h80)
                                  /\ (IF "E0ESC" \in shift THEN b.data + \h80 ELSE b.data)
                                       = CodeOf(b.key)
<1> DEFINE b == Head(bytes)
<1>1. bytes \in Seq(Byte) /\ Whole(bytes)
  BY DEF Inv, TypeOK
<1>2. ByteOK(b)
  BY <1>1, TailWhole
<1>3. b.key \in Keys /\ b.up \in BOOLEAN /\ b.ends \in BOOLEAN
  BY <1>2 DEF ByteOK, Byte
<1>4. ~b.ends => b.data = \hE0 /\ b.key \in Escaped /\ b.key # "CAPS"
  BY <1>2 DEF ByteOK, Escaped
<1>5. b.ends => (b.key \in Escaped <=> "E0ESC" \in shift)
  BY DEF Inv, EscapeInStep
<1>6. Scan[b.key] \in 1 .. \h5F
  BY <1>3, ScanCodes
<1>7. b.ends => b.data = IF b.up THEN Scan[b.key] + \h80 ELSE Scan[b.key]
  BY <1>2 DEF ByteOK
<1> HIDE DEF b
<1>8. ASSUME b.ends, b.up
      PROVE  /\ b.data # \hE0 /\ b.data >= \h80
             /\ (IF "E0ESC" \in shift THEN b.data ELSE b.data - \h80) = CodeOf(b.key)
  <2>1. b.data = Scan[b.key] + \h80
    BY <1>7, <1>8
  <2>2. b.data # \hE0 /\ b.data >= \h80 /\ b.data - \h80 = Scan[b.key]
    <3>1. PICK n \in 1 .. \h5F : Scan[b.key] = n
      BY <1>6
    <3>2. b.data = n + \h80
      BY <2>1, <3>1
    <3>3. n + \h80 # \hE0 /\ n + \h80 >= \h80 /\ (n + \h80) - \h80 = n
      OBVIOUS
    <3> QED
      BY <3>1, <3>2, <3>3, Zenon
  <2>3. CASE b.key \in Escaped
    BY <2>1, <2>2, <2>3, <1>5, <1>8 DEF CodeOf
  <2>4. CASE b.key \notin Escaped
    BY <2>1, <2>2, <2>4, <1>5, <1>8 DEF CodeOf
  <2> QED
    BY <2>3, <2>4
<1>9. ASSUME b.ends, ~b.up
      PROVE  /\ b.data # \hE0 /\ ~(b.data >= \h80)
             /\ (IF "E0ESC" \in shift THEN b.data + \h80 ELSE b.data) = CodeOf(b.key)
  <2>1. b.data = Scan[b.key]
    BY <1>7, <1>9
  <2>2. b.data # \hE0 /\ ~(b.data >= \h80)
    <3>1. \A n \in 1 .. \h5F : n # \hE0 /\ ~(n >= \h80)
      OBVIOUS
    <3> QED
      BY <2>1, <1>6, <3>1
  <2>3. CASE b.key \in Escaped
    BY <2>1, <2>2, <2>3, <1>5, <1>9 DEF CodeOf
  <2>4. CASE b.key \notin Escaped
    BY <2>1, <2>2, <2>4, <1>5, <1>9 DEF CodeOf
  <2> QED
    BY <2>3, <2>4
<1> QED
  BY <1>1, <1>3, <1>4, <1>5, <1>8, <1>9 DEF b

\* What the three parts of KeyboardGetData do, by the key of the byte.
LEMMA ReadEffect ==
  ASSUME Inv, ~rebooting, KeyboardGetData
  PROVE  LET b == Head(bytes) IN
         \/ /\ ~b.ends
            /\ shift' = shift \cup {"E0ESC"} /\ result' = "NO"
            /\ rebooting' = rebooting /\ heard' = heard /\ caps' = caps
         \/ /\ b.ends /\ b.up
            /\ shift' = shift \ (ModifierOf(b.key) \cup {"E0ESC"}) /\ result' = "NO"
            /\ rebooting' = rebooting /\ heard' = heard \ {b.key} /\ caps' = caps
         \/ /\ b.ends /\ ~b.up
            /\ KeyPressed(b.data)
            /\ shift' = Toggled((shift \ {"E0ESC"}) \cup ModifierOf(b.key),
                                IF b.key = "CAPS" THEN {"CAPSLOCK"} ELSE {})
            /\ heard' = heard \cup {b.key} /\ caps' = (caps # (b.key = "CAPS"))
<1> DEFINE b == Head(bytes)
<1>0. bytes # <<>>
  BY DEF KeyboardGetData
<1>1. /\ b.key \in Keys /\ b.up \in BOOLEAN /\ b.ends \in BOOLEAN
      /\ ~b.ends => b.data = \hE0 /\ b.key # "CAPS"
  BY <1>0, ByteRead
<1>2. caps \in BOOLEAN
  BY DEF Inv, TypeOK
<1>3. CASE ~b.ends
  <2>1. b.data = \hE0
    BY <1>1, <1>3
  <2>2. KeyEscaped
    BY <2>1 DEF KeyboardGetData
  <2>3. heard' = heard
    BY <1>3 DEF KeyboardGetData
  <2>4. caps' = (caps # FALSE)
    BY <1>1, <1>3 DEF KeyboardGetData
  <2>5. caps' = caps
    BY <2>4, <1>2
  <2> QED
    BY <1>3, <2>2, <2>3, <2>5 DEF KeyEscaped
<1>4. CASE b.ends /\ b.up
  <2>1. /\ b.data # \hE0 /\ b.data >= \h80
        /\ (IF "E0ESC" \in shift THEN b.data ELSE b.data - \h80) = CodeOf(b.key)
    BY <1>0, <1>4, ByteRead
  <2>2. KeyReleased(b.data)
    BY <2>1 DEF KeyboardGetData
  <2>3. shift' = shift \ (ModifierOf(b.key) \cup {"E0ESC"})
        /\ result' = "NO" /\ rebooting' = rebooting
    BY <2>1, <2>2, <1>1, ModifierCodes DEF KeyReleased
  <2>4. heard' = heard \ {b.key}
    BY <1>4 DEF KeyboardGetData
  <2>5. caps' = (caps # FALSE)
    BY <1>4 DEF KeyboardGetData
  <2>6. caps' = caps
    BY <2>5, <1>2
  <2> QED
    BY <1>4, <2>3, <2>4, <2>6
<1>5. CASE b.ends /\ ~b.up
  <2>1. /\ b.data # \hE0 /\ ~(b.data >= \h80)
        /\ (IF "E0ESC" \in shift THEN b.data + \h80 ELSE b.data) = CodeOf(b.key)
    BY <1>0, <1>5, ByteRead
  <2>2. KeyPressed(b.data)
    BY <2>1 DEF KeyboardGetData
  <2>3. shift' = Toggled((shift \ {"E0ESC"}) \cup ModifierOf(b.key),
                         IF b.key = "CAPS" THEN {"CAPSLOCK"} ELSE {})
    BY <2>1, <2>2, <1>1, ModifierCodes, ToggleCodes DEF KeyPressed
  <2>4. heard' = heard \cup {b.key}
    BY <1>5 DEF KeyboardGetData
  <2>5. caps' = (caps # (b.key = "CAPS"))
    BY <1>5 DEF KeyboardGetData
  <2> QED
    BY <1>5, <2>2, <2>3, <2>4, <2>5
<1> QED
  BY <1>1, <1>3, <1>4, <1>5

\* Reading a byte keeps the invariant.
LEMMA ReadInv == ASSUME Inv, ~rebooting, KeyboardGetData PROVE Inv'
<1> DEFINE b == Head(bytes)
<1>1. /\ bytes # <<>> /\ bytes' = Tail(bytes) /\ down' = down
  BY DEF KeyboardGetData
<1>2. /\ b.key \in Keys /\ b.up \in BOOLEAN /\ b.ends \in BOOLEAN
      /\ bytes \in Seq(Byte) /\ Whole(bytes)
      /\ ~b.ends => b.key \in Escaped
  BY <1>1, ByteRead
<1>3. /\ bytes' \in Seq(Byte) /\ Whole(bytes')
      /\ Len(bytes') = Len(bytes) - 1
      /\ ~b.ends => bytes' # <<>>
      /\ bytes' # <<>> => Follows(b, Head(bytes'))
  BY <1>1, <1>2, TailWhole
<1>4. Len(bytes') <= KBD_BYTES
  <2>1. Len(bytes) \in Nat /\ Len(bytes) <= KBD_BYTES /\ KBD_BYTES \in Nat
    BY <1>2, KeyboardAssumption DEF Inv, TypeOK
  <2> QED
    BY <2>1, <1>3
<1>5. /\ shift \subseteq Flags /\ heard \subseteq Keys /\ down \subseteq Keys
      /\ result \in Characters
      /\ rebooting \in BOOLEAN /\ caps \in BOOLEAN
  BY DEF Inv, TypeOK
<1>6. NoStuckModifier
  BY DEF Inv
<1>7. caps <=> "CAPSLOCK" \in shift
  BY DEF Inv
<1>8. \A key : ModifierOf(key) \subseteq Modifiers
  BY DEF ModifierOf
<1>9. "CAPSLOCK" \notin Modifiers /\ "E0ESC" \notin Modifiers /\ Modifiers \subseteq Flags
      /\ "E0ESC" \in Flags /\ "CAPSLOCK" \in Flags
  BY DEF Modifiers, Flags
<1> HIDE DEF b
<1>10. SUFFICES /\ shift' \subseteq Flags /\ heard' \subseteq Keys
                /\ result' \in Characters /\ rebooting' \in BOOLEAN /\ caps' \in BOOLEAN
                /\ EscapeInStep' /\ NoStuckModifier'
                /\ (caps' <=> "CAPSLOCK" \in shift') /\ RebootsByThreeKeys'
  <2>1. TypeOK'
    BY <1>1, <1>3, <1>4, <1>5, <1>10 DEF TypeOK
  <2> QED
    BY <2>1, <1>3, <1>10 DEF Inv
<1>11. CASE /\ ~b.ends
            /\ shift' = shift \cup {"E0ESC"} /\ result' = "NO"
            /\ rebooting' = rebooting /\ heard' = heard /\ caps' = caps
  <2>1. EscapeInStep'
    BY <1>2, <1>3, <1>11 DEF EscapeInStep, Follows
  <2>2. NoStuckModifier'
    BY <1>6, <1>11 DEF NoStuckModifier
  <2>3. caps' <=> "CAPSLOCK" \in shift'
    BY <1>7, <1>11
  <2>4. RebootsByThreeKeys'
    BY <1>11 DEF Inv, RebootsByThreeKeys
  <2>5. result' \in Characters
    BY <1>11 DEF Characters
  <2>6. rebooting' \in BOOLEAN /\ caps' \in BOOLEAN
    BY <1>5, <1>11
  <2>7. shift' \subseteq Flags /\ heard' \subseteq Keys
    BY <1>5, <1>9, <1>11
  <2> QED
    BY <2>1, <2>2, <2>3, <2>4, <2>5, <2>6, <2>7
<1>12. CASE /\ b.ends /\ b.up
            /\ shift' = shift \ (ModifierOf(b.key) \cup {"E0ESC"}) /\ result' = "NO"
            /\ rebooting' = rebooting /\ heard' = heard \ {b.key} /\ caps' = caps
  <2>1. EscapeInStep'
    BY <1>3, <1>12 DEF EscapeInStep, Follows
  <2>2. NoStuckModifier'
    <3> SUFFICES ASSUME NEW flag \in shift' \cap {"SHIFT", "CTL", "ALT"}
                 PROVE  KeysOf(flag) \cap heard' # {}
      BY DEF NoStuckModifier
    <3>1. flag \in shift /\ flag \in Modifiers /\ flag \notin ModifierOf(b.key)
      BY <1>12 DEF Modifiers
    <3>2. b.key \notin KeysOf(flag)
      BY <3>1 DEF ModifierOf
    <3>3. KeysOf(flag) \cap heard # {}
      BY <3>1, <1>6 DEF NoStuckModifier
    <3> QED
      BY <3>2, <3>3, <1>12
  <2>3. caps' <=> "CAPSLOCK" \in shift'
    BY <1>7, <1>8, <1>9, <1>12
  <2>4. RebootsByThreeKeys'
    BY <1>12 DEF RebootsByThreeKeys
  <2>5. result' \in Characters
    BY <1>12 DEF Characters
  <2>6. rebooting' \in BOOLEAN /\ caps' \in BOOLEAN
    BY <1>5, <1>12
  <2>7. shift' \subseteq Flags /\ heard' \subseteq Keys
    BY <1>5, <1>12
  <2> QED
    BY <2>1, <2>2, <2>3, <2>4, <2>5, <2>6, <2>7
<1>13. CASE /\ b.ends /\ ~b.up
            /\ KeyPressed(b.data)
            /\ shift' = Toggled((shift \ {"E0ESC"}) \cup ModifierOf(b.key),
                                IF b.key = "CAPS" THEN {"CAPSLOCK"} ELSE {})
            /\ heard' = heard \cup {b.key} /\ caps' = (caps # (b.key = "CAPS"))
  <2> DEFINE flags == shift'
             c == charcode(flags, CodeOf(b.key))
  <2>1. /\ result' = IF "CAPSLOCK" \in flags THEN SwapCase(c) ELSE c
        /\ rebooting' = ({"CTL", "ALT"} \subseteq flags /\ c = "KEY_DEL")
    <3>1. (IF "E0ESC" \in shift THEN b.data + \h80 ELSE b.data) = CodeOf(b.key)
      BY <1>1, <1>13, ByteRead DEF b
    <3> QED
      BY <3>1, <1>13 DEF KeyPressed
  <2>2. /\ c \in Characters /\ (c = "KEY_DEL" => b.key = "DEL")
    BY <1>2, CharacterCodes
  <2> HIDE DEF c
  <2>3. "E0ESC" \notin shift'
    BY <1>8, <1>9, <1>13 DEF Toggled
  <2>4. EscapeInStep'
    BY <2>3, <1>3, <1>13 DEF EscapeInStep, Follows
  <2>5. NoStuckModifier'
    <3> SUFFICES ASSUME NEW flag \in shift' \cap {"SHIFT", "CTL", "ALT"}
                 PROVE  KeysOf(flag) \cap heard' # {}
      BY DEF NoStuckModifier
    <3>1. flag \in Modifiers /\ (flag \in shift \/ flag \in ModifierOf(b.key))
      BY <1>9, <1>13 DEF Modifiers, Toggled
    <3>2. flag \in ModifierOf(b.key) => b.key \in KeysOf(flag)
      BY DEF ModifierOf
    <3>3. flag \in shift => KeysOf(flag) \cap heard # {}
      BY <3>1, <1>6 DEF NoStuckModifier, Modifiers
    <3> QED
      BY <3>1, <3>2, <3>3, <1>13
  <2>6. caps' <=> "CAPSLOCK" \in shift'
    <3>1. CASE b.key = "CAPS"
      <4>1. caps' = ~caps
        BY <3>1, <1>5, <1>13
      <4>2. "CAPSLOCK" \in shift' <=> "CAPSLOCK" \notin shift
        BY <3>1, <1>8, <1>9, <1>13 DEF Toggled
      <4> QED
        BY <4>1, <4>2, <1>7
    <3>2. CASE b.key # "CAPS"
      <4>1. caps' = caps
        BY <3>2, <1>5, <1>13
      <4>2. "CAPSLOCK" \in shift' <=> "CAPSLOCK" \in shift
        BY <3>2, <1>8, <1>9, <1>13 DEF Toggled
      <4> QED
        BY <4>1, <4>2, <1>7
    <3> QED
      BY <3>1, <3>2
  <2>7. RebootsByThreeKeys'
    <3> SUFFICES ASSUME rebooting'
                 PROVE  /\ KeysOf("CTL") \cap heard' # {}
                        /\ KeysOf("ALT") \cap heard' # {}
                        /\ "DEL" \in heard'
      BY DEF RebootsByThreeKeys
    <3>1. "CTL" \in shift' /\ "ALT" \in shift' /\ b.key = "DEL"
      BY <2>1, <2>2
    <3> QED
      BY <3>1, <2>5, <1>13 DEF NoStuckModifier
  <2>8. result' \in Characters
    BY <2>1, <2>2 DEF SwapCase, Characters
  <2>9. rebooting' \in BOOLEAN /\ caps' \in BOOLEAN
    BY <2>1, <1>13
  <2>10. shift' \subseteq Flags /\ heard' \subseteq Keys
    BY <1>2, <1>5, <1>8, <1>9, <1>13 DEF Toggled
  <2> QED
    BY <2>4, <2>5, <2>6, <2>7, <2>8, <2>9, <2>10
<1> QED
  BY <1>11, <1>12, <1>13, ReadEffect DEF b
-----------------------------------------------------------------------------
(***************************************************************************)
(* The theorems.                                                           *)
(***************************************************************************)
THEOREM InvHolds == Spec => []Inv
<1>1. Inv /\ [Next]_vars => Inv'
  <2> SUFFICES ASSUME Inv, [Next]_vars PROVE Inv'
    OBVIOUS
  <2>1. ASSUME NEW key \in Keys, Press(key) PROVE Inv'
    <3>1. Send(key, FALSE) /\ down' \subseteq Keys
      BY <2>1 DEF Press, Inv, TypeOK
    <3> QED
      BY <3>1, SendInv
  <2>2. ASSUME NEW key \in Keys, Release(key) PROVE Inv'
    <3>1. Send(key, TRUE) /\ down' \subseteq Keys
      BY <2>2 DEF Release, Inv, TypeOK
    <3> QED
      BY <3>1, SendInv
  <2>3. ASSUME ~rebooting, KeyboardGetData PROVE Inv'
    BY <2>3, ReadInv
  <2>4. CASE UNCHANGED vars
    BY <2>4 DEF vars, Inv, TypeOK, EscapeInStep, NoStuckModifier, RebootsByThreeKeys
  <2> QED
    BY <2>1, <2>2, <2>3, <2>4 DEF Next
<1> QED
  BY <1>1, InitInv, PTL DEF Spec

\* Every reachable state has the types of keyboard.c's data, and never more bytes
\* than the keyboard holds.
THEOREM TypeCorrect == Spec => []TypeOK
BY InvHolds, PTL DEF Inv

\* A modifier's flag is set only while one of its keys is held, as far as the
\* bytes read tell, in any order of presses, repeats and releases.
THEOREM NoStuckModifierSafe == Spec => []NoStuckModifier
BY InvHolds, PTL DEF Inv

\* The escape flag is set exactly between the two bytes of an escaped key.
THEOREM EscapeInStepSafe == Spec => []EscapeInStep
BY InvHolds, PTL DEF Inv

\* The machine restarts for control, alternate and delete, and nothing else.
THEOREM RebootsByThreeKeysSafe == Spec => []RebootsByThreeKeys
BY InvHolds, PTL DEF Inv

\* A letter comes out as a capital only for a shift key that is held, or Caps Lock.
THEOREM CapitalsAreMeantSafe == Spec => CapitalsAreMeant
<1> DEFINE Meant == result' = "A" /\ KeyboardGetData
                      => caps' \/ KeysOf("SHIFT") \cap heard # {}
<1>1. Inv /\ Inv' /\ [Next]_vars => [Meant]_vars
  <2> SUFFICES ASSUME Inv, Inv', Next, result' = "A", KeyboardGetData, ~caps'
               PROVE  KeysOf("SHIFT") \cap heard # {}
    OBVIOUS
  <2> DEFINE b == Head(bytes)
             c == charcode(shift', CodeOf(b.key))
  <2>1. ~rebooting /\ bytes # <<>>
    BY DEF Next, KeyboardGetData
  <2>2. /\ b.ends /\ ~b.up /\ KeyPressed(b.data)
        /\ shift' = Toggled((shift \ {"E0ESC"}) \cup ModifierOf(b.key),
                            IF b.key = "CAPS" THEN {"CAPSLOCK"} ELSE {})
    BY <2>1, ReadEffect
  <2>3. b.key \in Keys /\ (IF "E0ESC" \in shift THEN b.data + \h80 ELSE b.data) = CodeOf(b.key)
    BY <2>1, <2>2, ByteRead
  <2>4. result' = IF "CAPSLOCK" \in shift' THEN SwapCase(c) ELSE c
    BY <2>2, <2>3 DEF KeyPressed
  <2>5. "CAPSLOCK" \notin shift'
    BY DEF Inv
  <2>6. b.key = "A" /\ "SHIFT" \in shift'
    BY <2>3, <2>4, <2>5, CharacterCodes
  <2>7. ModifierOf(b.key) = {}
    BY <2>6 DEF ModifierOf, Modifiers, KeysOf
  <2>8. "SHIFT" \in shift
    BY <2>2, <2>6, <2>7 DEF Toggled
  <2> QED
    BY <2>8 DEF Inv, NoStuckModifier
<1> QED
  BY <1>1, InvHolds, PTL DEF Spec, CapitalsAreMeant
=============================================================================
