------------------------------ MODULE Numbers ------------------------------
(***************************************************************************)
(* The arithmetic of types.h and the conversions of printf.c, on integers  *)
(* of the width of uint32 and uint64.  A string is a sequence of           *)
(* characters.                                                             *)
(*                                                                         *)
(* The loops are recursive functions of the record of what they change.    *)
(***************************************************************************)
EXTENDS Integers, Sequences

CONSTANT WORD    \* 2^32

ASSUME WordAssumption == WORD \in Nat /\ WORD > 16 /\ WORD % 2 = 0

DWORD == WORD * WORD
uint32(n) == n % WORD
uint64(n) == n % DWORD
Number == 0 .. DWORD - 1
-----------------------------------------------------------------------------
(***************************************************************************)
(* types.h                                                                 *)
(***************************************************************************)
RoundDown(a, b) == a - (a % b)
RoundUp(a, b) == RoundDown(uint32(a + b - 1), b)

\* The divisor and its multiplier are doubled until the divisor reaches rem or,
\* read as int64, is no longer positive.
Doubled(rem, base) ==
  LET loop[s \in [b : Number, d : Number]] ==
        IF 0 < s.b /\ s.b < DWORD \div 2 /\ s.b < rem
        THEN loop[[b |-> uint64(s.b + s.b), d |-> uint64(s.d + s.d)]] ELSE s
  IN loop[[b |-> base, d |-> 1]]

\* Mutant: the quotient of the high word is not shifted.
DivideAndMod64by32_Unshifted(n, base) ==
  LET high == n \div WORD
      h == IF high >= base THEN high \div base ELSE 0
      rem0 == uint64(n - uint32(h * base) * WORD)
      top == Doubled(rem0, base)
      loop[s \in [rem : Number, res : Number, b : Number, d : Number]] ==
        IF s.d = 0 THEN [quotient |-> s.res, remainder |-> uint32(s.rem)]
        ELSE LET half == [s EXCEPT !.b = @ \div 2, !.d = @ \div 2]
             IN IF s.rem >= s.b
                THEN loop[[half EXCEPT !.rem = @ - s.b, !.res = uint64(@ + s.d)]]
                ELSE loop[half]
  IN loop[[rem |-> rem0, res |-> h, b |-> top.b, d |-> top.d]]

\* The high word is divided first, then the rest by subtracting what Doubled found
\* and its halves.
DivideAndMod64by32(n, base) ==
  LET high == n \div WORD
      h == IF high >= base THEN high \div base ELSE 0
      rem0 == uint64(n - uint32(h * base) * WORD)
      top == Doubled(rem0, base)
      loop[s \in [rem : Number, res : Number, b : Number, d : Number]] ==
        IF s.d = 0 THEN [quotient |-> s.res, remainder |-> uint32(s.rem)]
        ELSE LET half == [s EXCEPT !.b = @ \div 2, !.d = @ \div 2]
             IN IF s.rem >= s.b
                THEN loop[[half EXCEPT !.rem = @ - s.b, !.res = uint64(@ + s.d)]]
                ELSE loop[half]
  IN loop[[rem |-> rem0, res |-> h * WORD, b |-> top.b, d |-> top.d]]

Divide64by32(a, b) == DivideAndMod64by32(a, b).quotient
Modulo64by32(a, b) == DivideAndMod64by32(a, b).remainder
-----------------------------------------------------------------------------
(***************************************************************************)
(* printf.c                                                                *)
(***************************************************************************)
Digits == <<"0", "1", "2", "3", "4", "5", "6", "7",
            "8", "9", "a", "b", "c", "d", "e", "f">>
Digit(n) == Digits[n + 1]

PrintNum(n, base) ==
  LET digits[num \in Number] ==
        IF num >= base
        THEN Append(digits[Divide64by32(num, base)], Digit(Modulo64by32(num, base)))
        ELSE <<Digit(Modulo64by32(num, base))>>
  IN digits[n]

Directives == {"c", "s", "d", "u", "l", "o", "p", "x"}

\* What a directive makes of its argument.  An int is negated as int, then read as
\* uint64, so the least int stays negative and its sign is extended.
Convert(directive, arg) ==
  LET negated == IF arg = -(WORD \div 2) THEN arg ELSE -arg
  IN CASE directive = "c" -> <<arg>>
       [] directive = "s" -> arg
       [] directive = "d" -> IF arg < 0 THEN <<"-">> \o PrintNum(uint64(negated), 10)
                             ELSE PrintNum(arg, 10)
       [] directive = "u" -> PrintNum(uint32(arg), 10)
       [] directive = "l" -> PrintNum(uint64(arg), 16)
       [] directive = "o" -> PrintNum(uint32(arg), 8)
       [] directive = "p" -> <<"0", "x">> \o PrintNum(uint32(arg), 16)
       [] directive = "x" -> PrintNum(uint32(arg), 16)

\* The format is read from place i with the arguments from place j on.  A % that
\* begins no directive is printed and what follows it is read again.
VPrintFmt(fmt, args) ==
  LET from[at \in (1 .. Len(fmt) + 1) \X Nat] ==
        LET i == at[1]
            j == at[2]
        IN IF i > Len(fmt) THEN <<>>
           ELSE IF fmt[i] # "%" THEN <<fmt[i]>> \o from[<<i + 1, j>>]
           ELSE IF i < Len(fmt) /\ fmt[i + 1] \in Directives
                THEN Convert(fmt[i + 1], args[j]) \o from[<<i + 2, j + 1>>]
           ELSE IF i < Len(fmt) /\ fmt[i + 1] = "%" THEN <<"%">> \o from[<<i + 2, j>>]
           ELSE <<"%">> \o from[<<i + 1, j>>]
  IN from[<<1, 1>>]
=============================================================================
