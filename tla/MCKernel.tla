------------------------------ MODULE MCKernel ------------------------------
(***************************************************************************)
(* Kernel with 48 addresses in pages of four bytes and a screen of two     *)
(* rows and three columns.  A key types t or a blank; the commands are t   *)
(* (textcolor), tt (help) and ttt (user), the colors t and tt.  A          *)
(* character with no picture, home, is in what help prints.  A line holds  *)
(* as much as a row of the screen and more.                                *)
(*                                                                         *)
(* The memory maps are those of MCMemMap, and one for every number a map   *)
(* can hold.  The first image has data that ends in the middle of a page   *)
(* and continues as zeros, a note that is not loaded, and a segment that   *)
(* starts in the middle of a page; the second has only zeros; the third    *)
(* fills the user half.                                                    *)
(***************************************************************************)
EXTENDS Kernel, MCMemMap

MCKernelMaps ==
  MCMaps \cup {<<[baseAddr |-> n, length |-> DWORD - 1 - n, type |-> n % WORD]>> :
                   n \in 0 .. DWORD - 1}

MCLetters == {"t"}
MCCharacter ==
  Range(Digits) \cup {"t", " ", "newline", "backspace", ">", "%", "-", "s", "l", "u", "x", "home"}
MCFont == [c \in {"t", ">", " ", "backspace"} |->
             [i \in Lines |-> IF c = "t" THEN {i + 1} ELSE IF c = ">" THEN {1} ELSE {}]]
MCCommands == <<[name |-> <<"t">>, desc |-> <<>>, func |-> "MonitorTextColor"],
                [name |-> <<"t", "t">>, desc |-> <<"home">>, func |-> "MonitorHelp"],
                [name |-> <<"t", "t", "t">>, desc |-> <<"t">>, func |-> "MonitorUser"]>>
MCColorNames == <<[name |-> <<"t">>, color |-> {0, 1}], [name |-> <<"t", "t">>, color |-> {1}]>>
MCText == [prompt |-> <<">">>, char |-> <<"%", "c">>, banner |-> <<"newline">>,
           command |-> <<"%", "s", "%", "s", "newline">>,
           usage |-> <<"newline">>, invalid |-> <<"%", "newline">>, available |-> <<>>,
           color |-> <<"%", "s">>, newline |-> <<"newline">>,
           unknown |-> <<"%", "s", "newline">>, toomany |-> <<">", "newline">>,
           at |-> <<"t", "%", "l", "newline">>, length |-> <<" ", "%", "x", "newline">>,
           type |-> <<"%", "u", "newline">>]

Segment(type, offset, va, filesz, memsz) ==
  [type |-> type, offset |-> offset, va |-> va, filesz |-> filesz, memsz |-> memsz]
MCImages == {<<Segment("LOAD", 4, 8, 6, 7), Segment("NOTE", 0, 8, 4, 4), Segment("LOAD", 13, 21, 2, 3)>>,
             <<Segment("LOAD", 2, 10, 0, 3)>>,
             <<Segment("LOAD", 0, 8, 8, 20)>>}
=============================================================================
