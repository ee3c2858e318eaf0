--------------------------- MODULE SimpleClientMC ---------------------------
(* Small instances of SimpleClient: its three messages, cut short.  As in  *)
(* the program the second ends inside a message, the marker comes in the   *)
(* third, and that goes on after it.                                       *)
EXTENDS SimpleClient

Words == << << CARET, 97 >>, << DOLLAR, CARET >>, << 48, 48, DOLLAR >> >>
Ones == << 49, 49 >>

(* The bytes of ^abc$de^abte$f, xyz^123 and 25$^ab0000$abab; and 1111.     *)
ProgramSays ==
  << 94, 97, 98, 99, 36, 100, 101, 94, 97, 98, 116, 101, 36, 102,
     120, 121, 122, 94, 49, 50, 51,
     50, 53, 36, 94, 97, 98, 48, 48, 48, 48, 36, 97, 98, 97, 98 >>
ASSUME ProgramAssumption == MarkerEndsTheReply(ProgramSays, << 49, 49, 49, 49 >>)
=============================================================================
