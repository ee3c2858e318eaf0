-------------------------- MODULE UvPrimeServerMC --------------------------
(* Small instances of UvPrimeServer: what its clients may ask.             *)
EXTENDS UvPrimeServer

(* "7@9@": asked in one piece each, or cut anywhere.                       *)
TwoAsked == << 55, AT, 57, AT >>
Requests == {TwoAsked}

CONSTANTS c1, c2
OneOrBoth == {{c1}, {c1, c2}}
=============================================================================
