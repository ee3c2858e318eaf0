--------------------------- MODULE SelectServerMC ---------------------------
(* A small instance of SelectServer: the scripts its clients may send, and *)
(* the limits of the process.                                              *)
EXTENDS SelectServer

(* A message that is never ended, whose echo may have to be sent in two    *)
(* pieces, and a byte outside of any message, which a connection that took *)
(* over the parser of the one before it would echo.                        *)
OpenScript == << CARET, 255, CARET >>
NoiseScript == << 97 >>

TwoScripts == {OpenScript, NoiseScript}

(* Room for both clients; one descriptor too few; and a descriptor that    *)
(* the system gives although it is no longer below MAXFDS.                 *)
LimitSettings == {[fdLimit |-> 7, MaxFds |-> 7],
                  [fdLimit |-> 6, MaxFds |-> 7],
                  [fdLimit |-> 7, MaxFds |-> 6]}
=============================================================================
