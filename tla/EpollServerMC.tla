--------------------------- MODULE EpollServerMC ---------------------------
(* Small instances of EpollServer: the scripts its clients may send.       *)
EXTENDS EpollServer

(* A message that is never ended, whose echo may have to be sent in two    *)
(* pieces, and a byte outside of any message, which a connection that took *)
(* over the parser of the one before it would echo.                        *)
OpenScript == << CARET, 255, CARET >>
NoiseScript == << 97 >>

TwoScripts == {OpenScript, NoiseScript}
OpenScripts == {OpenScript}
=============================================================================
