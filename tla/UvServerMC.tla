---------------------------- MODULE UvServerMC ----------------------------
(* Small instances of UvServer: the scripts its clients may send.          *)
EXTENDS UvServer

(* A message that asks the server to stop, one that does not and whose     *)
(* answer fits in the kernel's buffer, and one whose answer does not.      *)
StopScript == << CARET, 87, 88, 89 >>
ShortScript == << CARET, 89 >>
OpenScript == << CARET, 255, CARET >>

AllScripts == {StopScript, ShortScript, OpenScript}
OpenScripts == {OpenScript}
=============================================================================
