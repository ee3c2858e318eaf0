--------------------------- MODULE BlockingServerMC ---------------------------
(* A small instance of BlockingServer: its clients' scripts, and the       *)
(* programs and resources they may meet.                                   *)
EXTENDS BlockingServer

(* A message that is never ended, whose echo the client may be slow to     *)
(* read.                                                                   *)
OpenScript == {<< CARET, 255 >>}

(* thread_server.c with a thread for everyone but one descriptor; with no  *)
(* more threads than descriptors; and with fewer threads than descriptors; *)
(* and sequential_server.c.                                                *)
AllSettings == {[threaded |-> TRUE, connections |-> 1, threads |-> 3],
                [threaded |-> TRUE, connections |-> 1, threads |-> 1],
                [threaded |-> TRUE, connections |-> 2, threads |-> 1],
                [threaded |-> FALSE, connections |-> 1, threads |-> 1]}
=============================================================================
