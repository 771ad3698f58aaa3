----------------------------- MODULE MCEventLoop ----------------------------
(* A second of 8 nanoseconds, buffers of 3 bytes.  One scenario has long    *)
(* streams in slots that are reused, the other has timers.                  *)
EXTENDS EventLoop

OneConnection == {1}

Exchanges == {[stdin |-> 0, bytes |-> 5, requests |-> 2, timers |-> 0],
              [stdin |-> 1, bytes |-> 1, requests |-> 1, timers |-> 1]}
=============================================================================
