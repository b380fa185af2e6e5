---------------------------- MODULE MCStartTask ----------------------------
(* StartTask on small instances: the first request of the pair, a second    *)
(* one that may create or attach, and one that only attaches.               *)
EXTENDS StartTask

CONSTANTS r1, r2, r3

Modes == [r \in Req |-> IF r = r3 THEN "attach" ELSE
                        IF r = r2 THEN "create_or_attach" ELSE "create"]
=============================================================================
