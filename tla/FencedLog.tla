----------------------------- MODULE FencedLog -----------------------------
(***************************************************************************)
(* What the ownership of a task bundle promises, whoever holds it: an      *)
(* owner generation that only grows, and a log whose every entry is        *)
(* written under the generation that is current when it is written.        *)
(***************************************************************************)
EXTENDS Naturals, Sequences

VARIABLES owner, log

\* A service process becomes the owner: the bundle's generation advances by one.
Acquire == owner' = owner + 1 /\ UNCHANGED log
\* Somebody who holds the current generation writes.
Write == log' = Append(log, owner) /\ UNCHANGED owner

Init == owner = 0 /\ log = <<>>
Next == Acquire \/ Write
Spec == Init /\ [][Next]_<<owner, log>>

\* What a reader of the bundle relies on: nobody writes under a generation
\* that has been taken over, so generations never go back along the log.
Ordered ==
    /\ owner \in Nat
    /\ log \in Seq(Nat)
    /\ \A i \in 1..Len(log) : log[i] <= owner
    /\ \A i, j \in 1..Len(log) : i < j => log[i] <= log[j]
=============================================================================
