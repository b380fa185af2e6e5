------------------------------ MODULE OneVerdict ------------------------------
(***************************************************************************)
(* What a task ledger promises the callers of check and publish_work: each *)
(* publication is recorded at most once, each check request receives at    *)
(* most one verdict, a committed check is one record, and whoever asks is  *)
(* answered with that verdict.  No leases, phases, crashes or processes.   *)
(***************************************************************************)
EXTENDS Naturals, Sequences

CONSTANTS Keys, Appends

VARIABLES
  verdict,  \* the verdict of each check request, "none" before there is one
  records,  \* what has been recorded, in order
  told      \* verdicts answered to the callers of each request

vars == <<verdict, records, told>>

Errors == {"frontier_changed", "failed", "quarantined"}

Init ==
  /\ verdict = [k \in Keys |-> "none"]
  /\ records = <<>>
  /\ told = [k \in Keys |-> {}]

Publish(a) ==
  /\ \A i \in 1..Len(records) : records[i] # a
  /\ records' = Append(records, a)
  /\ UNCHANGED <<verdict, told>>

Commit(k) ==
  /\ verdict[k] = "none"
  /\ verdict' = [verdict EXCEPT ![k] = "committed"]
  /\ records' = Append(records, k)
  /\ told' = [told EXCEPT ![k] = @ \cup {"committed"}]

\* The request is closed with an error its caller is told at once.
Refuse(k, v) ==
  /\ verdict[k] = "none"
  /\ verdict' = [verdict EXCEPT ![k] = v]
  /\ told' = [told EXCEPT ![k] = @ \cup {v}]
  /\ UNCHANGED records

\* Recovery gives up on undecided requests while nobody is asking.
GiveUp(bad) ==
  /\ \A k \in bad : verdict[k] = "none"
  /\ verdict' = [k \in Keys |-> IF k \in bad THEN "quarantined" ELSE verdict[k]]
  /\ UNCHANGED <<records, told>>

Answer(k) ==
  /\ verdict[k] # "none"
  /\ told' = [told EXCEPT ![k] = @ \cup {verdict[k]}]
  /\ UNCHANGED <<verdict, records>>

Next ==
  \/ \E a \in Appends : Publish(a)
  \/ \E k \in Keys : Commit(k) \/ Answer(k)
  \/ \E k \in Keys, v \in Errors : Refuse(k, v)
  \/ \E bad \in SUBSET Keys : GiveUp(bad)

Spec == Init /\ [][Next]_vars
=============================================================================
