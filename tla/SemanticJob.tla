----------------------------- MODULE SemanticJob -----------------------------
(***************************************************************************)
(* The AI-powered review of one check: its durable job, the physical       *)
(* attempts the service spends on it, the one-use disclosure decision a    *)
(* human takes on the prepared bytes, and the privacy audit that admits    *)
(* each send.  The operation row is in SEMANTIC_WAIT from Init until the   *)
(* check is committed.                                                     *)
(* Sources: application/semantic_attempts.py (the attempt loop),           *)
(* adapters/memory/ledger.py (job, attempt and wait rows),                 *)
(* application/egress.py, adapters/privacy/gateway.py and catalog.py (the  *)
(* audit), application/check.py (what becomes of the loop's answer).       *)
(*                                                                         *)
(* Time is what the code compares it with: the frozen execution deadline   *)
(* and the deadline plus cleanup grace.  A lease renewed while the job is  *)
(* open expires exactly when the grace does ("bound"); any other lease is  *)
(* a 60 second one ("short") that may lapse at any moment.                 *)
(***************************************************************************)
EXTENDS Naturals, Sequences, FiniteSets

CONSTANTS
  Calls,                \* invocations of execute_check that may run at once
  MaxRetries,           \* frozen max_retries of the primary endpoint
  Previews,             \* what preview_required may be when bytes are prepared
  MaxFaults,            \* bound: restarts, cancellations and lapses in flight
  None

ASSUME CallsAssumption == None \notin Calls

ASSUME LimitsAssumption ==
  /\ MaxRetries \in Nat
  /\ MaxFaults \in Nat
  /\ Previews \in (SUBSET BOOLEAN) \ {{}}

VARIABLES
  row,       \* the check's operation row
  job,       \* its semantic job row
  attempts,  \* its semantic attempt rows, by ordinal
  wait,      \* its disclosure wait row
  audit,     \* the privacy audit row of each attempt's provider request
  calls,     \* the running invocations
  time,      \* where now stands against the execution deadline
  faults

vars == <<row, job, attempts, wait, audit, calls, time, faults>>

Budget == 1 + MaxRetries

\* What a provider call reports of one dispatch.  A request that was sent and
\* timed out reports provider_timeout, the code the loop also writes for a
\* request it never sent.
Answers == {"succeeded", "transient", "provider_timeout", "repairable",
            "refused", "unknown"}

\* The answers another physical attempt may follow.
Retriable == {"transient", "provider_timeout"}

Results == Answers \cup {"blocked", "awaiting"}

\* What the rows say; provider_timeout is also written for what was never sent.
Codes == Results \cup {"none", "exhausted", "coordinator_failure", "completed"}

Pcs == {"idle", "entered", "loaded", "looping", "claiming", "claimed", "egress",
        "asking", "authorizing", "sending", "sampling", "returned", "recording",
        "selecting", "resolving", "concluding"}

Call ==
  [pc : Pcs, snap : {"none", "queued", "leased", "settled"}, attempt : Nat,
   exp : Calls \cup {None}, got : Results \cup {"none"}, last : BOOLEAN,
   refused : BOOLEAN, cleanup : BOOLEAN, renewed : BOOLEAN, stale : BOOLEAN,
   result : {"none", "succeeded", "failed"}]

Row ==
  [state : {"pending", "complete"}, holder : Calls \cup {None}, ours : BOOLEAN,
   term : {"short", "bound", "lapsed"}, verdict : {"none", "succeeded", "failed"}]

Job ==
  [state : {"none", "queued", "leased", "succeeded", "failed"}, active : Nat,
   ours : BOOLEAN, term : {"none", "short", "bound", "lapsed"},
   by : Calls \cup {None}, reason : Codes]

Attempt ==
  [state : {"started", "response_durable", "selected", "failed", "expired"},
   exp : Calls \cup {None},
   code : Codes \ {"awaiting"}]        \* a wait leaves the attempt open

AuditRow ==
  [status : {"none", "reserved", "awaiting", "approved", "denied", "expired",
             "authorized", "stale", "consumed", "closed"},
   preview : BOOLEAN, approved : BOOLEAN, sent : Nat,
   told : Answers \cup {"none"}]       \* history: what its provider call reported

TypeOK ==
  /\ row \in Row
  /\ job \in Job
  /\ attempts \in Seq(Attempt)
  /\ wait \in [state : {"none", "awaiting", "resolved"}, attempt : Nat]
  /\ audit \in Seq(AuditRow)
  /\ Len(audit) = Len(attempts)
  /\ calls \in [Calls -> Call]
  /\ time \in {"open", "grace", "over"}
  /\ faults \in Nat

IdleCall ==
  [pc |-> "idle", snap |-> "none", attempt |-> 0, exp |-> None,
   got |-> "none", last |-> FALSE, refused |-> FALSE, cleanup |-> FALSE,
   renewed |-> FALSE, stale |-> FALSE, result |-> "none"]

NoJob == [state |-> "none", active |-> 0, ours |-> TRUE, term |-> "none",
          by |-> None, reason |-> "none"]

\* One invocation has just moved the row to SEMANTIC_WAIT under its lease.
Init ==
  /\ \E c \in Calls :
       /\ row = [state |-> "pending", holder |-> c, ours |-> TRUE,
                 term |-> "short", verdict |-> "none"]
       /\ calls = [d \in Calls |->
            IF d = c THEN [IdleCall EXCEPT !.pc = "entered"] ELSE IdleCall]
  /\ job = NoJob
  /\ attempts = <<>>
  /\ wait = [state |-> "none", attempt |-> 0]
  /\ audit = <<>>
  /\ time = "open"
  /\ faults = 0

-----------------------------------------------------------------------------
(* What the ledger reads before it decides.                                *)

TermLive(term) == term = "short" \/ (term = "bound" /\ time # "over")

\* _require_lease: the caller's copy is the row's lease and it has not expired.
Holds(c) ==
  /\ row.state = "pending"
  /\ row.holder = c
  /\ row.ours
  /\ TermLive(row.term)

\* Faulty: a request that awaits a decision is not reclaimed before it.
ReclaimableOnceDecided ==
  /\ row.state = "pending"
  /\ ~(row.ours /\ TermLive(row.term))
  /\ wait.state # "awaiting"

\* freeze_case refuses an exact replay while this service's lease is live.
Reclaimable == row.state = "pending" /\ ~(row.ours /\ TermLive(row.term))

JobOpen == job.state \in {"queued", "leased"}

Open(i) == attempts[i].state \in {"started", "response_durable"}

\* renew_leases: an open job's lease is bounded by the frozen execution.
Renewable(c) == Holds(c) /\ (JobOpen => time # "over")

\* attempt.handle = handle: the lease it was last bound to is the caller's.
HandleCurrent(c) ==
  /\ calls[c].attempt \in 1..Len(attempts)
  /\ attempts[calls[c].attempt].exp = calls[c].exp

AwaitingDecision == wait.state = "awaiting" /\ wait.attempt = job.active

\* claim_semantic_job resumes the active attempt under the caller's lease.
MayRebind ==
  /\ job.state = "leased"
  /\ Open(job.active)
  /\ AwaitingDecision \/ job.ours \/ ~TermLive(job.term)

Repairs ==
  Cardinality({i \in 1..Len(attempts) : attempts[i].code = "repairable"})

\* Faulty: the one-repair cap counts the repairs this invocation has made.
RetriesWithLocalCap(c) ==
  /\ time = "open"
  /\ calls[c].attempt < Budget
  /\ \/ calls[c].got \in Retriable
     \/ calls[c].got = "repairable" /\ ~calls[c].last

\* should_retry_after.
Retries(c) ==
  /\ time = "open"
  /\ calls[c].attempt < Budget
  /\ \/ calls[c].got \in Retriable
     \/ calls[c].got = "repairable" /\ Repairs = 0

\* final_status_after_exhaustion: a spent budget is reported as such, whatever
\* the last of its n attempts ended with, unless that may be repaired.
Exhaustion(reason, n) ==
  IF reason # "repairable" /\ n >= Budget /\ n > 1 THEN "exhausted" ELSE reason

\* _exhaustion_from_rows: the rows end with this call's last reason.
RowsEnd(c) ==
  Exhaustion(calls[c].got,
    IF attempts[Len(attempts)].code = calls[c].got
    THEN Len(attempts) ELSE Len(attempts) + 1)

-----------------------------------------------------------------------------
(* How rows change.                                                        *)

SetCall(c, r) == calls' = [calls EXCEPT ![c] = r]

Goto(c, pc) == SetCall(c, [calls[c] EXCEPT !.pc = pc])

Finish(c, result) ==
  SetCall(c, [calls[c] EXCEPT !.pc = "resolving", !.result = result])

\* The loop raised: check.py records COORDINATOR_FAILURE and goes on with the
\* lease it had before the loop renewed it.
Raise(c) ==
  SetCall(c, [calls[c] EXCEPT !.pc = "concluding", !.result = "failed",
                              !.stale = calls[c].renewed])

RenewedRow == [row EXCEPT !.term = IF JobOpen THEN "bound" ELSE "short"]

RenewedJob == IF job.state = "leased" /\ job.ours
              THEN [job EXCEPT !.term = "bound", !.by = None] ELSE job

\* renew_leases takes the lease to the execution bound, or adds 60 seconds.
Renew(c) ==
  /\ Renewable(c)
  /\ row' = RenewedRow
  /\ job' = RenewedJob

\* The expiry a handle inherits: the execution bound or this call's own.
LeaseTag(c) == IF row.term = "bound" THEN None ELSE c

ClosedJob(state, reason) ==
  [NoJob EXCEPT !.state = state, !.reason = reason]

\* record_attempt_outcome(FAILED) fails the job too; EXPIRED requeues it.
CloseAttempt(i, state, code) ==
  /\ attempts' = [attempts EXCEPT ![i].state = state, ![i].code = code]
  /\ job' = IF state = "failed" THEN ClosedJob("failed", code)
            ELSE ClosedJob("queued", "none")

SelectAttempt(i) ==
  /\ attempts' = [attempts EXCEPT ![i].state = "selected",
                                  ![i].code = "completed"]
  /\ job' = ClosedJob("succeeded", "completed")

-----------------------------------------------------------------------------
(* One invocation: acquire, read or create the job, renew.                 *)

Replay(c) ==
  /\ calls[c].pc = "idle"
  /\ Reclaimable
  /\ row' = [row EXCEPT !.holder = c, !.ours = TRUE, !.term = "short"]
  /\ SetCall(c, [IdleCall EXCEPT !.pc = "entered"])
  /\ UNCHANGED <<job, attempts, wait, audit, time, faults>>

\* enqueue_semantic_job fixes the execution deadline in the case object.
Enqueue(c) ==
  /\ calls[c].pc = "entered"
  /\ job.state = "none"
  /\ Holds(c)
  /\ job' = ClosedJob("queued", "none")
  /\ SetCall(c, [calls[c] EXCEPT !.pc = "loaded", !.snap = "queued"])
  /\ UNCHANGED <<row, attempts, wait, audit, time, faults>>

EnqueueRefused(c) ==
  /\ calls[c].pc = "entered"
  /\ job.state = "none"
  /\ ~Holds(c)
  /\ Raise(c)
  /\ UNCHANGED <<row, job, attempts, wait, audit, time, faults>>

LoadJob(c) ==
  /\ calls[c].pc = "entered"
  /\ job.state # "none"
  /\ SetCall(c, [calls[c] EXCEPT !.pc = "loaded",
                   !.snap = IF JobOpen THEN job.state ELSE "settled"])
  /\ UNCHANGED <<row, job, attempts, wait, audit, time, faults>>

\* _recover_terminal_job: the answer is rebuilt from the terminal job row.
RecoveredResult == IF job.state = "succeeded" THEN "succeeded" ELSE "failed"

\* Faulty: any terminal job is recovered as a completed review.
RenewEntryRecoversSuccess(c) ==
  /\ calls[c].pc = "loaded"
  /\ Renew(c)
  /\ IF calls[c].snap = "settled"
     THEN SetCall(c, [calls[c] EXCEPT !.pc = "resolving", !.renewed = TRUE,
                                      !.result = "succeeded"])
     ELSE SetCall(c, [calls[c] EXCEPT !.pc = "looping", !.renewed = TRUE])
  /\ UNCHANGED <<attempts, wait, audit, time, faults>>

\* The first renewal; a terminal job is then recovered, not claimed again.
RenewEntry(c) ==
  /\ calls[c].pc = "loaded"
  /\ Renew(c)
  /\ IF calls[c].snap = "settled"
     THEN SetCall(c, [calls[c] EXCEPT !.pc = "resolving", !.renewed = TRUE,
                                      !.result = RecoveredResult])
     ELSE SetCall(c, [calls[c] EXCEPT !.pc = "looping", !.renewed = TRUE])
  /\ UNCHANGED <<attempts, wait, audit, time, faults>>

\* Past the deadline a refused renewal still allows one local terminal write
\* for an attempt that was left open.
RenewEntryRefused(c) ==
  /\ calls[c].pc = "loaded"
  /\ ~Renewable(c)
  /\ IF /\ time # "open"
        /\ calls[c].snap = "leased"
        /\ job.state = "leased"
        /\ Open(job.active)
     THEN SetCall(c, [calls[c] EXCEPT !.pc = "looping", !.cleanup = TRUE])
     ELSE Raise(c)
  /\ UNCHANGED <<row, job, attempts, wait, audit, time, faults>>

-----------------------------------------------------------------------------
(* The attempt loop: head, claim, dispatch, outcome.                       *)

\* The head ends the loop once the deadline has passed, except for the first
\* look at an attempt that was already leased when this call began.
HeadExpired(c) ==
  /\ time # "open"
  /\ ~(calls[c].snap = "leased" /\ ~calls[c].last /\ ~calls[c].refused)

\* The head renews, unless the lease is good for local cleanup only.
LoopHead(c) ==
  /\ calls[c].pc = "looping"
  /\ ~HeadExpired(c)
  /\ IF calls[c].cleanup THEN UNCHANGED <<row, job>> ELSE Renew(c)
  /\ SetCall(c, [calls[c] EXCEPT !.pc = "claiming",
                   !.renewed = calls[c].renewed \/ ~calls[c].cleanup])
  /\ UNCHANGED <<attempts, wait, audit, time, faults>>

LoopHeadRaises(c) ==
  /\ calls[c].pc = "looping"
  /\ \/ ~HeadExpired(c) /\ ~calls[c].cleanup /\ ~Renewable(c)
     \/ HeadExpired(c) /\ ~calls[c].last /\ calls[c].refused
     \/ HeadExpired(c) /\ (calls[c].last \/ ~calls[c].refused)
        /\ ~(Holds(c) /\ job.state = "queued")
  /\ Raise(c)
  /\ UNCHANGED <<row, job, attempts, wait, audit, time, faults>>

\* fail_semantic_job: nothing is active, the deadline took the job.
FailJob(c) ==
  /\ calls[c].pc = "looping"
  /\ HeadExpired(c)
  /\ calls[c].last \/ ~calls[c].refused
  /\ Holds(c)
  /\ job.state = "queued"
  /\ job' = ClosedJob("failed", IF calls[c].last THEN RowsEnd(c)
                                ELSE "provider_timeout")
  /\ SetCall(c, [calls[c] EXCEPT !.pc = "resolving", !.attempt = 0,
                                 !.result = "failed"])
  /\ UNCHANGED <<row, attempts, wait, audit, time, faults>>

\* Faulty: a leased job is claimed afresh beside its started attempt.
ClaimAfresh(c) ==
  /\ calls[c].pc = "claiming"
  /\ Holds(c)
  /\ JobOpen
  /\ attempts' = Append(attempts, [state |-> "started", exp |-> LeaseTag(c),
                                   code |-> "none"])
  /\ audit' = Append(audit, [status |-> "none", preview |-> FALSE,
                             approved |-> FALSE, sent |-> 0, told |-> "none"])
  /\ job' = [job EXCEPT !.state = "leased", !.active = Len(attempts) + 1,
               !.ours = TRUE, !.term = row.term, !.by = LeaseTag(c)]
  /\ SetCall(c, [calls[c] EXCEPT !.pc = "claimed", !.refused = FALSE,
                   !.attempt = Len(attempts) + 1, !.exp = LeaseTag(c)])
  /\ UNCHANGED <<row, wait, time, faults>>

\* claim_semantic_job on a queued job: a new ordinal and provider request.
ClaimNew(c) ==
  /\ calls[c].pc = "claiming"
  /\ Holds(c)
  /\ job.state = "queued"
  /\ attempts' = Append(attempts, [state |-> "started", exp |-> LeaseTag(c),
                                   code |-> "none"])
  /\ audit' = Append(audit, [status |-> "none", preview |-> FALSE,
                             approved |-> FALSE, sent |-> 0, told |-> "none"])
  /\ job' = [job EXCEPT !.state = "leased", !.active = Len(attempts) + 1,
               !.ours = TRUE, !.term = row.term, !.by = LeaseTag(c)]
  /\ SetCall(c, [calls[c] EXCEPT !.pc = "claimed", !.refused = FALSE,
                   !.attempt = Len(attempts) + 1, !.exp = LeaseTag(c)])
  /\ UNCHANGED <<row, wait, time, faults>>

\* _rebind_semantic_attempt: same attempt, same provider request id.
ClaimRebind(c) ==
  /\ calls[c].pc = "claiming"
  /\ Holds(c)
  /\ MayRebind
  /\ attempts' = [attempts EXCEPT ![job.active].exp = LeaseTag(c)]
  /\ job' = [job EXCEPT !.ours = TRUE, !.term = row.term, !.by = LeaseTag(c)]
  /\ SetCall(c, [calls[c] EXCEPT !.pc = "claimed", !.refused = FALSE,
                   !.attempt = job.active, !.exp = LeaseTag(c)])
  /\ UNCHANGED <<row, wait, audit, time, faults>>

\* A refused claim is polled until the deadline.
ClaimRefused(c) ==
  /\ calls[c].pc = "claiming"
  /\ ~(Holds(c) /\ (job.state = "queued" \/ MayRebind))
  /\ SetCall(c, [calls[c] EXCEPT !.pc = "looping", !.refused = TRUE])
  /\ UNCHANGED <<row, job, attempts, wait, audit, time, faults>>

\* A response that was durable before a crash is selected, not asked again.
RecoverResponse(c) ==
  LET i == calls[c].attempt IN
  /\ calls[c].pc = "claimed"
  /\ attempts[i].state = "response_durable"
  /\ Holds(c)
  /\ HandleCurrent(c)
  /\ job.active = i
  /\ SelectAttempt(i)
  /\ SetCall(c, [calls[c] EXCEPT !.pc = "resolving", !.attempt = 0,
                                 !.result = "succeeded"])
  /\ UNCHANGED <<row, wait, audit, time, faults>>

\* Faulty: a resumed attempt is reported as one that was never admitted.
ClaimedTooLateCode(c) == "provider_timeout"

\* Only an attempt this call claimed itself is known not to have been sent.
TooLateCode(c) ==
  IF calls[c].snap = "leased" /\ ~calls[c].last
  THEN "unknown" ELSE "provider_timeout"

\* Faulty: the deadline is looked at before the durable response.
ClosedTooLate(c) ==
  /\ calls[c].pc = "claimed"
  /\ time # "open"
  /\ HandleCurrent(c)
  /\ CloseAttempt(calls[c].attempt, "failed", TooLateCode(c))
  /\ Finish(c, "failed")
  /\ UNCHANGED <<row, wait, audit, time, faults>>

ClaimedTooLate(c) ==
  /\ calls[c].pc = "claimed"
  /\ time # "open"
  /\ HandleCurrent(c)
  /\ attempts[calls[c].attempt].state = "started"
  /\ CloseAttempt(calls[c].attempt, "failed", TooLateCode(c))
  /\ Finish(c, "failed")
  /\ UNCHANGED <<row, wait, audit, time, faults>>

EnterDispatch(c) ==
  /\ calls[c].pc = "claimed"
  /\ time = "open"
  /\ attempts[calls[c].attempt].state # "response_durable"
  /\ Goto(c, "egress")
  /\ UNCHANGED <<row, job, attempts, wait, audit, time, faults>>

-----------------------------------------------------------------------------
(* The privacy egress of one attempt.                                      *)

AuditOf(c) == audit[calls[c].attempt].status

SetAudit(c, status) ==
  audit' = [audit EXCEPT ![calls[c].attempt].status = status]

Return(c, got) ==
  SetCall(c, [calls[c] EXCEPT !.pc = "returned", !.got = got])

\* The exact bytes are reserved, and the policy read for this attempt says
\* whether a human is asked about them.
Reserve(c) ==
  \E preview \in Previews :
    /\ audit' = [audit EXCEPT ![calls[c].attempt].status = "reserved",
                              ![calls[c].attempt].preview = preview]
    /\ Goto(c, IF preview THEN "asking" ELSE "authorizing")

\* Faulty: a resumed attempt is prepared anew without asking the audit.
PrepareAgain(c) ==
  /\ calls[c].pc = "egress"
  /\ Reserve(c)
  /\ UNCHANGED <<row, job, attempts, wait, time, faults>>

\* _semantic_pipeline: policy may block; otherwise the exact bytes are reserved
\* and either shown to a human or authorized by the standing policy.
Prepare(c) ==
  /\ calls[c].pc = "egress"
  /\ AuditOf(c) = "none"
  /\ \/ UNCHANGED audit /\ Return(c, "blocked")
     \/ Reserve(c)
  /\ UNCHANGED <<row, job, attempts, wait, time, faults>>

\* _handle_human_gate: mark_awaiting_human is a transaction of its own, and the
\* caller is told to wait even if it fails.
AskHuman(c) ==
  /\ calls[c].pc = "asking"
  /\ \/ AuditOf(c) = "reserved" /\ SetAudit(c, "awaiting")
     \/ UNCHANGED audit
  /\ Return(c, "awaiting")
  /\ UNCHANGED <<row, job, attempts, wait, time, faults>>

\* Faulty: a reserved proposal is taken for one the standing policy admitted.
RecoverReserved(c) ==
  /\ calls[c].pc = "egress"
  /\ AuditOf(c) # "none"
  /\ CASE AuditOf(c) = "consumed" -> Return(c, "unknown")
       [] AuditOf(c) = "awaiting" -> Return(c, "awaiting")
       [] AuditOf(c) \in {"reserved", "approved"} -> Goto(c, "authorizing")
       [] OTHER -> Return(c, "blocked")
  /\ UNCHANGED <<row, job, attempts, wait, audit, time, faults>>

\* recover_started_attempt and _resume_admitted: what an earlier dispatch of
\* the same provider request left in the audit decides.
Recover(c) ==
  /\ calls[c].pc = "egress"
  /\ AuditOf(c) # "none"
  /\ CASE AuditOf(c) = "consumed" -> Return(c, "unknown")
       [] AuditOf(c) \in {"reserved", "awaiting"} -> Return(c, "awaiting")
       [] AuditOf(c) = "approved" /\ time = "open" -> Goto(c, "authorizing")
       [] AuditOf(c) = "authorized" /\ time = "open" -> Goto(c, "sending")
       [] OTHER -> Return(c, "blocked")
  /\ UNCHANGED <<row, job, attempts, wait, audit, time, faults>>

\* audit.authorize, or a fence, an expiry or the deadline stops it first.
Authorize(c) ==
  /\ calls[c].pc = "authorizing"
  /\ \/ /\ AuditOf(c) \in {"reserved", "approved"}
        /\ SetAudit(c, "authorized")
        /\ Goto(c, "sending")
     \/ UNCHANGED audit /\ Return(c, "blocked")
  /\ UNCHANGED <<row, job, attempts, wait, time, faults>>

\* The consume compare-and-swap admits one physical send.
Consume(c) ==
  /\ AuditOf(c) = "authorized"
  /\ audit' = [audit EXCEPT ![calls[c].attempt].status = "consumed",
                            ![calls[c].attempt].sent = @ + 1]

Send(c) ==
  /\ calls[c].pc = "sending"
  /\ Consume(c)
  /\ Goto(c, "sampling")
  /\ UNCHANGED <<row, job, attempts, wait, time, faults>>

\* _preconsume_failure closes the decision without a send.
SendRefused(c) ==
  /\ calls[c].pc = "sending"
  /\ SetAudit(c, IF AuditOf(c) = "authorized" THEN "closed" ELSE AuditOf(c))
  /\ Return(c, "blocked")
  /\ UNCHANGED <<row, job, attempts, wait, time, faults>>

ProviderAnswers(c) ==
  /\ calls[c].pc = "sampling"
  /\ \E got \in Answers :
       /\ audit' = [audit EXCEPT ![calls[c].attempt].told = got]
       /\ Return(c, got)
  /\ UNCHANGED <<row, job, attempts, wait, time, faults>>

\* _terminalize_after_failure without a handle: a claim that raised fails the
\* job if nothing is active.
ClaimRaises(c) ==
  /\ calls[c].pc = "claiming"
  /\ row' = IF Renewable(c) THEN RenewedRow ELSE row
  /\ job' = IF Holds(c) /\ job.state = "queued"
            THEN ClosedJob("failed", "coordinator_failure")
            ELSE IF Renewable(c) THEN RenewedJob ELSE job
  /\ SetCall(c, [calls[c] EXCEPT !.pc = "resolving", !.attempt = 0,
                   !.result = "failed"])
  /\ UNCHANGED <<attempts, wait, audit, time, faults>>

\* _terminalize_after_failure: an exception while the attempt is dispatched or
\* its response is published closes the attempt if the handle is still its own.
DispatchRaises(c) ==
  /\ \/ calls[c].pc \in {"claimed", "egress", "asking", "authorizing",
                         "sending", "sampling"}
     \/ calls[c].pc = "recording" /\ calls[c].got = "succeeded"
  /\ row' = IF Renewable(c) THEN RenewedRow ELSE row
  /\ IF HandleCurrent(c) /\ attempts[calls[c].attempt].state = "started"
     THEN CloseAttempt(calls[c].attempt, "failed", "coordinator_failure")
     ELSE /\ job' = IF Renewable(c) THEN RenewedJob ELSE job
          /\ UNCHANGED attempts
  /\ Finish(c, "failed")
  /\ UNCHANGED <<wait, audit, time, faults>>

-----------------------------------------------------------------------------
(* The outcome of a dispatch becomes durable.                              *)

RenewReturned(c) ==
  /\ calls[c].pc = "returned"
  /\ IF Renewable(c)
     THEN Renew(c) /\ SetCall(c, [calls[c] EXCEPT !.pc = "recording",
                                                  !.renewed = TRUE])
     ELSE Raise(c) /\ UNCHANGED <<row, job>>
  /\ UNCHANGED <<attempts, wait, audit, time, faults>>

\* record_attempt_outcome and record_disclosure_wait take the exact handle of a
\* started attempt, and a wait that was resolved is not opened again.
Writable(c) ==
  /\ HandleCurrent(c)
  /\ attempts[calls[c].attempt].state = "started"
  /\ calls[c].got = "awaiting" =>
       /\ job.active = calls[c].attempt
       /\ ~(wait.state = "resolved" /\ wait.attempt = calls[c].attempt)

Recordable(c) == calls[c].pc = "recording" /\ Writable(c)

RecordRefused(c) ==
  /\ calls[c].pc = "recording"
  /\ ~Writable(c)
  /\ Raise(c)
  /\ UNCHANGED <<row, job, attempts, wait, audit, time, faults>>

RecordResponse(c) ==
  /\ Recordable(c)
  /\ calls[c].got = "succeeded"
  /\ attempts' = [attempts EXCEPT ![calls[c].attempt].state =
                                    "response_durable"]
  /\ Goto(c, "selecting")
  /\ UNCHANGED <<row, job, wait, audit, time, faults>>

\* The attempt stays started and the job leased; the caller is told to wait.
RecordWait(c) ==
  /\ Recordable(c)
  /\ calls[c].got = "awaiting"
  /\ wait' = [state |-> "awaiting", attempt |-> calls[c].attempt]
  /\ SetCall(c, IdleCall)
  /\ UNCHANGED <<row, job, attempts, audit, time, faults>>

RecordRetry(c) ==
  /\ Recordable(c)
  /\ Retries(c)
  /\ CloseAttempt(calls[c].attempt, "expired", calls[c].got)
  /\ SetCall(c, [calls[c] EXCEPT !.pc = "resolving", !.last = TRUE])
  /\ UNCHANGED <<row, wait, audit, time, faults>>

\* Faulty: an awaited decision falls through to the failure path.
RecordFailureOfWait(c) ==
  /\ Recordable(c)
  /\ calls[c].got # "succeeded"
  /\ ~Retries(c)
  /\ CloseAttempt(calls[c].attempt, "failed", calls[c].got)
  /\ Finish(c, "failed")
  /\ UNCHANGED <<row, wait, audit, time, faults>>

RecordFailure(c) ==
  /\ Recordable(c)
  /\ calls[c].got \notin {"succeeded", "awaiting"}
  /\ ~Retries(c)
  /\ CloseAttempt(calls[c].attempt, "failed",
                  Exhaustion(calls[c].got, calls[c].attempt))
  /\ Finish(c, "failed")
  /\ UNCHANGED <<row, wait, audit, time, faults>>

MaySelect(c) ==
  /\ Holds(c)
  /\ HandleCurrent(c)
  /\ attempts[calls[c].attempt].state = "response_durable"
  /\ job.active = calls[c].attempt

Select(c) ==
  /\ calls[c].pc = "selecting"
  /\ MaySelect(c)
  /\ SelectAttempt(calls[c].attempt)
  /\ Finish(c, "succeeded")
  /\ UNCHANGED <<row, wait, audit, time, faults>>

SelectRefused(c) ==
  /\ calls[c].pc = "selecting"
  /\ ~MaySelect(c)
  /\ Raise(c)
  /\ UNCHANGED <<row, job, attempts, wait, audit, time, faults>>

\* _resolve_disclosure_wait_after_terminal, then the next turn or the end.
Resolve(c) ==
  /\ calls[c].pc = "resolving"
  /\ wait' = IF /\ wait.state = "awaiting"
                /\ calls[c].attempt \in {0, wait.attempt}
             THEN [wait EXCEPT !.state = "resolved"] ELSE wait
  /\ Goto(c, IF calls[c].result = "none" THEN "looping" ELSE "concluding")
  /\ UNCHANGED <<row, job, attempts, audit, time, faults>>

\* check.py advances to READY_TO_FINALIZE and commits under the lease the
\* evaluation handed back.
Conclude(c) ==
  /\ calls[c].pc = "concluding"
  /\ row' = IF Holds(c) /\ ~calls[c].stale
            THEN [row EXCEPT !.state = "complete", !.holder = None,
                             !.verdict = calls[c].result]
            ELSE row
  /\ SetCall(c, IdleCall)
  /\ UNCHANGED <<job, attempts, wait, audit, time, faults>>

-----------------------------------------------------------------------------
(* The human, the clock, and faults.                                       *)

\* record_human_decision, on a proposal a caller was told of.
Decide(i) ==
  /\ \/ audit[i].status = "awaiting"
     \/ audit[i].status = "reserved" /\ wait.state = "awaiting" /\ wait.attempt = i
  /\ \/ audit' = [audit EXCEPT ![i].status = "approved", ![i].approved = TRUE]
     \/ audit' = [audit EXCEPT ![i].status = "denied"]
  /\ UNCHANGED <<row, job, attempts, wait, calls, time, faults>>

ProposalExpires(i) ==
  /\ audit[i].status \in {"reserved", "awaiting", "approved"}
  /\ audit' = [audit EXCEPT ![i].status = "expired"]
  /\ UNCHANGED <<row, job, attempts, wait, calls, time, faults>>

\* The execution deadline exists once the job does.
Tick ==
  /\ job.state # "none"
  /\ time # "over"
  /\ time' = IF time = "open" THEN "grace" ELSE "over"
  /\ UNCHANGED <<row, job, attempts, wait, audit, calls, faults>>

InUse == row.holder # None /\ calls[row.holder].pc # "idle"

\* The job's 60 second lease, if it has one, is no younger than the row's.
LapsedJob == IF job.term = "short" THEN [job EXCEPT !.term = "lapsed"] ELSE job

\* A lease nobody works under runs out.
LapseIdle ==
  /\ row.term = "short"
  /\ ~InUse
  /\ row' = [row EXCEPT !.term = "lapsed"]
  /\ job' = LapsedJob
  /\ UNCHANGED <<attempts, wait, audit, calls, time, faults>>

\* A lease runs out under an invocation that is slower than its 60 seconds.
LapseInUse ==
  /\ row.term = "short"
  /\ InUse
  /\ faults < MaxFaults
  /\ faults' = faults + 1
  /\ row' = [row EXCEPT !.term = "lapsed"]
  /\ job' = LapsedJob
  /\ UNCHANGED <<attempts, wait, audit, calls, time>>

\* A job lease left behind by an earlier incarnation runs out by itself.
JobLapse ==
  /\ job.term = "short"
  /\ job.by = None
  /\ job' = [job EXCEPT !.term = "lapsed"]
  /\ UNCHANGED <<row, attempts, wait, audit, calls, time, faults>>

\* The invocation is cancelled where nothing more is written: outside the
\* dispatch, after its cleanup, or before the claim's handle came back.
Cancel(c) ==
  /\ calls[c].pc \in {"entered", "loaded", "looping", "claimed", "returned",
                      "recording", "selecting", "resolving", "concluding"}
  /\ faults < MaxFaults
  /\ faults' = faults + 1
  /\ SetCall(c, IdleCall)
  /\ UNCHANGED <<row, job, attempts, wait, audit, time>>

\* The service dies; rows and audit survive, authorizations become stale.
Restart ==
  /\ faults < MaxFaults
  /\ faults' = faults + 1
  /\ row' = [row EXCEPT !.holder = None, !.ours = FALSE]
  /\ job' = [job EXCEPT !.ours = FALSE, !.by = None]
  /\ audit' = [i \in 1..Len(audit) |->
       IF audit[i].status = "authorized"
       THEN [audit[i] EXCEPT !.status = "stale"] ELSE audit[i]]
  /\ calls' = [c \in Calls |-> IdleCall]
  /\ UNCHANGED <<attempts, wait, time>>

CallStep(c) ==
  \/ Enqueue(c) \/ EnqueueRefused(c) \/ LoadJob(c)
  \/ RenewEntry(c) \/ RenewEntryRefused(c)
  \/ LoopHead(c) \/ LoopHeadRaises(c) \/ FailJob(c)
  \/ ClaimNew(c) \/ ClaimRebind(c) \/ ClaimRefused(c)
  \/ RecoverResponse(c) \/ ClaimedTooLate(c) \/ EnterDispatch(c)
  \/ Prepare(c) \/ AskHuman(c) \/ Recover(c) \/ Authorize(c)
  \/ Send(c) \/ SendRefused(c)
  \/ ProviderAnswers(c) \/ ClaimRaises(c) \/ DispatchRaises(c)
  \/ RenewReturned(c) \/ RecordRefused(c) \/ RecordResponse(c)
  \/ RecordWait(c) \/ RecordRetry(c) \/ RecordFailure(c)
  \/ Select(c) \/ SelectRefused(c) \/ Resolve(c) \/ Conclude(c)

Next ==
  \/ \E c \in Calls : Replay(c) \/ CallStep(c) \/ Cancel(c)
  \/ \E i \in 1..Len(audit) : Decide(i) \/ ProposalExpires(i)
  \/ Tick
  \/ LapseIdle
  \/ LapseInUse
  \/ JobLapse
  \/ Restart

Spec == Init /\ [][Next]_vars

\* Invocations run on, time passes and the caller replays a pending request;
\* no human is assumed ever to decide.
Fairness ==
  /\ \A c \in Calls : WF_vars(CallStep(c)) /\ WF_vars(Replay(c))
  /\ WF_vars(Tick)
  /\ WF_vars(LapseIdle)

FairSpec == Spec /\ Fairness

-----------------------------------------------------------------------------
(* Safety.                                                                 *)

\* A provider request is sent at most once, whatever crashes, replays and
\* rebinds happen around it: the audit's consume admits one send and a resumed
\* attempt asks the audit before it dispatches.
SentOnce == \A i \in 1..Len(audit) : audit[i].sent <= 1

\* The job never gets more physical attempts than its frozen budget, and never
\* a second repair, although every replay restarts the loop's local counters:
\* should_retry_after reads ordinals and codes from the durable rows.
WithinBudget ==
  /\ Len(attempts) <= Budget
  /\ Cardinality({i \in 1..Len(attempts) :
       attempts[i].state = "expired" /\ attempts[i].code = "repairable"}) <= 1

\* Job row and attempt rows agree: an attempt is open exactly while the job is
\* leased to it, so a takeover can always find what was in flight.
OneOpenAttempt ==
  \A i \in 1..Len(attempts) :
    Open(i) <=> job.state = "leased" /\ job.active = i

\* Nothing was sent whose bytes were prepared under a policy that requires a
\* preview and that a human did not approve, however the attempt was resumed.
SentOnlyIfApproved ==
  \A i \in 1..Len(audit) :
    audit[i].preview /\ audit[i].sent > 0 => audit[i].approved

\* A job that ends provider_timeout hides no send whose outcome nobody knows.
\* Each of its requests was never sent, or an invocation was still there when
\* the provider call ended and the attempt says what that call reported, a
\* timeout of the request included; an attempt taken over from an invocation
\* that died or lost its lease after the send ends outcome_unknown instead.
TimeoutHidesNoLostAnswer ==
  job.state = "failed" /\ job.reason = "provider_timeout" =>
    \A i \in 1..Len(audit) :
      audit[i].sent > 0 =>
        audit[i].told # "none" /\ attempts[i].code = audit[i].told

\* A committed check reports a completed review only if the job selected a
\* response, whichever invocation committed and whichever selected.
VerdictWasSelected ==
  row.verdict = "succeeded" =>
    \E i \in 1..Len(attempts) : attempts[i].state = "selected"

\* A response that is durable is never asked for again: no step closes its
\* attempt except by selecting it.
ResponseKept ==
  [][\A i \in 1..Len(attempts) :
       attempts[i].state = "response_durable" =>
         attempts'[i].state \in {"response_durable", "selected"}]_vars

-----------------------------------------------------------------------------
(* Liveness.                                                               *)

\* Every check leaves SEMANTIC_WAIT: even if no human ever decides, the
\* execution deadline, the lapse of the lease and one replay finish it.
CheckFinishes == <>(row.state = "complete")

-----------------------------------------------------------------------------
(* What comments and documents say and the code does not do.               *)

\* INTERFACES.md: approval resumes the same request.  While the execution
\* deadline has not passed and no invocation is running, replaying the request
\* after an approval must be able to reclaim it.
ApprovalUsable ==
  (/\ job.state = "leased"
   /\ audit[job.active].status = "approved"
   /\ time = "open"
   /\ \A c \in Calls : calls[c].pc = "idle") => Reclaimable

\* run_durable_semantic_attempts: exactly one selected attempt or one terminal
\* failed job results, so a committed check leaves no job open.
CommittedJobIsSettled ==
  row.state = "complete" => job.state \in {"succeeded", "failed"}

\* _resolve_disclosure_wait_after_terminal closes a wait only after its bound
\* attempt is terminal.
WaitClosedLast ==
  wait.state = "resolved" => ~Open(wait.attempt)
=============================================================================
