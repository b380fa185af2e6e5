--------------------------- MODULE CheckPipeline ---------------------------
(***************************************************************************)
(* One check request and the invocations of execute_check_commit that      *)
(* replay it: the stages freeze, local findings, semantic wait, review,    *)
(* finalize, commit, and the error paths that close the operation.  What   *)
(* changes underneath between two replays is the environment each stage    *)
(* reads afresh: the verification policy and the wording contract (with a  *)
(* restart) and the standing repository grant (at any time).               *)
(*                                                                         *)
(* The ledger is reduced to the row of this request: CheckLedger has its   *)
(* frontier, barrier and durability rules, SemanticJob the attempt loop    *)
(* that Review stands for here.                                            *)
(***************************************************************************)
EXTENDS Naturals, FiniteSets

CONSTANTS
    Calls,          \* invocations that may run at once
    Modes,          \* the modes the request may ask for
    Policies,       \* values verification.semantic may take
    MaxRestarts,    \* bound: service restarts
    MaxGrants,      \* bound: changes of the repository grant
    MaxDefects,     \* bound: unexpected exceptions in a stage
    MaxLate,        \* bound: leases that expire under a running invocation
    MaxWaits,       \* bound: answers that wait for a decision on one disclosure
    NONE            \* no invocation

ASSUME PipelineAssumption ==
    /\ Calls # {} /\ IsFiniteSet(Calls)
    /\ Modes \subseteq {"omitted", "deterministic_only", "semantic_if_configured",
                        "semantic_required"}
    /\ Modes # {}
    /\ Policies \subseteq {"disabled", "optional", "required"} /\ Policies # {}
    /\ {MaxRestarts, MaxGrants, MaxDefects, MaxLate, MaxWaits} \subseteq Nat
    /\ NONE \notin Calls

VARIABLES
    asked,      \* the mode in the request body
    policy,     \* verification.semantic of the running service
    text,       \* DETERMINISTIC_TEXT_CONTRACT_DIGEST of the running service
    gen,        \* owner generation
    grant,      \* whether the repository grant stands
    op,         \* the operation row
    job,        \* the semantic job of the operation
    call,       \* the invocations
    told,       \* what callers of this request have been answered
    spent       \* grants changed, defects met, leases outlived, disclosures awaited

env == <<asked, policy, text, gen, grant>>
vars == <<env, op, job, call, told, spent>>

NoResult == [status |-> "none", completeness |-> "none", findings |-> 0, reviewed |-> 0]
NoOp == [state |-> "absent", phase |-> "reserved", mode |-> "omitted", owner |-> 0,
         holder |-> NONE, live |-> FALSE, findings |-> 0, text |-> 0,
         error |-> "none", result |-> NoResult]
Idle == [pc |-> "idle", mode |-> "omitted", semantic |-> FALSE,
         phase |-> "reserved", findings |-> 0, status |-> "none", reviewed |-> 0]
\* `ungranted` tells that the invocation had met a missing grant.
Answer(kind, ungranted, result) == [kind |-> kind, ungranted |-> ungranted, result |-> result]

Init ==
    /\ asked \in Modes
    /\ policy \in Policies
    /\ text = 1
    /\ gen = 1
    /\ grant \in BOOLEAN
    /\ op = NoOp
    /\ job = [state |-> "none", findings |-> 0]
    /\ call = [c \in Calls |-> Idle]
    /\ told = {}
    /\ spent = [grants |-> 0, defects |-> 0, late |-> 0, waits |-> 0]

-----------------------------------------------------------------------------
Tell(c, kind, result) ==
    /\ told' = told \cup {Answer(kind, call[c].status = "grant_missing", result)}
    /\ call' = [call EXCEPT ![c] = Idle]

\* A retryable OPERATION_PENDING leaves the row as it is.
Pending(c) == Tell(c, "pending", NoResult) /\ UNCHANGED op

\* _require_lease: the token is the row's current, unexpired one.  A lease
\* generation is named by the invocation it was issued to.
Holds(c) == op.state = "pending" /\ op.live /\ op.owner = gen /\ op.holder = c

\* A non-retryable error after the freeze: fail_check_if_current closes the row
\* if the lease is still held; what it raises otherwise is only recorded.
FailCheck(c, kind) ==
    /\ Tell(c, kind, NoResult)
    /\ op' = IF Holds(c)
             THEN [op EXCEPT !.state = "failed", !.phase = "terminal", !.live = FALSE,
                             !.error = kind]
             ELSE op

\* allocate_findings: identities that nothing else carries.
Fresh ==
    LET used == {op.findings, job.findings} \cup {call[c].findings : c \in Calls}
                    \cup {a.result.findings : a \in told}
    IN  CHOOSE i \in 1..(Cardinality(used) + 1) : i \notin used

DefaultMode ==
    CASE policy = "disabled" -> "deterministic_only"
      [] policy = "required" -> "semantic_required"
      [] OTHER -> "semantic_if_configured"

\* An omitted mode is resolved by the policy before the request is digested.
ResolveMode == IF asked = "omitted" THEN DefaultMode ELSE asked

\* The route asks for the SEMANTIC capability unless review is disabled.
Enter(c) ==
    /\ call[c].pc = "idle"
    /\ call' = [call EXCEPT ![c] =
                  [Idle EXCEPT !.pc = "freeze", !.mode = ResolveMode,
                     !.semantic = ResolveMode # "deterministic_only" /\ policy # "disabled"]]
    /\ UNCHANGED <<env, op, job, told, spent>>

\* freeze_case: admit, refuse, replay or reclaim.
Freeze(c) ==
    /\ call[c].pc = "freeze"
    /\ \/ /\ op.state = "absent"
          /\ op' = [NoOp EXCEPT !.state = "pending", !.mode = call[c].mode, !.owner = gen,
                                !.holder = c, !.live = TRUE]
          /\ call' = [call EXCEPT ![c].pc = "local"]
          /\ UNCHANGED told
       \/ /\ op.state # "absent" /\ op.mode # call[c].mode
          /\ Tell(c, "idempotency_conflict", NoResult) /\ UNCHANGED op
       \/ /\ op.state \in {"complete", "failed"} /\ op.mode = call[c].mode
          /\ Tell(c, IF op.state = "complete" THEN "result" ELSE op.error, op.result)
          /\ UNCHANGED op
       \/ /\ op.state = "pending" /\ op.mode = call[c].mode
          /\ op.live /\ op.owner = gen
          /\ Pending(c)
       \/ /\ op.state = "pending" /\ op.mode = call[c].mode
          /\ ~(op.live /\ op.owner = gen)
          /\ op' = [op EXCEPT !.owner = gen, !.holder = c, !.live = TRUE]
          /\ call' = [call EXCEPT ![c].pc = "local", ![c].phase = op.phase]
          /\ UNCHANGED told
    /\ UNCHANGED <<env, job, spent>>

\* run_deterministic_policies, then the lookup in _publish_deterministic_result:
\* a row that is no longer reserved is called corrupt.
Local(c) ==
    /\ call[c].pc = "local" /\ call[c].phase = "reserved"
    /\ \/ /\ op.state = "pending" /\ op.phase = "reserved"
          /\ call' = [call EXCEPT ![c].pc = "publish", ![c].findings = Fresh]
          /\ UNCHANGED <<op, told>>
       \/ /\ ~(op.state = "pending" /\ op.phase = "reserved")
          /\ FailCheck(c, "storage_corrupt")
    /\ UNCHANGED <<env, job, spent>>

\* The checkpoint that pins the findings is staged; the phase advances to it.
PublishLocal(c) ==
    /\ call[c].pc = "publish"
    /\ \/ /\ Holds(c) /\ op.phase = "reserved"
          /\ op' = [op EXCEPT !.phase = "local_ready", !.findings = call[c].findings,
                              !.text = text]
          /\ call' = [call EXCEPT ![c].pc = "wait", ![c].phase = "local_ready"]
          /\ UNCHANGED told
       \/ /\ ~(Holds(c) /\ op.phase = "reserved")
          /\ Pending(c)
    /\ UNCHANGED <<env, job, spent>>

\* Mutant: the findings are computed again on every replay.
ReloadRecomputes(c) ==
    /\ call[c].pc = "local" /\ call[c].phase # "reserved"
    /\ call' = [call EXCEPT ![c].pc = "wait", ![c].findings = Fresh]
    /\ UNCHANGED <<env, op, job, told, spent>>

\* Mutant: a checkpoint with superseded wording is not replaced.
ReloadRefusesSuperseded(c) ==
    /\ call[c].pc = "local" /\ call[c].phase # "reserved"
    /\ IF op.text = text
       THEN /\ call' = [call EXCEPT ![c].pc = "wait", ![c].findings = op.findings]
            /\ UNCHANGED <<op, told>>
       ELSE Pending(c)
    /\ UNCHANGED <<env, job, spent>>

\* A later phase loads the checkpoint of a row that is still pending; one with
\* superseded wording is recomputed, with new identities, and not stored again.
Reload(c) ==
    /\ call[c].pc = "local" /\ call[c].phase # "reserved"
    /\ \/ /\ op.state = "pending"
          /\ call' = [call EXCEPT ![c].pc = "wait",
                        ![c].findings = IF op.text = text THEN op.findings ELSE Fresh]
          /\ UNCHANGED <<op, told>>
       \/ /\ op.state # "pending"
          /\ FailCheck(c, "storage_corrupt")
    /\ UNCHANGED <<env, job, spent>>

EnterWait(c) ==
    /\ call[c].pc = "wait"
    /\ \/ /\ call[c].semantic /\ call[c].phase = "local_ready"
          /\ \/ /\ Holds(c) /\ op.phase = "local_ready"
                /\ op' = [op EXCEPT !.phase = "semantic_wait"]
                /\ call' = [call EXCEPT ![c].pc = "review", ![c].phase = "semantic_wait"]
                /\ UNCHANGED told
             \/ ~(Holds(c) /\ op.phase = "local_ready") /\ Pending(c)
       \/ /\ ~(call[c].semantic /\ call[c].phase = "local_ready")
          /\ call' = [call EXCEPT ![c].pc = "review"]
          /\ UNCHANGED <<op, told>>
    /\ UNCHANGED <<env, job, spent>>

-----------------------------------------------------------------------------
(* _semantic_evaluation and the evaluator behind it.                       *)

Reviewed(c, status, findings) ==
    call' = [call EXCEPT ![c].pc = "conclude", ![c].status = status,
                         ![c].reviewed = findings]

SkipReview(c) ==
    /\ call[c].pc = "review" /\ ~call[c].semantic
    /\ Reviewed(c, IF call[c].mode = "deterministic_only" THEN "not_requested"
                   ELSE "not_configured", 0)
    /\ UNCHANGED <<env, op, job, told, spent>>

\* admit_repository_grant comes before any job is looked up; an admission that
\* cannot be had blocks the review for good.
Admit(c) ==
    /\ call[c].pc = "review" /\ call[c].semantic
    /\ \/ grant /\ call' = [call EXCEPT ![c].pc = "admitted"]
       \/ ~grant /\ Reviewed(c, "grant_missing", 0)
       \/ Reviewed(c, "failed", 0)
    /\ UNCHANGED <<env, op, job, told, spent>>

\* No job yet: one is enqueued for the case with these findings, which only the
\* semantic_wait phase allows.
EnqueueReview(c) ==
    /\ call[c].pc = "admitted"
    /\ job.state = "none"
    /\ \/ /\ Holds(c) /\ op.phase = "semantic_wait"
          /\ job' = [state |-> "open", findings |-> call[c].findings]
          /\ UNCHANGED call
       \/ /\ ~(Holds(c) /\ op.phase = "semantic_wait")
          /\ Reviewed(c, "failed", 0) /\ UNCHANGED job
    /\ UNCHANGED <<env, op, told, spent>>

\* Mutant: the review of an earlier case is taken for this one.
UseReviewOfAnyCase(c) ==
    /\ call[c].pc = "admitted"
    /\ job.state # "none"
    /\ job' = [job EXCEPT !.state = "responded"]
    /\ Reviewed(c, "succeeded", job.findings)
    /\ UNCHANGED <<env, op, told, spent>>

\* A job is resumed for its own case only; an answered one is read, an open one
\* is driven to an answer, a wait or a failure.
UseReview(c) ==
    /\ call[c].pc = "admitted"
    /\ job.state # "none"
    /\ \/ /\ job.findings # call[c].findings
          /\ Reviewed(c, "failed", 0) /\ UNCHANGED job
       \/ /\ job.findings = call[c].findings /\ job.state = "responded"
          /\ Reviewed(c, "succeeded", job.findings) /\ UNCHANGED job
       \/ /\ job.findings = call[c].findings /\ job.state = "open"
          /\ Holds(c) /\ op.phase = "semantic_wait"
          /\ job' = [job EXCEPT !.state = "responded"]
          /\ UNCHANGED call
       \/ /\ job.findings = call[c].findings /\ job.state \in {"open", "failed"}
          /\ job' = [job EXCEPT !.state = IF Holds(c) THEN "failed" ELSE @]
          /\ Reviewed(c, "failed", 0)
    /\ UNCHANGED <<env, op, told, spent>>

\* The attempt waits for a human's decision on one disclosure: the caller is told
\* so, the row stays in semantic_wait and its lease runs on.
AwaitDisclosure(c) ==
    /\ call[c].pc = "admitted" /\ spent.waits < MaxWaits
    /\ job.state = "open" /\ job.findings = call[c].findings
    /\ Holds(c) /\ op.phase = "semantic_wait"
    /\ spent' = [spent EXCEPT !.waits = @ + 1]
    /\ Tell(c, "awaiting_human", NoResult)
    /\ UNCHANGED <<env, op, job>>

-----------------------------------------------------------------------------
\* suspend_check_for_repository_grant: only a check in semantic_wait without a
\* job is handed off; anything else is answered OPERATION_PENDING.
Suspend(c) ==
    /\ call[c].pc = "conclude" /\ call[c].status = "grant_missing"
    /\ \/ /\ Holds(c) /\ op.phase = "semantic_wait" /\ job.state = "none"
          /\ op' = [op EXCEPT !.live = FALSE]
          /\ Tell(c, "awaiting_human", NoResult)
       \/ /\ ~(Holds(c) /\ op.phase = "semantic_wait" /\ job.state = "none")
          /\ Pending(c)
    /\ UNCHANGED <<env, job, spent>>

Finalize(c) ==
    /\ call[c].pc = "conclude" /\ call[c].status # "grant_missing"
    /\ LET from == IF call[c].semantic THEN "semantic_wait" ELSE "local_ready"
       IN  \/ /\ call[c].phase = "ready_to_finalize"
              /\ call' = [call EXCEPT ![c].pc = "commit"]
              /\ UNCHANGED <<op, told>>
           \/ /\ call[c].phase # "ready_to_finalize" /\ Holds(c) /\ op.phase = from
              /\ op' = [op EXCEPT !.phase = "ready_to_finalize"]
              /\ call' = [call EXCEPT ![c].pc = "commit", ![c].phase = "ready_to_finalize"]
              /\ UNCHANGED told
           \/ /\ call[c].phase # "ready_to_finalize" /\ ~(Holds(c) /\ op.phase = from)
              /\ Pending(c)
    /\ UNCHANGED <<env, job, spent>>

\* The gaps other than the review's are left out: they only lower the result.
Completeness(mode, status) ==
    LET failed == status \notin {"not_requested", "succeeded"}
    IN  IF mode = "semantic_required" /\ failed THEN "required_incomplete"
        ELSE IF failed THEN "coverage_incomplete" ELSE "complete"

Verdict(c) ==
    [status |-> call[c].status, completeness |-> Completeness(call[c].mode, call[c].status),
     findings |-> call[c].findings, reviewed |-> call[c].reviewed]

\* Mutant: the commit does not ask for the lease.
CommitUnfenced(c) ==
    /\ call[c].pc = "commit"
    /\ op' = [op EXCEPT !.state = "complete", !.phase = "terminal", !.live = FALSE,
                        !.result = Verdict(c)]
    /\ Tell(c, "result", Verdict(c))
    /\ UNCHANGED <<env, job, spent>>

Commit(c) ==
    /\ call[c].pc = "commit"
    /\ \/ /\ Holds(c) /\ op.phase = "ready_to_finalize"
          /\ op' = [op EXCEPT !.state = "complete", !.phase = "terminal", !.live = FALSE,
                              !.result = Verdict(c)]
          /\ Tell(c, "result", Verdict(c))
       \/ /\ ~(Holds(c) /\ op.phase = "ready_to_finalize")
          /\ Pending(c)
    /\ UNCHANGED <<env, job, spent>>

-----------------------------------------------------------------------------
\* An unexpected exception in a stage after the freeze.
Defect(c) ==
    /\ call[c].pc \in {"local", "publish", "wait", "conclude", "commit"}
    /\ spent.defects < MaxDefects
    /\ spent' = [spent EXCEPT !.defects = @ + 1]
    /\ FailCheck(c, "internal_error")
    /\ UNCHANGED <<env, job>>

LeaseExpires ==
    /\ op.live
    /\ IF call[op.holder].pc \in {"idle", "freeze"} THEN UNCHANGED spent
       ELSE /\ spent.late < MaxLate
            /\ spent' = [spent EXCEPT !.late = @ + 1]
    /\ op' = [op EXCEPT !.live = FALSE]
    /\ UNCHANGED <<env, job, call, told>>

\* A new service reads its configuration again and may be a newer package.
Restart ==
    /\ gen <= MaxRestarts
    /\ gen' = gen + 1
    /\ policy' \in Policies
    /\ text' \in {text, text + 1}
    /\ call' = [c \in Calls |-> Idle]
    /\ UNCHANGED <<asked, grant, op, job, told, spent>>

ChangeGrant ==
    /\ spent.grants < MaxGrants
    /\ spent' = [spent EXCEPT !.grants = @ + 1]
    /\ grant' = ~grant
    /\ UNCHANGED <<asked, policy, text, gen, op, job, call, told>>

Step(c) ==
    \/ Freeze(c) \/ Local(c) \/ PublishLocal(c) \/ Reload(c) \/ EnterWait(c)
    \/ SkipReview(c) \/ Admit(c) \/ EnqueueReview(c) \/ UseReview(c)
    \/ Suspend(c) \/ Finalize(c) \/ Commit(c)

Next ==
    \/ \E c \in Calls : Enter(c) \/ Step(c) \/ AwaitDisclosure(c) \/ Defect(c)
    \/ LeaseExpires \/ Restart \/ ChangeGrant

Spec == Init /\ [][Next]_vars

\* A started invocation runs on, the caller replays a request that is not
\* finished, and the clock passes every lease.
Fairness ==
    /\ \A c \in Calls : WF_vars(Step(c))
    /\ WF_vars(op.state = "pending" /\ (\A c \in Calls : call[c].pc = "idle")
                   /\ \E c \in Calls : Enter(c))
    /\ WF_vars(LeaseExpires)

FairSpec == Spec /\ Fairness
-----------------------------------------------------------------------------
(* Properties.                                                             *)

Results == [status : {"none", "not_requested", "not_configured", "succeeded", "failed"},
            completeness : {"none", "complete", "coverage_incomplete", "required_incomplete"},
            findings : Nat, reviewed : Nat]

TypeOK ==
    /\ op \in [state : {"absent", "pending", "complete", "failed"},
               phase : {"reserved", "local_ready", "semantic_wait", "ready_to_finalize",
                        "terminal"},
               mode : {"omitted", "deterministic_only", "semantic_if_configured",
                       "semantic_required"},
               owner : 0..gen, holder : Calls \cup {NONE}, live : BOOLEAN, findings : Nat,
               text : 0..text, error : {"none", "internal_error", "storage_corrupt"},
               result : Results]
    /\ op.state \in {"complete", "failed"} <=> op.phase = "terminal"
    /\ op.live => op.state = "pending"
    /\ job \in [state : {"none", "open", "responded", "failed"}, findings : Nat]
    /\ \A a \in told : a.result \in Results

\* A check reads complete only if the review it asked for succeeded, and that
\* review was of exactly the local findings recorded beside it, whatever was
\* switched, upgraded or restarted between the replays that produced them.
CompleteWasReviewed ==
    LET r == op.result
    IN  op.state = "complete" =>
        /\ r.status = "succeeded" => r.reviewed = r.findings
        /\ r.completeness = "complete" /\ op.mode # "deterministic_only"
                => r.status = "succeeded"

\* However many invocations and replays there are, every result a caller is
\* given is the recorded one.
OneResult == \A a \in told : a.kind = "result" => op.state = "complete" /\ a.result = op.result

\* The findings a checkpoint pinned are the ones committed, unless their wording
\* was superseded by an upgrade.
PinnedFindingsCommitted ==
    op.state = "complete" /\ op.text = text => op.result.findings = op.findings

\* While review stays switched on and the grant stands, a check that named its
\* mode ends, also across restarts and upgrades: its replays bring it to a
\* result or an error.
CheckEnds ==
    (op.state = "pending" /\ [](grant /\ policy # "disabled" /\ asked # "omitted"))
        ~> op.state \in {"complete", "failed"}

\* INTERFACES.md: an error that closes the operation is durable and the replay
\* of the request returns that error.
ToldErrorIsReplayed ==
    \A a, b \in told : a.kind \in {"storage_corrupt", "internal_error"} => b.kind # "result"

\* INTERFACES.md: a missing repository grant is an awaiting_human continuation,
\* which the caller recovers by an exact replay.
MissingGrantIsHandedOff ==
    \A a \in told : a.ungranted => a.kind = "awaiting_human"

\* INTERFACES.md: the caller recovers by exact replay of the original request,
\* so a request never conflicts with itself.
ReplayNeverConflicts == \A a \in told : a.kind # "idempotency_conflict"
=============================================================================
