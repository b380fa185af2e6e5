------------------------- MODULE SemanticJobProofs -------------------------
(***************************************************************************)
(* Proofs about SemanticJob, for every set of invocations, every retry     *)
(* budget, every preview policy and any number of faults.                  *)
(***************************************************************************)
EXTENDS SemanticJob, FiniteSetTheorems, SequenceTheorems, TLAPS

-----------------------------------------------------------------------------
(* What an update of one field of a row or of a call leaves it.            *)

\* A call stays a call when one of its fields is set to a value of its type.
LEMMA CallFields ==
  \A r \in Call :
    /\ \A x \in Pcs : [r EXCEPT !.pc = x] \in Call
    /\ \A x \in {"none", "queued", "leased", "settled"} : [r EXCEPT !.snap = x] \in Call
    /\ \A x \in Nat : [r EXCEPT !.attempt = x] \in Call
    /\ \A x \in Calls \cup {None} : [r EXCEPT !.exp = x] \in Call
    /\ \A x \in Results \cup {"none"} : [r EXCEPT !.got = x] \in Call
    /\ \A x \in BOOLEAN : [r EXCEPT !.last = x] \in Call
    /\ \A x \in BOOLEAN : [r EXCEPT !.refused = x] \in Call
    /\ \A x \in BOOLEAN : [r EXCEPT !.cleanup = x] \in Call
    /\ \A x \in BOOLEAN : [r EXCEPT !.renewed = x] \in Call
    /\ \A x \in BOOLEAN : [r EXCEPT !.stale = x] \in Call
    /\ \A x \in {"none", "succeeded", "failed"} : [r EXCEPT !.result = x] \in Call
BY DEF Call

\* The operation row keeps its type when one of its fields is set.
LEMMA RowFields ==
  \A r \in Row :
    /\ \A x \in {"pending", "complete"} : [r EXCEPT !.state = x] \in Row
    /\ \A x \in Calls \cup {None} : [r EXCEPT !.holder = x] \in Row
    /\ \A x \in BOOLEAN : [r EXCEPT !.ours = x] \in Row
    /\ \A x \in {"short", "bound", "lapsed"} : [r EXCEPT !.term = x] \in Row
    /\ \A x \in {"none", "succeeded", "failed"} : [r EXCEPT !.verdict = x] \in Row
BY DEF Row

\* The job row keeps its type when one of its fields is set.
LEMMA JobFields ==
  \A r \in Job :
    /\ \A x \in {"none", "queued", "leased", "succeeded", "failed"} :
         [r EXCEPT !.state = x] \in Job
    /\ \A x \in Nat : [r EXCEPT !.active = x] \in Job
    /\ \A x \in BOOLEAN : [r EXCEPT !.ours = x] \in Job
    /\ \A x \in {"none", "short", "bound", "lapsed"} : [r EXCEPT !.term = x] \in Job
    /\ \A x \in Calls \cup {None} : [r EXCEPT !.by = x] \in Job
    /\ \A x \in Codes : [r EXCEPT !.reason = x] \in Job
BY DEF Job

\* An attempt row keeps its type when one of its fields is set.
LEMMA AttemptFields ==
  \A r \in Attempt :
    /\ \A x \in {"started", "response_durable", "selected", "failed", "expired"} :
         [r EXCEPT !.state = x] \in Attempt
    /\ \A x \in Calls \cup {None} : [r EXCEPT !.exp = x] \in Attempt
    /\ \A x \in Codes \ {"awaiting"} : [r EXCEPT !.code = x] \in Attempt
BY DEF Attempt

\* An audit row keeps its type when one of its fields is set.
LEMMA AuditFields ==
  \A r \in AuditRow :
    /\ \A x \in {"none", "reserved", "awaiting", "approved", "denied", "expired",
                 "authorized", "stale", "consumed", "closed"} :
         [r EXCEPT !.status = x] \in AuditRow
    /\ \A x \in BOOLEAN : [r EXCEPT !.preview = x] \in AuditRow
    /\ \A x \in BOOLEAN : [r EXCEPT !.approved = x] \in AuditRow
    /\ \A x \in Nat : [r EXCEPT !.sent = x] \in AuditRow
    /\ \A x \in Answers : [r EXCEPT !.told = x] \in AuditRow
BY DEF AuditRow

\* A closed or requeued job has the given state and reason and no active attempt.
LEMMA ClosedJobType ==
  ASSUME NEW state \in {"none", "queued", "leased", "succeeded", "failed"},
         NEW reason \in Codes
  PROVE  /\ ClosedJob(state, reason) \in Job
         /\ ClosedJob(state, reason).state = state
         /\ ClosedJob(state, reason).reason = reason
         /\ ClosedJob(state, reason).active = 0
<1>1. NoJob \in Job
  BY DEF NoJob, Job, Codes
<1>2. ClosedJob(state, reason) \in Job
  BY <1>1, JobFields DEF ClosedJob
<1> QED BY <1>2 DEF ClosedJob, NoJob

\* One call changes, to a call, and no other does.
LEMMA CallSet ==
  ASSUME TypeOK, NEW c \in Calls, NEW r \in Call, SetCall(c, r)
  PROVE  /\ calls' \in [Calls -> Call]
         /\ calls'[c] = r
         /\ \A d \in Calls : d # c => calls'[d] = calls[d]
BY DEF SetCall, TypeOK

\* A sequence after one of its elements was replaced.
LEMMA SeqSet ==
  ASSUME NEW S, NEW s \in Seq(S), NEW i \in 1..Len(s), NEW e \in S,
         NEW t, t = [s EXCEPT ![i] = e]
  PROVE  /\ t \in Seq(S) /\ Len(t) = Len(s) /\ t[i] = e
         /\ \A j \in 1..Len(s) : j # i => t[j] = s[j]
BY ExceptSeq

-----------------------------------------------------------------------------
(* What the updates of the attempt rows, of the job and of the audit do.   *)

\* The attempts after attempt i became r.
AttemptIs(i, r) ==
  /\ attempts' \in Seq(Attempt) /\ Len(attempts') = Len(attempts)
  /\ attempts'[i] = r
  /\ \A j \in 1..Len(attempts) : j # i => attempts'[j] = attempts[j]

\* Replacing one attempt row changes that row and no other.
LEMMA AttemptSet ==
  ASSUME TypeOK, NEW i \in 1..Len(attempts), NEW r \in Attempt,
         attempts' = [attempts EXCEPT ![i] = r]
  PROVE  AttemptIs(i, r)
<1>1. attempts \in Seq(Attempt)
  BY DEF TypeOK
<1> QED BY <1>1, SeqSet DEF AttemptIs

\* record_attempt_outcome closes the attempt and fails or requeues the job.
LEMMA AttemptClosed ==
  ASSUME TypeOK, NEW i \in 1..Len(attempts), NEW state \in {"failed", "expired"},
         NEW code \in Codes \ {"awaiting"}, CloseAttempt(i, state, code)
  PROVE  /\ \E r \in Attempt : /\ AttemptIs(i, r) /\ r.state = state /\ r.code = code
                               /\ r.exp = attempts[i].exp
         /\ job' \in Job /\ job'.state = IF state = "failed" THEN "failed" ELSE "queued"
         /\ job'.reason = IF state = "failed" THEN code ELSE "none"
<1> DEFINE r == [attempts[i] EXCEPT !.state = state, !.code = code]
<1>1. attempts[i] \in Attempt
  BY DEF TypeOK
<1>2. r \in Attempt
  BY <1>1, AttemptFields
<1>3. r.state = state /\ r.code = code /\ r.exp = attempts[i].exp
  BY <1>1 DEF Attempt
<1>4. attempts' = [attempts EXCEPT ![i] = r]
  BY DEF CloseAttempt, TypeOK
<1> HIDE DEF r
<1>5. AttemptIs(i, r)
  BY <1>2, <1>4, AttemptSet
<1>6. "none" \in Codes
  BY DEF Codes
<1>7. /\ job' \in Job /\ job'.state = IF state = "failed" THEN "failed" ELSE "queued"
      /\ job'.reason = IF state = "failed" THEN code ELSE "none"
  BY <1>6, ClosedJobType DEF CloseAttempt
<1> QED BY <1>2, <1>3, <1>5, <1>7

\* Selecting an attempt completes it and the job, and keeps its handle.
LEMMA AttemptSelected ==
  ASSUME TypeOK, NEW i \in 1..Len(attempts), SelectAttempt(i)
  PROVE  /\ \E r \in Attempt : /\ AttemptIs(i, r) /\ r.state = "selected"
                               /\ r.exp = attempts[i].exp /\ r.code = "completed"
         /\ job' \in Job /\ job'.state = "succeeded" /\ job'.reason = "completed"
<1> DEFINE r == [attempts[i] EXCEPT !.state = "selected", !.code = "completed"]
<1>0. "completed" \in Codes \ {"awaiting"}
  BY DEF Codes
<1>1. attempts[i] \in Attempt
  BY DEF TypeOK
<1>2. r \in Attempt
  BY <1>0, <1>1, AttemptFields
<1>3. r.state = "selected" /\ r.exp = attempts[i].exp /\ r.code = "completed"
  BY <1>1 DEF Attempt
<1>4. attempts' = [attempts EXCEPT ![i] = r]
  BY DEF SelectAttempt, TypeOK
<1> HIDE DEF r
<1>5. AttemptIs(i, r)
  BY <1>2, <1>4, AttemptSet
<1>6. job' \in Job /\ job'.state = "succeeded" /\ job'.reason = "completed"
  BY <1>0, ClosedJobType DEF SelectAttempt
<1> QED BY <1>2, <1>3, <1>5, <1>6

-----------------------------------------------------------------------------
(* What a step does to the call that takes it, as far as the invariants     *)
(* look: where it stands, the snapshot it loaded, its handle, whether it    *)
(* has made an attempt itself, and its answer.                              *)

OneCall(c) ==
  /\ calls' \in [Calls -> Call]
  /\ \A d \in Calls : d # c => calls'[d] = calls[d]

KeepsHandle(c) ==
  /\ calls'[c].snap = calls[c].snap /\ calls'[c].attempt = calls[c].attempt
  /\ calls'[c].exp = calls[c].exp /\ calls'[c].last = calls[c].last

\* It goes on with what it has.
Moves(c, p) ==
  /\ OneCall(c) /\ KeepsHandle(c)
  /\ calls'[c].pc = p /\ calls'[c].result = calls[c].result

\* It has an answer.
Ends(c, x) ==
  /\ OneCall(c) /\ calls'[c].last = calls[c].last
  /\ calls'[c].pc \in {"resolving", "concluding"} /\ calls'[c].result = x

Loads(c, snap) ==
  /\ OneCall(c) /\ calls'[c].last = calls[c].last /\ calls'[c].result = calls[c].result
  /\ calls'[c].pc = "loaded" /\ calls'[c].snap = snap

Claims(c, i, tag) ==
  /\ OneCall(c) /\ calls'[c].last = calls[c].last /\ calls'[c].result = calls[c].result
  /\ calls'[c].snap = calls[c].snap
  /\ calls'[c].pc = "claimed" /\ calls'[c].attempt = i /\ calls'[c].exp = tag

TriesAgain(c) ==
  /\ OneCall(c) /\ calls'[c].result = calls[c].result
  /\ calls'[c].pc = "resolving" /\ calls'[c].last = TRUE

\* It has just begun, or is no more.
Rests(c, p) ==
  /\ OneCall(c) /\ calls'[c].pc = p /\ calls'[c].exp = None
  /\ calls'[c].last = FALSE /\ calls'[c].result = "none"

\* An invocation that is not running is a call.
LEMMA IdleCallType == IdleCall \in Call
BY DEF IdleCall, Call, Pcs, Results

\* Every way a call changes is one of these.
LEMMA CallForms ==
  ASSUME TypeOK, NEW c \in Calls
  PROVE  /\ \A p \in Pcs : Goto(c, p) => Moves(c, p)
         /\ \A got \in Results : Return(c, got) => Moves(c, "returned")
         /\ \A x \in {"succeeded", "failed"} : Finish(c, x) => Ends(c, x)
         /\ Raise(c) => Ends(c, "failed")
         /\ SetCall(c, IdleCall) => Rests(c, "idle")
<1>0. calls[c] \in Call /\ calls[c].renewed \in BOOLEAN
  BY DEF TypeOK, Call
<1>1. ASSUME NEW p \in Pcs, Goto(c, p) PROVE Moves(c, p)
  <2> DEFINE r == [calls[c] EXCEPT !.pc = p]
  <2>1. r \in Call
    BY <1>0, CallFields
  <2>2. /\ r.pc = p /\ r.snap = calls[c].snap /\ r.attempt = calls[c].attempt
        /\ r.exp = calls[c].exp /\ r.last = calls[c].last /\ r.result = calls[c].result
    BY <1>0 DEF Call
  <2>3. SetCall(c, r)
    BY <1>1 DEF Goto
  <2> HIDE DEF r
  <2> QED BY <2>1, <2>2, <2>3, CallSet DEF Moves, OneCall, KeepsHandle
<1>2. ASSUME NEW got \in Results, Return(c, got) PROVE Moves(c, "returned")
  <2> DEFINE r == [calls[c] EXCEPT !.pc = "returned", !.got = got]
  <2>1. r \in Call
    BY <1>0, CallFields DEF Pcs
  <2>2. /\ r.pc = "returned" /\ r.snap = calls[c].snap /\ r.attempt = calls[c].attempt
        /\ r.exp = calls[c].exp /\ r.last = calls[c].last /\ r.result = calls[c].result
    BY <1>0 DEF Call
  <2>3. SetCall(c, r)
    BY <1>2 DEF Return
  <2> HIDE DEF r
  <2> QED BY <2>1, <2>2, <2>3, CallSet DEF Moves, OneCall, KeepsHandle
<1>3. ASSUME NEW x \in {"succeeded", "failed"}, Finish(c, x) PROVE Ends(c, x)
  <2> DEFINE r == [calls[c] EXCEPT !.pc = "resolving", !.result = x]
  <2>1. r \in Call
    BY <1>0, CallFields DEF Pcs
  <2>2. r.pc = "resolving" /\ r.last = calls[c].last /\ r.result = x
    BY <1>0 DEF Call
  <2>3. SetCall(c, r)
    BY <1>3 DEF Finish
  <2> HIDE DEF r
  <2> QED BY <2>1, <2>2, <2>3, CallSet DEF Ends, OneCall
<1>4. ASSUME Raise(c) PROVE Ends(c, "failed")
  <2> DEFINE r == [calls[c] EXCEPT !.pc = "concluding", !.result = "failed",
                                   !.stale = calls[c].renewed]
  <2>1. r \in Call
    BY <1>0, CallFields DEF Pcs
  <2>2. r.pc = "concluding" /\ r.last = calls[c].last /\ r.result = "failed"
    BY <1>0 DEF Call
  <2>3. SetCall(c, r)
    BY <1>4 DEF Raise
  <2> HIDE DEF r
  <2> QED BY <2>1, <2>2, <2>3, CallSet DEF Ends, OneCall
<1>5. ASSUME SetCall(c, IdleCall) PROVE Rests(c, "idle")
  <2>1. /\ IdleCall.pc = "idle" /\ IdleCall.exp = None
        /\ IdleCall.last = FALSE /\ IdleCall.result = "none"
    BY DEF IdleCall
  <2> QED BY <1>5, <2>1, CallSet, IdleCallType DEF Rests, OneCall
<1> QED BY <1>1, <1>2, <1>3, <1>4, <1>5

\* What LoadJob reads of the job.
Snapshot == IF JobOpen THEN job.state ELSE "settled"

\* The steps that change a call in a way of their own.
LEMMA OwnForms ==
  ASSUME TypeOK, NEW c \in Calls
  PROVE  /\ Enqueue(c) => Loads(c, "queued")
         /\ LoadJob(c) => Loads(c, Snapshot)
         /\ RenewEntry(c) => IF calls[c].snap = "settled" THEN Ends(c, RecoveredResult)
                             ELSE Moves(c, "looping")
         /\ RenewEntryRefused(c) => Raise(c) \/ Moves(c, "looping")
         /\ LoopHead(c) => Moves(c, "claiming")
         /\ FailJob(c) \/ ClaimRaises(c) => Ends(c, "failed")
         /\ RecoverResponse(c) => Ends(c, "succeeded")
         /\ ClaimNew(c) => Claims(c, Len(attempts) + 1, LeaseTag(c))
         /\ ClaimRebind(c) => Claims(c, job.active, LeaseTag(c))
         /\ ClaimRefused(c) => Moves(c, "looping")
         /\ RenewReturned(c) => Raise(c) \/ Moves(c, "recording")
         /\ RecordRetry(c) => TriesAgain(c)
         /\ Replay(c) => Rests(c, "entered")
<1>0. /\ calls[c] \in Call
      /\ calls[c].renewed \in BOOLEAN /\ calls[c].cleanup \in BOOLEAN
      /\ Snapshot \in {"none", "queued", "leased", "settled"}
      /\ RecoveredResult \in {"none", "succeeded", "failed"}
      /\ LeaseTag(c) \in Calls \cup {None}
      /\ job.active \in Nat /\ Len(attempts) + 1 \in Nat
  BY DEF TypeOK, Call, Job, Snapshot, JobOpen, RecoveredResult, LeaseTag
<1>1. ASSUME Enqueue(c)
      PROVE  Loads(c, "queued")
  <2> DEFINE r == [calls[c] EXCEPT !.pc = "loaded", !.snap = "queued"]
  <2>1. r \in Call
    BY <1>0, CallFields DEF Pcs
  <2>2. /\ r.pc = "loaded" /\ r.snap = "queued" /\ r.last = calls[c].last
        /\ r.result = calls[c].result
    BY <1>0 DEF Call
  <2>3. SetCall(c, r)
    BY <1>1 DEF Enqueue
  <2> HIDE DEF r
  <2> QED BY <2>1, <2>2, <2>3, CallSet DEF Loads, OneCall
<1>2. ASSUME LoadJob(c)
      PROVE  Loads(c, Snapshot)
  <2> DEFINE r == [calls[c] EXCEPT !.pc = "loaded", !.snap = Snapshot]
  <2>1. r \in Call
    BY <1>0, CallFields DEF Pcs
  <2>2. /\ r.pc = "loaded" /\ r.snap = Snapshot /\ r.last = calls[c].last
        /\ r.result = calls[c].result
    BY <1>0 DEF Call
  <2>3. SetCall(c, r)
    BY <1>2 DEF LoadJob, Snapshot
  <2> HIDE DEF r
  <2> QED BY <2>1, <2>2, <2>3, CallSet DEF Loads, OneCall
<1>3. ASSUME RenewEntry(c), calls[c].snap = "settled"
      PROVE  Ends(c, RecoveredResult)
  <2> DEFINE r == [calls[c] EXCEPT !.pc = "resolving", !.renewed = TRUE,
                                   !.result = RecoveredResult]
  <2>1. r \in Call
    BY <1>0, CallFields DEF Pcs
  <2>2. r.pc = "resolving" /\ r.last = calls[c].last /\ r.result = RecoveredResult
    BY <1>0 DEF Call
  <2>3. SetCall(c, r)
    BY <1>3 DEF RenewEntry
  <2> HIDE DEF r
  <2> QED BY <2>1, <2>2, <2>3, CallSet DEF Ends, OneCall
<1>4. ASSUME RenewEntry(c), calls[c].snap # "settled"
      PROVE  Moves(c, "looping")
  <2> DEFINE r == [calls[c] EXCEPT !.pc = "looping", !.renewed = TRUE]
  <2>1. r \in Call
    BY <1>0, CallFields DEF Pcs
  <2>2. /\ r.pc = "looping" /\ r.snap = calls[c].snap /\ r.attempt = calls[c].attempt
        /\ r.exp = calls[c].exp /\ r.last = calls[c].last /\ r.result = calls[c].result
    BY <1>0 DEF Call
  <2>3. SetCall(c, r)
    BY <1>4 DEF RenewEntry
  <2> HIDE DEF r
  <2> QED BY <2>1, <2>2, <2>3, CallSet DEF Moves, OneCall, KeepsHandle
<1>5. ASSUME RenewEntryRefused(c), ~Raise(c)
      PROVE  Moves(c, "looping")
  <2> DEFINE r == [calls[c] EXCEPT !.pc = "looping", !.cleanup = TRUE]
  <2>1. r \in Call
    BY <1>0, CallFields DEF Pcs
  <2>2. /\ r.pc = "looping" /\ r.snap = calls[c].snap /\ r.attempt = calls[c].attempt
        /\ r.exp = calls[c].exp /\ r.last = calls[c].last /\ r.result = calls[c].result
    BY <1>0 DEF Call
  <2>3. SetCall(c, r)
    BY <1>5 DEF RenewEntryRefused
  <2> HIDE DEF r
  <2> QED BY <2>1, <2>2, <2>3, CallSet DEF Moves, OneCall, KeepsHandle
<1>6. ASSUME LoopHead(c)
      PROVE  Moves(c, "claiming")
  <2> DEFINE r == [calls[c] EXCEPT !.pc = "claiming",
                                   !.renewed = calls[c].renewed \/ ~calls[c].cleanup]
  <2>1. r \in Call
    BY <1>0, CallFields DEF Pcs
  <2>2. /\ r.pc = "claiming" /\ r.snap = calls[c].snap /\ r.attempt = calls[c].attempt
        /\ r.exp = calls[c].exp /\ r.last = calls[c].last /\ r.result = calls[c].result
    BY <1>0 DEF Call
  <2>3. SetCall(c, r)
    BY <1>6 DEF LoopHead
  <2> HIDE DEF r
  <2> QED BY <2>1, <2>2, <2>3, CallSet DEF Moves, OneCall, KeepsHandle
<1>7. ASSUME FailJob(c) \/ ClaimRaises(c)
      PROVE  Ends(c, "failed")
  <2> DEFINE r == [calls[c] EXCEPT !.pc = "resolving", !.attempt = 0, !.result = "failed"]
  <2>1. r \in Call
    BY <1>0, CallFields DEF Pcs
  <2>2. r.pc = "resolving" /\ r.last = calls[c].last /\ r.result = "failed"
    BY <1>0 DEF Call
  <2>3. SetCall(c, r)
    BY <1>7 DEF FailJob, ClaimRaises
  <2> HIDE DEF r
  <2> QED BY <2>1, <2>2, <2>3, CallSet DEF Ends, OneCall
<1>8. ASSUME RecoverResponse(c)
      PROVE  Ends(c, "succeeded")
  <2> DEFINE r == [calls[c] EXCEPT !.pc = "resolving", !.attempt = 0,
                                   !.result = "succeeded"]
  <2>1. r \in Call
    BY <1>0, CallFields DEF Pcs
  <2>2. r.pc = "resolving" /\ r.last = calls[c].last /\ r.result = "succeeded"
    BY <1>0 DEF Call
  <2>3. SetCall(c, r)
    BY <1>8 DEF RecoverResponse
  <2> HIDE DEF r
  <2> QED BY <2>1, <2>2, <2>3, CallSet DEF Ends, OneCall
<1>9. ASSUME ClaimNew(c)
      PROVE  Claims(c, Len(attempts) + 1, LeaseTag(c))
  <2> DEFINE r == [calls[c] EXCEPT !.pc = "claimed", !.refused = FALSE,
                        !.attempt = Len(attempts) + 1, !.exp = LeaseTag(c)]
  <2>1. r \in Call
    BY <1>0, CallFields DEF Pcs
  <2>2. /\ r.pc = "claimed" /\ r.snap = calls[c].snap /\ r.attempt = Len(attempts) + 1
        /\ r.exp = LeaseTag(c) /\ r.last = calls[c].last /\ r.result = calls[c].result
    BY <1>0 DEF Call
  <2>3. SetCall(c, r)
    BY <1>9 DEF ClaimNew
  <2> HIDE DEF r
  <2> QED BY <2>1, <2>2, <2>3, CallSet DEF Claims, OneCall
<1>10. ASSUME ClaimRebind(c)
      PROVE  Claims(c, job.active, LeaseTag(c))
  <2> DEFINE r == [calls[c] EXCEPT !.pc = "claimed", !.refused = FALSE,
                        !.attempt = job.active, !.exp = LeaseTag(c)]
  <2>1. r \in Call
    BY <1>0, CallFields DEF Pcs
  <2>2. /\ r.pc = "claimed" /\ r.snap = calls[c].snap /\ r.attempt = job.active
        /\ r.exp = LeaseTag(c) /\ r.last = calls[c].last /\ r.result = calls[c].result
    BY <1>0 DEF Call
  <2>3. SetCall(c, r)
    BY <1>10 DEF ClaimRebind
  <2> HIDE DEF r
  <2> QED BY <2>1, <2>2, <2>3, CallSet DEF Claims, OneCall
<1>11. ASSUME ClaimRefused(c)
      PROVE  Moves(c, "looping")
  <2> DEFINE r == [calls[c] EXCEPT !.pc = "looping", !.refused = TRUE]
  <2>1. r \in Call
    BY <1>0, CallFields DEF Pcs
  <2>2. /\ r.pc = "looping" /\ r.snap = calls[c].snap /\ r.attempt = calls[c].attempt
        /\ r.exp = calls[c].exp /\ r.last = calls[c].last /\ r.result = calls[c].result
    BY <1>0 DEF Call
  <2>3. SetCall(c, r)
    BY <1>11 DEF ClaimRefused
  <2> HIDE DEF r
  <2> QED BY <2>1, <2>2, <2>3, CallSet DEF Moves, OneCall, KeepsHandle
<1>12. ASSUME RenewReturned(c), ~Raise(c)
      PROVE  Moves(c, "recording")
  <2> DEFINE r == [calls[c] EXCEPT !.pc = "recording", !.renewed = TRUE]
  <2>1. r \in Call
    BY <1>0, CallFields DEF Pcs
  <2>2. /\ r.pc = "recording" /\ r.snap = calls[c].snap /\ r.attempt = calls[c].attempt
        /\ r.exp = calls[c].exp /\ r.last = calls[c].last /\ r.result = calls[c].result
    BY <1>0 DEF Call
  <2>3. SetCall(c, r)
    BY <1>12 DEF RenewReturned
  <2> HIDE DEF r
  <2> QED BY <2>1, <2>2, <2>3, CallSet DEF Moves, OneCall, KeepsHandle
<1>13. ASSUME RecordRetry(c)
      PROVE  TriesAgain(c)
  <2> DEFINE r == [calls[c] EXCEPT !.pc = "resolving", !.last = TRUE]
  <2>1. r \in Call
    BY <1>0, CallFields DEF Pcs
  <2>2. r.pc = "resolving" /\ r.last = TRUE /\ r.result = calls[c].result
    BY <1>0 DEF Call
  <2>3. SetCall(c, r)
    BY <1>13 DEF RecordRetry
  <2> HIDE DEF r
  <2> QED BY <2>1, <2>2, <2>3, CallSet DEF TriesAgain, OneCall
<1>14. ASSUME Replay(c)
       PROVE  Rests(c, "entered")
  <2> DEFINE r == [IdleCall EXCEPT !.pc = "entered"]
  <2>1. r \in Call
    BY IdleCallType, CallFields DEF Pcs
  <2>2. r.pc = "entered" /\ r.exp = None /\ r.last = FALSE /\ r.result = "none"
    BY DEF IdleCall
  <2>3. SetCall(c, r)
    BY <1>14 DEF Replay
  <2> HIDE DEF r
  <2> QED BY <2>1, <2>2, <2>3, CallSet DEF Rests, OneCall
<1> QED BY <1>1, <1>2, <1>3, <1>4, <1>5, <1>6, <1>7, <1>8, <1>9, <1>10, <1>11,
           <1>12, <1>13, <1>14

-----------------------------------------------------------------------------
(* The first invariants: handles name attempts, and the job row tells where *)
(* its attempts stand.                                                      *)

Dispatching == {"claimed", "egress", "asking", "authorizing", "sending", "sampling"}

Working == Dispatching \cup {"returned", "recording", "selecting"}

\* A call that works on an attempt works on one that exists.
HandlesExist ==
  \A c \in Calls :
    /\ calls[c].pc \in Working => calls[c].attempt \in 1..Len(attempts)
    /\ calls[c].last => Len(attempts) > 0

\* The active attempt is the last one, and a queued job has budget for another.
JobShape ==
  /\ job.state = "none" => Len(attempts) = 0
  /\ job.state = "queued" => Len(attempts) < Budget
  /\ job.state = "leased" => Len(attempts) > 0 /\ job.active = Len(attempts)
  /\ Len(attempts) <= Budget

-----------------------------------------------------------------------------
(* What a step does to the job and its attempts.                           *)

SameJob ==
  /\ job' \in Job /\ job'.state = job.state
  /\ job'.active = job.active /\ job'.reason = job.reason

Quiet == attempts' = attempts /\ SameJob

Enqueued ==
  /\ job.state = "none" /\ attempts' = attempts
  /\ job' \in Job /\ job'.state = "queued"

Abandoned ==
  /\ job.state = "queued" /\ attempts' = attempts
  /\ job' \in Job /\ job'.state = "failed"

Began(tag) ==
  /\ job.state = "queued"
  /\ attempts' \in Seq(Attempt) /\ Len(attempts') = Len(attempts) + 1
  /\ \A j \in 1..Len(attempts) : attempts'[j] = attempts[j]
  /\ attempts'[Len(attempts) + 1].state = "started"
  /\ attempts'[Len(attempts) + 1].exp = tag
  /\ attempts'[Len(attempts) + 1].code = "none"
  /\ job' \in Job /\ job'.state = "leased" /\ job'.active = Len(attempts) + 1

Rebound(tag) ==
  /\ job.state = "leased" /\ SameJob
  /\ \E r \in Attempt : /\ AttemptIs(job.active, r) /\ r.exp = tag
                        /\ r.state = attempts[job.active].state
                        /\ r.code = attempts[job.active].code

Responded(i) ==
  /\ attempts[i].state = "started" /\ job' = job
  /\ \E r \in Attempt : /\ AttemptIs(i, r) /\ r.state = "response_durable"
                        /\ r.exp = attempts[i].exp /\ r.code = attempts[i].code

Closed(i, state, code) ==
  /\ attempts[i].state = "started"
  /\ \E r \in Attempt : /\ AttemptIs(i, r) /\ r.state = state /\ r.code = code
                        /\ r.exp = attempts[i].exp
  /\ job' \in Job /\ job'.state = IF state = "failed" THEN "failed" ELSE "queued"
  /\ job'.reason = IF state = "failed" THEN code ELSE "none"

Selected(i) ==
  /\ attempts[i].state = "response_durable"
  /\ \E r \in Attempt : /\ AttemptIs(i, r) /\ r.state = "selected"
                        /\ r.exp = attempts[i].exp /\ r.code = "completed"
  /\ job' \in Job /\ job'.state = "succeeded" /\ job'.reason = "completed"

\* renew_leases changes the term of the leases it renews and nothing else.
LEMMA Renewed ==
  ASSUME TypeOK
  PROVE  /\ RenewedRow \in Row /\ RenewedRow.holder = row.holder
         /\ RenewedRow.ours = row.ours /\ RenewedRow.verdict = row.verdict
         /\ RenewedRow.state = row.state
         /\ RenewedRow.term = IF JobOpen THEN "bound" ELSE "short"
         /\ RenewedJob \in Job /\ RenewedJob.state = job.state
         /\ RenewedJob.active = job.active /\ RenewedJob.reason = job.reason
<1>1. row \in Row /\ job \in Job
  BY DEF TypeOK
<1>2. /\ RenewedRow \in Row /\ RenewedRow.holder = row.holder
      /\ RenewedRow.ours = row.ours /\ RenewedRow.verdict = row.verdict
      /\ RenewedRow.state = row.state
      /\ RenewedRow.term = IF JobOpen THEN "bound" ELSE "short"
  BY <1>1 DEF RenewedRow, Row
<1>3. RenewedJob \in Job
  BY <1>1, JobFields DEF RenewedJob
<1>4. /\ RenewedJob.state = job.state /\ RenewedJob.active = job.active
      /\ RenewedJob.reason = job.reason
  BY <1>1 DEF RenewedJob, Job
<1> QED BY <1>2, <1>3, <1>4

\* The steps that leave the job where it is.
LEMMA QuietSteps ==
  ASSUME TypeOK, NEW c \in Calls,
         \/ Replay(c) \/ EnqueueRefused(c) \/ LoadJob(c) \/ RenewEntry(c)
         \/ RenewEntryRefused(c) \/ LoopHead(c) \/ LoopHeadRaises(c)
         \/ ClaimRefused(c) \/ EnterDispatch(c) \/ Prepare(c) \/ AskHuman(c)
         \/ Recover(c) \/ Authorize(c) \/ Send(c) \/ SendRefused(c)
         \/ ProviderAnswers(c) \/ RenewReturned(c) \/ RecordRefused(c)
         \/ RecordWait(c) \/ SelectRefused(c) \/ Resolve(c) \/ Conclude(c)
         \/ Cancel(c)
  PROVE  Quiet
<1>1. job \in Job
  BY DEF TypeOK
<1>2. attempts' = attempts /\ (job' = job \/ job' = RenewedJob)
  BY DEF Replay, EnqueueRefused, LoadJob, RenewEntry, RenewEntryRefused, LoopHead,
         LoopHeadRaises, ClaimRefused, EnterDispatch, Prepare, AskHuman, Recover,
         Authorize, Send, SendRefused, ProviderAnswers, RenewReturned, RecordRefused,
         RecordWait, SelectRefused, Resolve, Conclude, Cancel, Renew
<1> QED BY <1>1, <1>2, Renewed DEF Quiet, SameJob

\* The human, the clock and faults leave the job where it is, too.
LEMMA QuietFaults ==
  ASSUME TypeOK,
         \/ \E i \in 1..Len(audit) : Decide(i) \/ ProposalExpires(i)
         \/ Tick \/ LapseIdle \/ LapseInUse \/ JobLapse \/ Restart
  PROVE  Quiet
<1>1. job \in Job
  BY DEF TypeOK
<1>2. CASE (\E i \in 1..Len(audit) : Decide(i) \/ ProposalExpires(i)) \/ Tick
  BY <1>1, <1>2 DEF Decide, ProposalExpires, Tick, Quiet, SameJob
<1>3. CASE LapseIdle \/ LapseInUse \/ JobLapse
  <2> DEFINE r == [job EXCEPT !.term = "lapsed"]
  <2>1. attempts' = attempts /\ (job' = job \/ job' = r)
    BY <1>3 DEF LapseIdle, LapseInUse, JobLapse, LapsedJob
  <2>2. /\ r \in Job /\ r.state = job.state /\ r.active = job.active
        /\ r.reason = job.reason
    BY <1>1 DEF Job
  <2> HIDE DEF r
  <2> QED BY <1>1, <2>1, <2>2 DEF Quiet, SameJob
<1>4. CASE Restart
  <2> DEFINE r == [job EXCEPT !.ours = FALSE, !.by = None]
  <2>1. attempts' = attempts /\ job' = r
    BY <1>4 DEF Restart
  <2>2. r \in Job
    BY <1>1, JobFields
  <2>3. r.state = job.state /\ r.active = job.active /\ r.reason = job.reason
    BY <1>1 DEF Job
  <2> HIDE DEF r
  <2> QED BY <2>1, <2>2, <2>3 DEF Quiet, SameJob
<1> QED BY <1>2, <1>3, <1>4

\* The steps that open, rebind or close an attempt.
LEMMA AttemptSteps ==
  ASSUME TypeOK, HandlesExist, JobShape, NEW c \in Calls
  PROVE  /\ Enqueue(c) => Enqueued
         /\ FailJob(c) => Abandoned
         /\ ClaimNew(c) => Began(LeaseTag(c))
         /\ ClaimRebind(c) => Rebound(LeaseTag(c))
         /\ RecordResponse(c) => Responded(calls[c].attempt)
         /\ RecoverResponse(c) \/ Select(c) => Selected(calls[c].attempt)
         /\ ClaimedTooLate(c) => Closed(calls[c].attempt, "failed", TooLateCode(c))
         /\ RecordFailure(c) =>
              Closed(calls[c].attempt, "failed",
                     Exhaustion(calls[c].got, calls[c].attempt))
         /\ RecordRetry(c) => Closed(calls[c].attempt, "expired", calls[c].got)
         /\ ClaimRaises(c) => Quiet \/ (Abandoned /\ job'.reason = "coordinator_failure")
         /\ DispatchRaises(c) =>
              Quiet \/ Closed(calls[c].attempt, "failed", "coordinator_failure")
<1> DEFINE i == calls[c].attempt
<1>0. /\ job \in Job /\ row \in Row /\ attempts \in Seq(Attempt)
      /\ calls[c] \in Call /\ Len(attempts) \in Nat
      /\ {"none", "provider_timeout", "unknown", "coordinator_failure"}
            \subseteq Codes \ {"awaiting"}
      /\ LeaseTag(c) \in Calls \cup {None}
  BY DEF TypeOK, Codes, Results, Answers, LeaseTag
<1>1. HandleCurrent(c) => i \in 1..Len(attempts)
  BY DEF HandleCurrent
<1>2. ASSUME Enqueue(c) PROVE Enqueued
  BY <1>0, <1>2, ClosedJobType DEF Enqueue, Enqueued
<1>3. ASSUME FailJob(c) PROVE Abandoned
  <2>1. Len(attempts) > 0 => attempts[Len(attempts)] \in Attempt
    BY <1>0
  <2>2. (IF calls[c].last THEN RowsEnd(c) ELSE "provider_timeout") \in Codes
    BY <1>0 DEF RowsEnd, Exhaustion, Call, Codes, Results, Answers
  <2> QED BY <1>3, <2>2, ClosedJobType DEF FailJob, Abandoned
<1>4. ASSUME ClaimNew(c) PROVE Began(LeaseTag(c))
  <2> DEFINE a == [state |-> "started", exp |-> LeaseTag(c), code |-> "none"]
             q == [job EXCEPT !.state = "leased", !.active = Len(attempts) + 1,
                     !.ours = TRUE, !.term = row.term, !.by = LeaseTag(c)]
  <2>1. job.state = "queued" /\ attempts' = Append(attempts, a) /\ job' = q
    BY <1>4 DEF ClaimNew
  <2>2. row.term \in {"none", "short", "bound", "lapsed"} /\ Len(attempts) + 1 \in Nat
    BY <1>0 DEF Row
  <2>3. q \in Job
    BY <1>0, <2>2, JobFields
  <2>4. q.state = "leased" /\ q.active = Len(attempts) + 1
    BY <1>0 DEF Job
  <2>5. a \in Attempt /\ a.state = "started" /\ a.exp = LeaseTag(c) /\ a.code = "none"
    BY <1>0 DEF Attempt, Codes
  <2> HIDE DEF a, q
  <2>6. /\ attempts' \in Seq(Attempt) /\ Len(attempts') = Len(attempts) + 1
        /\ \A j \in 1..Len(attempts) : attempts'[j] = attempts[j]
        /\ attempts'[Len(attempts) + 1] = a
    BY <1>0, <2>1, <2>5
  <2> QED BY <2>1, <2>3, <2>4, <2>5, <2>6 DEF Began
<1>5. ASSUME ClaimRebind(c) PROVE Rebound(LeaseTag(c))
  <2> DEFINE k == job.active
             a == [attempts[k] EXCEPT !.exp = LeaseTag(c)]
             q == [job EXCEPT !.ours = TRUE, !.term = row.term, !.by = LeaseTag(c)]
  <2>1. /\ job.state = "leased" /\ attempts' = [attempts EXCEPT ![k] = a]
        /\ job' = q
    BY <1>5 DEF ClaimRebind, MayRebind
  <2>2. k \in 1..Len(attempts) /\ attempts[k] \in Attempt
    BY <1>0, <2>1 DEF JobShape
  <2>3. row.term \in {"none", "short", "bound", "lapsed"}
    BY <1>0 DEF Row
  <2>4. q \in Job
    BY <1>0, <2>3, JobFields
  <2>5. q.state = job.state /\ q.active = job.active /\ q.reason = job.reason
    BY <1>0 DEF Job
  <2>6. /\ a \in Attempt /\ a.exp = LeaseTag(c) /\ a.state = attempts[k].state
        /\ a.code = attempts[k].code
    BY <1>0, <2>2 DEF Attempt
  <2> HIDE DEF a, q
  <2>7. AttemptIs(k, a)
    BY <2>1, <2>2, <2>6, AttemptSet
  <2> QED BY <2>1, <2>4, <2>5, <2>6, <2>7 DEF Rebound, SameJob
<1>6. ASSUME RecordResponse(c) PROVE Responded(i)
  <2> DEFINE a == [attempts[i] EXCEPT !.state = "response_durable"]
  <2>1. /\ HandleCurrent(c) /\ attempts[i].state = "started" /\ job' = job
        /\ attempts' = [attempts EXCEPT ![i] = a]
    BY <1>6 DEF RecordResponse, Recordable, Writable
  <2>2. i \in 1..Len(attempts) /\ attempts[i] \in Attempt
    BY <1>0, <1>1, <2>1
  <2>3. /\ a \in Attempt /\ a.state = "response_durable" /\ a.exp = attempts[i].exp
        /\ a.code = attempts[i].code
    BY <2>2 DEF Attempt
  <2> HIDE DEF a
  <2>4. AttemptIs(i, a)
    BY <2>1, <2>2, <2>3, AttemptSet
  <2> QED BY <2>1, <2>3, <2>4 DEF Responded
<1>7. ASSUME RecoverResponse(c) \/ Select(c) PROVE Selected(i)
  <2>1. /\ HandleCurrent(c) /\ SelectAttempt(i)
        /\ attempts[i].state = "response_durable"
    BY <1>7 DEF RecoverResponse, Select, MaySelect
  <2> QED BY <1>1, <2>1, AttemptSelected DEF Selected
<1>8. ASSUME ClaimedTooLate(c) PROVE Closed(i, "failed", TooLateCode(c))
  <2>1. /\ HandleCurrent(c) /\ CloseAttempt(i, "failed", TooLateCode(c))
        /\ attempts[i].state = "started"
    BY <1>8 DEF ClaimedTooLate
  <2>2. TooLateCode(c) \in Codes \ {"awaiting"}
    BY <1>0 DEF TooLateCode
  <2> QED BY <1>1, <2>1, <2>2, AttemptClosed DEF Closed
<1>9. ASSUME RecordFailure(c)
      PROVE  Closed(i, "failed", Exhaustion(calls[c].got, i))
  <2>1. /\ HandleCurrent(c)
        /\ CloseAttempt(i, "failed", Exhaustion(calls[c].got, i))
        /\ attempts[i].state = "started"
    BY <1>9 DEF RecordFailure, Recordable, Writable
  <2>2. Exhaustion(calls[c].got, i) \in Codes \ {"awaiting"}
    BY <1>0, <1>9 DEF RecordFailure, Exhaustion, Call, Codes
  <2> QED BY <1>1, <2>1, <2>2, AttemptClosed DEF Closed
<1>10. ASSUME RecordRetry(c) PROVE Closed(i, "expired", calls[c].got)
  <2>1. /\ HandleCurrent(c) /\ CloseAttempt(i, "expired", calls[c].got)
        /\ attempts[i].state = "started"
    BY <1>10 DEF RecordRetry, Recordable, Writable
  <2>2. calls[c].got \in Codes \ {"awaiting"}
    BY <1>0, <1>10 DEF RecordRetry, Retries, Retriable, Call, Codes
  <2> QED BY <1>1, <2>1, <2>2, AttemptClosed DEF Closed
<1>11. ASSUME ClaimRaises(c)
       PROVE  Quiet \/ (Abandoned /\ job'.reason = "coordinator_failure")
  <2>1. CASE Holds(c) /\ job.state = "queued"
    BY <1>0, <1>11, <2>1, ClosedJobType DEF ClaimRaises, Abandoned
  <2>2. CASE ~(Holds(c) /\ job.state = "queued")
    <3>1. attempts' = attempts /\ (job' = job \/ job' = RenewedJob)
      BY <1>11, <2>2 DEF ClaimRaises
    <3>2. Quiet
      BY <1>0, <3>1, Renewed DEF Quiet, SameJob
    <3> QED BY <3>2
  <2> QED BY <2>1, <2>2
<1>12. ASSUME DispatchRaises(c)
       PROVE  Quiet \/ Closed(i, "failed", "coordinator_failure")
  <2>1. CASE HandleCurrent(c) /\ attempts[i].state = "started"
    <3>1. CloseAttempt(i, "failed", "coordinator_failure")
      BY <1>12, <2>1 DEF DispatchRaises
    <3> QED BY <1>0, <1>1, <2>1, <3>1, AttemptClosed DEF Closed
  <2>2. CASE ~(HandleCurrent(c) /\ attempts[i].state = "started")
    BY <1>0, <1>12, <2>2, Renewed DEF DispatchRaises, Quiet, SameJob
  <2> QED BY <2>1, <2>2
<1> QED BY <1>2, <1>3, <1>4, <1>5, <1>6, <1>7, <1>8, <1>9, <1>10, <1>11, <1>12

-----------------------------------------------------------------------------
(* What a step does to the audit.                                          *)

AuditIs(i, r) ==
  /\ audit' \in Seq(AuditRow) /\ Len(audit') = Len(audit)
  /\ audit'[i] = r
  /\ \A j \in 1..Len(audit) : j # i => audit'[j] = audit[j]

\* The audit row of attempt i goes from one status to another.
AuditMoves(i, status) ==
  \E r \in AuditRow :
    /\ AuditIs(i, r) /\ r.status = status /\ r.sent = audit[i].sent
    /\ r.preview = audit[i].preview /\ r.approved = audit[i].approved

AuditReserved(i, preview) ==
  \E r \in AuditRow :
    /\ AuditIs(i, r) /\ r.status = "reserved" /\ r.sent = audit[i].sent
    /\ r.preview = preview /\ r.approved = audit[i].approved

AuditApproved(i) ==
  \E r \in AuditRow :
    /\ AuditIs(i, r) /\ r.status = "approved" /\ r.sent = audit[i].sent
    /\ r.preview = audit[i].preview /\ r.approved = TRUE

AuditConsumed(i) ==
  \E r \in AuditRow :
    /\ AuditIs(i, r) /\ r.status = "consumed" /\ r.sent = audit[i].sent + 1
    /\ r.preview = audit[i].preview /\ r.approved = audit[i].approved

AuditStale ==
  /\ audit' \in Seq(AuditRow) /\ Len(audit') = Len(audit)
  /\ \A i \in 1..Len(audit) :
       \/ audit'[i] = audit[i]
       \/ /\ audit[i].status = "authorized" /\ audit'[i].status = "stale"
          /\ audit'[i].sent = audit[i].sent /\ audit'[i].preview = audit[i].preview
          /\ audit'[i].approved = audit[i].approved

\* Replacing one audit row changes that row and no other.
LEMMA AuditSet ==
  ASSUME TypeOK, NEW i \in 1..Len(audit), NEW r \in AuditRow,
         audit' = [audit EXCEPT ![i] = r]
  PROVE  AuditIs(i, r)
<1>1. audit \in Seq(AuditRow)
  BY DEF TypeOK
<1> QED BY <1>1, SeqSet DEF AuditIs

\* What an invocation that works on an attempt does to the audit of it.
LEMMA AuditForms ==
  ASSUME TypeOK, HandlesExist, NEW c \in Calls, calls[c].pc \in Working
  PROVE  /\ calls[c].attempt \in 1..Len(audit)
         /\ \A x \in {"awaiting", "authorized", "closed", AuditOf(c)} :
              SetAudit(c, x) => AuditMoves(calls[c].attempt, x)
         /\ Reserve(c) => \E preview \in BOOLEAN :
              /\ AuditReserved(calls[c].attempt, preview)
              /\ Moves(c, IF preview THEN "asking" ELSE "authorizing")
         /\ Consume(c) => AuditConsumed(calls[c].attempt)
<1> DEFINE i == calls[c].attempt
<1>0. i \in 1..Len(audit) /\ audit[i] \in AuditRow
  BY DEF TypeOK, HandlesExist
<1>1. ASSUME NEW x \in {"awaiting", "authorized", "closed", AuditOf(c)}, SetAudit(c, x)
      PROVE  AuditMoves(i, x)
  <2> DEFINE r == [audit[i] EXCEPT !.status = x]
  <2>1. audit' = [audit EXCEPT ![i] = r]
    BY <1>1 DEF SetAudit
  <2>2. /\ r \in AuditRow /\ r.status = x /\ r.sent = audit[i].sent
        /\ r.preview = audit[i].preview /\ r.approved = audit[i].approved
    BY <1>0 DEF AuditRow, AuditOf
  <2> HIDE DEF r
  <2>3. AuditIs(i, r)
    BY <1>0, <2>1, <2>2, AuditSet
  <2> QED BY <2>2, <2>3 DEF AuditMoves
<1>2. ASSUME Reserve(c)
      PROVE  \E preview \in BOOLEAN :
               /\ AuditReserved(i, preview)
               /\ Moves(c, IF preview THEN "asking" ELSE "authorizing")
  <2>1. PICK preview \in Previews :
          /\ audit' = [audit EXCEPT ![i].status = "reserved", ![i].preview = preview]
          /\ Goto(c, IF preview THEN "asking" ELSE "authorizing")
    BY <1>2 DEF Reserve
  <2>2. preview \in BOOLEAN
    BY LimitsAssumption
  <2> DEFINE r == [audit[i] EXCEPT !.status = "reserved", !.preview = preview]
  <2>3. audit' = [audit EXCEPT ![i] = r]
    BY <1>0, <2>1 DEF TypeOK
  <2>4. r \in AuditRow
    BY <1>0, <2>2, AuditFields
  <2>5. /\ r.status = "reserved" /\ r.sent = audit[i].sent
        /\ r.preview = preview /\ r.approved = audit[i].approved
    BY <1>0 DEF AuditRow
  <2> HIDE DEF r
  <2>6. AuditIs(i, r)
    BY <1>0, <2>3, <2>4, AuditSet
  <2>7. AuditReserved(i, preview)
    BY <2>4, <2>5, <2>6 DEF AuditReserved
  <2>8. Moves(c, IF preview THEN "asking" ELSE "authorizing")
    BY <2>1, CallForms DEF Pcs
  <2> QED BY <2>2, <2>7, <2>8
<1>3. ASSUME Consume(c) PROVE AuditConsumed(i)
  <2> DEFINE r == [audit[i] EXCEPT !.status = "consumed", !.sent = audit[i].sent + 1]
  <2>1. audit' = [audit EXCEPT ![i] = r]
    BY <1>0, <1>3 DEF TypeOK, Consume
  <2>2. audit[i].sent + 1 \in Nat
    BY <1>0 DEF AuditRow
  <2>3. r \in AuditRow
    BY <1>0, <2>2, AuditFields
  <2>4. /\ r.status = "consumed" /\ r.sent = audit[i].sent + 1
        /\ r.preview = audit[i].preview /\ r.approved = audit[i].approved
    BY <1>0 DEF AuditRow
  <2> HIDE DEF r
  <2>5. AuditIs(i, r)
    BY <1>0, <2>1, <2>3, AuditSet
  <2> QED BY <2>3, <2>4, <2>5 DEF AuditConsumed
<1> QED BY <1>0, <1>1, <1>2, <1>3

\* The human, the expiry of a proposal and a restart.
LEMMA AuditFaults ==
  ASSUME TypeOK
  PROVE  /\ \A i \in 1..Len(audit) : Decide(i) =>
              /\ audit[i].status \in {"reserved", "awaiting"}
              /\ AuditApproved(i) \/ AuditMoves(i, "denied")
         /\ \A i \in 1..Len(audit) : ProposalExpires(i) =>
              /\ audit[i].status \in {"reserved", "awaiting", "approved"}
              /\ AuditMoves(i, "expired")
         /\ Restart => AuditStale
<1>1. ASSUME NEW i \in 1..Len(audit), NEW x \in {"denied", "expired"},
             audit' = [audit EXCEPT ![i].status = x]
      PROVE  AuditMoves(i, x)
  <2> DEFINE r == [audit[i] EXCEPT !.status = x]
  <2>1. audit' = [audit EXCEPT ![i] = r] /\ audit[i] \in AuditRow
    BY <1>1 DEF TypeOK
  <2>2. /\ r \in AuditRow /\ r.status = x /\ r.sent = audit[i].sent
        /\ r.preview = audit[i].preview /\ r.approved = audit[i].approved
    BY <2>1 DEF AuditRow
  <2> HIDE DEF r
  <2>3. AuditIs(i, r)
    BY <2>1, <2>2, AuditSet
  <2> QED BY <2>2, <2>3 DEF AuditMoves
<1>2. ASSUME NEW i \in 1..Len(audit), Decide(i), ~AuditMoves(i, "denied")
      PROVE  AuditApproved(i)
  <2> DEFINE r == [audit[i] EXCEPT !.status = "approved", !.approved = TRUE]
  <2>0. audit[i] \in AuditRow
    BY DEF TypeOK
  <2>1. audit' = [audit EXCEPT ![i].status = "approved", ![i].approved = TRUE]
    BY <1>1, <1>2 DEF Decide
  <2>2. audit' = [audit EXCEPT ![i] = r]
    BY <2>1 DEF TypeOK
  <2>3. r \in AuditRow
    BY <2>0, AuditFields
  <2>4. /\ r.status = "approved" /\ r.sent = audit[i].sent
        /\ r.preview = audit[i].preview /\ r.approved = TRUE
    BY <2>0 DEF AuditRow
  <2> HIDE DEF r
  <2>5. AuditIs(i, r)
    BY <2>2, <2>3, AuditSet
  <2> QED BY <2>3, <2>4, <2>5 DEF AuditApproved
<1>3. ASSUME Restart PROVE AuditStale
  <2> DEFINE f(i) == IF audit[i].status = "authorized"
                     THEN [audit[i] EXCEPT !.status = "stale"] ELSE audit[i]
  <2>1. audit' = [i \in 1..Len(audit) |-> f(i)] /\ Len(audit) \in Nat
    BY <1>3 DEF Restart, TypeOK
  <2>2. \A i \in 1..Len(audit) : audit[i] \in AuditRow
    BY DEF TypeOK
  <2>3. \A i \in 1..Len(audit) :
          /\ f(i) \in AuditRow
          /\ \/ f(i) = audit[i]
             \/ /\ audit[i].status = "authorized" /\ f(i).status = "stale"
                /\ f(i).sent = audit[i].sent /\ f(i).preview = audit[i].preview
                /\ f(i).approved = audit[i].approved
    BY <2>2 DEF AuditRow
  <2> HIDE DEF f
  <2>4. audit' \in Seq(AuditRow) /\ Len(audit') = Len(audit)
    BY <2>1, <2>3
  <2> QED BY <2>1, <2>3, <2>4 DEF AuditStale
<1>4. ASSUME NEW i \in 1..Len(audit), Decide(i)
      PROVE  audit[i].status \in {"reserved", "awaiting"}
  BY <1>4 DEF Decide
<1>5. ASSUME NEW i \in 1..Len(audit), ProposalExpires(i)
      PROVE  /\ audit[i].status \in {"reserved", "awaiting", "approved"}
             /\ AuditMoves(i, "expired")
  BY <1>1, <1>5 DEF ProposalExpires
<1> QED BY <1>2, <1>3, <1>4, <1>5

-----------------------------------------------------------------------------
(* How calls change, but for the claims.                                   *)

\* The call took no job over, or has made an attempt itself since.
ClaimedItself(c) == ~(calls[c].snap = "leased" /\ ~calls[c].last)

BetweenClaims(c) ==
  \/ calls[c].pc \in {"loaded", "looping", "claiming"}
  \/ calls[c].pc = "resolving" /\ calls[c].result = "none"

\* The attempt's bytes are approved, or reserved under the standing policy.
Admissible(i) ==
  \/ audit' = audit /\ audit[i].status = "approved"
  \/ audit'[i].status = "reserved" /\ ~audit'[i].preview

MayMove(c, p) ==
  /\ p \notin {"entered", "claimed"}
  /\ p \in Dispatching => calls[c].pc \in Dispatching
  /\ p \in Working => calls[c].pc \in Working
  /\ p \in {"loaded", "looping", "claiming", "resolving"} => BetweenClaims(c)
  /\ p = "authorizing" => Admissible(calls[c].attempt)

CallChanges(c) ==
  \/ \E p \in Pcs : Moves(c, p) /\ MayMove(c, p)
  \/ Ends(c, "failed")
  \/ Ends(c, "succeeded") /\ (job.state = "succeeded" \/ job'.state = "succeeded")
  \/ calls[c].pc = "entered" /\ Loads(c, "queued") /\ job'.state = "queued"
  \/ calls[c].pc = "entered" /\ Loads(c, Snapshot) /\ job' = job
  \/ TriesAgain(c) /\ Len(attempts) > 0 /\ job'.state = "queued"
  \/ Rests(c, "idle")
  \/ Rests(c, "entered")

\* Everything an invocation does except its claims.
UnclaimedStep(c) ==
  (Replay(c) \/ CallStep(c) \/ Cancel(c)) /\ ~ClaimNew(c) /\ ~ClaimRebind(c)

\* A step of an invocation, unless it is a claim, changes that call in one of
\* the ways above and no other call.
LEMMA CallSteps ==
  ASSUME TypeOK, HandlesExist, JobShape, NEW c \in Calls, UnclaimedStep(c)
  PROVE  CallChanges(c)
<1> DEFINE move(p) == Moves(c, p) /\ MayMove(c, p)
<1>0. ASSUME NEW p \in Pcs, move(p) PROVE CallChanges(c)
  BY <1>0 DEF CallChanges
<1> HIDE DEF move
<1>1. CASE \/ EnqueueRefused(c) \/ LoopHeadRaises(c) \/ RecordRefused(c)
           \/ SelectRefused(c) \/ ClaimedTooLate(c) \/ DispatchRaises(c)
           \/ RecordFailure(c) \/ FailJob(c) \/ ClaimRaises(c)
  <2>1. Raise(c) \/ Finish(c, "failed") \/ FailJob(c) \/ ClaimRaises(c)
    BY <1>1 DEF EnqueueRefused, LoopHeadRaises, RecordRefused, SelectRefused,
                ClaimedTooLate, DispatchRaises, RecordFailure
  <2>2. Ends(c, "failed")
    BY <2>1, CallForms, OwnForms
  <2> QED BY <2>2 DEF CallChanges
<1>2. CASE RecoverResponse(c) \/ Select(c)
  <2>1. Ends(c, "succeeded")
    BY <1>2, CallForms, OwnForms DEF Select
  <2>2. job'.state = "succeeded"
    BY <1>2, AttemptSteps DEF Selected
  <2> QED BY <2>1, <2>2 DEF CallChanges
<1>3. CASE RenewEntry(c)
  <2>1. CASE calls[c].snap = "settled"
    BY <1>3, <2>1, OwnForms DEF CallChanges, RecoveredResult
  <2>2. CASE calls[c].snap # "settled"
    <3>1. Moves(c, "looping") /\ calls[c].pc = "loaded"
      BY <1>3, <2>2, OwnForms DEF RenewEntry
    <3>2. move("looping") /\ "looping" \in Pcs
      BY <3>1 DEF move, MayMove, BetweenClaims, Dispatching, Working, Pcs
    <3> QED BY <1>0, <3>2
  <2> QED BY <2>1, <2>2
<1>4. CASE RenewEntryRefused(c) \/ LoopHead(c) \/ ClaimRefused(c)
  <2>1. CASE Raise(c)
    BY <2>1, CallForms DEF CallChanges
  <2>2. CASE ~Raise(c)
    <3>1. /\ Moves(c, "looping") \/ Moves(c, "claiming")
          /\ calls[c].pc \in {"loaded", "looping", "claiming"}
      BY <1>4, <2>2, OwnForms DEF RenewEntryRefused, LoopHead, ClaimRefused
    <3>2. move("looping") \/ move("claiming")
      BY <3>1 DEF move, MayMove, BetweenClaims, Dispatching, Working
    <3> QED BY <1>0, <3>2 DEF Pcs
  <2> QED BY <2>1, <2>2
<1>5. CASE RenewReturned(c)
  <2>1. CASE Raise(c)
    BY <2>1, CallForms DEF CallChanges
  <2>2. CASE ~Raise(c)
    <3>1. Moves(c, "recording") /\ calls[c].pc = "returned"
      BY <1>5, <2>2, OwnForms DEF RenewReturned
    <3>2. move("recording") /\ "recording" \in Pcs
      BY <3>1 DEF move, MayMove, Dispatching, Working, Pcs
    <3> QED BY <1>0, <3>2
  <2> QED BY <2>1, <2>2
<1>6. CASE Prepare(c) \/ Authorize(c)
  <2>1. calls[c].pc \in Dispatching /\ calls[c].pc \in Working
    BY <1>6 DEF Prepare, Authorize, Dispatching, Working
  <2>2. \/ Moves(c, "returned") \/ Moves(c, "sending") \/ Moves(c, "asking")
        \/ Moves(c, "authorizing") /\ AuditReserved(calls[c].attempt, FALSE)
    BY <1>6, <2>1, CallForms, AuditForms DEF Prepare, Authorize, Results, Pcs
  <2>3. AuditReserved(calls[c].attempt, FALSE) => Admissible(calls[c].attempt)
    BY DEF AuditReserved, AuditIs, Admissible
  <2>4. move("returned") \/ move("sending") \/ move("asking") \/ move("authorizing")
    BY <2>1, <2>2, <2>3 DEF move, MayMove
  <2> QED BY <1>0, <2>4 DEF Pcs
<1>7. CASE Recover(c)
  <2>1. calls[c].pc \in Dispatching /\ calls[c].pc \in Working
    BY <1>7 DEF Recover, Dispatching, Working
  <2>2. \/ \E got \in Results : Return(c, got)
        \/ Goto(c, "sending")
        \/ Goto(c, "authorizing") /\ audit[calls[c].attempt].status = "approved"
    BY <1>7 DEF Recover, AuditOf, Results, Answers
  <2>3. \/ Moves(c, "returned") \/ Moves(c, "sending")
        \/ Moves(c, "authorizing") /\ audit[calls[c].attempt].status = "approved"
    BY <2>2, CallForms DEF Pcs
  <2>4. audit' = audit
    BY <1>7 DEF Recover
  <2>5. move("returned") \/ move("sending") \/ move("authorizing")
    BY <2>1, <2>3, <2>4 DEF move, MayMove, Admissible
  <2> QED BY <1>0, <2>5 DEF Pcs
<1>8. CASE \/ EnterDispatch(c) \/ AskHuman(c) \/ Send(c) \/ SendRefused(c)
           \/ ProviderAnswers(c)
  <2>1. calls[c].pc \in Dispatching /\ calls[c].pc \in Working
    BY <1>8 DEF EnterDispatch, AskHuman, Send, SendRefused, ProviderAnswers,
                Dispatching, Working
  <2>2. Goto(c, "egress") \/ Goto(c, "sampling") \/ \E got \in Results : Return(c, got)
    BY <1>8 DEF EnterDispatch, AskHuman, Send, SendRefused, ProviderAnswers, Results
  <2>3. Moves(c, "egress") \/ Moves(c, "sampling") \/ Moves(c, "returned")
    BY <2>2, CallForms DEF Pcs
  <2>4. move("egress") \/ move("sampling") \/ move("returned")
    BY <2>1, <2>3 DEF move, MayMove
  <2> QED BY <1>0, <2>4 DEF Pcs
<1>9. CASE RecordResponse(c)
  <2>1. Moves(c, "selecting") /\ calls[c].pc = "recording"
    BY <1>9, CallForms DEF RecordResponse, Recordable, Pcs
  <2>2. move("selecting") /\ "selecting" \in Pcs
    BY <2>1 DEF move, MayMove, Dispatching, Working, Pcs
  <2> QED BY <1>0, <2>2
<1>10. CASE Resolve(c)
  <2>1. /\ calls[c].pc = "resolving"
        /\ IF calls[c].result = "none" THEN Moves(c, "looping") ELSE Moves(c, "concluding")
    BY <1>10, CallForms DEF Resolve, Pcs
  <2>2. move("looping") \/ move("concluding")
    BY <2>1 DEF move, MayMove, BetweenClaims, Dispatching, Working
  <2> QED BY <1>0, <2>2 DEF Pcs
<1>11. CASE Enqueue(c)
  <2>1. calls[c].pc = "entered" /\ Loads(c, "queued") /\ job'.state = "queued"
    BY <1>11, OwnForms, AttemptSteps DEF Enqueue, Enqueued
  <2> QED BY <2>1 DEF CallChanges
<1>12. CASE LoadJob(c)
  <2>1. calls[c].pc = "entered" /\ Loads(c, Snapshot) /\ job' = job
    BY <1>12, OwnForms DEF LoadJob
  <2> QED BY <2>1 DEF CallChanges
<1>13. CASE RecordRetry(c)
  <2>1. TriesAgain(c) /\ job'.state = "queued"
    BY <1>13, OwnForms, AttemptSteps DEF Closed
  <2>2. Len(attempts) > 0
    BY <1>13 DEF RecordRetry, Recordable, Writable, HandleCurrent, TypeOK
  <2> QED BY <2>1, <2>2 DEF CallChanges
<1>14. CASE RecordWait(c) \/ Conclude(c) \/ Cancel(c)
  <2>1. Rests(c, "idle")
    BY <1>14, CallForms DEF RecordWait, Conclude, Cancel
  <2> QED BY <2>1 DEF CallChanges
<1>15. CASE Replay(c)
  BY <1>15, OwnForms DEF CallChanges
<1> QED BY <1>1, <1>2, <1>3, <1>4, <1>5, <1>6, <1>7, <1>8, <1>9, <1>10, <1>11,
           <1>12, <1>13, <1>14, <1>15 DEF UnclaimedStep, CallStep

-----------------------------------------------------------------------------
(* How the job and its attempts change, but for the claims.                *)

\* The invocation that claimed attempt i itself gives it up unsent.
TooLate(i) ==
  /\ audit' = audit
  /\ \E c \in Calls : /\ calls[c].pc = "claimed" /\ ClaimedItself(c)
                      /\ HandleCurrent(c) /\ calls[c].attempt = i
                      /\ Ends(c, "failed")

\* The invocation that records attempt i was told this code of its dispatch.
Heard(i, code) ==
  /\ audit' = audit
  /\ \E c \in Calls : /\ calls[c].pc = "recording" /\ calls[c].got = code
                      /\ calls[c].attempt = i

\* What another attempt may follow, also when it is out of budget.
Reports == Retriable \cup {"repairable"}

JobChanges ==
  \/ Quiet
  \/ Enqueued
  \/ Abandoned
  \/ \E i \in 1..Len(attempts) : Responded(i) \/ Selected(i)
  \/ \E i \in 1..Len(attempts), code \in Codes :
       /\ Closed(i, "failed", code)
       /\ code \in Reports =>
            Heard(i, code) \/ (code = "provider_timeout" /\ TooLate(i))
  \/ \E i \in 1..Len(attempts), code \in Reports :
       /\ Closed(i, "expired", code)
       /\ Heard(i, code)
       /\ i < Budget
       /\ code = "repairable" => Repairs = 0

\* A step of an invocation, unless it is a claim, changes the job and its
\* attempts in one of the ways above.
LEMMA JobSteps ==
  ASSUME TypeOK, HandlesExist, JobShape, NEW c \in Calls, UnclaimedStep(c)
  PROVE  JobChanges
<1> DEFINE i == calls[c].attempt
<1>1. CASE \/ Replay(c) \/ EnqueueRefused(c) \/ LoadJob(c) \/ RenewEntry(c)
           \/ RenewEntryRefused(c) \/ LoopHead(c) \/ LoopHeadRaises(c)
           \/ ClaimRefused(c) \/ EnterDispatch(c) \/ Prepare(c) \/ AskHuman(c)
           \/ Recover(c) \/ Authorize(c) \/ Send(c) \/ SendRefused(c)
           \/ ProviderAnswers(c) \/ RenewReturned(c) \/ RecordRefused(c)
           \/ RecordWait(c) \/ SelectRefused(c) \/ Resolve(c) \/ Conclude(c)
           \/ Cancel(c)
  BY <1>1, QuietSteps DEF JobChanges
<1>2. CASE Enqueue(c) \/ FailJob(c)
  BY <1>2, AttemptSteps DEF JobChanges
<1>3. CASE ClaimRaises(c)
  BY <1>3, AttemptSteps DEF JobChanges
<1>4. CASE RecordResponse(c) \/ RecoverResponse(c) \/ Select(c)
  <2>1. Responded(i) \/ Selected(i)
    BY <1>4, AttemptSteps
  <2>2. i \in 1..Len(attempts)
    BY <1>4 DEF RecordResponse, Recordable, Writable, RecoverResponse, Select,
                MaySelect, HandleCurrent
  <2> QED BY <2>1, <2>2 DEF JobChanges
<1>5. CASE ClaimedTooLate(c)
  <2>1. Closed(i, "failed", TooLateCode(c))
    BY <1>5, AttemptSteps
  <2>2. /\ i \in 1..Len(attempts) /\ audit' = audit
        /\ calls[c].pc = "claimed" /\ HandleCurrent(c) /\ Ends(c, "failed")
    BY <1>5, CallForms DEF ClaimedTooLate, HandleCurrent
  <2>3. /\ TooLateCode(c) \in Codes
        /\ TooLateCode(c) \in Reports =>
             TooLateCode(c) = "provider_timeout" /\ ClaimedItself(c)
    BY DEF TooLateCode, Codes, Results, Answers, ClaimedItself, Reports, Retriable
  <2>4. TooLateCode(c) \in Reports =>
          TooLateCode(c) = "provider_timeout" /\ TooLate(i)
    BY <2>2, <2>3 DEF TooLate
  <2> QED BY <2>1, <2>2, <2>3, <2>4 DEF JobChanges
<1>6. CASE RecordFailure(c)
  <2> DEFINE code == Exhaustion(calls[c].got, i)
  <2>1. Closed(i, "failed", code)
    BY <1>6, AttemptSteps
  <2>2. /\ i \in 1..Len(attempts) /\ audit' = audit /\ calls[c].pc = "recording"
        /\ calls[c] \in Call
    BY <1>6 DEF RecordFailure, Recordable, Writable, HandleCurrent, TypeOK
  <2>3. code \in Codes /\ (code \in Reports => calls[c].got = code)
    BY <2>2 DEF Exhaustion, Call, Codes, Reports, Retriable
  <2>4. code \in Reports => Heard(i, code)
    BY <2>2, <2>3 DEF Heard
  <2> HIDE DEF code
  <2> QED BY <2>1, <2>2, <2>3, <2>4 DEF JobChanges
<1>7. CASE DispatchRaises(c)
  <2>1. CASE Quiet
    BY <2>1 DEF JobChanges
  <2>2. CASE ~Quiet
    <3>1. Closed(i, "failed", "coordinator_failure")
      BY <1>7, <2>2, AttemptSteps
    <3>2. i \in 1..Len(attempts)
      BY <1>7 DEF DispatchRaises, HandlesExist, Working, Dispatching
    <3>3. "coordinator_failure" \in Codes \ Reports
      BY DEF Codes, Reports, Retriable
    <3> QED BY <3>1, <3>2, <3>3 DEF JobChanges
  <2> QED BY <2>1, <2>2
<1>8. CASE RecordRetry(c)
  <2>1. Closed(i, "expired", calls[c].got)
    BY <1>8, AttemptSteps
  <2>2. /\ i \in 1..Len(attempts) /\ i < Budget
        /\ calls[c].got \in Reports
        /\ calls[c].got = "repairable" => Repairs = 0
    BY <1>8 DEF RecordRetry, Recordable, Writable, HandleCurrent, Retries, Reports,
                Retriable
  <2>3. Heard(i, calls[c].got)
    BY <1>8 DEF RecordRetry, Recordable, Heard
  <2> QED BY <2>1, <2>2, <2>3 DEF JobChanges
<1> QED BY <1>1, <1>2, <1>3, <1>4, <1>5, <1>6, <1>7, <1>8 DEF UnclaimedStep, CallStep

-----------------------------------------------------------------------------
(* How the audit changes, but for the claims.                              *)

AuditChanges ==
  \/ audit' = audit
  \/ AuditStale
  \/ \E i \in 1..Len(audit) :
       \/ AuditMoves(i, audit[i].status)
       \/ \E x \in {"awaiting", "authorized", "closed", "denied", "expired"} :
            /\ AuditMoves(i, x)
            /\ audit[i].status \notin {"none", "consumed"}
            /\ x = "authorized" =>
                 \E c \in Calls : calls[c].pc = "authorizing" /\ calls[c].attempt = i
       \/ audit[i].status = "none" /\ \E preview \in BOOLEAN : AuditReserved(i, preview)
       \/ audit[i].status \in {"reserved", "awaiting"} /\ AuditApproved(i)
       \/ /\ audit[i].status = "authorized" /\ AuditConsumed(i)
          /\ \E c \in Calls : calls[c].pc = "sending" /\ calls[c].attempt = i

\* A step of an invocation, unless it is a claim, changes the audit in one of
\* the ways above.
LEMMA AuditSteps ==
  ASSUME TypeOK, HandlesExist, NEW c \in Calls, UnclaimedStep(c)
  PROVE  AuditChanges
<1> DEFINE i == calls[c].attempt
<1>1. CASE audit' = audit
  BY <1>1 DEF AuditChanges
<1>2. CASE Prepare(c) /\ audit' # audit
  <2>1. calls[c].pc \in Working /\ Reserve(c) /\ AuditOf(c) = "none"
    BY <1>2 DEF Prepare, Working, Dispatching
  <2>2. i \in 1..Len(audit) /\ \E preview \in BOOLEAN : AuditReserved(i, preview)
    BY <2>1, AuditForms
  <2> QED BY <2>1, <2>2 DEF AuditChanges, AuditOf
<1>3. CASE AskHuman(c) /\ audit' # audit
  <2>1. calls[c].pc \in Working /\ AuditOf(c) = "reserved" /\ SetAudit(c, "awaiting")
    BY <1>3 DEF AskHuman, Working, Dispatching
  <2>2. i \in 1..Len(audit) /\ AuditMoves(i, "awaiting")
    BY <2>1, AuditForms
  <2> QED BY <2>1, <2>2 DEF AuditChanges, AuditOf
<1>4. CASE Authorize(c) /\ audit' # audit
  <2>1. /\ calls[c].pc \in Working /\ calls[c].pc = "authorizing"
        /\ AuditOf(c) \in {"reserved", "approved"} /\ SetAudit(c, "authorized")
    BY <1>4 DEF Authorize, Working, Dispatching
  <2>2. i \in 1..Len(audit) /\ AuditMoves(i, "authorized")
    BY <2>1, AuditForms
  <2> QED BY <2>1, <2>2 DEF AuditChanges, AuditOf
<1>5. CASE Send(c)
  <2>1. calls[c].pc \in Working /\ calls[c].pc = "sending" /\ Consume(c)
    BY <1>5 DEF Send, Working, Dispatching
  <2>2. i \in 1..Len(audit) /\ AuditConsumed(i) /\ audit[i].status = "authorized"
    BY <2>1, AuditForms DEF Consume, AuditOf
  <2> QED BY <2>1, <2>2 DEF AuditChanges
<1>6. CASE SendRefused(c)
  <2>1. /\ calls[c].pc \in Working
        /\ \/ SetAudit(c, "closed") /\ AuditOf(c) = "authorized"
           \/ SetAudit(c, AuditOf(c))
    BY <1>6 DEF SendRefused, Working, Dispatching
  <2>2. /\ i \in 1..Len(audit)
        /\ \/ AuditMoves(i, "closed") /\ audit[i].status = "authorized"
           \/ AuditMoves(i, audit[i].status)
    BY <2>1, AuditForms DEF AuditOf
  <2> QED BY <2>2 DEF AuditChanges
<1>7. CASE ProviderAnswers(c)
  <2>1. PICK got \in Answers : audit' = [audit EXCEPT ![i].told = got]
    BY <1>7 DEF ProviderAnswers
  <2>2. i \in 1..Len(audit) /\ audit[i] \in AuditRow
    BY <1>7 DEF ProviderAnswers, HandlesExist, Working, Dispatching, TypeOK
  <2> DEFINE r == [audit[i] EXCEPT !.told = got]
  <2>3. audit' = [audit EXCEPT ![i] = r]
    BY <2>1
  <2>4. r \in AuditRow
    BY <2>2, AuditFields
  <2>5. /\ r.status = audit[i].status /\ r.sent = audit[i].sent
        /\ r.preview = audit[i].preview /\ r.approved = audit[i].approved
    BY <2>2 DEF AuditRow
  <2> HIDE DEF r
  <2>6. AuditIs(i, r)
    BY <2>2, <2>3, <2>4, AuditSet
  <2>7. AuditMoves(i, audit[i].status)
    BY <2>4, <2>5, <2>6 DEF AuditMoves
  <2> QED BY <2>2, <2>7 DEF AuditChanges
<1> QED BY <1>1, <1>2, <1>3, <1>4, <1>5, <1>6, <1>7
        DEF UnclaimedStep, CallStep, Replay, Cancel, Enqueue, EnqueueRefused, LoadJob,
            RenewEntry, RenewEntryRefused, LoopHead, LoopHeadRaises, FailJob,
            ClaimRefused, RecoverResponse, ClaimedTooLate, EnterDispatch, Recover,
            ProviderAnswers, ClaimRaises, DispatchRaises, RenewReturned, RecordRefused,
            RecordResponse, RecordWait, RecordRetry, RecordFailure, Select,
            SelectRefused, Resolve, Conclude

-----------------------------------------------------------------------------
(* How the operation row changes.                                          *)

RowChanges ==
  /\ row' \in Row
  /\ \/ row' = row
     \/ \E c \in Calls : Renewable(c) /\ row' = RenewedRow /\ calls'[c].pc # "claimed"
     \/ \E c \in Calls : /\ Reclaimable /\ row'.holder = c /\ row'.ours = TRUE
                         /\ row'.term = "short" /\ row'.verdict = row.verdict
                         /\ calls'[c].pc = "entered"
     \/ \E c \in Calls : /\ row.holder = c /\ row'.holder = None /\ row'.term = row.term
                         /\ row'.verdict = calls[c].result /\ calls'[c].pc # "claimed"
     \/ /\ row.term = "short" /\ row'.term = "lapsed" /\ row'.holder = row.holder
        /\ row'.ours = row.ours /\ row'.verdict = row.verdict
     \/ /\ row'.holder = None /\ row'.verdict = row.verdict
        /\ calls' = [d \in Calls |-> IdleCall]

\* A step of an invocation, unless it is a claim, changes the operation row in
\* one of the ways above.
LEMMA RowSteps ==
  ASSUME TypeOK, HandlesExist, JobShape, NEW c \in Calls, UnclaimedStep(c)
  PROVE  RowChanges
<1>0. row \in Row /\ calls[c] \in Call
  BY DEF TypeOK
<1>1. calls'[c].pc # "claimed"
  BY CallSteps DEF CallChanges, Moves, MayMove, Ends, Loads, TriesAgain, Rests
<1>2. CASE row' = row
  BY <1>0, <1>2 DEF RowChanges
<1>3. CASE Renewable(c) /\ row' = RenewedRow
  BY <1>1, <1>3, Renewed DEF RowChanges
<1>4. CASE Replay(c)
  <2> DEFINE r == [row EXCEPT !.holder = c, !.ours = TRUE, !.term = "short"]
  <2>1. r \in Row
    BY <1>0, RowFields
  <2>2. r.holder = c /\ r.ours = TRUE /\ r.term = "short" /\ r.verdict = row.verdict
    BY <1>0 DEF Row
  <2>3. Reclaimable /\ row' = r
    BY <1>4 DEF Replay
  <2>4. calls'[c].pc = "entered"
    BY <1>4, OwnForms DEF Rests
  <2> HIDE DEF r
  <2> QED BY <2>1, <2>2, <2>3, <2>4 DEF RowChanges
<1>5. CASE Conclude(c) /\ row' # row
  <2> DEFINE r == [row EXCEPT !.state = "complete", !.holder = None,
                              !.verdict = calls[c].result]
  <2>1. r \in Row
    BY <1>0, RowFields DEF Call
  <2>2. r.holder = None /\ r.term = row.term /\ r.verdict = calls[c].result
    BY <1>0 DEF Row
  <2>3. row.holder = c /\ row' = r
    BY <1>5 DEF Conclude, Holds
  <2> HIDE DEF r
  <2> QED BY <1>1, <2>1, <2>2, <2>3 DEF RowChanges
<1> QED BY <1>2, <1>3, <1>4, <1>5
        DEF UnclaimedStep, CallStep, Cancel, Enqueue, EnqueueRefused, LoadJob,
            RenewEntry, RenewEntryRefused, LoopHead, LoopHeadRaises, FailJob,
            ClaimRefused, RecoverResponse, ClaimedTooLate, EnterDispatch, Recover,
            Prepare, AskHuman, Authorize, Send, SendRefused, Renew,
            ProviderAnswers, ClaimRaises, DispatchRaises, RenewReturned, RecordRefused,
            RecordResponse, RecordWait, RecordRetry, RecordFailure, Select,
            SelectRefused, Resolve

-----------------------------------------------------------------------------
(* What any step does: it is a claim, or it changes each part as above.    *)

AuditBegan ==
  /\ audit' \in Seq(AuditRow) /\ Len(audit') = Len(audit) + 1
  /\ \A j \in 1..Len(audit) : audit'[j] = audit[j]
  /\ audit'[Len(audit) + 1].status = "none" /\ audit'[Len(audit) + 1].sent = 0
  /\ audit'[Len(audit) + 1].told = "none"

ClaimChanges(c) ==
  /\ calls[c].pc = "claiming" /\ Holds(c) /\ row' = row /\ time' = time
  /\ \/ /\ Began(LeaseTag(c)) /\ AuditBegan
        /\ Claims(c, Len(attempts) + 1, LeaseTag(c))
     \/ /\ Rebound(LeaseTag(c)) /\ audit' = audit
        /\ Claims(c, job.active, LeaseTag(c))

CallsChange ==
  \/ calls' = calls
  \/ calls' = [d \in Calls |-> IdleCall]
  \/ \E c \in Calls : CallChanges(c)

OtherChanges == CallsChange /\ JobChanges /\ AuditChanges /\ RowChanges

RestTypes ==
  /\ wait' \in [state : {"none", "awaiting", "resolved"}, attempt : Nat]
  /\ time' \in {"open", "grace", "over"} /\ (time = "over" => time' = "over")
  /\ faults' \in Nat

\* A claim opens the next attempt or rebinds the active one, for the holder.
LEMMA ClaimSteps ==
  ASSUME TypeOK, HandlesExist, JobShape, NEW c \in Calls, ClaimNew(c) \/ ClaimRebind(c)
  PROVE  ClaimChanges(c)
<1>1. calls[c].pc = "claiming" /\ Holds(c) /\ row' = row /\ time' = time
  BY DEF ClaimNew, ClaimRebind
<1>2. CASE ClaimNew(c)
  <2> DEFINE r == [status |-> "none", preview |-> FALSE, approved |-> FALSE, sent |-> 0,
                   told |-> "none"]
  <2>1. r \in AuditRow /\ r.status = "none" /\ r.sent = 0 /\ r.told = "none"
    BY DEF AuditRow
  <2>2. audit' = Append(audit, r) /\ audit \in Seq(AuditRow)
    BY <1>2 DEF ClaimNew, TypeOK
  <2> HIDE DEF r
  <2>3. AuditBegan
    BY <2>1, <2>2 DEF AuditBegan
  <2> QED BY <1>1, <1>2, <2>3, AttemptSteps, OwnForms DEF ClaimChanges
<1>3. CASE ClaimRebind(c)
  <2>1. audit' = audit
    BY <1>3 DEF ClaimRebind
  <2> QED BY <1>1, <1>3, <2>1, AttemptSteps, OwnForms DEF ClaimChanges
<1> QED BY <1>2, <1>3

\* The human, the clock and faults.
LEMMA FaultSteps ==
  ASSUME TypeOK,
         \/ \E i \in 1..Len(audit) : Decide(i) \/ ProposalExpires(i)
         \/ Tick \/ LapseIdle \/ LapseInUse \/ JobLapse \/ Restart
  PROVE  OtherChanges
<1>0. row \in Row
  BY DEF TypeOK
<1>1. JobChanges
  BY QuietFaults DEF JobChanges
<1>2. CallsChange
  BY DEF CallsChange, Decide, ProposalExpires, Tick, LapseIdle, LapseInUse, JobLapse,
         Restart
<1>3. AuditChanges
  <2>1. CASE audit' = audit
    BY <2>1 DEF AuditChanges
  <2>2. CASE Restart
    BY <2>2, AuditFaults DEF AuditChanges
  <2>3. CASE \E i \in 1..Len(audit) : Decide(i) \/ ProposalExpires(i)
    <3>1. PICK i \in 1..Len(audit) : Decide(i) \/ ProposalExpires(i)
      BY <2>3
    <3>2. \/ audit[i].status \in {"reserved", "awaiting"} /\ AuditApproved(i)
          \/ /\ AuditMoves(i, "denied") \/ AuditMoves(i, "expired")
             /\ audit[i].status \in {"reserved", "awaiting", "approved"}
      BY <3>1, AuditFaults
    <3> QED BY <3>2 DEF AuditChanges
  <2> QED BY <2>1, <2>2, <2>3 DEF Tick, LapseIdle, LapseInUse, JobLapse
<1>4. RowChanges
  <2>1. CASE row' = row
    BY <1>0, <2>1 DEF RowChanges
  <2>2. CASE LapseIdle \/ LapseInUse
    <3> DEFINE r == [row EXCEPT !.term = "lapsed"]
    <3>1. /\ r \in Row /\ r.term = "lapsed" /\ r.holder = row.holder
          /\ r.ours = row.ours /\ r.verdict = row.verdict
      BY <1>0 DEF Row
    <3>2. row.term = "short" /\ row' = r
      BY <2>2 DEF LapseIdle, LapseInUse
    <3> HIDE DEF r
    <3> QED BY <3>1, <3>2 DEF RowChanges
  <2>3. CASE Restart
    <3> DEFINE r == [row EXCEPT !.holder = None, !.ours = FALSE]
    <3>1. r \in Row
      BY <1>0, RowFields
    <3>2. r.holder = None /\ r.verdict = row.verdict
      BY <1>0 DEF Row
    <3>3. row' = r /\ calls' = [d \in Calls |-> IdleCall]
      BY <2>3 DEF Restart
    <3> HIDE DEF r
    <3> QED BY <3>1, <3>2, <3>3 DEF RowChanges
  <2> QED BY <2>1, <2>2, <2>3 DEF Tick, Decide, ProposalExpires, JobLapse
<1> QED BY <1>1, <1>2, <1>3, <1>4 DEF OtherChanges

\* The wait row, the clock and the fault counter keep their types; an execution
\* that is over stays over.
LEMMA RestSteps ==
  ASSUME TypeOK, HandlesExist, [Next]_vars
  PROVE  RestTypes
<1> DEFINE W == [state : {"none", "awaiting", "resolved"}, attempt : Nat]
<1>0. wait \in W /\ faults \in Nat /\ time \in {"open", "grace", "over"}
  BY DEF TypeOK
<1>1. faults' = faults \/ faults' = faults + 1
  BY DEF Next, vars, CallStep, Replay, Cancel, Enqueue, EnqueueRefused, LoadJob,
         RenewEntry, RenewEntryRefused, LoopHead, LoopHeadRaises, FailJob, ClaimNew,
         ClaimRebind, ClaimRefused, RecoverResponse, ClaimedTooLate, EnterDispatch,
         Recover, Prepare, AskHuman, Authorize, Send, SendRefused, ProviderAnswers,
         ClaimRaises, DispatchRaises, RenewReturned, RecordRefused, RecordResponse,
         RecordWait, RecordRetry, RecordFailure, Select, SelectRefused, Resolve,
         Conclude, Decide, ProposalExpires, Tick, LapseIdle, LapseInUse, JobLapse,
         Restart
<1>2. time' = time \/ Tick
  BY DEF Next, vars, CallStep, Replay, Cancel, Enqueue, EnqueueRefused, LoadJob,
         RenewEntry, RenewEntryRefused, LoopHead, LoopHeadRaises, FailJob, ClaimNew,
         ClaimRebind, ClaimRefused, RecoverResponse, ClaimedTooLate, EnterDispatch,
         Recover, Prepare, AskHuman, Authorize, Send, SendRefused, ProviderAnswers,
         ClaimRaises, DispatchRaises, RenewReturned, RecordRefused, RecordResponse,
         RecordWait, RecordRetry, RecordFailure, Select, SelectRefused, Resolve,
         Conclude, Decide, ProposalExpires, LapseIdle, LapseInUse, JobLapse, Restart
<1>3. \/ wait' = wait
      \/ \E c \in Calls : RecordWait(c) \/ Resolve(c)
  BY DEF Next, vars, CallStep, Replay, Cancel, Enqueue, EnqueueRefused, LoadJob,
         RenewEntry, RenewEntryRefused, LoopHead, LoopHeadRaises, FailJob, ClaimNew,
         ClaimRebind, ClaimRefused, RecoverResponse, ClaimedTooLate, EnterDispatch,
         Recover, Prepare, AskHuman, Authorize, Send, SendRefused, ProviderAnswers,
         ClaimRaises, DispatchRaises, RenewReturned, RecordRefused, RecordResponse,
         RecordRetry, RecordFailure, Select, SelectRefused, Conclude, Decide,
         ProposalExpires, Tick, LapseIdle, LapseInUse, JobLapse, Restart
<1>4. wait' \in W
  <2>1. ASSUME NEW c \in Calls, RecordWait(c) PROVE wait' \in W
    <3>1. calls[c].attempt \in Nat
      BY DEF TypeOK, Call
    <3> QED BY <2>1, <3>1 DEF RecordWait
  <2>2. ASSUME NEW c \in Calls, Resolve(c) PROVE wait' \in W
    BY <1>0, <2>2 DEF Resolve
  <2> QED BY <1>0, <1>3, <2>1, <2>2
<1> QED BY <1>0, <1>1, <1>2, <1>4 DEF RestTypes, Tick

\* Every step of the specification, stuttering included, is a claim or leaves
\* each part of the state as the sections above say.
LEMMA Steps ==
  ASSUME TypeOK, HandlesExist, JobShape, [Next]_vars
  PROVE  (\E c \in Calls : ClaimChanges(c)) \/ OtherChanges
<1>1. CASE UNCHANGED vars
  <2>1. job \in Job /\ row \in Row
    BY DEF TypeOK
  <2> QED BY <1>1, <2>1 DEF vars, OtherChanges, CallsChange, JobChanges, Quiet, SameJob,
                            AuditChanges, RowChanges
<1>2. ASSUME NEW c \in Calls, Replay(c) \/ CallStep(c) \/ Cancel(c)
      PROVE  ClaimChanges(c) \/ OtherChanges
  <2>1. CASE ClaimNew(c) \/ ClaimRebind(c)
    BY <2>1, ClaimSteps
  <2>2. CASE UnclaimedStep(c)
    <3>1. CallsChange
      BY <2>2, CallSteps DEF CallsChange
    <3> QED BY <2>2, <3>1, JobSteps, AuditSteps, RowSteps DEF OtherChanges
  <2> QED BY <1>2, <2>1, <2>2 DEF UnclaimedStep
<1>3. CASE \/ \E i \in 1..Len(audit) : Decide(i) \/ ProposalExpires(i)
           \/ Tick \/ LapseIdle \/ LapseInUse \/ JobLapse \/ Restart
  BY <1>3, FaultSteps
<1> QED BY <1>1, <1>2, <1>3 DEF Next

-----------------------------------------------------------------------------
(* Types and handles.                                                      *)

\* Without a claim the job and the attempts keep their types and their number.
LEMMA JobTypes ==
  ASSUME TypeOK, JobChanges
  PROVE  attempts' \in Seq(Attempt) /\ Len(attempts') = Len(attempts) /\ job' \in Job
<1>1. attempts \in Seq(Attempt) /\ job \in Job
  BY DEF TypeOK
<1> QED BY <1>1 DEF JobChanges, Quiet, SameJob, Enqueued, Abandoned, Responded,
                    Selected, Closed, AttemptIs

\* Without a claim the audit keeps its type and its length.
LEMMA AuditTypes ==
  ASSUME TypeOK, AuditChanges
  PROVE  audit' \in Seq(AuditRow) /\ Len(audit') = Len(audit)
<1>1. audit \in Seq(AuditRow)
  BY DEF TypeOK
<1> QED BY <1>1 DEF AuditChanges, AuditStale, AuditMoves, AuditReserved, AuditApproved,
                    AuditConsumed, AuditIs

\* Without a claim the calls keep their types.
LEMMA CallTypes ==
  ASSUME TypeOK, CallsChange
  PROVE  calls' \in [Calls -> Call]
<1>1. ASSUME NEW c \in Calls, CallChanges(c) PROVE calls' \in [Calls -> Call]
  BY <1>1 DEF CallChanges, Moves, Ends, Loads, TriesAgain, Rests, OneCall
<1> QED BY <1>1, IdleCallType DEF CallsChange, TypeOK

\* Every step keeps the types.
LEMMA TypeStep ==
  ASSUME TypeOK, HandlesExist, JobShape, [Next]_vars
  PROVE  TypeOK'
<1>1. RestTypes
  BY RestSteps
<1>2. ASSUME NEW c \in Calls, ClaimChanges(c) PROVE TypeOK'
  <2>1. row' \in Row /\ calls' \in [Calls -> Call] /\ job' \in Job
    BY <1>2 DEF ClaimChanges, TypeOK, Claims, OneCall, Began, Rebound, SameJob
  <2>2. /\ attempts' \in Seq(Attempt) /\ audit' \in Seq(AuditRow)
        /\ Len(audit') = Len(attempts')
    BY <1>2 DEF ClaimChanges, TypeOK, Began, AuditBegan, Rebound, AttemptIs
  <2> QED BY <1>1, <2>1, <2>2 DEF TypeOK, RestTypes
<1>3. ASSUME OtherChanges PROVE TypeOK'
  <2>1. row' \in Row /\ calls' \in [Calls -> Call]
    BY <1>3, CallTypes DEF OtherChanges, RowChanges
  <2>2. /\ attempts' \in Seq(Attempt) /\ audit' \in Seq(AuditRow) /\ job' \in Job
        /\ Len(audit') = Len(attempts')
    BY <1>3, JobTypes, AuditTypes DEF OtherChanges, TypeOK
  <2> QED BY <1>1, <2>1, <2>2 DEF TypeOK, RestTypes
<1> QED BY <1>2, <1>3, Steps

\* Every step keeps the handles on attempts that exist: none is ever removed.
LEMMA HandlesStep ==
  ASSUME TypeOK, HandlesExist, JobShape, [Next]_vars
  PROVE  HandlesExist'
<1>0. Len(attempts) \in Nat
  BY DEF TypeOK
<1>1. ASSUME NEW c \in Calls, ClaimChanges(c) PROVE HandlesExist'
  <2>1. /\ Len(attempts) \in Nat /\ Len(attempts') \in Nat
        /\ Len(attempts') >= Len(attempts) /\ Len(attempts') > 0
        /\ calls'[c].attempt \in 1..Len(attempts')
    BY <1>0, <1>1 DEF ClaimChanges, Claims, Began, Rebound, AttemptIs, JobShape
  <2>2. \A d \in Calls : d # c => calls'[d] = calls[d]
    BY <1>1 DEF ClaimChanges, Claims, OneCall
  <2> QED BY <2>1, <2>2 DEF HandlesExist
<1>2. ASSUME OtherChanges PROVE HandlesExist'
  <2>1. Len(attempts') = Len(attempts)
    BY <1>2, JobTypes DEF OtherChanges
  <2>2. CASE calls' = calls
    BY <2>1, <2>2 DEF HandlesExist
  <2>3. CASE calls' = [d \in Calls |-> IdleCall]
    BY <2>3 DEF HandlesExist, IdleCall, Working, Dispatching
  <2>4. ASSUME NEW c \in Calls, CallChanges(c) PROVE HandlesExist'
    <3>1. \A d \in Calls : d # c => calls'[d] = calls[d]
      BY <2>4 DEF CallChanges, Moves, Ends, Loads, TriesAgain, Rests, OneCall
    <3>2. calls'[c].pc \in Working => calls'[c].attempt \in 1..Len(attempts)
      BY <2>4 DEF CallChanges, Moves, MayMove, KeepsHandle, Ends, Loads, TriesAgain,
                  Rests, HandlesExist, Working, Dispatching
    <3>3. calls'[c].last => Len(attempts) > 0
      BY <2>4 DEF CallChanges, Moves, KeepsHandle, Ends, Loads, TriesAgain,
                  Rests, HandlesExist
    <3> QED BY <2>1, <3>1, <3>2, <3>3 DEF HandlesExist
  <2> QED BY <1>2, <2>2, <2>3, <2>4 DEF OtherChanges, CallsChange
<1> QED BY <1>1, <1>2, Steps

-----------------------------------------------------------------------------
(* The ledger's invariants: the job row and the attempt rows.              *)

\* While the job is open, every attempt but the active one is to be retried.
OpenIsLast ==
  JobOpen => \A i \in 1..Len(attempts) :
    attempts[i].state = "expired" \/ (job.state = "leased" /\ i = job.active)

ExpiredMayRetry ==
  \A i \in 1..Len(attempts) :
    attempts[i].state = "expired" => attempts[i].code \in Reports

Repaired(i) == attempts[i].state = "expired" /\ attempts[i].code = "repairable"

OneRepair == \A i, j \in 1..Len(attempts) : Repaired(i) /\ Repaired(j) => i = j

LedgerInv ==
  /\ JobShape
  /\ OneOpenAttempt
  /\ OpenIsLast
  /\ ExpiredMayRetry
  /\ OneRepair

\* No attempt was to be repaired if none counts.
LEMMA NoRepairs ==
  ASSUME TypeOK, Repairs = 0
  PROVE  \A i \in 1..Len(attempts) : attempts[i].code # "repairable"
<1> DEFINE S == {i \in 1..Len(attempts) : attempts[i].code = "repairable"}
<1>1. IsFiniteSet(1..Len(attempts))
  BY FS_Interval DEF TypeOK
<1>2. IsFiniteSet(S)
  BY <1>1, FS_Subset
<1>3. S = {}
  BY <1>2, FS_EmptySet DEF Repairs
<1> QED BY <1>3

\* The budget admits at least one attempt.
LEMMA BudgetNat == Budget \in Nat \ {0}
BY LimitsAssumption DEF Budget

\* A claim keeps the ledger consistent: a new attempt follows expired ones only.
LEMMA ClaimLedger ==
  ASSUME TypeOK, LedgerInv, NEW c \in Calls, ClaimChanges(c)
  PROVE  LedgerInv'
<1> USE BudgetNat DEF LedgerInv
<1>0. attempts \in Seq(Attempt) /\ Len(attempts) \in Nat
  BY DEF TypeOK
<1>1. CASE Began(LeaseTag(c))
  <2> DEFINE n == Len(attempts) + 1
  <2>1. /\ Len(attempts') = n /\ job'.state = "leased" /\ job'.active = n
        /\ \A j \in 1..Len(attempts) : attempts'[j] = attempts[j]
        /\ attempts'[n].state = "started" /\ job.state = "queued"
    BY <1>1 DEF Began
  <2>2. JobShape'
    BY <1>0, <2>1 DEF JobShape
  <2>3. \A j \in 1..Len(attempts') : j # n => j \in 1..Len(attempts)
    BY <1>0, <2>1
  <2>4. \A j \in 1..Len(attempts) : attempts[j].state = "expired"
    BY <2>1 DEF OpenIsLast, JobOpen
  <2>5. OneOpenAttempt'
    BY <2>1, <2>3, <2>4 DEF OneOpenAttempt, Open
  <2>6. OpenIsLast'
    BY <2>1, <2>3, <2>4 DEF OpenIsLast
  <2>7. ExpiredMayRetry' /\ OneRepair'
    BY <2>1, <2>3 DEF ExpiredMayRetry, OneRepair, Repaired
  <2> QED BY <2>2, <2>5, <2>6, <2>7
<1>2. CASE Rebound(LeaseTag(c))
  <2>1. /\ Len(attempts') = Len(attempts)
        /\ \A j \in 1..Len(attempts) : /\ attempts'[j].state = attempts[j].state
                                       /\ attempts'[j].code = attempts[j].code
        /\ job'.state = job.state /\ job'.active = job.active
    BY <1>2 DEF Rebound, SameJob, AttemptIs
  <2>2. JobShape'
    BY <2>1 DEF JobShape
  <2>3. OneOpenAttempt' /\ OpenIsLast'
    BY <2>1 DEF OneOpenAttempt, OpenIsLast, Open, JobOpen
  <2>4. ExpiredMayRetry' /\ OneRepair'
    BY <2>1 DEF ExpiredMayRetry, OneRepair, Repaired
  <2> QED BY <2>2, <2>3, <2>4
<1> QED BY <1>1, <1>2 DEF ClaimChanges

\* So does everything else: what closes an attempt closes the job or requeues it
\* within the budget and the one repair.
LEMMA OtherLedger ==
  ASSUME TypeOK, LedgerInv, JobChanges
  PROVE  LedgerInv'
<1> USE BudgetNat DEF LedgerInv
<1>0. Len(attempts) \in Nat /\ Len(attempts') = Len(attempts)
  BY JobTypes DEF TypeOK
<1>1. CASE Quiet \/ Enqueued \/ Abandoned
  <2>1. attempts' = attempts
    BY <1>1 DEF Quiet, Enqueued, Abandoned
  <2>2. JobShape'
    BY <1>0, <1>1, <2>1 DEF JobShape, Quiet, Enqueued, Abandoned, SameJob
  <2>3. OneOpenAttempt' /\ OpenIsLast'
    BY <1>0, <1>1, <2>1 DEF OneOpenAttempt, OpenIsLast, JobShape, Open, JobOpen,
                            Quiet, Enqueued, Abandoned, SameJob
  <2>4. ExpiredMayRetry' /\ OneRepair'
    BY <2>1 DEF ExpiredMayRetry, OneRepair, Repaired
  <2> QED BY <2>2, <2>3, <2>4
<1>2. ASSUME NEW i \in 1..Len(attempts), Responded(i) PROVE LedgerInv'
  <2>1. /\ attempts[i].state = "started" /\ job' = job
        /\ attempts'[i].state = "response_durable"
        /\ \A j \in 1..Len(attempts) : j # i => attempts'[j] = attempts[j]
    BY <1>2 DEF Responded, AttemptIs
  <2>2. JobShape'
    BY <1>0, <2>1 DEF JobShape
  <2>3. job.state = "leased" /\ job.active = i
    BY <2>1 DEF OneOpenAttempt, Open
  <2>4. OneOpenAttempt' /\ OpenIsLast'
    BY <1>0, <2>1, <2>3 DEF OneOpenAttempt, OpenIsLast, Open, JobOpen
  <2>5. ExpiredMayRetry' /\ OneRepair'
    BY <1>0, <2>1 DEF ExpiredMayRetry, OneRepair, Repaired
  <2> QED BY <2>2, <2>4, <2>5
<1>3. ASSUME NEW i \in 1..Len(attempts),
             Selected(i) \/ \E code \in Codes : Closed(i, "failed", code)
      PROVE  LedgerInv'
  <2>1. /\ attempts[i].state \in {"started", "response_durable"}
        /\ job'.state \in {"succeeded", "failed"}
        /\ attempts'[i].state \in {"selected", "failed"}
        /\ \A j \in 1..Len(attempts) : j # i => attempts'[j] = attempts[j]
    BY <1>3 DEF Selected, Closed, AttemptIs
  <2>2. JobShape'
    BY <1>0, <2>1 DEF JobShape
  <2>3. job.state = "leased" /\ job.active = i
    BY <2>1 DEF OneOpenAttempt, Open
  <2>4. OneOpenAttempt' /\ OpenIsLast'
    BY <1>0, <2>1, <2>3 DEF OneOpenAttempt, OpenIsLast, Open, JobOpen
  <2>5. ExpiredMayRetry' /\ OneRepair'
    BY <1>0, <2>1 DEF ExpiredMayRetry, OneRepair, Repaired
  <2> QED BY <2>2, <2>4, <2>5
<1>4. ASSUME NEW i \in 1..Len(attempts), NEW code \in Reports,
             Closed(i, "expired", code), i < Budget, code = "repairable" => Repairs = 0
      PROVE  LedgerInv'
  <2>1. /\ attempts[i].state = "started" /\ job'.state = "queued"
        /\ attempts'[i].state = "expired" /\ attempts'[i].code = code
        /\ \A j \in 1..Len(attempts) : j # i => attempts'[j] = attempts[j]
    BY <1>4 DEF Closed, AttemptIs
  <2>2. job.state = "leased" /\ job.active = i
    BY <2>1 DEF OneOpenAttempt, Open
  <2>3. JobShape'
    BY <1>0, <1>4, <2>1, <2>2 DEF JobShape
  <2>4. OneOpenAttempt' /\ OpenIsLast'
    BY <1>0, <2>1, <2>2 DEF OneOpenAttempt, OpenIsLast, Open, JobOpen
  <2>5. ExpiredMayRetry'
    BY <1>0, <2>1 DEF ExpiredMayRetry
  <2>6. OneRepair'
    <3>1. CASE code = "repairable"
      <4>1. \A j \in 1..Len(attempts) : attempts[j].code # "repairable"
        BY <1>4, <3>1, NoRepairs
      <4> QED BY <1>0, <2>1, <4>1 DEF OneRepair, Repaired
    <3>2. CASE code # "repairable"
      BY <1>0, <2>1, <3>2 DEF OneRepair, Repaired
    <3> QED BY <3>1, <3>2
  <2> QED BY <2>3, <2>4, <2>5, <2>6
<1> QED BY <1>1, <1>2, <1>3, <1>4 DEF JobChanges

-----------------------------------------------------------------------------
(* The audit's invariants.                                                 *)

\* The audit row tells how often its request was sent.
ConsumedOnce ==
  \A i \in 1..Len(audit) :
    audit[i].sent = IF audit[i].status = "consumed" THEN 1 ELSE 0

\* What is approved, authorized or consumed under a preview policy was approved,
\* and so is what an invocation is about to authorize.
ApprovedFirst ==
  /\ \A i \in 1..Len(audit) :
       audit[i].preview /\ audit[i].status \in {"approved", "authorized", "consumed"} =>
         audit[i].approved
  /\ \A c \in Calls : calls[c].pc = "authorizing" =>
       /\ audit[calls[c].attempt].status # "none"
       /\ audit[calls[c].attempt].preview => audit[calls[c].attempt].approved

\* Every step keeps the number of sends what the audit status says.
LEMMA ConsumedStep ==
  ASSUME TypeOK, HandlesExist, JobShape, ConsumedOnce, [Next]_vars
  PROVE  ConsumedOnce'
<1>0. Len(audit) \in Nat /\ \A i \in 1..Len(audit) : audit[i].sent \in Nat
  <2>1. Len(audit) \in Nat /\ \A i \in 1..Len(audit) : audit[i] \in AuditRow
    BY DEF TypeOK
  <2> QED BY <2>1 DEF AuditRow
<1>1. ASSUME NEW c \in Calls, ClaimChanges(c) PROVE ConsumedOnce'
  BY <1>0, <1>1 DEF ClaimChanges, AuditBegan, ConsumedOnce
<1>2. ASSUME AuditChanges PROVE ConsumedOnce'
  <2>1. Len(audit') = Len(audit)
    BY <1>2, AuditTypes
  <2>2. \A i \in 1..Len(audit) :
          \/ audit'[i].sent = audit[i].sent /\ audit'[i].status = audit[i].status
          \/ /\ audit'[i].sent = audit[i].sent
             /\ audit[i].status # "consumed" /\ audit'[i].status # "consumed"
          \/ /\ audit'[i].sent = audit[i].sent + 1
             /\ audit[i].status # "consumed" /\ audit'[i].status = "consumed"
    BY <1>2 DEF AuditChanges, AuditStale, AuditMoves, AuditReserved, AuditApproved,
                AuditConsumed, AuditIs
  <2> QED BY <1>0, <2>1, <2>2 DEF ConsumedOnce
<1> QED BY <1>1, <1>2, Steps DEF OtherChanges

\* Every step keeps approval before authorization: an audit row that is not
\* fresh is never prepared again.
LEMMA ApprovedStep ==
  ASSUME TypeOK, HandlesExist, JobShape, ApprovedFirst, [Next]_vars
  PROVE  ApprovedFirst'
<1>0. /\ Len(audit) \in Nat /\ Len(attempts) = Len(audit)
      /\ \A c \in Calls : calls[c].pc = "authorizing" =>
           calls[c].attempt \in 1..Len(audit)
  BY DEF TypeOK, HandlesExist, Working, Dispatching
<1>1. ASSUME NEW c \in Calls, ClaimChanges(c) PROVE ApprovedFirst'
  <2>1. \A d \in Calls : calls'[d].pc = "authorizing" => calls'[d] = calls[d]
    BY <1>1 DEF ClaimChanges, Claims, OneCall
  <2>2. /\ \A i \in 1..Len(audit) : audit'[i] = audit[i]
        /\ \A i \in 1..Len(audit') : i \notin 1..Len(audit) => audit'[i].status = "none"
    BY <1>0, <1>1 DEF ClaimChanges, AuditBegan
  <2> QED BY <1>0, <2>1, <2>2 DEF ApprovedFirst
<1>2. ASSUME CallsChange, AuditChanges PROVE ApprovedFirst'
  <2>1. Len(audit') = Len(audit)
    BY <1>2, AuditTypes
  <2>2. \A i \in 1..Len(audit) :
          audit'[i].preview /\ audit'[i].status \in {"approved", "authorized", "consumed"}
            => audit'[i].approved
    BY <1>2 DEF AuditChanges, AuditStale, AuditMoves, AuditReserved, AuditApproved,
                AuditConsumed, AuditIs, ApprovedFirst
  <2>3. \A i \in 1..Len(audit) : audit[i].status # "none" =>
          /\ audit'[i].status # "none"
          /\ audit'[i].preview = audit[i].preview
          /\ audit[i].approved => audit'[i].approved
    BY <1>2 DEF AuditChanges, AuditStale, AuditMoves, AuditReserved, AuditApproved,
                AuditConsumed, AuditIs
  <2>4. ASSUME NEW c \in Calls, calls'[c].pc = "authorizing"
        PROVE  /\ audit'[calls'[c].attempt].status # "none"
               /\ audit'[calls'[c].attempt].preview => audit'[calls'[c].attempt].approved
    <3>1. CASE calls'[c] = calls[c]
      BY <1>0, <2>3, <2>4, <3>1 DEF ApprovedFirst
    <3>2. CASE calls'[c] # calls[c]
      <4>1. CallChanges(c)
        BY <1>2, <2>4, <3>2 DEF CallsChange, CallChanges, IdleCall, OneCall, Moves,
                                Ends, Loads, TriesAgain, Rests
      <4>2. Moves(c, "authorizing") /\ MayMove(c, "authorizing")
        BY <2>4, <4>1 DEF CallChanges, Moves, Ends, Loads, TriesAgain, Rests
      <4>3. /\ calls'[c].attempt = calls[c].attempt /\ Admissible(calls[c].attempt)
            /\ calls[c].attempt \in 1..Len(audit)
        BY <1>0, <4>2 DEF Moves, MayMove, KeepsHandle, HandlesExist, Dispatching, Working
      <4> QED BY <4>3 DEF Admissible, ApprovedFirst
    <3> QED BY <3>1, <3>2
  <2> QED BY <2>1, <2>2, <2>4 DEF ApprovedFirst
<1> QED BY <1>1, <1>2, Steps DEF OtherChanges

-----------------------------------------------------------------------------
(* A completed review goes back to a selected attempt.                     *)

SomeSelected == \E i \in 1..Len(attempts) : attempts[i].state = "selected"

SelectedBacks ==
  /\ job.state = "succeeded" => SomeSelected
  /\ row.verdict = "succeeded" => SomeSelected
  /\ \A c \in Calls : calls[c].result = "succeeded" => SomeSelected

\* Every step keeps a completed review backed by a selected attempt, which stays
\* selected for good.
LEMMA SelectedStep ==
  ASSUME TypeOK, HandlesExist, JobShape, SelectedBacks, [Next]_vars
  PROVE  SelectedBacks'
<1>0. Len(attempts) \in Nat
  BY DEF TypeOK
<1>1. ASSUME NEW c \in Calls, ClaimChanges(c) PROVE SelectedBacks'
  <2>1. SomeSelected => SomeSelected'
    BY <1>0, <1>1 DEF ClaimChanges, Began, Rebound, AttemptIs, SomeSelected
  <2>2. /\ job'.state # "succeeded" /\ row' = row
        /\ \A d \in Calls : calls'[d].result = calls[d].result
    BY <1>1 DEF ClaimChanges, Claims, OneCall, Began, Rebound, SameJob
  <2> QED BY <2>1, <2>2 DEF SelectedBacks
<1>2. ASSUME OtherChanges PROVE SelectedBacks'
  <2>0. JobChanges /\ Len(attempts') = Len(attempts)
    BY <1>2, JobTypes DEF OtherChanges
  <2>1. SomeSelected => SomeSelected'
    BY <2>0 DEF JobChanges, Quiet, Enqueued, Abandoned, Responded, Selected, Closed,
                AttemptIs, SomeSelected
  <2>2. job'.state = "succeeded" => job.state = "succeeded" \/ SomeSelected'
    BY <2>0 DEF JobChanges, Quiet, SameJob, Enqueued, Abandoned, Responded, Selected,
                Closed, AttemptIs, SomeSelected
  <2>3. row'.verdict = "succeeded" =>
          row.verdict = "succeeded" \/ \E c \in Calls : calls[c].result = "succeeded"
    BY <1>2, Renewed DEF OtherChanges, RowChanges
  <2>4. \A c \in Calls : calls'[c].result = "succeeded" =>
          \/ calls[c].result = "succeeded"
          \/ job.state = "succeeded" \/ job'.state = "succeeded"
    BY <1>2 DEF OtherChanges, CallsChange, CallChanges, Moves, Ends, Loads, TriesAgain,
                Rests, OneCall, IdleCall
  <2> QED BY <2>1, <2>2, <2>3, <2>4 DEF SelectedBacks
<1> QED BY <1>1, <1>2, Steps

-----------------------------------------------------------------------------
(* Who may call an attempt unsent.  An invocation that claimed an attempt   *)
(* itself and has not dispatched it yet knows that nobody else did: a       *)
(* takeover of the attempt either leaves the first invocation's handle      *)
(* behind or finds the execution over.                                      *)

HolderIsOurs == row.holder # None => row.ours

EnteredFresh == \A c \in Calls : calls[c].pc = "entered" => ~calls[c].last

\* The holder between two claims of its own leaves no attempt leased.
OnlyHolderClaims ==
  \A c \in Calls :
    row.holder = c /\ BetweenClaims(c) /\ ClaimedItself(c) => job.state # "leased"

\* A handle inherits the execution bound, or it is the invocation's own.
OwnTag == \A c \in Calls : calls[c].pc = "claimed" => calls[c].exp \in {c, None}

\* Two invocations share the execution bound as expiry only when it is over.
BoundHandle ==
  \A c \in Calls :
    /\ calls[c].pc = "claimed" /\ calls[c].exp = None
    /\ job.state = "leased" /\ job.active = calls[c].attempt
    => IF row.holder = c THEN row.term = "bound"
       ELSE time = "over" /\ row.term # "bound"

FreshUnsent ==
  \A c \in Calls :
    /\ calls[c].pc = "claimed" /\ ClaimedItself(c) /\ HandleCurrent(c)
    /\ attempts[calls[c].attempt].state = "started"
    => /\ audit[calls[c].attempt].sent = 0
       /\ \A d \in Calls : d # c /\ calls[d].pc \in Dispatching =>
            calls[d].attempt # calls[c].attempt

HolderInv == HolderIsOurs /\ EnteredFresh /\ OnlyHolderClaims /\ OwnTag /\ BoundHandle

\* Without a claim, a call that holds a fresh handle has not moved.
LEMMA ClaimedKept ==
  ASSUME CallsChange, NEW c \in Calls, calls'[c].pc = "claimed"
  PROVE  calls'[c] = calls[c]
BY DEF CallsChange, CallChanges, Moves, MayMove, Ends, Loads, TriesAgain, Rests,
       OneCall, IdleCall

\* Without a claim, a job that is leased was leased to the same attempt.
LEMMA LeasedKept ==
  ASSUME JobChanges, job'.state = "leased"
  PROVE  job.state = "leased" /\ job'.active = job.active
BY DEF JobChanges, Quiet, SameJob, Enqueued, Abandoned, Responded, Selected, Closed

\* A claim is made by the holder of the lease, whose handle inherits its expiry.
LEMMA ClaimHolder ==
  ASSUME TypeOK, HandlesExist, JobShape, HolderInv, NEW c \in Calls, ClaimChanges(c)
  PROVE  HolderInv'
<1> USE DEF HolderInv
<1>1. /\ row' = row /\ time' = time /\ row.holder = c /\ calls[c].pc = "claiming"
      /\ calls'[c].pc = "claimed" /\ calls'[c].exp = LeaseTag(c)
      /\ \A d \in Calls : d # c => calls'[d] = calls[d]
  BY DEF ClaimChanges, Holds, Claims, OneCall
<1>2. HolderIsOurs' /\ EnteredFresh'
  BY <1>1 DEF HolderIsOurs, EnteredFresh
<1>3. OnlyHolderClaims'
  BY <1>1 DEF OnlyHolderClaims, BetweenClaims
<1>4. OwnTag'
  BY <1>1 DEF OwnTag, LeaseTag
<1>5. BoundHandle'
  <2>1. ASSUME NEW d \in Calls, d # c, calls'[d].pc = "claimed",
               job'.state = "leased", job'.active = calls'[d].attempt
        PROVE  job.state = "leased" /\ job.active = calls[d].attempt
    <3>1. calls[d].attempt \in 1..Len(attempts) /\ Len(attempts) \in Nat
      BY <1>1, <2>1 DEF HandlesExist, Working, Dispatching, TypeOK
    <3> QED BY <1>1, <2>1, <3>1 DEF ClaimChanges, Began, Rebound, SameJob
  <2>2. calls'[c].exp = None => row.term = "bound"
    BY <1>1, CallsAssumption DEF LeaseTag
  <2> QED BY <1>1, <2>1, <2>2 DEF BoundHandle
<1> QED BY <1>2, <1>3, <1>4, <1>5

\* Renewals, takeovers, lapses and commits keep the shared expiry to one live
\* holder.
LEMMA OtherHolder ==
  ASSUME TypeOK, HandlesExist, HolderInv, OtherChanges, RestTypes
  PROVE  HolderInv'
<1> USE DEF HolderInv, OtherChanges
<1>0. None \notin Calls
  BY CallsAssumption
<1>1. HolderIsOurs'
  BY <1>0, Renewed DEF RowChanges, HolderIsOurs
<1>2. EnteredFresh'
  BY DEF CallsChange, CallChanges, Moves, MayMove, Ends, Loads, TriesAgain, Rests,
         OneCall, IdleCall, EnteredFresh
<1>3. OnlyHolderClaims'
  <2> SUFFICES ASSUME NEW c \in Calls, row'.holder = c, BetweenClaims(c)',
                      ClaimedItself(c)', job'.state = "leased"
               PROVE  FALSE
    BY DEF OnlyHolderClaims
  <2>1. job.state = "leased"
    BY LeasedKept
  <2>2. BetweenClaims(c) /\ ClaimedItself(c)
    <3>1. CASE calls'[c] = calls[c]
      BY <3>1 DEF BetweenClaims, ClaimedItself
    <3>2. CASE calls'[c] # calls[c]
      <4>1. CallChanges(c)
        BY <3>2 DEF CallsChange, CallChanges, IdleCall, OneCall, Moves, Ends, Loads,
                    TriesAgain, Rests, BetweenClaims
      <4>2. CASE \E p \in Pcs : Moves(c, p) /\ MayMove(c, p)
        BY <4>2 DEF Moves, MayMove, KeepsHandle, BetweenClaims, ClaimedItself
      <4>3. ~(calls[c].pc = "entered" /\ Loads(c, Snapshot))
        BY <2>1 DEF Loads, Snapshot, JobOpen, ClaimedItself, EnteredFresh
      <4> QED BY <4>1, <4>2, <4>3 DEF CallChanges, Ends, TriesAgain, Rests,
                                      BetweenClaims
    <3> QED BY <3>1, <3>2
  <2>3. row.holder = c
    BY <1>0, Renewed DEF RowChanges, BetweenClaims
  <2> QED BY <2>1, <2>2, <2>3 DEF OnlyHolderClaims
<1>4. OwnTag'
  BY ClaimedKept DEF OwnTag
<1>5. BoundHandle'
  <2> SUFFICES ASSUME NEW c \in Calls, calls'[c].pc = "claimed", calls'[c].exp = None,
                      job'.state = "leased", job'.active = calls'[c].attempt
               PROVE  IF row'.holder = c THEN row'.term = "bound"
                      ELSE time' = "over" /\ row'.term # "bound"
    BY DEF BoundHandle
  <2>1. calls'[c] = calls[c] /\ job.state = "leased" /\ job'.active = job.active
    BY ClaimedKept, LeasedKept
  <2>2. IF row.holder = c THEN row.term = "bound" ELSE time = "over" /\ row.term # "bound"
    BY <2>1 DEF BoundHandle
  <2>3. time = "over" => time' = "over"
    BY DEF RestTypes
  <2>4. CASE row' = row
    BY <2>2, <2>3, <2>4
  <2>5. ASSUME NEW d \in Calls, Renewable(d), calls'[d].pc # "claimed" PROVE FALSE
    BY <2>1, <2>2, <2>5 DEF Renewable, Holds, JobOpen
  <2>6. ASSUME NEW d \in Calls, Reclaimable, row'.holder = d, row'.term = "short",
               calls'[d].pc = "entered"
        PROVE  time' = "over" /\ d # c
    <3>1. row.holder = c => row.ours
      BY <1>0 DEF HolderIsOurs
    <3>2. time = "over"
      BY <2>2, <2>6, <3>1 DEF Reclaimable, TermLive
    <3> QED BY <2>3, <2>6, <3>2
  <2>7. ASSUME NEW d \in Calls, row.holder = d, row'.holder = None, row'.term = row.term,
               calls'[d].pc # "claimed"
        PROVE  time' = "over" /\ row'.term # "bound"
    BY <2>2, <2>3, <2>7
  <2>8. CASE row.term = "short" /\ row'.term = "lapsed" /\ row'.holder = row.holder
    BY <2>2, <2>3, <2>8
  <2>9. calls' # [d \in Calls |-> IdleCall]
    BY DEF IdleCall
  <2> QED BY <1>0, <2>4, <2>5, <2>6, <2>7, <2>8, <2>9 DEF RowChanges
<1> QED BY <1>1, <1>2, <1>3, <1>4, <1>5

\* A takeover of an attempt makes the handle of its first claimer stale, so only
\* handles that nobody shares stay fresh.
LEMMA ClaimFresh ==
  ASSUME TypeOK, HandlesExist, LedgerInv, HolderInv, FreshUnsent,
         NEW c \in Calls, ClaimChanges(c)
  PROVE  FreshUnsent'
<1>0. None \notin Calls /\ Len(attempts) \in Nat /\ Len(audit) = Len(attempts)
  BY CallsAssumption DEF TypeOK
<1>1. /\ row.holder = c /\ calls[c].pc = "claiming" /\ calls'[c].pc = "claimed"
      /\ calls'[c].snap = calls[c].snap /\ calls'[c].last = calls[c].last
      /\ \A d \in Calls : d # c => calls'[d] = calls[d]
  BY DEF ClaimChanges, Holds, Claims, OneCall
<1>2. \A d \in Calls : calls[d].pc \in Dispatching =>
        calls[d].attempt \in 1..Len(attempts) /\ calls[d].pc \in Working
  BY DEF HandlesExist, Working
<1>3. CASE Began(LeaseTag(c)) /\ AuditBegan /\ Claims(c, Len(attempts) + 1, LeaseTag(c))
  <2>1. calls'[c].attempt = Len(attempts) + 1 /\ audit'[Len(attempts) + 1].sent = 0
    BY <1>0, <1>3 DEF Claims, AuditBegan
  <2>2. \A i \in 1..Len(attempts) : attempts'[i] = attempts[i] /\ audit'[i] = audit[i]
    BY <1>0, <1>3 DEF Began, AuditBegan
  <2>3. ASSUME NEW d \in Calls, d # c, calls'[d].pc = "claimed", ClaimedItself(d)',
               HandleCurrent(d)', attempts'[calls'[d].attempt].state = "started"
        PROVE  /\ calls[d].attempt \in 1..Len(attempts)
               /\ calls[d].pc = "claimed" /\ ClaimedItself(d)
               /\ HandleCurrent(d) /\ attempts[calls[d].attempt].state = "started"
    BY <1>1, <1>2, <2>2, <2>3 DEF ClaimedItself, HandleCurrent, Dispatching
  <2>4. \A d \in Calls : d # c /\ calls'[d].pc \in Dispatching =>
          calls'[d].attempt \in 1..Len(attempts)
    BY <1>1, <1>2
  <2>5. /\ calls[c].pc \notin Dispatching
        /\ \A d \in Calls : calls[d].attempt \in 1..Len(attempts) =>
             calls[d].attempt # Len(attempts) + 1
    BY <1>0, <1>1 DEF Dispatching
  <2> QED BY <1>0, <1>1, <2>1, <2>2, <2>3, <2>4, <2>5 DEF FreshUnsent
<1>4. CASE Rebound(LeaseTag(c)) /\ audit' = audit /\ Claims(c, job.active, LeaseTag(c))
  <2>1. ~ClaimedItself(c)
    BY <1>1, <1>4 DEF HolderInv, OnlyHolderClaims, BetweenClaims, Rebound
  <2>2. ~ClaimedItself(c)'
    BY <1>1, <2>1 DEF ClaimedItself
  <2> DEFINE k == job.active
  <2>3. /\ job.state = "leased" /\ k \in 1..Len(attempts)
        /\ Len(attempts') = Len(attempts) /\ attempts'[k].exp = LeaseTag(c)
        /\ attempts'[k].state = attempts[k].state
        /\ \A j \in 1..Len(attempts) : j # k => attempts'[j] = attempts[j]
    BY <1>0, <1>4 DEF Rebound, AttemptIs, LedgerInv, JobShape
  <2> HIDE DEF k
  <2>4. ASSUME NEW d \in Calls, d # c, calls'[d].pc = "claimed", ClaimedItself(d)',
               HandleCurrent(d)', attempts'[calls'[d].attempt].state = "started"
        PROVE  /\ calls[d].attempt # k
               /\ calls[d].pc = "claimed" /\ ClaimedItself(d)
               /\ HandleCurrent(d) /\ attempts[calls[d].attempt].state = "started"
    <3>1. calls'[d] = calls[d] /\ calls[d].pc = "claimed" /\ ClaimedItself(d)
      BY <1>1, <2>4 DEF ClaimedItself
    <3>2. calls[d].attempt \in 1..Len(attempts)
      BY <1>2, <3>1 DEF Dispatching
    <3>3. calls[d].attempt # k
      <4> SUFFICES ASSUME calls[d].attempt = k PROVE FALSE
        OBVIOUS
      <4>1. calls[d].exp = LeaseTag(c) /\ calls[d].exp \in {d, None}
        BY <2>3, <2>4, <3>1 DEF HandleCurrent, HolderInv, OwnTag
      <4>2. calls[d].exp = None /\ row.term = "bound"
        BY <1>0, <2>4, <4>1 DEF LeaseTag
      <4>3. row.term # "bound"
        BY <1>1, <2>3, <2>4, <3>1, <4>2 DEF HolderInv, BoundHandle, k
      <4> QED BY <4>2, <4>3
    <3>4. attempts'[calls[d].attempt] = attempts[calls[d].attempt]
      BY <2>3, <3>2, <3>3
    <3> QED BY <2>4, <3>1, <3>2, <3>3, <3>4 DEF HandleCurrent
  <2>5. calls'[c].attempt = k
    BY <1>4 DEF Claims, k
  <2> QED BY <1>1, <1>4, <2>2, <2>4, <2>5 DEF FreshUnsent
<1> QED BY <1>3, <1>4 DEF ClaimChanges

\* A request is sent by an invocation that dispatches its attempt.
LEMMA SentBy ==
  ASSUME TypeOK, AuditChanges, NEW i \in 1..Len(audit), audit'[i].sent # audit[i].sent
  PROVE  \E c \in Calls : calls[c].pc = "sending" /\ calls[c].attempt = i
BY DEF AuditChanges, AuditStale, AuditMoves, AuditReserved, AuditApproved,
       AuditConsumed, AuditIs

\* Without a claim, who dispatches an attempt did so before.
LEMMA DispatchKept ==
  ASSUME CallsChange, NEW c \in Calls, calls'[c].pc \in Dispatching
  PROVE  calls[c].pc \in Dispatching /\ calls'[c].attempt = calls[c].attempt
BY DEF CallsChange, CallChanges, Moves, MayMove, KeepsHandle, Ends, Loads, TriesAgain,
       Rests, OneCall, IdleCall, Dispatching

\* Without a claim nobody else starts to dispatch a fresh attempt.
LEMMA OtherFresh ==
  ASSUME TypeOK, HandlesExist, FreshUnsent, OtherChanges
  PROVE  FreshUnsent'
<1> USE DEF OtherChanges
<1>0. Len(attempts') = Len(attempts) /\ Len(audit) = Len(attempts)
  BY JobTypes DEF TypeOK
<1>1. \A i \in 1..Len(attempts) :
        /\ attempts'[i].exp = attempts[i].exp
        /\ attempts'[i].state = "started" => attempts[i].state = "started"
  BY DEF JobChanges, Quiet, Enqueued, Abandoned, Responded, Selected, Closed, AttemptIs
<1> SUFFICES ASSUME NEW c \in Calls, calls'[c].pc = "claimed", ClaimedItself(c)',
                    HandleCurrent(c)', attempts'[calls'[c].attempt].state = "started"
             PROVE  /\ audit'[calls'[c].attempt].sent = 0
                    /\ \A d \in Calls : d # c /\ calls'[d].pc \in Dispatching =>
                         calls'[d].attempt # calls'[c].attempt
  BY DEF FreshUnsent
<1>2. calls'[c] = calls[c] /\ calls[c].attempt \in 1..Len(attempts)
  BY <1>0, ClaimedKept DEF HandleCurrent
<1>3. ClaimedItself(c) /\ HandleCurrent(c) /\ attempts[calls[c].attempt].state = "started"
  BY <1>0, <1>1, <1>2 DEF ClaimedItself, HandleCurrent
<1>4. /\ audit[calls[c].attempt].sent = 0
      /\ \A d \in Calls : d # c /\ calls[d].pc \in Dispatching =>
           calls[d].attempt # calls[c].attempt
  BY <1>2, <1>3 DEF FreshUnsent
<1>5. audit'[calls[c].attempt].sent = audit[calls[c].attempt].sent
  BY <1>0, <1>2, <1>4, SentBy DEF Dispatching
<1> QED BY <1>2, <1>4, <1>5, DispatchKept

-----------------------------------------------------------------------------
(* What the provider call of an attempt reported, and what the rows say.     *)

Listening == {"sampling", "returned", "recording"}

\* The audit row of an attempt remembers what its provider call reported; the
\* one invocation that waits for the answer is the one that sent the request.
TellInv ==
  /\ \A i \in 1..Len(audit) : audit[i].told # "none" => audit[i].status = "consumed"
  /\ \A c \in Calls : calls[c].pc = "sampling" =>
       /\ audit[calls[c].attempt].status = "consumed"
       /\ audit[calls[c].attempt].told = "none"
       /\ \A d \in Calls : calls[d].pc = "sampling" /\ calls[d].attempt = calls[c].attempt
            => d = c
  /\ \A c \in Calls : calls[c].pc \in {"returned", "recording"} /\ calls[c].got \in Reports =>
       audit[calls[c].attempt].told = calls[c].got

\* Call c goes on with its handle, or hears what it did not know.
Hears(c) ==
  \/ Send(c)
  \/ ProviderAnswers(c)
  \/ calls'[c].pc \notin Listening
  \/ calls'[c].pc = "returned" /\ calls'[c].got \notin Reports
  \/ /\ calls[c].pc = "returned" /\ calls'[c].pc = "recording"
     /\ calls'[c].got = calls[c].got /\ calls'[c].attempt = calls[c].attempt

\* Only the provider call of an attempt tells what it reported.
LEMMA HearSteps ==
  ASSUME TypeOK, HandlesExist, JobShape, NEW c \in Calls,
         Replay(c) \/ CallStep(c) \/ Cancel(c)
  PROVE  Hears(c)
<1>0. calls[c] \in Call /\ calls \in [Calls -> Call]
  BY DEF TypeOK
<1>1. ASSUME NEW p \in Pcs \ Listening, Goto(c, p) PROVE Hears(c)
  BY <1>0, <1>1 DEF Goto, SetCall, Hears, Call
<1>2. ASSUME NEW got \in {"blocked", "awaiting", "unknown"}, Return(c, got)
      PROVE  Hears(c)
  BY <1>0, <1>2 DEF Return, SetCall, Hears, Call, Reports, Retriable
<1>3. ASSUME Ends(c, "failed") \/ Ends(c, "succeeded") PROVE Hears(c)
  BY <1>3 DEF Ends, Hears, Listening
<1>4. CASE Prepare(c) \/ AskHuman(c) \/ Recover(c) \/ Authorize(c) \/ SendRefused(c)
           \/ EnterDispatch(c) \/ RecordResponse(c) \/ Resolve(c)
  <2>1. \/ \E p \in Pcs \ Listening : Goto(c, p)
        \/ \E got \in {"blocked", "awaiting", "unknown"} : Return(c, got)
    BY <1>4 DEF Prepare, Reserve, AskHuman, Recover, Authorize, SendRefused,
                EnterDispatch, RecordResponse, Resolve, Pcs, Listening
  <2> QED BY <1>1, <1>2, <2>1
<1>5. CASE RenewReturned(c)
  <2>1. CASE Raise(c)
    BY <1>3, <2>1, CallForms
  <2>2. CASE ~Raise(c)
    BY <1>0, <1>5, <2>2 DEF RenewReturned, SetCall, Hears, Call
  <2> QED BY <2>1, <2>2
<1>6. CASE \/ EnqueueRefused(c) \/ LoopHeadRaises(c) \/ RecordRefused(c)
           \/ SelectRefused(c) \/ ClaimedTooLate(c) \/ DispatchRaises(c)
           \/ RecordFailure(c) \/ FailJob(c) \/ ClaimRaises(c)
           \/ RecoverResponse(c) \/ Select(c)
  <2>1. \/ Raise(c) \/ Finish(c, "failed") \/ Finish(c, "succeeded")
        \/ FailJob(c) \/ ClaimRaises(c) \/ RecoverResponse(c)
    BY <1>6 DEF EnqueueRefused, LoopHeadRaises, RecordRefused, SelectRefused,
                ClaimedTooLate, DispatchRaises, RecordFailure, Select
  <2> QED BY <1>3, <2>1, CallForms, OwnForms
<1>7. CASE RenewEntry(c) \/ RenewEntryRefused(c) \/ LoopHead(c) \/ ClaimRefused(c)
  <2>1. \/ Raise(c) \/ Moves(c, "looping") \/ Moves(c, "claiming")
        \/ \E x \in {"succeeded", "failed"} : Ends(c, x)
    BY <1>7, OwnForms DEF RecoveredResult
  <2> QED BY <1>3, <2>1, CallForms DEF Moves, Hears, Listening
<1>8. CASE \/ Enqueue(c) \/ LoadJob(c) \/ ClaimNew(c) \/ ClaimRebind(c)
           \/ RecordRetry(c) \/ Replay(c)
  <2>1. calls'[c].pc \in {"loaded", "claimed", "resolving", "entered"}
    BY <1>8, OwnForms DEF Loads, Claims, TriesAgain, Rests
  <2> QED BY <2>1 DEF Hears, Listening
<1>9. CASE RecordWait(c) \/ Conclude(c) \/ Cancel(c)
  <2>1. Rests(c, "idle")
    BY <1>9, CallForms DEF RecordWait, Conclude, Cancel
  <2> QED BY <2>1 DEF Rests, Hears, Listening
<1>10. CASE Send(c) \/ ProviderAnswers(c)
  BY <1>10 DEF Hears
<1> QED BY <1>4, <1>5, <1>6, <1>7, <1>8, <1>9, <1>10 DEF CallStep

\* A step changes one call, as HearSteps says, or makes them all idle.
LEMMA OneHears ==
  ASSUME TypeOK, HandlesExist, JobShape, [Next]_vars
  PROVE  \/ calls' = calls
         \/ calls' = [d \in Calls |-> IdleCall]
         \/ \E c \in Calls : /\ Replay(c) \/ CallStep(c) \/ Cancel(c)
                             /\ Hears(c)
                             /\ \A d \in Calls : d # c => calls'[d] = calls[d]
<1>1. ASSUME NEW c \in Calls, Replay(c) \/ CallStep(c) \/ Cancel(c)
      PROVE  Hears(c) /\ \A d \in Calls : d # c => calls'[d] = calls[d]
  <2>1. CASE ClaimNew(c) \/ ClaimRebind(c)
    BY <1>1, <2>1, HearSteps, ClaimSteps DEF ClaimChanges, Claims, OneCall
  <2>2. CASE UnclaimedStep(c)
    BY <1>1, <2>2, HearSteps, CallSteps
       DEF CallChanges, Moves, Ends, Loads, TriesAgain, Rests, OneCall
  <2> QED BY <1>1, <2>1, <2>2 DEF UnclaimedStep
<1>2. CASE \E c \in Calls : Replay(c) \/ CallStep(c) \/ Cancel(c)
  BY <1>1, <1>2
<1>3. CASE Restart
  BY <1>3 DEF Restart
<1>4. CASE \/ \E i \in 1..Len(audit) : Decide(i) \/ ProposalExpires(i)
           \/ Tick \/ LapseIdle \/ LapseInUse \/ JobLapse \/ UNCHANGED vars
  BY <1>4 DEF Decide, ProposalExpires, Tick, LapseIdle, LapseInUse, JobLapse, vars
<1> QED BY <1>2, <1>3, <1>4 DEF Next

\* What an audit row tells changes with the answer of the provider call only.
LEMMA ToldSteps ==
  ASSUME TypeOK, HandlesExist, JobShape, [Next]_vars, NEW i \in 1..Len(audit)
  PROVE  \/ audit'[i].told = audit[i].told
         \/ \E c \in Calls : ProviderAnswers(c) /\ calls[c].attempt = i
<1>0. audit \in Seq(AuditRow) /\ audit[i] \in AuditRow
  BY DEF TypeOK
<1>1. ASSUME NEW j, NEW x, audit' = [audit EXCEPT ![j].status = x]
      PROVE  audit'[i].told = audit[i].told
  BY <1>0, <1>1 DEF AuditRow
<1>2. CASE audit' = audit
  BY <1>2
<1>3. ASSUME NEW c \in Calls, CallStep(c), audit' # audit,
             audit'[i].told # audit[i].told
      PROVE  ProviderAnswers(c) /\ calls[c].attempt = i
  <2>1. CASE ClaimNew(c)
    BY <1>0, <1>3, <2>1, ClaimSteps DEF ClaimChanges, AuditBegan
  <2>2. CASE Prepare(c)
    <3>1. PICK preview \in Previews :
            audit' = [audit EXCEPT ![calls[c].attempt].status = "reserved",
                                   ![calls[c].attempt].preview = preview]
      BY <1>3, <2>2 DEF Prepare, Reserve
    <3> DEFINE k == calls[c].attempt
               r == [audit[k] EXCEPT !.status = "reserved", !.preview = preview]
    <3>2. k \in 1..Len(audit) /\ audit[k] \in AuditRow
      BY <1>0, <2>2 DEF Prepare, HandlesExist, Working, Dispatching, TypeOK
    <3>3. audit' = [audit EXCEPT ![k] = r]
      BY <1>0, <3>1, <3>2
    <3>4. r.told = audit[k].told
      BY <3>2 DEF AuditRow
    <3> HIDE DEF r
    <3> QED BY <1>0, <1>3, <3>2, <3>3, <3>4
  <2>3. CASE AskHuman(c) \/ Authorize(c) \/ SendRefused(c)
    BY <1>1, <1>3, <2>3 DEF AskHuman, Authorize, SendRefused, SetAudit
  <2>4. CASE Send(c)
    <3> DEFINE k == calls[c].attempt
               r == [audit[k] EXCEPT !.status = "consumed", !.sent = audit[k].sent + 1]
    <3>1. k \in 1..Len(audit) /\ audit[k] \in AuditRow
      BY <1>0, <2>4 DEF Send, HandlesExist, Working, Dispatching, TypeOK
    <3>2. audit' = [audit EXCEPT ![k] = r]
      BY <1>0, <2>4, <3>1 DEF Send, Consume
    <3>3. r.told = audit[k].told
      BY <3>1 DEF AuditRow
    <3> HIDE DEF r
    <3> QED BY <1>0, <1>3, <3>1, <3>2, <3>3
  <2>5. CASE ProviderAnswers(c)
    <3>1. PICK got \in Answers : audit' = [audit EXCEPT ![calls[c].attempt].told = got]
      BY <2>5 DEF ProviderAnswers
    <3>2. calls[c].attempt # i => audit'[i] = audit[i]
      BY <1>0, <3>1
    <3> QED BY <1>3, <2>5, <3>2
  <2>6. \/ ClaimNew(c) \/ Prepare(c) \/ AskHuman(c) \/ Authorize(c) \/ SendRefused(c)
        \/ Send(c) \/ ProviderAnswers(c)
    BY <1>3 DEF CallStep, Enqueue, EnqueueRefused, LoadJob, RenewEntry,
         RenewEntryRefused, LoopHead, LoopHeadRaises, FailJob, ClaimRebind,
         ClaimRefused, RecoverResponse, ClaimedTooLate, EnterDispatch, Recover,
         ClaimRaises, DispatchRaises, RenewReturned, RecordRefused, RecordResponse,
         RecordWait, RecordRetry, RecordFailure, Select, SelectRefused, Resolve,
         Conclude
  <2> QED BY <2>1, <2>2, <2>3, <2>4, <2>5, <2>6
<1>4. ASSUME NEW j \in 1..Len(audit), Decide(j) \/ ProposalExpires(j)
      PROVE  audit'[i].told = audit[i].told
  BY <1>0, <1>1, <1>4 DEF Decide, ProposalExpires, AuditRow
<1>5. CASE Restart
  BY <1>0, <1>5 DEF Restart, AuditRow
<1>6. CASE \/ \E c \in Calls : Replay(c) \/ Cancel(c)
           \/ Tick \/ LapseIdle \/ LapseInUse \/ JobLapse \/ UNCHANGED vars
  BY <1>6 DEF Replay, Cancel, Tick, LapseIdle, LapseInUse, JobLapse, vars
<1> QED BY <1>2, <1>3, <1>4, <1>5, <1>6 DEF Next

\* A consumed request stays consumed.
LEMMA ConsumedStays ==
  ASSUME TypeOK, HandlesExist, JobShape, [Next]_vars, NEW i \in 1..Len(audit)
  PROVE  audit[i].status = "consumed" => audit'[i].status = "consumed"
<1>1. ASSUME NEW c \in Calls, ClaimChanges(c) PROVE audit'[i] = audit[i]
  BY <1>1 DEF ClaimChanges, AuditBegan
<1>2. ASSUME AuditChanges, audit[i].status = "consumed"
      PROVE  audit'[i].status = "consumed"
  BY <1>2 DEF AuditChanges, AuditStale, AuditMoves, AuditReserved, AuditApproved,
              AuditConsumed, AuditIs
<1> QED BY <1>1, <1>2, Steps DEF OtherChanges

\* Every step keeps what the audit rows tell true of the calls.
LEMMA TellStep ==
  ASSUME TypeOK, HandlesExist, JobShape, TellInv, [Next]_vars
  PROVE  TellInv'
<1>0. /\ Len(audit) \in Nat /\ Len(audit) = Len(attempts)
      /\ calls \in [Calls -> Call] /\ audit \in Seq(AuditRow)
      /\ \A c \in Calls : calls[c].pc \in Listening => calls[c].attempt \in 1..Len(audit)
  BY DEF TypeOK, HandlesExist, Listening, Working, Dispatching
<1>1. /\ Len(audit') >= Len(audit) /\ Len(audit') \in Nat
      /\ \A i \in 1..Len(audit') : i \notin 1..Len(audit) => audit'[i].told = "none"
  <2>1. ASSUME NEW c \in Calls, ClaimChanges(c)
        PROVE  /\ Len(audit') >= Len(audit) /\ Len(audit') \in Nat
               /\ \A i \in 1..Len(audit') : i \notin 1..Len(audit) => audit'[i].told = "none"
    BY <1>0, <2>1 DEF ClaimChanges, AuditBegan
  <2>2. ASSUME AuditChanges PROVE Len(audit') = Len(audit)
    BY <2>2, AuditTypes
  <2> QED BY <1>0, <2>1, <2>2, Steps DEF OtherChanges
<1>2. ASSUME NEW c \in Calls, ProviderAnswers(c)
      PROVE  /\ calls[c].pc = "sampling" /\ calls[c].attempt \in 1..Len(audit)
             /\ calls'[c].pc = "returned" /\ calls'[c].attempt = calls[c].attempt
             /\ audit'[calls[c].attempt].told = calls'[c].got
             /\ audit'[calls[c].attempt].status = audit[calls[c].attempt].status
             /\ \A i \in 1..Len(audit) : i # calls[c].attempt => audit'[i] = audit[i]
             /\ \A d \in Calls : d # c => calls'[d] = calls[d]
  <2>1. PICK got \in Answers :
          /\ audit' = [audit EXCEPT ![calls[c].attempt].told = got]
          /\ calls' = [calls EXCEPT ![c] = [calls[c] EXCEPT !.pc = "returned", !.got = got]]
    BY <1>2 DEF ProviderAnswers, Return, SetCall
  <2>2. calls[c].pc = "sampling" /\ calls[c].attempt \in 1..Len(audit)
    BY <1>0, <1>2 DEF ProviderAnswers, Listening
  <2>3. /\ calls'[c].pc = "returned" /\ calls'[c].attempt = calls[c].attempt
        /\ calls'[c].got = got
        /\ \A d \in Calls : d # c => calls'[d] = calls[d]
    BY <1>0, <2>1 DEF Call
  <2>4. /\ audit'[calls[c].attempt].told = got
        /\ audit'[calls[c].attempt].status = audit[calls[c].attempt].status
        /\ \A i \in 1..Len(audit) : i # calls[c].attempt => audit'[i] = audit[i]
    BY <1>0, <2>1, <2>2 DEF AuditRow
  <2> QED BY <2>2, <2>3, <2>4
<1>3. ASSUME NEW c \in Calls, Send(c)
      PROVE  /\ calls[c].pc = "sending" /\ calls[c].attempt \in 1..Len(audit)
             /\ audit[calls[c].attempt].status = "authorized"
             /\ audit'[calls[c].attempt].status = "consumed"
             /\ calls'[c].pc = "sampling" /\ calls'[c].attempt = calls[c].attempt
  <2>1. /\ calls[c].pc = "sending" /\ calls[c].attempt \in 1..Len(audit)
        /\ audit[calls[c].attempt].status = "authorized"
    BY <1>0, <1>3 DEF Send, Consume, AuditOf, HandlesExist, Working, Dispatching
  <2>2. audit'[calls[c].attempt].status = "consumed"
    BY <1>0, <1>3, <2>1 DEF Send, Consume, AuditRow
  <2>3. calls'[c].pc = "sampling" /\ calls'[c].attempt = calls[c].attempt
    BY <1>0, <1>3 DEF Send, Goto, SetCall, Call
  <2> QED BY <2>1, <2>2, <2>3
<1>4. \A i \in 1..Len(audit') : audit'[i].told # "none" => audit'[i].status = "consumed"
  <2> SUFFICES ASSUME NEW i \in 1..Len(audit'), audit'[i].told # "none"
               PROVE  audit'[i].status = "consumed"
    OBVIOUS
  <2>1. i \in 1..Len(audit)
    BY <1>1
  <2>2. CASE audit'[i].told = audit[i].told
    BY <2>1, <2>2, ConsumedStays DEF TellInv
  <2>3. ASSUME NEW c \in Calls, ProviderAnswers(c), calls[c].attempt = i
        PROVE  audit'[i].status = "consumed"
    BY <1>2, <2>3 DEF TellInv
  <2> QED BY <2>1, <2>2, <2>3, ToldSteps
<1>5. ASSUME NEW c \in Calls, calls'[c] = calls[c], calls[c].pc \in Listening,
             ~\E d \in Calls : d # c /\ ProviderAnswers(d)
                               /\ calls[d].attempt = calls[c].attempt
      PROVE  /\ audit[calls[c].attempt].status = "consumed" =>
                  audit'[calls[c].attempt].status = "consumed"
             /\ audit'[calls[c].attempt].told = audit[calls[c].attempt].told
  <2>1. calls[c].attempt \in 1..Len(audit)
    BY <1>0, <1>5
  <2>2. ~ProviderAnswers(c)
    BY <1>2, <1>5
  <2> QED BY <1>5, <2>1, <2>2, ToldSteps, ConsumedStays
<1>6. \A c \in Calls : calls'[c].pc = "sampling" =>
        \/ calls'[c] = calls[c]
        \/ Send(c) /\ \A d \in Calls : d # c => calls'[d] = calls[d]
  BY <1>2, OneHears DEF Hears, Listening, IdleCall
<1>7. ASSUME NEW c \in Calls, calls'[c].pc = "sampling"
      PROVE  /\ audit'[calls'[c].attempt].status = "consumed"
             /\ audit'[calls'[c].attempt].told = "none"
             /\ \A d \in Calls : calls'[d].pc = "sampling"
                  /\ calls'[d].attempt = calls'[c].attempt => d = c
  <2>1. CASE calls'[c] = calls[c]
    <3>1. calls[c].pc = "sampling" /\ calls[c].attempt \in 1..Len(audit)
      BY <1>0, <1>7, <2>1 DEF Listening
    <3>2. ~\E d \in Calls : d # c /\ ProviderAnswers(d)
                            /\ calls[d].attempt = calls[c].attempt
      BY <1>2, <3>1 DEF TellInv
    <3>3. /\ audit'[calls[c].attempt].status = "consumed"
          /\ audit'[calls[c].attempt].told = "none"
      BY <1>5, <2>1, <3>1, <3>2 DEF TellInv, Listening
    <3>4. ASSUME NEW d \in Calls, calls'[d].pc = "sampling",
                 calls'[d].attempt = calls'[c].attempt
          PROVE  d = c
      BY <1>3, <1>6, <2>1, <3>1, <3>4 DEF TellInv
    <3> QED BY <2>1, <3>3, <3>4
  <2>2. CASE Send(c) /\ \A d \in Calls : d # c => calls'[d] = calls[d]
    <3> DEFINE i == calls[c].attempt
    <3>1. /\ i \in 1..Len(audit) /\ audit[i].status = "authorized"
          /\ audit'[i].status = "consumed" /\ calls'[c].attempt = i
          /\ calls[c].pc = "sending"
      BY <1>3, <2>2
    <3>2. audit[i].told = "none"
      BY <3>1 DEF TellInv
    <3>3. ASSUME NEW d \in Calls, ProviderAnswers(d), calls[d].attempt = i
          PROVE  FALSE
      BY <1>2, <3>1, <3>3 DEF TellInv
    <3>4. audit'[i].told = "none"
      BY <3>1, <3>2, <3>3, ToldSteps
    <3>5. ASSUME NEW d \in Calls, calls'[d].pc = "sampling", calls'[d].attempt = i, d # c
          PROVE  FALSE
      BY <2>2, <3>1, <3>5 DEF TellInv
    <3> QED BY <3>1, <3>4, <3>5
  <2> QED BY <1>6, <1>7, <2>1, <2>2
<1>8. ASSUME NEW c \in Calls, calls'[c].pc \in {"returned", "recording"},
             calls'[c].got \in Reports
      PROVE  audit'[calls'[c].attempt].told = calls'[c].got
  <2>1. "none" \notin Reports
    BY DEF Reports, Retriable
  <2>2. \/ calls'[c] = calls[c]
        \/ ProviderAnswers(c)
        \/ /\ calls[c].pc = "returned" /\ calls'[c].got = calls[c].got
           /\ calls'[c].attempt = calls[c].attempt
           /\ \A d \in Calls : d # c => calls'[d] = calls[d]
    BY <1>3, <1>8, OneHears DEF Hears, Listening, IdleCall
  <2>3. CASE ProviderAnswers(c)
    BY <1>2, <2>3
  <2>4. CASE /\ calls[c].pc \in {"returned", "recording"}
             /\ calls'[c].got = calls[c].got /\ calls'[c].attempt = calls[c].attempt
             /\ ~ProviderAnswers(c)
    <3>1. /\ calls[c].attempt \in 1..Len(audit)
          /\ audit[calls[c].attempt].told = calls[c].got
      BY <1>0, <1>8, <2>4 DEF TellInv, Listening
    <3>2. ASSUME NEW d \in Calls, ProviderAnswers(d),
                 calls[d].attempt = calls[c].attempt
          PROVE  FALSE
      BY <1>2, <1>8, <2>1, <2>4, <3>1, <3>2 DEF TellInv
    <3> QED BY <2>4, <3>1, <3>2, ToldSteps
  <2> QED BY <1>8, <2>2, <2>3, <2>4
<1> QED BY <1>4, <1>7, <1>8 DEF TellInv

-----------------------------------------------------------------------------
(* provider_timeout hides no lost answer.                                   *)

\* The attempt's code is what its provider call reported.
Reported(i) ==
  audit[i].status = "consumed" /\ audit[i].told = attempts[i].code

\* The attempt was given up before anything was sent, and nobody dispatches it.
Unsent(i) ==
  /\ attempts[i].state = "failed" /\ audit[i].sent = 0
  /\ \A c \in Calls : calls[c].pc \in Dispatching => calls[c].attempt # i

CodeBacked ==
  \A i \in 1..Len(attempts) :
    attempts[i].code \in Reports => Reported(i) \/ Unsent(i)

JobBacked ==
  job.state = "failed" /\ job.reason = "provider_timeout" =>
    \A i \in 1..Len(attempts) : attempts[i].code \in Reports

\* A job fails with provider_timeout only while queued, or with the attempt it
\* was leased to; the attempts before that one were all retried.
LEMMA JobBackedStep ==
  ASSUME TypeOK, HandlesExist, LedgerInv, JobBacked, [Next]_vars
  PROVE  JobBacked'
<1> SUFFICES ASSUME job'.state = "failed", job'.reason = "provider_timeout"
             PROVE  \A i \in 1..Len(attempts') : attempts'[i].code \in Reports
  BY DEF JobBacked
<1>0. JobShape /\ Len(attempts) \in Nat
  BY DEF LedgerInv, TypeOK
<1>1. JobChanges
  BY <1>0, Steps DEF ClaimChanges, Began, Rebound, SameJob, LedgerInv, JobShape, OtherChanges
<1>2. CASE Quiet
  BY <1>2 DEF Quiet, SameJob, JobBacked
<1>3. CASE Abandoned
  BY <1>3 DEF Abandoned, LedgerInv, OpenIsLast, ExpiredMayRetry, JobOpen
<1>4. ASSUME NEW i \in 1..Len(attempts), Closed(i, "failed", "provider_timeout")
      PROVE  \A j \in 1..Len(attempts') : attempts'[j].code \in Reports
  <2>1. job.state = "leased" /\ job.active = i
    BY <1>4 DEF Closed, LedgerInv, OneOpenAttempt, Open
  <2>2. \A j \in 1..Len(attempts) : j # i => attempts[j].code \in Reports
    BY <2>1 DEF LedgerInv, OpenIsLast, ExpiredMayRetry, JobOpen
  <2>3. "provider_timeout" \in Reports
    BY DEF Reports, Retriable
  <2> QED BY <1>4, <2>2, <2>3 DEF Closed, AttemptIs
<1>5. ASSUME NEW i \in 1..Len(attempts), Responded(i) PROVE FALSE
  <2>1. job.state = "leased" /\ job' = job
    BY <1>5 DEF Responded, LedgerInv, OneOpenAttempt, Open
  <2> QED BY <2>1
<1>6. ASSUME NEW i \in 1..Len(attempts), NEW code \in Codes, Closed(i, "failed", code)
      PROVE  code = "provider_timeout"
  BY <1>6 DEF Closed
<1> QED BY <1>1, <1>2, <1>3, <1>4, <1>5, <1>6 DEF JobChanges, Enqueued, Selected, Closed

\* An attempt gets a code that may be retried from the call that heard it, or
\* from the invocation that knows its attempt unsent; then nothing is sent.
LEMMA CodeBackedStep ==
  ASSUME TypeOK, HandlesExist, LedgerInv, FreshUnsent, TellInv, CodeBacked,
         [Next]_vars
  PROVE  CodeBacked'
<1>0. /\ Len(attempts) \in Nat /\ Len(audit) = Len(attempts) /\ JobShape
      /\ "none" \notin Reports
  BY DEF TypeOK, LedgerInv, Reports, Retriable
<1>1. ASSUME NEW i \in 1..Len(attempts), attempts'[i].code = attempts[i].code,
             attempts[i].code \in Reports, Reported(i)
      PROVE  Reported(i)'
  <2>1. audit[i].told \in Reports /\ audit[i].status = "consumed" /\ i \in 1..Len(audit)
    BY <1>0, <1>1 DEF Reported
  <2>2. ASSUME NEW c \in Calls, ProviderAnswers(c), calls[c].attempt = i PROVE FALSE
    BY <1>0, <2>1, <2>2 DEF ProviderAnswers, TellInv
  <2>3. audit'[i].told = audit[i].told /\ audit'[i].status = "consumed"
    BY <1>0, <2>1, <2>2, ToldSteps, ConsumedStays
  <2> QED BY <1>1, <2>3 DEF Reported
<1>2. ASSUME NEW c \in Calls, ClaimChanges(c) PROVE CodeBacked'
  <2>1. /\ \A i \in 1..Len(attempts) :
             attempts'[i].code = attempts[i].code /\ attempts'[i].state = attempts[i].state
        /\ \A i \in 1..Len(attempts') : i \notin 1..Len(attempts) =>
             attempts'[i].code = "none"
    BY <1>0, <1>2 DEF ClaimChanges, Began, Rebound, AttemptIs, LedgerInv, JobShape
  <2>2. \A i \in 1..Len(attempts) : audit'[i] = audit[i]
    BY <1>0, <1>2 DEF ClaimChanges, AuditBegan
  <2>3. calls'[c].attempt \in 1..Len(attempts) => Open(calls'[c].attempt)
    BY <1>0, <1>2 DEF ClaimChanges, Claims, Rebound, LedgerInv, JobShape, OneOpenAttempt
  <2>4. \A d \in Calls : d # c => calls'[d] = calls[d]
    BY <1>2 DEF ClaimChanges, Claims, OneCall
  <2>5. ASSUME NEW i \in 1..Len(attempts), Unsent(i) PROVE Unsent(i)'
    BY <2>1, <2>2, <2>3, <2>4, <2>5 DEF Unsent, Open
  <2> QED BY <1>0, <1>1, <2>1, <2>5 DEF CodeBacked
<1>3. CASE OtherChanges
  <2>0. Len(attempts') = Len(attempts) /\ CallsChange /\ AuditChanges /\ JobChanges
    BY <1>3, JobTypes DEF OtherChanges
  <2>1. ASSUME NEW i \in 1..Len(attempts), Unsent(i), attempts'[i].state = "failed"
        PROVE  Unsent(i)'
    <3>1. audit'[i].sent = 0
      BY <1>0, <2>0, <2>1, SentBy DEF Unsent, Dispatching
    <3>2. \A c \in Calls : calls'[c].pc \in Dispatching => calls'[c].attempt # i
      BY <2>0, <2>1, DispatchKept DEF Unsent
    <3> QED BY <2>1, <3>1, <3>2 DEF Unsent
  <2>2. ASSUME NEW i \in 1..Len(attempts), NEW code \in Reports, Heard(i, code),
               attempts'[i].code = code
        PROVE  Reported(i)'
    <3>1. PICK c \in Calls : /\ calls[c].pc = "recording" /\ calls[c].got = code
                             /\ calls[c].attempt = i
      BY <2>2 DEF Heard
    <3>2. audit[i].told = code /\ audit[i].status = "consumed" /\ audit' = audit
      BY <1>0, <2>2, <3>1 DEF TellInv, Heard
    <3> QED BY <2>2, <3>2 DEF Reported
  <2>3. ASSUME NEW i \in 1..Len(attempts), TooLate(i), attempts[i].state = "started",
               attempts'[i].state = "failed"
        PROVE  Unsent(i)'
    <3>1. PICK c \in Calls : /\ calls[c].pc = "claimed" /\ ClaimedItself(c)
                             /\ HandleCurrent(c) /\ calls[c].attempt = i
                             /\ Ends(c, "failed")
      BY <2>3 DEF TooLate
    <3>2. /\ audit[i].sent = 0 /\ audit' = audit
          /\ \A d \in Calls : d # c /\ calls[d].pc \in Dispatching => calls[d].attempt # i
      BY <2>3, <3>1 DEF FreshUnsent, TooLate
    <3>3. calls'[c].pc \notin Dispatching
      BY <3>1 DEF Ends, Dispatching
    <3>4. \A d \in Calls : calls'[d].pc \in Dispatching => calls'[d].attempt # i
      BY <2>0, <3>2, <3>3, DispatchKept
    <3> QED BY <2>3, <3>2, <3>4 DEF Unsent
  <2>4. ASSUME NEW i \in 1..Len(attempts)
        PROVE  \/ /\ attempts'[i].code = attempts[i].code
                  /\ attempts[i].state = "failed" => attempts'[i].state = "failed"
               \/ attempts'[i].code \notin Reports
               \/ Heard(i, attempts'[i].code)
               \/ TooLate(i) /\ attempts[i].state = "started" /\ attempts'[i].state = "failed"
    <3>1. CASE attempts' = attempts
      BY <3>1
    <3>2. ASSUME NEW j \in 1..Len(attempts), Responded(j) \/ Selected(j)
          PROVE  \/ /\ attempts'[i].code = attempts[i].code
                    /\ attempts[i].state = "failed" => attempts'[i].state = "failed"
                 \/ attempts'[i].code \notin Reports
      BY <3>2 DEF Responded, Selected, AttemptIs, Reports, Retriable
    <3>3. ASSUME NEW j \in 1..Len(attempts), NEW code, NEW state, Closed(j, state, code)
          PROVE  IF i = j THEN /\ attempts'[i].code = code /\ attempts'[i].state = state
                               /\ attempts[i].state = "started"
                 ELSE attempts'[i] = attempts[i]
      BY <3>3 DEF Closed, AttemptIs
    <3>4. ASSUME NEW j \in 1..Len(attempts), NEW code \in Codes, Closed(j, "failed", code),
                 code \in Reports =>
                   Heard(j, code) \/ (code = "provider_timeout" /\ TooLate(j)),
                 i = j
          PROVE  \/ attempts'[i].code \notin Reports
                 \/ Heard(i, attempts'[i].code)
                 \/ TooLate(i) /\ attempts[i].state = "started" /\ attempts'[i].state = "failed"
      BY <3>3, <3>4
    <3>5. ASSUME NEW j \in 1..Len(attempts), NEW code \in Reports, Closed(j, "expired", code),
                 Heard(j, code), i = j
          PROVE  Heard(i, attempts'[i].code)
      BY <3>3, <3>5
    <3>6. ASSUME attempts'[i] = attempts[i]
          PROVE  /\ attempts'[i].code = attempts[i].code
                 /\ attempts[i].state = "failed" => attempts'[i].state = "failed"
      BY <3>6
    <3> QED BY <2>0, <3>1, <3>2, <3>3, <3>4, <3>5, <3>6 DEF JobChanges, Quiet, Enqueued, Abandoned
  <2>5. ASSUME NEW i \in 1..Len(attempts), attempts'[i].code \in Reports
        PROVE  Reported(i)' \/ Unsent(i)'
    <3>1. CASE /\ attempts'[i].code = attempts[i].code
               /\ attempts[i].state = "failed" => attempts'[i].state = "failed"
      BY <1>1, <2>1, <2>5, <3>1 DEF CodeBacked, Unsent
    <3>2. CASE Heard(i, attempts'[i].code)
      BY <2>2, <2>5, <3>2
    <3>3. CASE TooLate(i) /\ attempts[i].state = "started" /\ attempts'[i].state = "failed"
      BY <2>3, <3>3
    <3> QED BY <2>4, <2>5, <3>1, <3>2, <3>3
  <2> QED BY <2>0, <2>5 DEF CodeBacked
<1> QED BY <1>0, <1>2, <1>3, Steps

-----------------------------------------------------------------------------
(* The inductive invariant and what it implies.                            *)

Inv ==
  /\ TypeOK
  /\ HandlesExist
  /\ LedgerInv
  /\ ConsumedOnce
  /\ ApprovedFirst
  /\ SelectedBacks
  /\ HolderInv
  /\ FreshUnsent
  /\ TellInv
  /\ CodeBacked
  /\ JobBacked

\* The inductive invariant holds when the row enters SEMANTIC_WAIT.
LEMMA InitInv ==
  ASSUME Init
  PROVE  Inv
<1>1. PICK c \in Calls :
        /\ row = [state |-> "pending", holder |-> c, ours |-> TRUE,
                  term |-> "short", verdict |-> "none"]
        /\ calls = [d \in Calls |->
             IF d = c THEN [IdleCall EXCEPT !.pc = "entered"] ELSE IdleCall]
  BY DEF Init
<1>2. /\ job = NoJob /\ attempts = <<>> /\ audit = <<>> /\ time = "open" /\ faults = 0
      /\ wait = [state |-> "none", attempt |-> 0]
  BY DEF Init
<1> DEFINE e == [IdleCall EXCEPT !.pc = "entered"]
<1>3. e \in Call
  BY IdleCallType, CallFields DEF Pcs
<1>4. /\ e.pc = "entered" /\ e.last = FALSE /\ e.result = "none"
      /\ IdleCall.pc = "idle" /\ IdleCall.last = FALSE /\ IdleCall.result = "none"
  BY DEF IdleCall
<1>5. calls = [d \in Calls |-> IF d = c THEN e ELSE IdleCall]
  BY <1>1
<1> HIDE DEF e
<1>6. /\ calls \in [Calls -> Call]
      /\ \A d \in Calls : /\ calls[d].pc \in {"idle", "entered"} /\ ~calls[d].last
                          /\ calls[d].result = "none"
  BY <1>3, <1>4, <1>5, IdleCallType
<1>7. job \in Job /\ job.state = "none"
  BY <1>2 DEF NoJob, Job, Codes
<1>8. row \in Row /\ row.ours /\ row.verdict = "none"
  BY <1>1 DEF Row
<1>9. Len(attempts) = 0 /\ Len(audit) = 0 /\ 1..0 = {}
  BY <1>2
<1>10. TypeOK
  BY <1>2, <1>6, <1>7, <1>8 DEF TypeOK
<1>11. HandlesExist
  BY <1>6 DEF HandlesExist, Working, Dispatching
<1>12. LedgerInv
  BY <1>7, <1>9, BudgetNat DEF LedgerInv, JobShape, OneOpenAttempt, OpenIsLast,
                               ExpiredMayRetry, OneRepair
<1>13. ConsumedOnce /\ ApprovedFirst
  BY <1>6, <1>9 DEF ConsumedOnce, ApprovedFirst
<1>14. SelectedBacks
  BY <1>6, <1>7, <1>8 DEF SelectedBacks
<1>15. HolderInv
  BY <1>6, <1>7, <1>8 DEF HolderInv, HolderIsOurs, EnteredFresh, OnlyHolderClaims,
                          OwnTag, BoundHandle
<1>16. FreshUnsent /\ TellInv /\ CodeBacked /\ JobBacked
  BY <1>6, <1>7, <1>9 DEF FreshUnsent, TellInv, CodeBacked, JobBacked
<1> QED BY <1>10, <1>11, <1>12, <1>13, <1>14, <1>15, <1>16 DEF Inv

\* Every step preserves the inductive invariant.
LEMMA NextInv ==
  ASSUME Inv, [Next]_vars
  PROVE  Inv'
<1> USE DEF Inv
<1>0. JobShape
  BY DEF LedgerInv
<1>1. TypeOK' /\ HandlesExist'
  BY <1>0, TypeStep, HandlesStep
<1>2. ConsumedOnce' /\ ApprovedFirst' /\ SelectedBacks'
  BY <1>0, ConsumedStep, ApprovedStep, SelectedStep
<1>3. TellInv' /\ CodeBacked' /\ JobBacked'
  BY <1>0, TellStep, CodeBackedStep, JobBackedStep
<1>4. RestTypes
  BY RestSteps
<1>5. ASSUME NEW c \in Calls, ClaimChanges(c)
      PROVE  LedgerInv' /\ HolderInv' /\ FreshUnsent'
  BY <1>0, <1>5, ClaimLedger, ClaimHolder, ClaimFresh
<1>6. ASSUME OtherChanges
      PROVE  LedgerInv' /\ HolderInv' /\ FreshUnsent'
  BY <1>4, <1>6, OtherLedger, OtherHolder, OtherFresh DEF OtherChanges
<1> QED BY <1>0, <1>1, <1>2, <1>3, <1>5, <1>6, Steps

\* The conjunction of the types, the ledger, the audit and the takeover
\* invariants holds in every reachable state of the review of one check.
THEOREM Invariance == Spec => []Inv
<1>1. Inv /\ UNCHANGED vars => Inv'
  BY NextInv
<1> QED BY InitInv, NextInv, PTL DEF Spec

\* Every row the ledger and the audit keep has its type, and each attempt has
\* exactly one audit row, whatever the number of concurrent execute_check
\* invocations, retries, restarts and cancellations.
THEOREM Types == Spec => []TypeOK
<1>1. Inv => TypeOK
  BY DEF Inv
<1> QED BY <1>1, Invariance, PTL

\* The audit's consume compare-and-swap admits each provider request once,
\* however often run_durable_semantic_attempts resumes its attempt.
THEOREM RequestSentOnce == Spec => []SentOnce
<1>1. ASSUME Inv PROVE SentOnce
  BY <1>1 DEF Inv, ConsumedOnce, SentOnce
<1> QED BY <1>1, Invariance, PTL

\* should_retry_after reads durable ordinals and codes, so no sequence of
\* replays spends more than the frozen budget or a second repair.
THEOREM BudgetKept == Spec => []WithinBudget
<1>1. ASSUME Inv PROVE WithinBudget
  <2> DEFINE S == {i \in 1..Len(attempts) :
                     attempts[i].state = "expired" /\ attempts[i].code = "repairable"}
  <2>1. Len(attempts) <= Budget
    BY <1>1 DEF Inv, LedgerInv, JobShape
  <2>2. \A i, j \in S : i = j
    BY <1>1 DEF Inv, LedgerInv, OneRepair, Repaired
  <2>3. CASE S = {}
    BY <2>1, <2>3, FS_EmptySet DEF WithinBudget
  <2>4. ASSUME NEW x \in S PROVE WithinBudget
    <3>1. S = {x}
      BY <2>2
    <3>2. Cardinality(S) = 1
      BY <3>1, FS_Singleton
    <3> QED BY <2>1, <3>2 DEF WithinBudget
  <2> QED BY <2>3, <2>4
<1> QED BY <1>1, Invariance, PTL

\* claim_semantic_job, record_attempt_outcome and select_semantic_attempt keep
\* the job row and the attempt rows together.
THEOREM JobAndAttemptsAgree == Spec => []OneOpenAttempt
<1>1. Inv => OneOpenAttempt
  BY DEF Inv, LedgerInv
<1> QED BY <1>1, Invariance, PTL

\* No path through reserve, decide, authorize, recover and consume sends bytes
\* that a human had to approve and did not.
THEOREM ApprovalBeforeSend == Spec => []SentOnlyIfApproved
<1>1. ASSUME Inv PROVE SentOnlyIfApproved
  BY <1>1 DEF Inv, ConsumedOnce, ApprovedFirst, SentOnlyIfApproved
<1> QED BY <1>1, Invariance, PTL

\* A job that ends provider_timeout accounts for all of its requests: what was
\* sent ended with an answer some invocation heard and recorded, a timeout of
\* the call included, and an attempt taken over after its send is closed as
\* unknown, for any number of invocations, lapses, restarts and retries.
THEOREM TimeoutIsAccountedFor == Spec => []TimeoutHidesNoLostAnswer
<1>1. ASSUME Inv PROVE TimeoutHidesNoLostAnswer
  <2>1. "none" \notin Reports /\ Len(audit) = Len(attempts)
    BY <1>1 DEF Inv, TypeOK, Reports, Retriable
  <2>2. ASSUME job.state = "failed", job.reason = "provider_timeout",
               NEW i \in 1..Len(audit), audit[i].sent > 0
        PROVE  audit[i].told # "none" /\ attempts[i].code = audit[i].told
    <3>1. attempts[i].code \in Reports
      BY <1>1, <2>1, <2>2 DEF Inv, JobBacked
    <3>2. Reported(i)
      BY <1>1, <2>1, <2>2, <3>1 DEF Inv, CodeBacked, Unsent
    <3> QED BY <2>1, <3>1, <3>2 DEF Reported
  <2> QED BY <2>2 DEF TimeoutHidesNoLostAnswer
<1> QED BY <1>1, Invariance, PTL

\* check.py commits a completed review only when the ledger selected an
\* attempt, also if the committing invocation is not the one that selected.
THEOREM VerdictIsBacked == Spec => []VerdictWasSelected
<1>1. ASSUME Inv PROVE VerdictWasSelected
  BY <1>1 DEF Inv, SelectedBacks, SomeSelected, VerdictWasSelected
<1> QED BY <1>1, Invariance, PTL

\* A durable response is never discarded: the only step that closes its attempt
\* is the one that selects it.
THEOREM ResponseIsKept == Spec => ResponseKept
<1> DEFINE Kept == \A i \in 1..Len(attempts) :
                     attempts[i].state = "response_durable" =>
                       attempts'[i].state \in {"response_durable", "selected"}
<1>1. ASSUME Inv, [Next]_vars PROVE Kept
  <2>0. TypeOK /\ HandlesExist /\ JobShape /\ Len(attempts) \in Nat
    BY <1>1 DEF Inv, LedgerInv, TypeOK
  <2>1. ASSUME NEW c \in Calls, ClaimChanges(c) PROVE Kept
    BY <2>0, <2>1 DEF ClaimChanges, Began, Rebound, AttemptIs
  <2>2. ASSUME OtherChanges PROVE Kept
    BY <2>0, <2>2 DEF OtherChanges, JobChanges, Quiet, Enqueued, Abandoned, Responded,
                      Selected, Closed, AttemptIs
  <2> QED BY <1>1, <2>0, <2>1, <2>2, Steps
<1>2. ASSUME Inv, [Next]_vars PROVE [Kept]_vars
  BY <1>1, <1>2
<1> QED BY <1>2, Invariance, PTL DEF Spec, ResponseKept
============================================================================
