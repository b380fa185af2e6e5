------------------------ MODULE CheckPipelineProofs ------------------------
(***************************************************************************)
(* What the check pipeline promises for any number of invocations, replays *)
(* and restarts: the check has one result, a result that reads complete    *)
(* was reviewed as recorded, and pinned findings are the ones committed.   *)
(*                                                                         *)
(* No invocation knows more of the row than it could have read when it     *)
(* held the lease, which may be long gone.  So the invariant states, for   *)
(* each invocation, what it relies on (Sound), and the proof shows that no *)
(* other invocation's step can take that away (Advances): a row that has   *)
(* left the reserved phase never changes its mode, findings or wording.    *)
(***************************************************************************)
EXTENDS CheckPipeline, FiniteSetTheorems, TLAPS

AllModes == {"omitted", "deterministic_only", "semantic_if_configured", "semantic_required"}
OpPhases == {"reserved", "local_ready", "semantic_wait", "ready_to_finalize", "terminal"}
Errors == {"none", "internal_error", "storage_corrupt"}
Before == {"idle", "freeze"}
Unpinned == {"local", "publish"}
Unreviewed == {"wait", "review", "admitted"}
Concluding == {"conclude", "commit"}
Pinned == Unreviewed \cup Concluding
Outcomes == {"not_requested", "not_configured", "succeeded", "failed"}

Rows(g, t) ==
    [state : {"absent", "pending", "complete", "failed"}, phase : OpPhases, mode : AllModes,
     owner : 0..g, holder : Calls \cup {NONE}, live : BOOLEAN, findings : Nat,
     text : 0..t, error : Errors, result : Results]
Jobs == [state : {"none", "open", "responded", "failed"}, findings : Nat]
Invocations ==
    [pc : Before \cup Unpinned \cup Pinned, mode : AllModes, semantic : BOOLEAN,
     phase : OpPhases, findings : Nat, status : Outcomes \cup {"none", "grant_missing"},
     reviewed : Nat]

\* The verdict v, given in mode m, claims no more than it may.
Honest(v, m) ==
    /\ v.status = "succeeded" => v.reviewed = v.findings
    /\ v.completeness = "complete" /\ m # "deterministic_only" => v.status = "succeeded"

\* The row o of a service with wording t.
RowOK(o, t) ==
    /\ o.state \in {"complete", "failed"} <=> o.phase = "terminal"
    /\ o.state = "absent" => o.phase = "reserved"
    /\ o.live => o.state = "pending"
    /\ o.state = "complete" =>
         /\ Honest(o.result, o.mode)
         /\ o.text = t => o.result.findings = o.findings

\* What the invocation r relies on: its mode is the row's; the findings it
\* holds are the pinned ones unless the wording changed; and the review it has
\* read is a review of them.
Sound(r, o, t) ==
    /\ r.pc \in Before => r.phase = "reserved"
    /\ r.pc \notin Before =>
         /\ o.state # "absent" /\ o.mode = r.mode
         /\ r.phase # "reserved" => o.phase # "reserved"
    /\ r.pc \in Pinned => o.phase # "reserved" /\ (o.text = t => r.findings = o.findings)
    /\ r.pc \notin Concluding <=> r.status = "none"
    /\ r.pc = "commit" => r.status \in Outcomes
    /\ r.status = "succeeded" => r.reviewed = r.findings
    /\ r.status = "not_requested" => r.mode = "deterministic_only"

ToldTrue(told_, o) ==
    /\ IsFiniteSet(told_)
    /\ \A a \in told_ : a.result \in Results
    /\ \A a \in told_ : a.kind = "result" => o.state = "complete" /\ a.result = o.result

Env ==
    /\ asked \in AllModes /\ policy \in {"disabled", "optional", "required"}
    /\ text \in Nat /\ gen \in Nat

Inv ==
    /\ Env
    /\ op \in Rows(gen, text) /\ RowOK(op, text)
    /\ job \in Jobs
    /\ call \in [Calls -> Invocations]
    /\ \A c \in Calls : Sound(call[c], op, text)
    /\ ToldTrue(told, op)

-----------------------------------------------------------------------------
(* What a step of one invocation does to the row.                          *)

Advances(o, o2) ==
    /\ o.state # "absent" => o2.state # "absent" /\ o2.mode = o.mode
    /\ o.phase # "reserved" =>
         o2.phase # "reserved" /\ o2.text = o.text /\ o2.findings = o.findings
    /\ o.state \in {"complete", "failed"} => o2 = o

LEMMA SoundKept ==
    ASSUME NEW r, NEW o, NEW o2, NEW t, Sound(r, o, t), Advances(o, o2)
    PROVE  Sound(r, o2, t)
BY DEF Sound, Advances, Pinned, Unreviewed, Concluding, Before

\* The step of invocation c, as it matters to the invariant.
Moves(c) ==
    /\ UNCHANGED <<asked, policy, text, gen>>
    /\ op' \in Rows(gen, text) /\ RowOK(op', text) /\ Advances(op, op')
    /\ job' \in Jobs
    /\ \E r \in Invocations : call' = [call EXCEPT ![c] = r] /\ Sound(r, op', text)
    /\ ToldTrue(told', op')

LEMMA MovesKeepInv ==
    ASSUME Inv, NEW c \in Calls, Moves(c)
    PROVE  Inv'
<1>1. PICK r \in Invocations : call' = [call EXCEPT ![c] = r] /\ Sound(r, op', text)
  BY DEF Moves
<1>2. Env' /\ text' = text /\ gen' = gen
  BY DEF Inv, Env, Moves
<1>3. op' \in Rows(gen', text') /\ RowOK(op', text') /\ job' \in Jobs
  BY <1>2 DEF Moves
<1>4. call' \in [Calls -> Invocations]
  BY <1>1 DEF Inv
<1>5. ASSUME NEW d \in Calls PROVE Sound(call'[d], op', text')
  <2>1. CASE d = c
    BY <2>1, <1>1, <1>2 DEF Inv
  <2>2. CASE d # c
    <3>1. call'[d] = call[d]
      BY <2>2, <1>1 DEF Inv
    <3>2. Sound(call[d], op, text) /\ Advances(op, op')
      BY DEF Inv, Moves
    <3>3. Sound(call[d], op', text)
      BY <3>2, SoundKept
    <3> QED
      BY <3>1, <3>3, <1>2
  <2> QED
    BY <2>1, <2>2
<1>6. ToldTrue(told', op')
  BY DEF Moves
<1>7. \A d \in Calls : Sound(call[d]', op', text')
  BY <1>5
<1>a. (Rows(gen, text))' = Rows(gen', text') /\ Jobs' = Jobs /\ Invocations' = Invocations
  BY DEF Rows, Jobs, Invocations
<1>b. RowOK(op, text)' /\ ToldTrue(told, op)'
  BY <1>3, <1>6 DEF RowOK, ToldTrue, Honest
<1>c. ASSUME NEW d \in Calls PROVE Sound(call[d], op, text)'
  BY <1>7
<1> QED
  BY <1>2, <1>3, <1>4, <1>a, <1>b, <1>c DEF Inv

-----------------------------------------------------------------------------
(* The pieces an action is made of.                                        *)

LEMMA Results0 == NoResult \in Results
BY DEF NoResult, Results

LEMMA IdleIsSound ==
    ASSUME NEW o, NEW t
    PROVE  Idle \in Invocations /\ Sound(Idle, o, t)
BY DEF Idle, Invocations, Sound, Before, Unpinned, Pinned, Unreviewed, Concluding, AllModes,
       OpPhases, Outcomes

LEMMA RowStays ==
    ASSUME Inv
    PROVE  op \in Rows(gen, text) /\ RowOK(op, text) /\ Advances(op, op) /\ ToldTrue(told, op)
BY DEF Inv, Advances

LEMMA TellIsTrue ==
    ASSUME Inv, NEW c \in Calls, NEW kind, NEW result \in Results, Tell(c, kind, result),
           NEW o, Advances(op, o),
           kind = "result" => o.state = "complete" /\ o.result = result
                              /\ op.state \in {"pending", "complete"}
    PROVE  ToldTrue(told', o)
<1> DEFINE a == Answer(kind, call[c].status = "grant_missing", result)
<1>1. told' = told \cup {a}
  BY DEF Tell
<1>2. a.kind = kind /\ a.result = result
  BY DEF Answer
<1>3. IsFiniteSet(told')
  BY <1>1, FS_AddElement DEF Inv, ToldTrue
<1>4. ASSUME NEW b \in told, b.kind = "result"
      PROVE  o.state = "complete" /\ b.result = o.result
  BY <1>4 DEF Inv, ToldTrue, Advances
<1> QED
  BY <1>1, <1>2, <1>3, <1>4 DEF Inv, ToldTrue

LEMMA ToldKept ==
    ASSUME Inv, NEW o, Advances(op, o)
    PROVE  ToldTrue(told, o)
BY DEF Inv, ToldTrue, Advances

\* The invocation goes on, and may have advanced the row.
LEMMA GoesOn ==
    ASSUME Inv, NEW c \in Calls, NEW r \in Invocations, call' = [call EXCEPT ![c] = r],
           Sound(r, op', text), op' \in Rows(gen, text), RowOK(op', text), Advances(op, op'),
           UNCHANGED <<asked, policy, text, gen, told>>, job' \in Jobs
    PROVE  Moves(c)
<1>1. ToldTrue(told', op')
  BY ToldKept
<1> QED
  BY <1>1 DEF Moves

LEMMA GoesOnAlone ==
    ASSUME Inv, NEW c \in Calls, NEW r \in Invocations, call' = [call EXCEPT ![c] = r],
           Sound(r, op, text), UNCHANGED <<asked, policy, text, gen, op, told>>, job' \in Jobs
    PROVE  Moves(c)
<1>1. op' \in Rows(gen, text) /\ RowOK(op', text) /\ Advances(op, op') /\ Sound(r, op', text)
  BY RowStays
<1> QED
  BY <1>1, GoesOn

\* The invocation answers and is gone.
LEMMA Answers ==
    ASSUME Inv, NEW c \in Calls, NEW kind, NEW result \in Results, Tell(c, kind, result),
           kind = "result" => op'.state = "complete" /\ op'.result = result
                              /\ op.state \in {"pending", "complete"},
           op' \in Rows(gen, text), RowOK(op', text), Advances(op, op'),
           UNCHANGED <<asked, policy, text, gen, job>>
    PROVE  Moves(c)
<1>1. ToldTrue(told', op')
  BY TellIsTrue
<1>2. call' = [call EXCEPT ![c] = Idle] /\ Idle \in Invocations /\ Sound(Idle, op', text)
  BY IdleIsSound DEF Tell
<1>3. job' \in Jobs
  BY DEF Inv
<1> QED
  BY <1>1, <1>2, <1>3 DEF Moves

LEMMA AnswersAlone ==
    ASSUME Inv, NEW c \in Calls, NEW kind, NEW result \in Results, Tell(c, kind, result),
           kind = "result" => op.state = "complete" /\ op.result = result,
           UNCHANGED <<asked, policy, text, gen, job, op>>
    PROVE  Moves(c)
<1>1. op' \in Rows(gen, text) /\ RowOK(op', text) /\ Advances(op, op')
  BY RowStays
<1> QED
  BY <1>1, Answers

LEMMA PendingMoves ==
    ASSUME Inv, NEW c \in Calls, Pending(c), UNCHANGED <<asked, policy, text, gen, job>>
    PROVE  Moves(c)
BY Results0, AnswersAlone DEF Pending

LEMMA FailCheckMoves ==
    ASSUME Inv, NEW c \in Calls, NEW kind \in Errors, FailCheck(c, kind),
           UNCHANGED <<asked, policy, text, gen, job>>
    PROVE  Moves(c)
<1>1. Tell(c, kind, NoResult) /\ kind # "result"
  BY DEF FailCheck, Errors
<1>2. CASE ~Holds(c)
  BY <1>1, <1>2, Results0, AnswersAlone DEF FailCheck
<1>3. CASE Holds(c)
  <2>1. op' = [op EXCEPT !.state = "failed", !.phase = "terminal", !.live = FALSE,
                         !.error = kind]
    BY <1>3 DEF FailCheck
  <2>2. op \in Rows(gen, text) /\ RowOK(op, text) /\ op.state = "pending"
    BY <1>3 DEF Inv, Holds
  <2>3. op' \in Rows(gen, text)
    BY <2>1, <2>2 DEF Rows, OpPhases
  <2>4. RowOK(op', text) /\ Advances(op, op')
    BY <2>1, <2>2 DEF Rows, RowOK, Advances
  <2> QED
    BY <1>1, <2>3, <2>4, Results0, Answers
<1> QED
  BY <1>2, <1>3

LEMMA FindingsAreFinite ==
    ASSUME NEW S, IsFiniteSet(S), NEW f \in [S -> Nat]
    PROVE  IsFiniteSet({f[x] : x \in S})
<1> DEFINE T == {f[x] : x \in S}
<1>1. f \in [S -> T]
  <2>1. \A x \in S : f[x] \in T
    OBVIOUS
  <2> QED
    BY <2>1
<1>2. f \in Surjection(S, T)
  BY <1>1 DEF Surjection
<1> QED
  BY <1>2, FS_Surjection

LEMMA FreshIsNew ==
    ASSUME Inv
    PROVE  Fresh \in Nat
<1> DEFINE used == {op.findings, job.findings} \cup {call[c].findings : c \in Calls}
                       \cup {a.result.findings : a \in told}
           n == Cardinality(used)
<1>1. IsFiniteSet({op.findings, job.findings})
  <2>1. IsFiniteSet({op.findings}) /\ IsFiniteSet({job.findings})
    BY FS_Singleton
  <2> QED
    BY <2>1, FS_AddElement
<1>2. IsFiniteSet({call[c].findings : c \in Calls})
  <2>1. IsFiniteSet(Calls)
    BY PipelineAssumption
  <2>2. [c \in Calls |-> call[c].findings] \in [Calls -> Nat]
    BY DEF Inv, Invocations
  <2>3. {[c \in Calls |-> call[c].findings][x] : x \in Calls} = {call[c].findings : c \in Calls}
    OBVIOUS
  <2> QED
    BY <2>1, <2>2, <2>3, FindingsAreFinite
<1>3. IsFiniteSet({a.result.findings : a \in told})
  <2>1. IsFiniteSet(told)
    BY DEF Inv, ToldTrue
  <2>2. [a \in told |-> a.result.findings] \in [told -> Nat]
    BY DEF Inv, ToldTrue, Results
  <2>3. {[a \in told |-> a.result.findings][x] : x \in told} = {a.result.findings : a \in told}
    OBVIOUS
  <2> QED
    BY <2>1, <2>2, <2>3, FindingsAreFinite
<1>4. IsFiniteSet(used) /\ n \in Nat
  BY <1>1, <1>2, <1>3, FS_Union, FS_CardinalityType
<1> HIDE DEF used
<1>5. Cardinality(1..(n + 1)) = n + 1 /\ IsFiniteSet(1..(n + 1))
  BY <1>4, FS_Interval
<1>6. \E i \in 1..(n + 1) : i \notin used
  <2>1. SUFFICES ASSUME 1..(n + 1) \subseteq used PROVE FALSE
    OBVIOUS
  <2>2. Cardinality(1..(n + 1)) <= n
    BY <2>1, <1>4, FS_Subset
  <2> QED
    BY <2>2, <1>4, <1>5
<1>7. Fresh = CHOOSE i \in 1..(n + 1) : i \notin used
  BY DEF Fresh, used
<1>8. Fresh \in 1..(n + 1)
  BY <1>6, <1>7
<1> QED
  BY <1>4, <1>8

-----------------------------------------------------------------------------
(* The invocation as an action leaves it.                                  *)

Steps(r, pc) == [r EXCEPT !.pc = pc]
StepsIn(r, pc, phase) == [r EXCEPT !.pc = pc, !.phase = phase]
StepsWith(r, pc, findings) == [r EXCEPT !.pc = pc, !.findings = findings]
Concludes(r, status, reviewed) ==
    [r EXCEPT !.pc = "conclude", !.status = status, !.reviewed = reviewed]

LEMMA Known ==
    ASSUME Inv, NEW c \in Calls
    PROVE  /\ call[c] \in Invocations /\ Sound(call[c], op, text)
           /\ op \in Rows(gen, text) /\ RowOK(op, text) /\ job \in Jobs
BY DEF Inv

LEMMA FormTypes ==
    ASSUME NEW r \in Invocations, NEW p \in Before \cup Unpinned \cup Pinned
    PROVE  /\ Steps(r, p) \in Invocations
           /\ \A q \in OpPhases : StepsIn(r, p, q) \in Invocations
           /\ \A n \in Nat : StepsWith(r, p, n) \in Invocations
           /\ \A s \in Outcomes \cup {"grant_missing"}, n \in Nat :
                 Concludes(r, s, n) \in Invocations
BY DEF Invocations, Steps, StepsIn, StepsWith, Concludes, Pinned, Concluding

LEMMA FormFields ==
    ASSUME NEW r \in Invocations, NEW p, NEW q, NEW n
    PROVE  /\ Steps(r, p).pc = p /\ StepsIn(r, p, q).pc = p /\ StepsWith(r, p, n).pc = p
           /\ Concludes(r, q, n).pc = "conclude"
           /\ Steps(r, p).phase = r.phase /\ StepsIn(r, p, q).phase = q
           /\ StepsWith(r, p, n).phase = r.phase /\ Concludes(r, q, n).phase = r.phase
           /\ Steps(r, p).findings = r.findings /\ StepsIn(r, p, q).findings = r.findings
           /\ StepsWith(r, p, n).findings = n /\ Concludes(r, q, n).findings = r.findings
           /\ Steps(r, p).mode = r.mode /\ StepsIn(r, p, q).mode = r.mode
           /\ StepsWith(r, p, n).mode = r.mode /\ Concludes(r, q, n).mode = r.mode
           /\ Steps(r, p).status = r.status /\ StepsIn(r, p, q).status = r.status
           /\ StepsWith(r, p, n).status = r.status /\ Concludes(r, q, n).status = q
           /\ Steps(r, p).reviewed = r.reviewed /\ StepsIn(r, p, q).reviewed = r.reviewed
           /\ StepsWith(r, p, n).reviewed = r.reviewed /\ Concludes(r, q, n).reviewed = n
BY DEF Invocations, Steps, StepsIn, StepsWith, Concludes

-----------------------------------------------------------------------------
(* Each action of an invocation moves as the invariant allows.             *)

LEMMA EnterMoves ==
    ASSUME Inv, NEW c \in Calls, Enter(c)
    PROVE  Moves(c)
<1>1. PICK r : r = [Idle EXCEPT !.pc = "freeze", !.mode = ResolveMode,
                      !.semantic = ResolveMode # "deterministic_only" /\ policy # "disabled"]
  OBVIOUS
<1>2. ResolveMode \in AllModes
  BY DEF Inv, Env, ResolveMode, DefaultMode, AllModes
<1>3. r \in Invocations
  BY <1>1, <1>2 DEF Idle, Invocations, Before, OpPhases
<1>4. r.pc = "freeze" /\ r.status = "none" /\ r.phase = "reserved"
  BY <1>1 DEF Idle
<1>5. Sound(r, op, text)
  BY <1>4 DEF Sound, Before, Pinned, Unreviewed, Concluding
<1>6. call' = [call EXCEPT ![c] = r] /\ UNCHANGED <<asked, policy, text, gen, op, told>>
      /\ job' \in Jobs
  BY <1>1 DEF Enter, env, Inv
<1> QED
  BY <1>3, <1>5, <1>6, GoesOnAlone

LEMMA FreezeMoves ==
    ASSUME Inv, NEW c \in Calls, Freeze(c)
    PROVE  Moves(c)
<1>0. call[c] \in Invocations /\ Sound(call[c], op, text) /\ op \in Rows(gen, text)
      /\ RowOK(op, text) /\ job \in Jobs /\ call[c].pc = "freeze"
      /\ UNCHANGED <<asked, policy, text, gen, job>>
  BY Known DEF Freeze, env
<1>1. ASSUME op.state = "absent",
             op' = [NoOp EXCEPT !.state = "pending", !.mode = call[c].mode, !.owner = gen,
                                !.holder = c, !.live = TRUE],
             call' = [call EXCEPT ![c].pc = "local"], UNCHANGED told
      PROVE  Moves(c)
  <2>1. op' \in Rows(gen, text)
    <3>1. gen \in 0..gen /\ 0 \in 0..text /\ call[c].mode \in AllModes
      BY <1>0 DEF Inv, Env, Invocations
    <3>2. op' = [state |-> "pending", phase |-> "reserved", mode |-> call[c].mode,
                 owner |-> gen, holder |-> c, live |-> TRUE, findings |-> 0, text |-> 0,
                 error |-> "none", result |-> NoResult]
      BY <1>1 DEF NoOp
    <3> QED
      BY <3>1, <3>2, Results0 DEF Rows, OpPhases, Errors
  <2>2. op'.state = "pending" /\ op'.phase = "reserved" /\ op'.mode = call[c].mode
    BY <1>1 DEF NoOp
  <2>3. RowOK(op', text) /\ Advances(op, op')
    <3>1. op.phase # "terminal"
      BY <1>0, <1>1 DEF RowOK
    <3>2. RowOK(op', text)
      BY <2>2 DEF RowOK
    <3>3. Advances(op, op')
      BY <2>2, <1>0, <1>1 DEF Advances, RowOK
    <3> QED
      BY <3>2, <3>3
  <2>4. PICK r : r = Steps(call[c], "local")
    OBVIOUS
  <2>5. call' = [call EXCEPT ![c] = r] /\ r \in Invocations
    BY <2>4, <1>0, <1>1, FormTypes DEF Unpinned, Inv, Steps
  <2>6. r.pc = "local" /\ r.phase = call[c].phase /\ r.mode = call[c].mode
        /\ r.status = call[c].status
    BY <2>4, <1>0, FormFields
  <2>7. Sound(r, op', text)
    BY <2>2, <2>6, <1>0 DEF Sound, Before, Pinned, Unreviewed, Concluding
  <2>8. job' \in Jobs
    BY <1>0
  <2> QED
    BY <1>0, <1>1, <2>1, <2>3, <2>5, <2>7, <2>8, GoesOn
<1>2. ASSUME op.state # "absent", Tell(c, "idempotency_conflict", NoResult), UNCHANGED op
      PROVE  Moves(c)
  BY <1>0, <1>2, Results0, AnswersAlone
<1>3. ASSUME op.state \in {"complete", "failed"},
             Tell(c, IF op.state = "complete" THEN "result" ELSE op.error, op.result),
             UNCHANGED op
      PROVE  Moves(c)
  <2>1. op.result \in Results /\ op.error # "result"
    BY <1>0 DEF Rows, Errors
  <2>2. PICK k : k = IF op.state = "complete" THEN "result" ELSE op.error
    OBVIOUS
  <2>3. k = "result" => op.state = "complete" /\ op.result = op.result
    BY <2>1, <2>2
  <2>4. Tell(c, k, op.result)
    BY <1>3, <2>2
  <2> QED
    BY <1>0, <1>3, <2>1, <2>3, <2>4, AnswersAlone
<1>4. ASSUME Pending(c) PROVE Moves(c)
  BY <1>0, <1>4, PendingMoves
<1>5. ASSUME op.state = "pending", op.mode = call[c].mode,
             op' = [op EXCEPT !.owner = gen, !.holder = c, !.live = TRUE],
             call' = [call EXCEPT ![c].pc = "local", ![c].phase = op.phase], UNCHANGED told
      PROVE  Moves(c)
  <2>1. op' \in Rows(gen, text)
    <3>1. gen \in 0..gen
      BY DEF Inv, Env
    <3> QED
      BY <3>1, <1>0, <1>5 DEF Rows
  <2>2. op'.state = op.state /\ op'.phase = op.phase /\ op'.mode = op.mode
        /\ op'.text = op.text /\ op'.findings = op.findings
    BY <1>0, <1>5 DEF Rows
  <2>3. RowOK(op', text) /\ Advances(op, op')
    BY <2>2, <1>0, <1>5 DEF RowOK, Advances
  <2>4. PICK r : r = StepsIn(call[c], "local", op.phase)
    OBVIOUS
  <2>5. call' = [call EXCEPT ![c] = r] /\ r \in Invocations
    <3>1. op.phase \in OpPhases
      BY <1>0 DEF Rows
    <3>2. call' = [call EXCEPT ![c] = r]
      BY <2>4, <1>5 DEF Inv, StepsIn
    <3>3. r \in Invocations
      BY <2>4, <3>1, <1>0, FormTypes DEF Unpinned
    <3> QED
      BY <3>2, <3>3
  <2>6. r.pc = "local" /\ r.phase = op.phase /\ r.mode = op.mode /\ r.status = call[c].status
    BY <2>4, <1>0, <1>5, FormFields
  <2>7. Sound(r, op', text)
    BY <2>2, <2>6, <1>0, <1>5 DEF Sound, Before, Pinned, Unreviewed, Concluding
  <2>8. job' \in Jobs
    BY <1>0
  <2> QED
    BY <1>0, <1>5, <2>1, <2>3, <2>5, <2>7, <2>8, GoesOn
<1> QED
  BY <1>1, <1>2, <1>3, <1>4, <1>5 DEF Freeze

LEMMA LocalMoves ==
    ASSUME Inv, NEW c \in Calls, Local(c)
    PROVE  Moves(c)
<1>0. call[c] \in Invocations /\ Sound(call[c], op, text) /\ job' \in Jobs
      /\ call[c].pc = "local" /\ UNCHANGED <<asked, policy, text, gen, job>>
  BY Known DEF Local, env
<1>1. ASSUME call' = [call EXCEPT ![c].pc = "publish", ![c].findings = Fresh],
             UNCHANGED <<op, told>>
      PROVE  Moves(c)
  <2>1. PICK n \in Nat : n = Fresh
    BY FreshIsNew
  <2>2. PICK r : r = StepsWith(call[c], "publish", n)
    OBVIOUS
  <2>3. call' = [call EXCEPT ![c] = r]
    BY <2>1, <2>2, <1>1 DEF Inv, StepsWith
  <2>4. r \in Invocations
    BY <2>2, <1>0, FormTypes DEF Unpinned
  <2>5. r.pc = "publish" /\ r.phase = call[c].phase /\ r.mode = call[c].mode
        /\ r.status = call[c].status
    BY <2>2, <1>0, FormFields
  <2>6. Sound(r, op, text)
    BY <2>5, <1>0 DEF Sound, Before, Pinned, Unreviewed, Concluding
  <2> QED
    BY <1>0, <1>1, <2>3, <2>4, <2>6, GoesOnAlone
<1>2. ASSUME FailCheck(c, "storage_corrupt") PROVE Moves(c)
  BY <1>0, <1>2, FailCheckMoves DEF Errors
<1> QED
  BY <1>1, <1>2 DEF Local

LEMMA PublishLocalMoves ==
    ASSUME Inv, NEW c \in Calls, PublishLocal(c)
    PROVE  Moves(c)
<1>0. call[c] \in Invocations /\ Sound(call[c], op, text) /\ op \in Rows(gen, text)
      /\ RowOK(op, text) /\ job' \in Jobs /\ call[c].pc = "publish"
      /\ UNCHANGED <<asked, policy, text, gen, job>>
  BY Known DEF PublishLocal, env
<1>1. ASSUME Holds(c), op.phase = "reserved",
             op' = [op EXCEPT !.phase = "local_ready", !.findings = call[c].findings,
                              !.text = text],
             call' = [call EXCEPT ![c].pc = "wait", ![c].phase = "local_ready"],
             UNCHANGED told
      PROVE  Moves(c)
  <2>1. text \in 0..text /\ call[c].findings \in Nat
    BY <1>0 DEF Inv, Env, Invocations
  <2>2. op' \in Rows(gen, text)
    BY <2>1, <1>0, <1>1 DEF Rows, OpPhases
  <2>3. op'.state = "pending" /\ op'.phase = "local_ready" /\ op'.mode = op.mode
        /\ op'.findings = call[c].findings
    BY <1>0, <1>1 DEF Rows, Holds
  <2>4. RowOK(op', text)
    BY <2>3 DEF RowOK
  <2>5. Advances(op, op')
    BY <2>3, <1>1 DEF Advances, Holds
  <2>6. PICK r : r = StepsIn(call[c], "wait", "local_ready")
    OBVIOUS
  <2>7. call' = [call EXCEPT ![c] = r]
    BY <2>6, <1>1 DEF Inv, StepsIn
  <2>8. r \in Invocations
    BY <2>6, <1>0, FormTypes DEF Pinned, Unreviewed, OpPhases
  <2>9. r.pc = "wait" /\ r.findings = call[c].findings /\ r.mode = call[c].mode
        /\ r.status = call[c].status
    BY <2>6, <1>0, FormFields
  <2>10. Sound(r, op', text)
    BY <2>3, <2>9, <1>0 DEF Sound, Before, Pinned, Unreviewed, Concluding
  <2> QED
    BY <1>0, <1>1, <2>2, <2>4, <2>5, <2>7, <2>8, <2>10, GoesOn
<1>2. ASSUME Pending(c) PROVE Moves(c)
  BY <1>0, <1>2, PendingMoves
<1> QED
  BY <1>1, <1>2 DEF PublishLocal

LEMMA ReloadMoves ==
    ASSUME Inv, NEW c \in Calls, Reload(c)
    PROVE  Moves(c)
<1>0. call[c] \in Invocations /\ Sound(call[c], op, text) /\ op \in Rows(gen, text)
      /\ job' \in Jobs /\ call[c].pc = "local" /\ call[c].phase # "reserved"
      /\ UNCHANGED <<asked, policy, text, gen, job>>
  BY Known DEF Reload, env
<1>1. ASSUME call' = [call EXCEPT ![c].pc = "wait",
                        ![c].findings = IF op.text = text THEN op.findings ELSE Fresh],
             UNCHANGED <<op, told>>
      PROVE  Moves(c)
  <2>1. PICK n : n = IF op.text = text THEN op.findings ELSE Fresh
    OBVIOUS
  <2>2. n \in Nat /\ (op.text = text => n = op.findings)
    BY <2>1, <1>0, FreshIsNew DEF Rows
  <2>3. PICK r : r = StepsWith(call[c], "wait", n)
    OBVIOUS
  <2>4. call' = [call EXCEPT ![c] = r]
    BY <2>1, <2>3, <1>1 DEF Inv, StepsWith
  <2>5. r \in Invocations
    BY <2>2, <2>3, <1>0, FormTypes DEF Pinned, Unreviewed
  <2>6. r.pc = "wait" /\ r.phase = call[c].phase /\ r.mode = call[c].mode
        /\ r.status = call[c].status /\ r.findings = n
    BY <2>3, <1>0, FormFields
  <2>7. Sound(r, op, text)
    BY <2>2, <2>6, <1>0 DEF Sound, Before, Pinned, Unreviewed, Concluding
  <2> QED
    BY <1>0, <1>1, <2>4, <2>5, <2>7, GoesOnAlone
<1>2. ASSUME FailCheck(c, "storage_corrupt") PROVE Moves(c)
  BY <1>0, <1>2, FailCheckMoves DEF Errors
<1> QED
  BY <1>1, <1>2 DEF Reload

\* A pinned invocation that only goes on to the next stage keeps what it knows.
LEMMA StageIsSound ==
    ASSUME NEW r \in Invocations, NEW o, NEW t, Sound(r, o, t), r.pc \in Unreviewed,
           NEW p \in Unreviewed
    PROVE  Steps(r, p) \in Invocations /\ Sound(Steps(r, p), o, t)
<1>1. Steps(r, p) \in Invocations
  BY FormTypes DEF Pinned
<1>2. PICK s : s = Steps(r, p)
  OBVIOUS
<1>3. s.pc = p /\ s.phase = r.phase /\ s.mode = r.mode /\ s.status = r.status
      /\ s.findings = r.findings
  BY <1>2, FormFields
<1>4. Sound(s, o, t)
  BY <1>3 DEF Sound, Before, Pinned, Unreviewed, Concluding
<1> QED
  BY <1>1, <1>2, <1>4

\* The row moves to a later phase than reserved, and nothing else changes.
LEMMA PhaseAdvances ==
    ASSUME NEW g, NEW t, NEW o \in Rows(g, t), RowOK(o, t), o.state = "pending",
           o.phase # "reserved", NEW p \in {"semantic_wait", "ready_to_finalize"}, NEW o2,
           o2 = [o EXCEPT !.phase = p]
    PROVE  /\ o2 \in Rows(g, t) /\ RowOK(o2, t) /\ Advances(o, o2)
           /\ o2.phase = p /\ o2.mode = o.mode /\ o2.state = "pending"
           /\ o2.findings = o.findings /\ o2.text = o.text
<1>1. o2 \in Rows(g, t)
  BY DEF Rows, OpPhases
<1>2. o2.phase = p /\ o2.mode = o.mode /\ o2.state = "pending"
      /\ o2.findings = o.findings /\ o2.text = o.text
  BY DEF Rows
<1>3. RowOK(o2, t) /\ Advances(o, o2)
  BY <1>2 DEF RowOK, Advances
<1> QED
  BY <1>1, <1>2, <1>3

LEMMA EnterWaitMoves ==
    ASSUME Inv, NEW c \in Calls, EnterWait(c)
    PROVE  Moves(c)
<1>0. call[c] \in Invocations /\ Sound(call[c], op, text) /\ op \in Rows(gen, text)
      /\ RowOK(op, text) /\ job' \in Jobs /\ call[c].pc = "wait"
      /\ UNCHANGED <<asked, policy, text, gen, job>>
  BY Known DEF EnterWait, env
<1>1. ASSUME Holds(c), op.phase = "local_ready",
             op' = [op EXCEPT !.phase = "semantic_wait"],
             call' = [call EXCEPT ![c].pc = "review", ![c].phase = "semantic_wait"],
             UNCHANGED told
      PROVE  Moves(c)
  <2>1. op' \in Rows(gen, text) /\ RowOK(op', text) /\ Advances(op, op')
        /\ op'.phase = "semantic_wait"
    BY <1>0, <1>1, PhaseAdvances DEF Holds
  <2>2. Sound(call[c], op', text)
    BY <2>1, <1>0, SoundKept
  <2>3. PICK r : r = StepsIn(call[c], "review", "semantic_wait")
    OBVIOUS
  <2>4. call' = [call EXCEPT ![c] = r]
    BY <2>3, <1>1 DEF Inv, StepsIn
  <2>5. r \in Invocations
    BY <2>3, <1>0, FormTypes DEF Pinned, Unreviewed, OpPhases
  <2>6. r.pc = "review" /\ r.phase = "semantic_wait" /\ r.mode = call[c].mode
        /\ r.status = call[c].status /\ r.findings = call[c].findings
    BY <2>3, <1>0, FormFields
  <2>7. Sound(r, op', text)
    BY <2>1, <2>2, <2>6, <1>0 DEF Sound, Before, Pinned, Unreviewed, Concluding
  <2> QED
    BY <1>0, <1>1, <2>1, <2>4, <2>5, <2>7, GoesOn
<1>2. ASSUME Pending(c) PROVE Moves(c)
  BY <1>0, <1>2, PendingMoves
<1>3. ASSUME call' = [call EXCEPT ![c].pc = "review"], UNCHANGED <<op, told>>
      PROVE  Moves(c)
  <2>1. call' = [call EXCEPT ![c] = Steps(call[c], "review")]
    BY <1>3 DEF Inv, Steps
  <2>2. Steps(call[c], "review") \in Invocations /\ Sound(Steps(call[c], "review"), op, text)
    BY <1>0, StageIsSound DEF Unreviewed
  <2> QED
    BY <1>0, <1>3, <2>1, <2>2, GoesOnAlone
<1> QED
  BY <1>1, <1>2, <1>3 DEF EnterWait

\* The evaluation comes back with an outcome.
LEMMA ReviewedMoves ==
    ASSUME Inv, NEW c \in Calls, call[c].pc \in Unreviewed,
           NEW s \in Outcomes \cup {"grant_missing"}, NEW n \in Nat, Reviewed(c, s, n),
           s = "succeeded" => n = call[c].findings,
           s = "not_requested" => call[c].mode = "deterministic_only",
           UNCHANGED <<asked, policy, text, gen, op, told>>, job' \in Jobs
    PROVE  Moves(c)
<1>0. call[c] \in Invocations /\ Sound(call[c], op, text)
  BY Known
<1>1. PICK r : r = Concludes(call[c], s, n)
  OBVIOUS
<1>2. call' = [call EXCEPT ![c] = r]
  BY <1>1 DEF Reviewed, Concludes, Inv
<1>3. r \in Invocations
  <2>1. "conclude" \in Pinned
    BY DEF Pinned, Concluding
  <2> QED
    BY <2>1, <1>0, <1>1, FormTypes
<1>4. r.pc = "conclude" /\ r.phase = call[c].phase /\ r.mode = call[c].mode
      /\ r.findings = call[c].findings
  BY <1>0, <1>1, FormFields
<1>5. r.status = s /\ r.reviewed = n /\ s # "none"
  BY <1>0, <1>1, FormFields DEF Outcomes
<1>6. Sound(r, op, text)
  BY <1>0, <1>4, <1>5 DEF Sound, Before, Pinned, Unreviewed, Concluding
<1> QED
  BY <1>2, <1>3, <1>6, GoesOnAlone

\* Only the job or the environment changes.
LEMMA StaysMoves ==
    ASSUME Inv, NEW c \in Calls, UNCHANGED <<asked, policy, text, gen, op, told, call>>,
           job' \in Jobs
    PROVE  Moves(c)
<1>1. call[c] \in Invocations /\ Sound(call[c], op, text)
  BY Known
<1>2. call' = [call EXCEPT ![c] = call[c]]
  BY DEF Inv
<1> QED
  BY <1>1, <1>2, GoesOnAlone

LEMMA SkipReviewMoves ==
    ASSUME Inv, NEW c \in Calls, SkipReview(c)
    PROVE  Moves(c)
<1>1. call[c].pc \in Unreviewed /\ UNCHANGED <<asked, policy, text, gen, op, told>>
      /\ job' \in Jobs
  BY DEF SkipReview, Unreviewed, env, Inv
<1>2. PICK s : s = IF call[c].mode = "deterministic_only" THEN "not_requested"
                   ELSE "not_configured"
  OBVIOUS
<1>3. s \in Outcomes \cup {"grant_missing"} /\ s # "succeeded"
      /\ (s = "not_requested" => call[c].mode = "deterministic_only")
  BY <1>2 DEF Outcomes
<1>4. Reviewed(c, s, 0)
  BY <1>2 DEF SkipReview
<1> QED
  BY <1>1, <1>3, <1>4, ReviewedMoves

LEMMA AdmitMoves ==
    ASSUME Inv, NEW c \in Calls, Admit(c)
    PROVE  Moves(c)
<1>1. call[c].pc \in Unreviewed /\ UNCHANGED <<asked, policy, text, gen, op, told>>
      /\ job' \in Jobs
  BY DEF Admit, Unreviewed, env, Inv
<1>2. ASSUME call' = [call EXCEPT ![c].pc = "admitted"] PROVE Moves(c)
  <2>1. call' = [call EXCEPT ![c] = Steps(call[c], "admitted")]
    BY <1>2 DEF Inv, Steps
  <2>2. Steps(call[c], "admitted") \in Invocations
        /\ Sound(Steps(call[c], "admitted"), op, text)
    BY <1>1, Known, StageIsSound DEF Unreviewed
  <2> QED
    BY <1>1, <2>1, <2>2, GoesOnAlone
<1>3. ASSUME Reviewed(c, "grant_missing", 0) PROVE Moves(c)
  BY <1>1, <1>3, ReviewedMoves
<1>4. ASSUME Reviewed(c, "failed", 0) PROVE Moves(c)
  BY <1>1, <1>4, ReviewedMoves DEF Outcomes
<1> QED
  BY <1>2, <1>3, <1>4 DEF Admit

LEMMA EnqueueReviewMoves ==
    ASSUME Inv, NEW c \in Calls, EnqueueReview(c)
    PROVE  Moves(c)
<1>1. call[c].pc \in Unreviewed /\ UNCHANGED <<asked, policy, text, gen, op, told>>
  BY DEF EnqueueReview, Unreviewed, env
<1>2. ASSUME job' = [state |-> "open", findings |-> call[c].findings], UNCHANGED call
      PROVE  Moves(c)
  <2>1. job' \in Jobs
    BY <1>2 DEF Inv, Jobs, Invocations
  <2> QED
    BY <1>1, <1>2, <2>1, StaysMoves
<1>3. ASSUME Reviewed(c, "failed", 0), UNCHANGED job PROVE Moves(c)
  <2>1. job' \in Jobs
    BY <1>3 DEF Inv
  <2> QED
    BY <1>1, <1>3, <2>1, ReviewedMoves DEF Outcomes
<1> QED
  BY <1>2, <1>3 DEF EnqueueReview

LEMMA UseReviewMoves ==
    ASSUME Inv, NEW c \in Calls, UseReview(c)
    PROVE  Moves(c)
<1>1. call[c].pc \in Unreviewed /\ UNCHANGED <<asked, policy, text, gen, op, told>>
      /\ job \in Jobs
  BY DEF UseReview, Unreviewed, env, Inv
<1>2. ASSUME Reviewed(c, "failed", 0), job' \in Jobs PROVE Moves(c)
  BY <1>1, <1>2, ReviewedMoves DEF Outcomes
<1>3. ASSUME job.findings = call[c].findings, Reviewed(c, "succeeded", job.findings),
             UNCHANGED job
      PROVE  Moves(c)
  <2>1. job.findings \in Nat /\ job' \in Jobs
    BY <1>1, <1>3 DEF Jobs
  <2> QED
    BY <1>1, <1>3, <2>1, ReviewedMoves DEF Outcomes
<1>4. ASSUME job' = [job EXCEPT !.state = "responded"], UNCHANGED call PROVE Moves(c)
  <2>1. job' \in Jobs
    BY <1>1, <1>4 DEF Jobs
  <2> QED
    BY <1>1, <1>4, <2>1, StaysMoves
<1>5. ASSUME job' = [job EXCEPT !.state = IF Holds(c) THEN "failed" ELSE @]
      PROVE  job' \in Jobs
  BY <1>1, <1>5 DEF Jobs
<1> QED
  BY <1>1, <1>2, <1>3, <1>4, <1>5 DEF UseReview

LEMMA AwaitDisclosureMoves ==
    ASSUME Inv, NEW c \in Calls, AwaitDisclosure(c)
    PROVE  Moves(c)
BY Results0, AnswersAlone DEF AwaitDisclosure, env

LEMMA SuspendMoves ==
    ASSUME Inv, NEW c \in Calls, Suspend(c)
    PROVE  Moves(c)
<1>0. op \in Rows(gen, text) /\ RowOK(op, text) /\ UNCHANGED <<asked, policy, text, gen, job>>
  BY Known DEF Suspend, env
<1>1. ASSUME Holds(c), op' = [op EXCEPT !.live = FALSE],
             Tell(c, "awaiting_human", NoResult)
      PROVE  Moves(c)
  <2>1. op' \in Rows(gen, text)
    BY <1>0, <1>1 DEF Rows
  <2>2. RowOK(op', text) /\ Advances(op, op')
    BY <1>0, <1>1 DEF Rows, RowOK, Advances, Holds
  <2> QED
    BY <1>0, <1>1, <2>1, <2>2, Results0, Answers
<1>2. ASSUME Pending(c) PROVE Moves(c)
  BY <1>0, <1>2, PendingMoves
<1> QED
  BY <1>1, <1>2 DEF Suspend

LEMMA FinalizeMoves ==
    ASSUME Inv, NEW c \in Calls, Finalize(c)
    PROVE  Moves(c)
<1>0. call[c] \in Invocations /\ Sound(call[c], op, text) /\ op \in Rows(gen, text)
      /\ RowOK(op, text) /\ job' \in Jobs /\ UNCHANGED <<asked, policy, text, gen, job>>
  BY Known DEF Finalize, env
<1>a. call[c].pc = "conclude" /\ call[c].status # "grant_missing"
  BY DEF Finalize
<1>1. ASSUME call' = [call EXCEPT ![c].pc = "commit"], UNCHANGED <<op, told>>,
             call[c].status \in Outcomes
      PROVE  Moves(c)
  <2>1. PICK r : r = Steps(call[c], "commit")
    OBVIOUS
  <2>2. call' = [call EXCEPT ![c] = r]
    BY <2>1, <1>1 DEF Inv, Steps
  <2>3. r \in Invocations
    BY <2>1, <1>0, FormTypes DEF Pinned, Concluding
  <2>4. r.pc = "commit" /\ r.phase = call[c].phase /\ r.mode = call[c].mode
        /\ r.status = call[c].status /\ r.findings = call[c].findings
        /\ r.reviewed = call[c].reviewed
    BY <2>1, <1>0, FormFields
  <2>5. Sound(r, op, text)
    BY <2>4, <1>0, <1>a, <1>1 DEF Sound, Before, Pinned, Unreviewed, Concluding
  <2> QED
    BY <1>0, <1>1, <2>2, <2>3, <2>5, GoesOnAlone
<1>2. ASSUME Holds(c), op.phase \in {"semantic_wait", "local_ready"},
             op' = [op EXCEPT !.phase = "ready_to_finalize"],
             call' = [call EXCEPT ![c].pc = "commit", ![c].phase = "ready_to_finalize"],
             UNCHANGED told, call[c].status \in Outcomes
      PROVE  Moves(c)
  <2>1. op' \in Rows(gen, text) /\ RowOK(op', text) /\ Advances(op, op')
        /\ op'.phase = "ready_to_finalize"
    BY <1>0, <1>2, PhaseAdvances DEF Holds
  <2>2. Sound(call[c], op', text)
    BY <2>1, <1>0, SoundKept
  <2>3. PICK r : r = StepsIn(call[c], "commit", "ready_to_finalize")
    OBVIOUS
  <2>4. call' = [call EXCEPT ![c] = r]
    BY <2>3, <1>2 DEF Inv, StepsIn
  <2>5. r \in Invocations
    BY <2>3, <1>0, FormTypes DEF Pinned, Concluding, OpPhases
  <2>6. r.pc = "commit" /\ r.mode = call[c].mode /\ r.status = call[c].status
        /\ r.findings = call[c].findings /\ r.reviewed = call[c].reviewed
    BY <2>3, <1>0, FormFields
  <2>7. Sound(r, op', text)
    BY <2>1, <2>2, <2>6, <1>a, <1>2 DEF Sound, Before, Pinned, Unreviewed, Concluding
  <2> QED
    BY <1>0, <1>2, <2>1, <2>4, <2>5, <2>7, GoesOn
<1>3. ASSUME Pending(c) PROVE Moves(c)
  BY <1>0, <1>3, PendingMoves
<1>4. call[c].status \in Outcomes
  BY <1>0, <1>a DEF Sound, Invocations, Concluding
<1> QED
  BY <1>1, <1>2, <1>3, <1>4 DEF Finalize

\* The verdict of an invocation that reached the commit may be recorded.
LEMMA VerdictIsHonest ==
    ASSUME Inv, NEW c \in Calls, call[c].pc = "commit"
    PROVE  /\ Verdict(c) \in Results /\ Honest(Verdict(c), op.mode)
           /\ op.text = text => Verdict(c).findings = op.findings
<1>0. call[c] \in Invocations /\ Sound(call[c], op, text)
  BY Known
<1>1. call[c].status \in Outcomes /\ op.mode = call[c].mode
  BY <1>0 DEF Sound, Before
<1>2. Completeness(call[c].mode, call[c].status)
          \in {"complete", "coverage_incomplete", "required_incomplete"}
  BY DEF Completeness
<1>3. Verdict(c) \in Results
  BY <1>0, <1>1, <1>2 DEF Verdict, Results, Invocations, Outcomes
<1>4. Completeness(call[c].mode, call[c].status) = "complete"
          => call[c].status \in {"not_requested", "succeeded"}
  BY DEF Completeness
<1>5. Honest(Verdict(c), op.mode)
  BY <1>0, <1>1, <1>4 DEF Verdict, Honest, Sound
<1>6. op.text = text => Verdict(c).findings = op.findings
  BY <1>0 DEF Verdict, Sound, Pinned, Concluding
<1> QED
  BY <1>3, <1>5, <1>6

LEMMA CommitMoves ==
    ASSUME Inv, NEW c \in Calls, Commit(c)
    PROVE  Moves(c)
<1>0. op \in Rows(gen, text) /\ RowOK(op, text) /\ UNCHANGED <<asked, policy, text, gen, job>>
  BY Known DEF Commit, env
<1>1. ASSUME Holds(c),
             op' = [op EXCEPT !.state = "complete", !.phase = "terminal", !.live = FALSE,
                              !.result = Verdict(c)],
             Tell(c, "result", Verdict(c))
      PROVE  Moves(c)
  <2>1. PICK v \in Results : v = Verdict(c) /\ Honest(v, op.mode)
                             /\ (op.text = text => v.findings = op.findings)
    BY VerdictIsHonest DEF Commit
  <2>2. op' \in Rows(gen, text)
    BY <2>1, <1>0, <1>1 DEF Rows, OpPhases
  <2>3. op'.state = "complete" /\ op'.phase = "terminal" /\ op'.live = FALSE
        /\ op'.result = v /\ op'.mode = op.mode /\ op'.text = op.text
        /\ op'.findings = op.findings
    BY <2>1, <1>0, <1>1 DEF Rows
  <2>4. op.state = "pending"
    BY <1>1 DEF Holds
  <2>5. RowOK(op', text)
    BY <2>1, <2>3 DEF RowOK
  <2>6. Advances(op, op')
    BY <2>3, <2>4 DEF Advances
  <2>7. Tell(c, "result", v)
    BY <2>1, <1>1
  <2> QED
    BY <1>0, <2>2, <2>3, <2>4, <2>5, <2>6, <2>7, Answers
<1>2. ASSUME Pending(c) PROVE Moves(c)
  BY <1>0, <1>2, PendingMoves
<1> QED
  BY <1>1, <1>2 DEF Commit

LEMMA DefectMoves ==
    ASSUME Inv, NEW c \in Calls, Defect(c)
    PROVE  Moves(c)
BY FailCheckMoves DEF Defect, Errors, env

LEMMA StepMoves ==
    ASSUME Inv, NEW c \in Calls, Step(c)
    PROVE  Moves(c)
BY FreezeMoves, LocalMoves, PublishLocalMoves, ReloadMoves, EnterWaitMoves, SkipReviewMoves,
   AdmitMoves, EnqueueReviewMoves, UseReviewMoves, SuspendMoves, FinalizeMoves, CommitMoves
   DEF Step

LEMMA LeaseExpiresMoves ==
    ASSUME Inv, LeaseExpires, NEW c \in Calls
    PROVE  Moves(c)
<1>0. call[c] \in Invocations /\ Sound(call[c], op, text) /\ op \in Rows(gen, text)
      /\ RowOK(op, text) /\ job' \in Jobs /\ op.live /\ op' = [op EXCEPT !.live = FALSE]
      /\ UNCHANGED <<asked, policy, text, gen, told, call>>
  BY Known DEF LeaseExpires, env
<1>1. op' \in Rows(gen, text)
  BY <1>0 DEF Rows
<1>2. RowOK(op', text) /\ Advances(op, op')
  BY <1>0 DEF Rows, RowOK, Advances
<1>3. call' = [call EXCEPT ![c] = call[c]]
  BY <1>0 DEF Inv
<1>4. Sound(call[c], op', text)
  BY <1>0, <1>2, SoundKept
<1> QED
  BY <1>0, <1>1, <1>2, <1>3, <1>4, GoesOn

LEMMA ChangeGrantMoves ==
    ASSUME Inv, ChangeGrant, NEW c \in Calls
    PROVE  Moves(c)
BY StaysMoves DEF ChangeGrant, Inv

\* A restart forgets the invocations.  Newer wording only frees the result
\* from what a checkpoint pinned: the row's wording is never newer.
LEMMA RestartKeepsInv ==
    ASSUME Inv, Restart
    PROVE  Inv'
<1>0. op \in Rows(gen, text) /\ RowOK(op, text) /\ text \in Nat /\ gen \in Nat
  BY DEF Inv, Env
<1>1. gen' = gen + 1 /\ text' \in {text, text + 1} /\ UNCHANGED <<asked, op, job, told>>
      /\ policy' \in Policies /\ call' = [c \in Calls |-> Idle]
  BY DEF Restart
<1>2. Env'
  BY <1>0, <1>1, PipelineAssumption DEF Inv, Env
<1>3. op' \in Rows(gen', text')
  <2>1. 0..gen \subseteq 0..gen' /\ 0..text \subseteq 0..text'
    BY <1>0, <1>1
  <2> QED
    BY <2>1, <1>0, <1>1 DEF Rows
<1>4. RowOK(op', text')
  <2>1. op.text = text' => text' = text
    BY <1>0, <1>1 DEF Rows
  <2> QED
    BY <2>1, <1>0, <1>1 DEF RowOK
<1>5. call' \in [Calls -> Invocations] /\ \A c \in Calls : Sound(call'[c], op', text')
  BY <1>1, IdleIsSound
<1>6. ToldTrue(told', op') /\ job' \in Jobs
  BY <1>1 DEF Inv
<1>7. (Rows(gen, text))' = Rows(gen', text') /\ Jobs' = Jobs /\ Invocations' = Invocations
  BY DEF Rows, Jobs, Invocations
<1>8. RowOK(op, text)' /\ ToldTrue(told, op)'
  BY <1>4, <1>6 DEF RowOK, ToldTrue, Honest
<1>9. ASSUME NEW d \in Calls PROVE Sound(call[d], op, text)'
  BY <1>5
<1> QED
  BY <1>2, <1>3, <1>5, <1>6, <1>7, <1>8, <1>9 DEF Inv

-----------------------------------------------------------------------------
(* The theorems.                                                           *)

LEMMA InvInit == Init => Inv
<1> SUFFICES ASSUME Init PROVE Inv
  OBVIOUS
<1>1. Env
  BY PipelineAssumption DEF Init, Env, AllModes
<1>2. op \in Rows(gen, text)
  BY Results0 DEF Init, NoOp, Rows, OpPhases, AllModes, Errors
<1>3. RowOK(op, text)
  BY DEF Init, NoOp, RowOK
<1>4. job \in Jobs
  BY DEF Init, Jobs
<1>5. call \in [Calls -> Invocations] /\ \A c \in Calls : Sound(call[c], op, text)
  BY IdleIsSound DEF Init
<1>6. ToldTrue(told, op)
  BY FS_EmptySet DEF Init, ToldTrue
<1> QED
  BY <1>1, <1>2, <1>3, <1>4, <1>5, <1>6 DEF Inv

\* A step either restarts the service or moves one invocation.
LEMMA StepForms ==
    ASSUME Inv, Next
    PROVE  Restart \/ \E c \in Calls : Moves(c)
<1>1. PICK c0 \in Calls : TRUE
  BY PipelineAssumption
<1>2. ASSUME NEW c \in Calls, Enter(c) \/ Step(c) \/ AwaitDisclosure(c) \/ Defect(c)
      PROVE  Moves(c)
  BY <1>2, EnterMoves, StepMoves, AwaitDisclosureMoves, DefectMoves
<1>3. CASE LeaseExpires
  BY <1>1, <1>3, LeaseExpiresMoves
<1>4. CASE ChangeGrant
  BY <1>1, <1>4, ChangeGrantMoves
<1> QED
  BY <1>2, <1>3, <1>4 DEF Next

LEMMA InvStep == Inv /\ [Next]_vars => Inv'
<1> SUFFICES ASSUME Inv, [Next]_vars PROVE Inv'
  OBVIOUS
<1>1. CASE Next
  BY <1>1, StepForms, MovesKeepInv, RestartKeepsInv
<1>2. CASE UNCHANGED vars
  <2>1. PICK c \in Calls : TRUE
    BY PipelineAssumption
  <2>2. UNCHANGED <<asked, policy, text, gen, op, told, call>> /\ job' \in Jobs
    BY <1>2 DEF vars, env, Inv
  <2> QED
    BY <2>1, <2>2, StaysMoves, MovesKeepInv
<1> QED
  BY <1>1, <1>2

\* Every reachable state of the pipeline is one the invocations can rely on.
THEOREM Invariance == Spec => []Inv
BY InvInit, InvStep, PTL DEF Spec

\* The types of the row, the job and the answers; a row is closed exactly in
\* its terminal phase and leased only while it is open.
THEOREM Types == Spec => []TypeOK
<1>1. Inv => TypeOK
  BY DEF Inv, TypeOK, Rows, RowOK, Jobs, ToldTrue, OpPhases, AllModes, Errors
<1> QED
  BY <1>1, Invariance, PTL

\* Whatever is switched, upgraded or restarted between the replays of a check,
\* the commit records complete only for a review that succeeded on exactly the
\* findings beside it.
THEOREM CompleteIsReviewed == Spec => []CompleteWasReviewed
<1>1. Inv => CompleteWasReviewed
  BY DEF Inv, CompleteWasReviewed, RowOK, Honest
<1> QED
  BY <1>1, Invariance, PTL

\* Every result that any invocation answers is the one the row records.
THEOREM ResultIsUnique == Spec => []OneResult
<1>1. Inv => OneResult
  BY DEF Inv, OneResult, ToldTrue
<1> QED
  BY <1>1, Invariance, PTL

\* The findings a checkpoint pinned are committed unless an upgrade superseded
\* their wording, however often the check was reclaimed in between.
THEOREM PinnedAreCommitted == Spec => []PinnedFindingsCommitted
<1>1. Inv => PinnedFindingsCommitted
  BY DEF Inv, PinnedFindingsCommitted, RowOK
<1> QED
  BY <1>1, Invariance, PTL

\* A closed check stays as it was closed: no late invocation, however stale its
\* lease, changes the recorded result or error.
THEOREM ClosedStaysClosed ==
    Spec => [][op.state \in {"complete", "failed"} => op' = op]_vars
<1>1. Inv /\ [Next]_vars => [op.state \in {"complete", "failed"} => op' = op]_vars
  <2> SUFFICES ASSUME Inv, Next, op.state \in {"complete", "failed"} PROVE op' = op
    BY DEF vars
  <2>1. CASE Restart
    BY <2>1 DEF Restart
  <2>2. ASSUME NEW c \in Calls, Moves(c) PROVE op' = op
    BY <2>2 DEF Moves, Advances
  <2> QED
    BY <2>1, <2>2, StepForms
<1> QED
  BY <1>1, Invariance, PTL DEF Spec
=============================================================================
