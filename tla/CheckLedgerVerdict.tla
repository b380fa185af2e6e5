-------------------------- MODULE CheckLedgerVerdict --------------------------
(***************************************************************************)
(* One verdict per check, durable before anyone is told: the verdict-side  *)
(* invariants of CheckLedger, for every value of the constants.            *)
(* The argument: classify every step by what it does to the rows, the log  *)
(* and the answers (StepShape), then show each shape keeps VerdictInv.     *)
(***************************************************************************)
EXTENDS CheckLedgerProofs

(* A transient reservation belongs to an invocation that is staging that    *)
(* very case, and its request has no row yet.                               *)
ReservationInv ==
  \A k \in Keys : reserved[k].holder # None =>
    /\ calls[reserved[k].holder].pc = "staging"
    /\ calls[reserved[k].holder].key = k
    /\ ops[k].state = "absent"

(* A row has a verdict exactly when it is closed, and SQLite agrees.        *)
RowInv ==
  \A k \in Keys :
    /\ ops[k].state \in {"absent", "pending"} <=> ops[k].verdict = "none"
    /\ disk[k].state = ops[k].state
    /\ disk[k].verdict = ops[k].verdict

(* Nobody was ever answered without a verdict.                              *)
ToldInv == \A k \in Keys : "none" \notin told[k]

VerdictInv ==
  /\ TypeOK
  /\ ReservationInv
  /\ RowInv
  /\ CrashLosesOnlyLeaseMotion
  /\ ToldInv
  /\ AnsweredVerdictIsDurable
  /\ RecordedOnce

-----------------------------------------------------------------------------
(* The shapes of a step.                                                   *)

\* A pending row moves its lease, phase or job.
Moved(k, r) ==
  /\ ops[k].state = "pending" /\ r.state = "pending"
  /\ r.expected = ops[k].expected /\ r.frontier = ops[k].frontier
  /\ r.verdict = ops[k].verdict /\ ops[k].lease <= r.lease
  /\ SetOp(k, r)

MoveShape ==
  \E k \in Keys, r \in Operation :
    /\ Moved(k, r)
    /\ UNCHANGED disk \/ Persist
    /\ UNCHANGED <<log, told>>

FreezeShape ==
  \E k \in Keys, r \in Operation :
    /\ ops[k].state = "absent" /\ r.state = "pending" /\ r.verdict = "none"
    /\ SetOp(k, r) /\ Persist
    /\ UNCHANGED <<log, told>>

Closed(k, v) ==
  \E r \in Operation :
    /\ ops[k].state = "pending" /\ r.state = "complete" /\ r.verdict = v
    /\ SetOp(k, r) /\ Persist /\ Tell(k, v)

CommitShape ==
  \E k \in Keys :
    /\ Closed(k, "committed")
    /\ log' = Append(log, [op |-> k, since |-> ops[k].expected])

RefuseShape ==
  \E k \in Keys, v \in {"frontier_changed", "failed"} :
    Closed(k, v) /\ UNCHANGED log

AnswerShape ==
  \E k \in Keys :
    /\ ops[k].state \in {"complete", "quarantined"}
    /\ Tell(k, ops[k].verdict)
    /\ UNCHANGED disk \/ disk' = ops
    /\ UNCHANGED <<log, ops>>

SyncShape == disk' = ops /\ UNCHANGED <<log, ops, told>>

RestartShape ==
  \E bad \in SUBSET Keys :
    /\ \A k \in bad : disk[k].state = "pending"
    /\ ops' = [k \in Keys |-> IF k \in bad THEN Quarantined(disk[k]) ELSE disk[k]]
    /\ Persist
    /\ UNCHANGED <<log, told>>

PublishShape ==
  /\ \E a \in Appends, e \in Nat :
       ~Published(a) /\ log' = Append(log, [op |-> a, since |-> e])
  /\ UNCHANGED <<ops, disk, told>>

QuietShape == UNCHANGED <<log, ops, disk, told>>

(* Moving a pending row's lease or phase with Replaced is such a move.      *)
LEMMA ReplacedMoves ==
  ASSUME NEW k \in Keys, ops[k] \in Operation, ops[k].state = "pending",
         NEW phase \in Phases, NEW t \in Nat, gen \in Nat,
         SetOp(k, Replaced(ops[k], phase, t))
  PROVE  \E r \in Operation : Moved(k, r)
<1> DEFINE o == ops[k]
           r == Replaced(o, phase, t)
<1>1. o \in Operation /\ o.lease \in Nat
  BY DEF Operation
<1> HIDE DEF o
<1>2. r \in Operation /\ r.state = o.state /\ r.expected = o.expected
  BY <1>1, ReplacedRow
<1>3. r.frontier = o.frontier /\ r.verdict = o.verdict
  BY <1>1 DEF Replaced, Operation
<1>4. r.lease = o.lease + 1
  BY <1>1, ReplacedRow
<1> HIDE DEF r
<1>5. Moved(k, r)
  BY <1>1, <1>2, <1>3, <1>4 DEF Moved, r, o
<1> QED
  BY <1>2, <1>5

(* Every way of working under a lease, or of taking one over, moves one     *)
(* pending row and leaves its case, its verdict and the log alone.          *)
LEMMA MoveSteps ==
  ASSUME TypeOK, NEW c \in Calls,
         \/ ReclaimAdmit(c)
         \/ \E next \in Phases : AdvancePhase(c, next)
         \/ EnqueueJob(c) \/ CloseJob(c) \/ SuspendForGrant(c)
         \/ RenewLeases(c)
  PROVE  \E r \in Operation :
           /\ calls[c].key \in Keys /\ calls[c].pc \in {"reclaiming", "held"}
           /\ Moved(calls[c].key, r)
           /\ UNCHANGED disk \/ Persist
           /\ UNCHANGED <<log, told, reserved>>
<1> DEFINE k == calls[c].key
<1>0. /\ clock \in Nat /\ gen \in Nat
      /\ LeaseTicks \in Nat /\ ExecutionTicks \in Nat
      /\ calls[c].pc # "idle" => k \in Keys /\ ops[k] \in Operation
  BY BoundsAssumption DEF TypeOK
<1>2. CASE ReclaimAdmit(c)
  <2> DEFINE t == clock + LeaseTicks
  <2>1. k \in Keys /\ ops[k] \in Operation /\ ops[k].phase \in Phases /\ t \in Nat
    BY <1>0, <1>2 DEF ReclaimAdmit, Operation
  <2>2. SetOp(k, Replaced(ops[k], ops[k].phase, t)) /\ ops[k].state = "pending"
    BY <1>2 DEF ReclaimAdmit
  <2> HIDE DEF t
  <2>3. \E r \in Operation : Moved(k, r)
    BY <1>0, <2>1, <2>2, ReplacedMoves
  <2> QED
    BY <1>2, <2>1, <2>3 DEF ReclaimAdmit
<1>3. CASE \E next \in Phases : AdvancePhase(c, next)
  <2>1. PICK next \in Phases : AdvancePhase(c, next)
    BY <1>3
  <2> DEFINE t == clock + LeaseTicks
  <2>2. calls[c].pc = "held"
    BY <2>1 DEF AdvancePhase
  <2>5. t \in Nat
    BY <1>0
  <2>3. SetOp(k, Replaced(ops[k], next, t)) /\ ops[k].state = "pending"
    BY <2>1 DEF AdvancePhase, LeaseValid
  <2> HIDE DEF t
  <2>4. \E r \in Operation : Moved(k, r)
    BY <1>0, <2>2, <2>3, <2>5, ReplacedMoves
  <2> QED
    BY <1>0, <2>1, <2>2, <2>4 DEF AdvancePhase
<1>4. CASE RenewLeases(c)
  <2> DEFINE t == RenewedExpiry(ops[k])
  <2>1. k \in Keys /\ ops[k] \in Operation /\ ops[k].phase \in Phases
    BY <1>0, <1>4 DEF RenewLeases, Operation
  <2>2. t \in Nat
    BY <1>0, <2>1 DEF RenewedExpiry, Operation
  <2>3. SetOp(k, Replaced(ops[k], ops[k].phase, t)) /\ ops[k].state = "pending"
    BY <1>4 DEF RenewLeases, LeaseValid
  <2> HIDE DEF t
  <2>4. \E r \in Operation : Moved(k, r)
    BY <1>0, <2>1, <2>2, <2>3, ReplacedMoves
  <2> QED
    BY <1>4, <2>1, <2>4 DEF RenewLeases
<1>5. CASE EnqueueJob(c)
  <2> DEFINE r1 == [ops[k] EXCEPT !.job = "live"]
             r == [r1 EXCEPT !.bound = clock + ExecutionTicks]
  <2>1. k \in Keys /\ ops[k] \in Operation /\ ops[k].lease \in Nat
        /\ ops[k].state = "pending"
    BY <1>0, <1>5 DEF EnqueueJob, LeaseValid, Operation
  <2>2. /\ r1 \in Operation /\ r1.state = ops[k].state
        /\ r1.lease = ops[k].lease
        /\ r1.expected = ops[k].expected /\ r1.frontier = ops[k].frontier
        /\ r1.verdict = ops[k].verdict
    BY <2>1 DEF Operation
  <2>3. SetOp(k, r)
    BY <1>5 DEF EnqueueJob
  <2> HIDE DEF r1
  <2>4. /\ r \in Operation /\ r.state = r1.state /\ r.lease = r1.lease
        /\ r.expected = r1.expected /\ r.frontier = r1.frontier
        /\ r.verdict = r1.verdict
    BY <1>0, <2>2 DEF Operation
  <2> HIDE DEF r
  <2>5. Moved(k, r)
    BY <2>1, <2>2, <2>3, <2>4 DEF Moved
  <2> QED
    BY <1>5, <2>1, <2>4, <2>5 DEF EnqueueJob
<1>6. CASE CloseJob(c)
  <2> DEFINE r == [ops[k] EXCEPT !.job = "done"]
  <2>1. k \in Keys /\ ops[k] \in Operation /\ ops[k].lease \in Nat
        /\ ops[k].state = "pending"
    BY <1>0, <1>6 DEF CloseJob, LeaseValid, Operation
  <2>2. /\ r \in Operation /\ r.state = ops[k].state
        /\ r.lease = ops[k].lease
        /\ r.expected = ops[k].expected /\ r.frontier = ops[k].frontier
        /\ r.verdict = ops[k].verdict
    BY <2>1 DEF Operation
  <2>3. SetOp(k, r)
    BY <1>6 DEF CloseJob
  <2> HIDE DEF r
  <2>4. Moved(k, r)
    BY <2>1, <2>2, <2>3 DEF Moved
  <2> QED
    BY <1>6, <2>1, <2>2, <2>4 DEF CloseJob
<1>7. CASE SuspendForGrant(c)
  <2> DEFINE r1 == [ops[k] EXCEPT !.expires = clock]
             r == [r1 EXCEPT !.suspended = TRUE]
  <2>1. k \in Keys /\ ops[k] \in Operation /\ ops[k].lease \in Nat
        /\ ops[k].state = "pending"
    BY <1>0, <1>7 DEF SuspendForGrant, LeaseValid, Operation
  <2>2. /\ r1 \in Operation /\ r1.state = ops[k].state
        /\ r1.lease = ops[k].lease
        /\ r1.expected = ops[k].expected /\ r1.frontier = ops[k].frontier
        /\ r1.verdict = ops[k].verdict
    BY <1>0, <2>1 DEF Operation
  <2>3. SetOp(k, r)
    BY <1>7 DEF SuspendForGrant
  <2> HIDE DEF r1
  <2>4. /\ r \in Operation /\ r.state = r1.state /\ r.lease = r1.lease
        /\ r.expected = r1.expected /\ r.frontier = r1.frontier
        /\ r.verdict = r1.verdict
    BY <2>2 DEF Operation
  <2> HIDE DEF r
  <2>5. Moved(k, r)
    BY <2>1, <2>2, <2>3, <2>4 DEF Moved
  <2> QED
    BY <1>7, <2>1, <2>4, <2>5 DEF SuspendForGrant
<1> QED
  BY <1>2, <1>3, <1>4, <1>5, <1>6, <1>7

(* Commit, conflict and failure close the caller's own pending row.         *)
LEMMA CloseSteps ==
  ASSUME TypeOK, NEW c \in Calls, NEW v \in Verdicts,
         calls[c].pc = "held", LeaseValid(c),
         SetOp(calls[c].key, Terminal(ops[calls[c].key], v)),
         Persist, Tell(calls[c].key, v)
  PROVE  calls[c].key \in Keys /\ Closed(calls[c].key, v)
<1> DEFINE k == calls[c].key
           r == Terminal(ops[k], v)
<1>1. k \in Keys /\ ops[k] \in Operation /\ ops[k].state = "pending"
  BY DEF TypeOK, LeaseValid
<1>2. r \in Operation /\ r.state = "complete" /\ r.verdict = v
  BY <1>1, TerminalRow
<1> HIDE DEF r
<1>3. SetOp(k, r)
  BY DEF r
<1> QED
  BY <1>1, <1>2, <1>3 DEF Closed

-----------------------------------------------------------------------------
(* Reservations.                                                           *)

(* Only FreezeBegin takes a reservation, for an idle call and a request     *)
(* without a row; the row appears in the step that releases it.             *)
LEMMA ReservationStep ==
  ASSUME TypeOK, ReservationInv, [Next]_vars
  PROVE  ReservationInv'
<1>1. ASSUME NEW c \in Calls, CallStep(c) PROVE ReservationInv'
  <2>0. /\ \A k \in Keys : reserved[k] \in Reservation
        /\ ops \in [Keys -> Operation]
        /\ NoReservation.holder = None
    BY DEF TypeOK, NoReservation
  <2>1. CASE \E k \in Keys, e \in 0..Frontier : FreezeBegin(c, k, e)
    BY <2>1 DEF FreezeBegin, ReservationInv, SetCall, Entered, TypeOK
  <2>2. CASE \E k \in Keys : ReclaimBegin(c, k)
    BY <2>2 DEF ReclaimBegin, ReservationInv, SetCall, TypeOK
  <2>3. CASE FreezeAdmit(c)
    BY <2>0, <2>3 DEF FreezeAdmit, ReservationInv, SetCall, SetOp,
                      ReleaseReservation, TypeOK
  <2>4. CASE Leave(c)
    BY <2>0, <2>4 DEF Leave, ReservationInv, SetCall, ReleaseReservation, TypeOK
  <2>5. CASE \/ ReclaimAdmit(c)
             \/ \E next \in Phases : AdvancePhase(c, next)
             \/ EnqueueJob(c) \/ CloseJob(c) \/ SuspendForGrant(c)
             \/ RenewLeases(c)
    <3>1. /\ calls[c].pc # "staging" /\ UNCHANGED reserved
          /\ \A k \in Keys : ops[k].state = "absent" => ops'[k].state = "absent"
      BY <2>0, <2>5, MoveSteps DEF Moved, SetOp
    <3>2. \E x : SetCall(c, x)
      BY <2>5 DEF ReclaimAdmit, AdvancePhase, EnqueueJob, CloseJob,
                  SuspendForGrant, RenewLeases
    <3> QED
      BY <2>0, <3>1, <3>2 DEF ReservationInv, SetCall, TypeOK
  <2>6. CASE \/ Sync(c) \/ CommitReplays(c) \/ CommitRefused(c)
             \/ FailSettled(c)
    <3>1. calls[c].pc # "staging" /\ UNCHANGED <<reserved, ops>>
      BY <2>6 DEF Sync, CommitReplays, CommitRefused, FailSettled
    <3>2. \E x : SetCall(c, x)
      BY <2>6 DEF Sync, CommitReplays, CommitRefused, FailSettled
    <3> QED
      BY <2>0, <3>1, <3>2 DEF ReservationInv, SetCall, TypeOK
  <2>7. CASE CommitCheck(c) \/ CommitConflict(c) \/ FailCheck(c)
    <3>1. /\ calls[c].pc = "held" /\ UNCHANGED reserved
          /\ ops[calls[c].key].state = "pending"
          /\ SetCall(c, IdleCall)
          /\ \E r : SetOp(calls[c].key, r)
      BY <2>7 DEF CommitCheck, CommitConflict, FailCheck, LeaseValid
    <3> QED
      BY <2>0, <3>1 DEF ReservationInv, SetCall, SetOp, TypeOK
  <2> QED
    BY <1>1, <2>1, <2>2, <2>3, <2>4, <2>5, <2>6, <2>7 DEF CallStep
<1>2. CASE AppendStep
  <2>1. UNCHANGED <<reserved, calls, ops>>
    BY <1>2 DEF AppendStep, AppendWork, AppendImport, AppendObserved,
                AppendReceipt
  <2> QED
    BY <2>1 DEF ReservationInv
<1>3. CASE RowStep
  <2>1. UNCHANGED <<reserved, calls, ops>>
    BY <1>3 DEF RowStep, RecordTicket, DeleteTicket, TombstoneTicket,
                ReserveImport, CloseImport, ReplayVerdict
  <2> QED
    BY <2>1 DEF ReservationInv
<1>4. CASE Tick \/ UNCHANGED vars
  BY <1>4 DEF Tick, vars, ReservationInv
<1>5. CASE \E bad \in SUBSET Keys : Restart(bad)
  BY <1>5 DEF Restart, ReservationInv, NoReservation
<1> QED
  BY <1>1, <1>2, <1>3, <1>4, <1>5 DEF Next

-----------------------------------------------------------------------------
(* The classification of steps.                                            *)

(* Every step of the ledger has one of the shapes.                          *)
LEMMA StepShape ==
  ASSUME TypeOK, ReservationInv, [Next]_vars
  PROVE  \/ QuietShape \/ PublishShape \/ MoveShape \/ FreezeShape
         \/ CommitShape \/ RefuseShape \/ AnswerShape \/ SyncShape
         \/ RestartShape
<1>1. ASSUME NEW c \in Calls, CallStep(c)
      PROVE  \/ QuietShape \/ MoveShape \/ FreezeShape \/ CommitShape
             \/ RefuseShape \/ AnswerShape \/ SyncShape
  <2>1. CASE \/ \E k \in Keys, e \in 0..Frontier : FreezeBegin(c, k, e)
             \/ \E k \in Keys : ReclaimBegin(c, k)
             \/ Leave(c)
    BY <2>1 DEF FreezeBegin, ReclaimBegin, Leave, QuietShape
  <2>2. CASE FreezeAdmit(c)
    <3> DEFINE k == calls[c].key
               r == Frozen(calls[c].expected, calls[c].base)
    <3>1. k \in Keys /\ ops[k].state = "absent"
      BY <2>2, KeysAssumption DEF FreezeAdmit, TypeOK, ReservationInv
    <3>2. clock \in Nat /\ gen \in Nat /\ clock + LeaseTicks \in Nat
      BY BoundsAssumption DEF TypeOK
    <3>3. calls[c].expected \in Nat /\ calls[c].base \in Nat
      BY DEF TypeOK, Call
    <3>4. r \in Operation /\ r.state = "pending" /\ r.verdict = "none"
      BY <3>2, <3>3 DEF Frozen, Operation, Phases, Verdicts
    <3>5. SetOp(k, r) /\ Persist /\ UNCHANGED <<log, told>>
      BY <2>2 DEF FreezeAdmit
    <3> HIDE DEF r
    <3> QED
      BY <3>1, <3>4, <3>5 DEF FreezeShape
  <2>3. CASE \/ ReclaimAdmit(c)
             \/ \E next \in Phases : AdvancePhase(c, next)
             \/ EnqueueJob(c) \/ CloseJob(c) \/ SuspendForGrant(c)
             \/ RenewLeases(c)
    BY <2>3, MoveSteps DEF MoveShape
  <2>4. CASE Sync(c) \/ CommitRefused(c) \/ FailSettled(c)
    BY <2>4 DEF Sync, CommitRefused, FailSettled, SyncShape
  <2>5. CASE CommitReplays(c)
    BY <2>5 DEF CommitReplays, AnswerShape, TypeOK
  <2>6. CASE CommitCheck(c)
    <3>1. calls[c].key \in Keys /\ Closed(calls[c].key, "committed")
      BY <2>6, CloseSteps DEF CommitCheck, Verdicts
    <3> QED
      BY <2>6, <3>1 DEF CommitCheck, CommitShape
  <2>7. CASE CommitConflict(c)
    <3>1. calls[c].key \in Keys /\ Closed(calls[c].key, "frontier_changed")
      BY <2>7, CloseSteps DEF CommitConflict, Verdicts
    <3> QED
      BY <2>7, <3>1 DEF CommitConflict, RefuseShape
  <2>8. CASE FailCheck(c)
    <3>1. calls[c].key \in Keys /\ Closed(calls[c].key, "failed")
      BY <2>8, CloseSteps DEF FailCheck, Verdicts
    <3> QED
      BY <2>8, <3>1 DEF FailCheck, RefuseShape
  <2> QED
    BY <1>1, <2>1, <2>2, <2>3, <2>4, <2>5, <2>6, <2>7, <2>8 DEF CallStep
<1>2. CASE AppendStep
  <2>0. Frontier \in Nat
    BY DEF Frontier, TypeOK
  <2>1. CASE \E a \in Works : AppendWork(a)
    BY <2>0, <2>1 DEF AppendWork, Appends, PublishShape
  <2>2. CASE \E a \in Imports : AppendImport(a)
    BY <2>0, <2>2 DEF AppendImport, Appends, PublishShape
  <2>3. CASE \E a \in Observed : AppendObserved(a)
    BY <2>0, <2>3 DEF AppendObserved, Appends, PublishShape
  <2>4. CASE \E a \in Receipts, e \in 0..Frontier : AppendReceipt(a, e)
    BY <2>0, <2>4 DEF AppendReceipt, Appends, PublishShape
  <2> QED
    BY <1>2, <2>1, <2>2, <2>3, <2>4 DEF AppendStep
<1>3. CASE RowStep
  BY <1>3 DEF RowStep, RecordTicket, DeleteTicket, TombstoneTicket,
              ReserveImport, CloseImport, ReplayVerdict, QuietShape, AnswerShape
<1>4. CASE Tick \/ UNCHANGED vars
  BY <1>4 DEF Tick, vars, QuietShape
<1>5. CASE \E bad \in SUBSET Keys : Restart(bad)
  BY <1>5 DEF Restart, RestartShape
<1> QED
  BY <1>1, <1>2, <1>3, <1>4, <1>5 DEF Next

-----------------------------------------------------------------------------
(* Each shape keeps VerdictInv.                                            *)

(* The rows: verdicts, and how far SQLite may lag behind the memory.        *)
LEMMA RowsStep ==
  ASSUME TypeOK, TypeOK', ReservationInv, RowInv, CrashLosesOnlyLeaseMotion,
         [Next]_vars
  PROVE  RowInv' /\ CrashLosesOnlyLeaseMotion'
<1>0. /\ ops \in [Keys -> Operation] /\ disk \in [Keys -> Operation]
      /\ \A k \in Keys : ops[k].lease \in Nat /\ disk[k].lease \in Nat
  BY DEF TypeOK, Operation
<1>1. CASE QuietShape \/ PublishShape \/ AnswerShape \/ SyncShape
  <2>1. UNCHANGED ops /\ (UNCHANGED disk \/ disk' = ops)
    BY <1>1 DEF QuietShape, PublishShape, AnswerShape, SyncShape
  <2> QED
    BY <1>0, <2>1 DEF RowInv, CrashLosesOnlyLeaseMotion
<1>2. CASE MoveShape
  <2>1. PICK k \in Keys, r \in Operation :
          Moved(k, r) /\ (UNCHANGED disk \/ Persist)
    BY <1>2 DEF MoveShape
  <2>2. r.lease \in Nat
    BY DEF Operation
  <2>3. CASE Persist
    BY <1>0, <2>1, <2>3 DEF Moved, SetOp, Persist, RowInv,
                            CrashLosesOnlyLeaseMotion
  <2>4. CASE UNCHANGED disk
    BY <1>0, <2>1, <2>2, <2>4 DEF Moved, SetOp, RowInv,
                                  CrashLosesOnlyLeaseMotion
  <2> QED
    BY <2>1, <2>3, <2>4
<1>3. CASE FreezeShape
  BY <1>0, <1>3 DEF FreezeShape, SetOp, Persist, RowInv,
                    CrashLosesOnlyLeaseMotion
<1>4. CASE CommitShape
  BY <1>0, <1>4 DEF CommitShape, Closed, SetOp, Persist, RowInv,
                    CrashLosesOnlyLeaseMotion
<1>5. CASE RefuseShape
  BY <1>0, <1>5 DEF RefuseShape, Closed, SetOp, Persist, RowInv,
                    CrashLosesOnlyLeaseMotion
<1>6. CASE RestartShape
  <2>1. PICK bad \in SUBSET Keys :
          /\ ops' = [k \in Keys |->
                       IF k \in bad THEN Quarantined(disk[k]) ELSE disk[k]]
          /\ disk' = ops'
    BY <1>6 DEF RestartShape, Persist
  <2>2. \A k \in Keys : /\ Quarantined(disk[k]).state = "quarantined"
                        /\ Quarantined(disk[k]).verdict = "quarantined"
    BY <1>0, QuarantinedRow
  <2> QED
    BY <2>1, <2>2 DEF RowInv, CrashLosesOnlyLeaseMotion
<1> QED
  BY <1>1, <1>2, <1>3, <1>4, <1>5, <1>6, StepShape

(* What a durable verdict may become: only an undecided request changes.    *)
LEMMA VerdictsStable ==
  ASSUME TypeOK, ReservationInv, RowInv, [Next]_vars
  PROVE  \A k \in Keys : disk[k].verdict # "none" =>
           disk'[k].verdict = disk[k].verdict
<1>0. ops \in [Keys -> Operation] /\ disk \in [Keys -> Operation]
  BY DEF TypeOK
<1>1. CASE QuietShape \/ PublishShape \/ AnswerShape \/ SyncShape
  BY <1>1 DEF QuietShape, PublishShape, AnswerShape, SyncShape, RowInv
<1>2. CASE MoveShape
  BY <1>0, <1>2 DEF MoveShape, Moved, SetOp, Persist, RowInv
<1>3. CASE FreezeShape
  BY <1>0, <1>3 DEF FreezeShape, SetOp, Persist, RowInv
<1>4. CASE CommitShape \/ RefuseShape
  BY <1>0, <1>4 DEF CommitShape, RefuseShape, Closed, SetOp, Persist, RowInv
<1>5. CASE RestartShape
  BY <1>0, <1>5 DEF RestartShape, Persist, RowInv
<1> QED
  BY <1>1, <1>2, <1>3, <1>4, <1>5, StepShape

(* The answers.                                                             *)
LEMMA ToldStep ==
  ASSUME TypeOK, TypeOK', ReservationInv, RowInv, ToldInv,
         AnsweredVerdictIsDurable, [Next]_vars
  PROVE  ToldInv' /\ AnsweredVerdictIsDurable'
<1>0. /\ ops \in [Keys -> Operation] /\ disk \in [Keys -> Operation]
      /\ told \in [Keys -> SUBSET Verdicts]
  BY DEF TypeOK
<1>1. \A k \in Keys : \A v \in told[k] : v # "none" /\ disk'[k].verdict = v
  BY VerdictsStable DEF ToldInv, AnsweredVerdictIsDurable
<1>2. CASE UNCHANGED told
  BY <1>1, <1>2 DEF ToldInv, AnsweredVerdictIsDurable
<1>3. ASSUME NEW k \in Keys, NEW v \in Verdicts, v # "none",
             disk'[k].verdict = v, Tell(k, v)
      PROVE  ToldInv' /\ AnsweredVerdictIsDurable'
  <2>1. \A q \in Keys : \A w \in told'[q] : w \in told[q] \/ (q = k /\ w = v)
    BY <1>0, <1>3 DEF Tell
  <2> QED
    BY <1>1, <1>3, <2>1 DEF ToldInv, AnsweredVerdictIsDurable
<1>4. CASE CommitShape
  BY <1>0, <1>3, <1>4 DEF CommitShape, Closed, SetOp, Persist, Verdicts
<1>5. CASE RefuseShape
  BY <1>0, <1>3, <1>5 DEF RefuseShape, Closed, SetOp, Persist, Verdicts
<1>6. CASE AnswerShape
  <2>1. PICK k \in Keys :
          /\ ops[k].state \in {"complete", "quarantined"}
          /\ Tell(k, ops[k].verdict)
          /\ UNCHANGED disk \/ disk' = ops
    BY <1>6 DEF AnswerShape
  <2>2. ops[k].verdict # "none" /\ disk'[k].verdict = ops[k].verdict
    BY <2>1 DEF RowInv
  <2>3. ops[k].verdict \in Verdicts
    BY <1>0 DEF Operation
  <2> QED
    BY <1>3, <2>1, <2>2, <2>3
<1> QED
  BY <1>2, <1>4, <1>5, <1>6, StepShape
  DEF QuietShape, PublishShape, MoveShape, FreezeShape, SyncShape, RestartShape

(* Appending an operation that is not on the log yet.                       *)
LEMMA AppendFresh ==
  ASSUME TypeOK, NEW x \in Record, ~Published(x.op), log' = Append(log, x),
         \A i, j \in 1..Len(log) : log[i].op = log[j].op => i = j
  PROVE  /\ \A i, j \in 1..Len(log') : log'[i].op = log'[j].op => i = j
         /\ \A a : Published(a)' <=> Published(a) \/ a = x.op
<1>1. /\ Len(log) \in Nat /\ Len(log') = Len(log) + 1
      /\ log'[Len(log) + 1] = x
      /\ \A i \in 1..Len(log) : log'[i] = log[i]
  BY DEF TypeOK
<1>2. \A i \in 1..Len(log') : i = Len(log) + 1 \/ i \in 1..Len(log)
  BY <1>1
<1>3. \A i \in 1..Len(log) : log[i].op # x.op
  BY DEF Published
<1>4. \A i, j \in 1..Len(log') : log'[i].op = log'[j].op => i = j
  BY <1>1, <1>2, <1>3
<1>5. ASSUME NEW a PROVE Published(a)' <=> Published(a) \/ a = x.op
  <2>1. Len(log) + 1 \in 1..Len(log') /\ 1..Len(log) \subseteq 1..Len(log')
    BY <1>1
  <2> QED
    BY <1>1, <1>2, <2>1 DEF Published
<1> QED
  BY <1>4, <1>5

(* The log.                                                                 *)
LEMMA RecordedStep ==
  ASSUME TypeOK, TypeOK', ReservationInv, RowInv, RecordedOnce, [Next]_vars
  PROVE  RecordedOnce'
<1>0. /\ ops \in [Keys -> Operation] /\ disk \in [Keys -> Operation]
      /\ log \in Seq(Record)
  BY DEF TypeOK
<1>1. ASSUME UNCHANGED log,
             \A k \in Keys : disk'[k].verdict = "committed" <=>
                               disk[k].verdict = "committed"
      PROVE  RecordedOnce'
  BY <1>1 DEF RecordedOnce, Published
<1>2. CASE QuietShape \/ AnswerShape \/ SyncShape
  BY <1>1, <1>2 DEF QuietShape, AnswerShape, SyncShape, RowInv
<1>3. CASE PublishShape
  <2>1. PICK a \in Appends, e \in Nat :
          ~Published(a) /\ log' = Append(log, [op |-> a, since |-> e])
    BY <1>3 DEF PublishShape
  <2>2. [op |-> a, since |-> e] \in Record
    BY DEF Record
  <2>3. a \notin Keys
    BY KeysAssumption
  <2> QED
    BY <1>3, <2>1, <2>2, <2>3, AppendFresh DEF RecordedOnce, PublishShape
<1>4. CASE MoveShape
  BY <1>0, <1>1, <1>4 DEF MoveShape, Moved, SetOp, Persist, RowInv
<1>5. CASE FreezeShape
  BY <1>0, <1>1, <1>5 DEF FreezeShape, SetOp, Persist, RowInv
<1>6. CASE CommitShape
  <2>1. PICK k \in Keys :
          /\ Closed(k, "committed")
          /\ log' = Append(log, [op |-> k, since |-> ops[k].expected])
    BY <1>6 DEF CommitShape
  <2>2. /\ disk[k].verdict = "none" /\ disk'[k].verdict = "committed"
        /\ \A q \in Keys \ {k} : disk'[q].verdict = disk[q].verdict
    BY <1>0, <2>1 DEF Closed, SetOp, Persist, RowInv
  <2>3. [op |-> k, since |-> ops[k].expected] \in Record
    BY <1>0 DEF Record, Operation
  <2>4. ~Published(k)
    BY <2>2 DEF RecordedOnce
  <2> QED
    BY <2>1, <2>2, <2>3, <2>4, AppendFresh DEF RecordedOnce
<1>7. CASE RefuseShape
  BY <1>0, <1>1, <1>7 DEF RefuseShape, Closed, SetOp, Persist, RowInv
<1>8. CASE RestartShape
  <2>1. \A k \in Keys : Quarantined(disk[k]).verdict = "quarantined"
    BY <1>0, QuarantinedRow
  <2> QED
    BY <1>0, <1>1, <1>8, <2>1 DEF RestartShape, Persist, RowInv
<1> QED
  BY <1>2, <1>3, <1>4, <1>5, <1>6, <1>7, <1>8, StepShape

-----------------------------------------------------------------------------
(* The theorems.                                                           *)

(* The inductive invariant holds in every reachable state.                  *)
THEOREM VerdictInvariant == Spec => []VerdictInv
<1>1. Init => VerdictInv
  <2> SUFFICES ASSUME Init PROVE VerdictInv
    OBVIOUS
  <2>1. TypeOK
    BY InitType
  <2>2. ReservationInv
    BY DEF Init, ReservationInv, NoReservation
  <2>3. RowInv /\ CrashLosesOnlyLeaseMotion
    BY DEF Init, RowInv, CrashLosesOnlyLeaseMotion, AbsentOperation
  <2>4. ToldInv /\ AnsweredVerdictIsDurable
    BY DEF Init, ToldInv, AnsweredVerdictIsDurable
  <2>5. RecordedOnce
    BY DEF Init, RecordedOnce, Published, AbsentOperation
  <2> QED
    BY <2>1, <2>2, <2>3, <2>4, <2>5 DEF VerdictInv
<1>2. TypeOK /\ TypeOK' /\ VerdictInv /\ [Next]_vars => VerdictInv'
  BY ReservationStep, RowsStep, ToldStep, RecordedStep DEF VerdictInv
<1> QED
  BY <1>1, <1>2, TypeCorrect, PTL DEF Spec

(* A verdict somebody was answered is the verdict on disk, forever: no      *)
(* crash, replay or concurrent invocation changes it.                       *)
THEOREM AnswersAreDurable == Spec => []AnsweredVerdictIsDurable
<1>1. VerdictInv => AnsweredVerdictIsDurable
  BY DEF VerdictInv
<1> QED
  BY <1>1, VerdictInvariant, PTL

(* Every operation is on the log at most once, and a check exactly when its *)
(* row is durably committed.                                                *)
THEOREM RecordsAreUnique == Spec => []RecordedOnce
<1>1. VerdictInv => RecordedOnce
  BY DEF VerdictInv
<1> QED
  BY <1>1, VerdictInvariant, PTL

(* A crash loses lease motion of pending rows and nothing else.             *)
THEOREM CrashSafety == Spec => []CrashLosesOnlyLeaseMotion
<1>1. VerdictInv => CrashLosesOnlyLeaseMotion
  BY DEF VerdictInv
<1> QED
  BY <1>1, VerdictInvariant, PTL

-----------------------------------------------------------------------------
(* Refinement of OneVerdict.                                               *)

Verdict == [k \in Keys |-> disk[k].verdict]

Records == [i \in 1..Len(log) |-> log[i].op]

(* Appending to the log appends to the abstract records.                    *)
LEMMA AppendRecords ==
  ASSUME TypeOK, NEW x \in Record, log' = Append(log, x)
  PROVE  Records' = Append(Records, x.op)
<1>1. /\ Len(log) \in Nat /\ Len(log') = Len(log) + 1
      /\ log'[Len(log) + 1] = x
      /\ \A i \in 1..Len(log) : log'[i] = log[i]
  BY DEF TypeOK
<1>2. ASSUME NEW i \in 1..Len(log) PROVE log[i].op \in Keys \cup Appends
  <2>1. log[i] \in Record
    BY DEF TypeOK
  <2> QED
    BY <2>1 DEF Record
<1>3. Records \in Seq(Keys \cup Appends) /\ Len(Records) = Len(log)
  BY <1>1, <1>2 DEF Records
<1>4. x.op \in Keys \cup Appends
  BY DEF Record
<1> DEFINE s == Append(Records, x.op)
<1>5. /\ s \in Seq(Keys \cup Appends) /\ Len(s) = Len(log) + 1
      /\ \A i \in 1..Len(log) : s[i] = Records[i]
      /\ s[Len(log) + 1] = x.op
  BY <1>1, <1>3, <1>4
<1> HIDE DEF s
<1>6. s = [i \in 1..(Len(log) + 1) |-> s[i]]
  BY <1>1, <1>5
<1>7. \A i \in 1..(Len(log) + 1) : s[i] = log'[i].op
  BY <1>1, <1>5 DEF Records
<1>8. Records' = [i \in 1..(Len(log) + 1) |-> log'[i].op]
  BY <1>1 DEF Records
<1>9. Records' = s
  BY <1>6, <1>7, <1>8
<1> QED
  BY <1>9 DEF s

(* An initial state of the ledger is an initial state of the promise.       *)
LEMMA InitRefines == Init => Promise!Init
<1> SUFFICES ASSUME Init PROVE Promise!Init
  OBVIOUS
<1>1. Verdict = [k \in Keys |-> "none"]
  BY DEF Init, Verdict, AbsentOperation
<1>2. Records = <<>>
  BY DEF Init, Records
<1> QED
  BY <1>1, <1>2 DEF Promise!Init, Init, Verdict, Records

(* Each shape of step is a step of the promise or invisible to callers.     *)
LEMMA StepRefines ==
  ASSUME VerdictInv, TypeOK', [Next]_vars
  PROVE  [Promise!Next]_(Promise!vars)
<1>0. /\ ops \in [Keys -> Operation] /\ disk \in [Keys -> Operation]
      /\ disk' \in [Keys -> Operation]
      /\ TypeOK /\ ReservationInv /\ RowInv
      /\ RecordedOnce
  BY DEF VerdictInv, TypeOK
<1>1. ASSUME Verdict' = Verdict, Records' = Records, UNCHANGED told
      PROVE  UNCHANGED Promise!vars
  BY <1>1 DEF Promise!vars, Verdict, Records
<1>2. ASSUME UNCHANGED log PROVE Records' = Records
  BY <1>2 DEF Records
<1>3. CASE QuietShape \/ SyncShape
  <2>1. Verdict' = Verdict
    BY <1>0, <1>3 DEF QuietShape, SyncShape, Verdict, RowInv
  <2> QED
    BY <1>1, <1>2, <1>3, <2>1 DEF QuietShape, SyncShape
<1>4. CASE MoveShape \/ FreezeShape
  <2>1. \A k \in Keys : disk'[k].verdict = disk[k].verdict
    BY <1>0, <1>4 DEF MoveShape, FreezeShape, Moved, SetOp, Persist, RowInv
  <2>2. Verdict' = Verdict
    BY <2>1 DEF Verdict
  <2> QED
    BY <1>1, <1>2, <1>4, <2>2 DEF MoveShape, FreezeShape
<1>5. CASE PublishShape
  <2>1. PICK a \in Appends, e \in Nat :
          ~Published(a) /\ log' = Append(log, [op |-> a, since |-> e])
    BY <1>5 DEF PublishShape
  <2> DEFINE x == [op |-> a, since |-> e]
  <2>2. x \in Record /\ x.op = a /\ log' = Append(log, x)
    BY <2>1 DEF Record
  <2> HIDE DEF x
  <2>3. Records' = Append(Records, a)
    BY <1>0, <2>2, AppendRecords
  <2>4. Verdict' = Verdict /\ UNCHANGED told
    BY <1>5 DEF PublishShape, Verdict
  <2>5. Len(Records) = Len(log) /\ \A i \in 1..Len(log) : Records[i] # a
    BY <1>0, <2>1 DEF Records, Published, TypeOK
  <2>6. Promise!Publish(a)
    BY <2>3, <2>4, <2>5 DEF Promise!Publish, Verdict, Records
  <2> QED
    BY <2>6 DEF Promise!Next
<1>6. ASSUME NEW k \in Keys, NEW v \in Verdicts, Closed(k, v)
      PROVE  /\ Verdict[k] = "none"
             /\ Verdict' = [Verdict EXCEPT ![k] = v]
             /\ told' = [told EXCEPT ![k] = @ \cup {v}]
  <2>1. /\ disk[k].verdict = "none" /\ disk'[k].verdict = v
        /\ \A q \in Keys \ {k} : disk'[q].verdict = disk[q].verdict
    BY <1>0, <1>6 DEF Closed, SetOp, Persist, RowInv
  <2> QED
    BY <1>6, <2>1 DEF Verdict, Closed, Tell
<1>7. CASE CommitShape
  <2>1. PICK k \in Keys :
          /\ Closed(k, "committed")
          /\ log' = Append(log, [op |-> k, since |-> ops[k].expected])
    BY <1>7 DEF CommitShape
  <2> DEFINE x == [op |-> k, since |-> ops[k].expected]
  <2>2. x \in Record /\ x.op = k /\ log' = Append(log, x)
    BY <1>0, <2>1 DEF Record, Operation
  <2> HIDE DEF x
  <2>3. Records' = Append(Records, k)
    BY <1>0, <2>2, AppendRecords
  <2>4. Promise!Commit(k)
    BY <1>6, <2>1, <2>3 DEF Promise!Commit, Verdict, Records, Verdicts
  <2> QED
    BY <2>4 DEF Promise!Next
<1>8. CASE RefuseShape
  <2>1. PICK k \in Keys, v \in {"frontier_changed", "failed"} :
          Closed(k, v) /\ UNCHANGED log
    BY <1>8 DEF RefuseShape
  <2>2. Promise!Refuse(k, v)
    BY <1>2, <1>6, <2>1 DEF Promise!Refuse, Verdict, Records, Verdicts
  <2> QED
    BY <2>2 DEF Promise!Next, Promise!Errors
<1>9. CASE AnswerShape
  <2>1. PICK k \in Keys :
          /\ ops[k].state \in {"complete", "quarantined"}
          /\ Tell(k, ops[k].verdict)
          /\ UNCHANGED disk \/ disk' = ops
          /\ UNCHANGED log
    BY <1>9 DEF AnswerShape
  <2>2. Verdict[k] # "none" /\ Verdict[k] = ops[k].verdict
    BY <1>0, <2>1 DEF RowInv, Verdict
  <2>3. Verdict' = Verdict /\ Records' = Records
    BY <1>0, <1>2, <2>1 DEF Verdict, RowInv
  <2>4. Promise!Answer(k)
    BY <2>1, <2>2, <2>3 DEF Promise!Answer, Verdict, Records, Tell
  <2> QED
    BY <2>4 DEF Promise!Next
<1>10. CASE RestartShape
  <2>1. PICK bad \in SUBSET Keys :
          /\ \A k \in bad : disk[k].state = "pending"
          /\ ops' = [k \in Keys |->
                       IF k \in bad THEN Quarantined(disk[k]) ELSE disk[k]]
          /\ disk' = ops'
          /\ UNCHANGED <<log, told>>
    BY <1>10 DEF RestartShape, Persist
  <2>2. \A k \in Keys : Quarantined(disk[k]).verdict = "quarantined"
    BY <1>0, QuarantinedRow
  <2>3. \A k \in bad : Verdict[k] = "none"
    BY <1>0, <2>1 DEF RowInv, Verdict
  <2>4. Verdict' = [k \in Keys |->
                     IF k \in bad THEN "quarantined" ELSE Verdict[k]]
    BY <1>0, <2>1, <2>2 DEF Verdict
  <2>5. Promise!GiveUp(bad)
    BY <1>2, <2>1, <2>3, <2>4 DEF Promise!GiveUp, Verdict, Records
  <2> QED
    BY <2>5 DEF Promise!Next
<1> QED
  BY <1>0, <1>3, <1>4, <1>5, <1>7, <1>8, <1>9, <1>10, StepShape

(* The ledger implements OneVerdict: whatever leases, crashes and           *)
(* concurrent invocations do, callers see one verdict per request and one   *)
(* record per publication.                                                  *)
THEOREM LedgerKeepsPromise == Spec => KeepsPromise
<1>1. Init => Promise!Init
  BY InitRefines
<1>2. VerdictInv /\ TypeOK' /\ [Next]_vars => [Promise!Next]_(Promise!vars)
  BY StepRefines
<1> QED
  BY <1>1, <1>2, VerdictInvariant, TypeCorrect, PTL
  DEF Spec, KeepsPromise, Promise!Spec
=============================================================================
