-------------------------- MODULE CheckLedgerProofs --------------------------
(***************************************************************************)
(* Proofs about CheckLedger, for every set of requests, invocations and    *)
(* publications and every lease, reservation and bound.                    *)
(***************************************************************************)
EXTENDS CheckLedger, TLAPS

-----------------------------------------------------------------------------
(* The helpers that build rows and calls.                                  *)

(* A row whose lease moved is a row, and only its phase and lease moved.    *)
LEMMA ReplacedRow ==
  ASSUME NEW r \in Operation, NEW phase \in Phases, NEW t \in Nat, gen \in Nat
  PROVE  LET q == Replaced(r, phase, t) IN
         /\ q \in Operation /\ q.lease \in Nat
         /\ q.state = r.state /\ q.phase = phase /\ q.expected = r.expected
         /\ q.frontier = r.frontier /\ q.owner = gen /\ q.lease = r.lease + 1
         /\ q.expires = t /\ q.suspended = FALSE /\ q.verdict = r.verdict
<1> DEFINE r1 == [r EXCEPT !.phase = phase]
           r2 == [r1 EXCEPT !.owner = gen]
           r3 == [r2 EXCEPT !.lease = @ + 1]
           r4 == [r3 EXCEPT !.expires = t]
           r5 == [r4 EXCEPT !.suspended = FALSE]
<1>0. Replaced(r, phase, t) = r5
  BY DEF Replaced
<1>1. r1 \in Operation
  BY DEF Operation
<1> HIDE DEF r1
<1>2. r2 \in Operation
  BY <1>1 DEF Operation
<1> HIDE DEF r2
<1>3. r3 \in Operation
  BY <1>2 DEF Operation
<1> HIDE DEF r3
<1>4. r4 \in Operation
  BY <1>3 DEF Operation
<1> HIDE DEF r4
<1>5. r5 \in Operation
  BY <1>4 DEF Operation
<1>6. Replaced(r, phase, t) \in Operation
  BY <1>0, <1>5
<1> QED
  BY <1>6 DEF Replaced, Operation

(* A closed row is a row, and keeps the case it was frozen from.            *)
LEMMA TerminalRow ==
  ASSUME NEW r \in Operation, NEW v \in Verdicts
  PROVE  LET q == Terminal(r, v) IN
         /\ q \in Operation
         /\ q.state = "complete" /\ q.verdict = v /\ q.owner = 0
         /\ q.expires = 0
<1> DEFINE r1 == [r EXCEPT !.state = "complete"]
           r2 == [r1 EXCEPT !.phase = "terminal"]
           r3 == [r2 EXCEPT !.owner = 0]
           r4 == [r3 EXCEPT !.lease = 0]
           r5 == [r4 EXCEPT !.expires = 0]
           r6 == [r5 EXCEPT !.verdict = v]
<1>0. Terminal(r, v) = r6
  BY DEF Terminal
<1>1. r1 \in Operation
  BY DEF Operation
<1> HIDE DEF r1
<1>2. r2 \in Operation
  BY <1>1 DEF Operation, Phases
<1> HIDE DEF r2
<1>3. r3 \in Operation
  BY <1>2 DEF Operation
<1> HIDE DEF r3
<1>4. r4 \in Operation
  BY <1>3 DEF Operation
<1> HIDE DEF r4
<1>5. r5 \in Operation
  BY <1>4 DEF Operation
<1> HIDE DEF r5
<1>6. r6 \in Operation
  BY <1>5 DEF Operation
<1>7. Terminal(r, v) \in Operation
  BY <1>0, <1>6
<1> QED
  BY <1>7 DEF Terminal, Operation

(* A quarantined row is a row.                                              *)
LEMMA QuarantinedRow ==
  ASSUME NEW r \in Operation
  PROVE  LET q == Quarantined(r) IN
         /\ q \in Operation
         /\ q.state = "quarantined" /\ q.verdict = "quarantined" /\ q.owner = 0
         /\ q.expires = 0 /\ q.suspended = FALSE
<1> DEFINE r1 == [r EXCEPT !.state = "quarantined"]
           r2 == [r1 EXCEPT !.phase = "terminal"]
           r3 == [r2 EXCEPT !.owner = 0]
           r4 == [r3 EXCEPT !.lease = 0]
           r5 == [r4 EXCEPT !.expires = 0]
           r6 == [r5 EXCEPT !.suspended = FALSE]
           r7 == [r6 EXCEPT !.verdict = "quarantined"]
<1>0. Quarantined(r) = r7
  BY DEF Quarantined
<1>1. r1 \in Operation
  BY DEF Operation
<1> HIDE DEF r1
<1>2. r2 \in Operation
  BY <1>1 DEF Operation, Phases
<1> HIDE DEF r2
<1>3. r3 \in Operation
  BY <1>2 DEF Operation
<1> HIDE DEF r3
<1>4. r4 \in Operation
  BY <1>3 DEF Operation
<1> HIDE DEF r4
<1>5. r5 \in Operation
  BY <1>4 DEF Operation
<1> HIDE DEF r5
<1>6. r6 \in Operation
  BY <1>5 DEF Operation
<1> HIDE DEF r6
<1>7. r7 \in Operation
  BY <1>6 DEF Operation, Verdicts
<1>8. Quarantined(r) \in Operation
  BY <1>0, <1>7
<1> QED
  BY <1>8 DEF Quarantined, Operation

(* A call whose lease moved is a call.                                      *)
LEMMA MovedCall ==
  ASSUME NEW x \in Call, NEW p \in {"held", "syncing"}, NEW phase \in Phases,
         NEW n \in Nat
  PROVE  [x EXCEPT !.pc = p, !.phase = phase, !.lease = n] \in Call
<1> DEFINE x1 == [x EXCEPT !.pc = p]
           x2 == [x1 EXCEPT !.phase = phase]
           x3 == [x2 EXCEPT !.lease = n]
<1>1. x1 \in Call
  BY DEF Call
<1> HIDE DEF x1
<1>2. x2 \in Call
  BY <1>1 DEF Call
<1> HIDE DEF x2
<1>3. x3 \in Call
  BY <1>2 DEF Call
<1> QED
  BY <1>3 DEF x1, x2

(* The initial values are a row, a reservation and a call.                  *)
LEMMA InitialValues ==
  /\ AbsentOperation \in Operation
  /\ NoReservation \in Reservation
  /\ IdleCall \in Call
BY DEF AbsentOperation, NoReservation, IdleCall, Operation, Reservation, Call,
       Phases, Verdicts

-----------------------------------------------------------------------------
(* Type correctness.                                                       *)

(* CheckLedger starts in a state of its types.                              *)
LEMMA InitType == Init => TypeOK
<1> SUFFICES ASSUME Init PROVE TypeOK
  OBVIOUS
<1>1. IdleCall.pc = "idle"
  BY DEF IdleCall
<1> QED
  BY <1>1, InitialValues DEF Init, TypeOK, Verdicts

(* A publication keeps the types.                                           *)
LEMMA AppendType == TypeOK /\ AppendStep => TypeOK'
<1> SUFFICES ASSUME TypeOK, AppendStep PROVE TypeOK'
  OBVIOUS
<1>0. Frontier \in Nat
  BY DEF Frontier, TypeOK
<1>1. \E a \in Appends, e \in Nat :
        /\ log' = Append(log, [op |-> a, since |-> e])
        /\ UNCHANGED <<ops, disk, reserved, calls, tickets, imports, clock,
                       gen, told, acquired>>
  <2>1. CASE \E a \in Works : AppendWork(a)
    BY <1>0, <2>1 DEF AppendWork, Appends
  <2>2. CASE \E a \in Imports : AppendImport(a)
    BY <1>0, <2>2 DEF AppendImport, Appends
  <2>3. CASE \E a \in Observed : AppendObserved(a)
    BY <1>0, <2>3 DEF AppendObserved, Appends
  <2>4. CASE \E a \in Receipts, e \in 0..Frontier : AppendReceipt(a, e)
    BY <1>0, <2>4 DEF AppendReceipt, Appends
  <2> QED
    BY <2>1, <2>2, <2>3, <2>4 DEF AppendStep
<1>2. PICK a \in Appends, e \in Nat :
        /\ log' = Append(log, [op |-> a, since |-> e])
        /\ UNCHANGED <<ops, disk, reserved, calls, tickets, imports, clock,
                       gen, told, acquired>>
  BY <1>1
<1>3. [op |-> a, since |-> e] \in Record
  BY DEF Record
<1>4. log' \in Seq(Record)
  BY <1>2, <1>3 DEF TypeOK
<1> QED
  BY <1>2, <1>4 DEF TypeOK

(* A change of a ticket or an import job, or a replayed answer, keeps the   *)
(* types.                                                                   *)
LEMMA RowStepType == TypeOK /\ RowStep => TypeOK'
<1> SUFFICES ASSUME TypeOK, RowStep PROVE TypeOK'
  OBVIOUS
<1>1. CASE \E a \in Captures :
             RecordTicket(a) \/ DeleteTicket(a) \/ TombstoneTicket(a)
  BY <1>1 DEF TypeOK, RecordTicket, DeleteTicket, TombstoneTicket
<1>2. CASE \E s \in Sessions : ReserveImport(s) \/ CloseImport(s)
  BY <1>2 DEF TypeOK, ReserveImport, CloseImport
<1>3. CASE \E k \in Keys : ReplayVerdict(k)
  <2>1. PICK k \in Keys : ReplayVerdict(k)
    BY <1>3
  <2>2. ops[k].verdict \in Verdicts
    BY DEF TypeOK, Operation
  <2>3. told' \in [Keys -> SUBSET Verdicts]
    BY <2>1, <2>2 DEF TypeOK, ReplayVerdict, Tell
  <2> QED
    BY <2>1, <2>3 DEF TypeOK, ReplayVerdict
<1> QED
  BY <1>1, <1>2, <1>3 DEF RowStep

(* Updating one row keeps the types of the rows.                            *)
LEMMA SetOpType ==
  ASSUME TypeOK, NEW k \in Keys, NEW r \in Operation, SetOp(k, r)
  PROVE  ops' \in [Keys -> Operation]
BY DEF TypeOK, SetOp

(* Updating one call keeps the types of the calls.                          *)
LEMMA SetCallType ==
  ASSUME TypeOK, NEW c \in Calls, NEW x \in Call, SetCall(c, x),
         x.pc # "idle" => x.key \in Keys
  PROVE  /\ calls' \in [Calls -> Call]
         /\ \A d \in Calls : calls'[d].pc # "idle" => calls'[d].key \in Keys
BY DEF TypeOK, SetCall

(* A call that ends keeps the types of the calls.                           *)
LEMMA SetIdleType ==
  ASSUME TypeOK, NEW c \in Calls, SetCall(c, IdleCall)
  PROVE  /\ calls' \in [Calls -> Call]
         /\ \A d \in Calls : calls'[d].pc # "idle" => calls'[d].key \in Keys
<1>1. IdleCall.pc = "idle"
  BY DEF IdleCall
<1> QED
  BY <1>1, InitialValues, SetCallType

(* Releasing a reservation keeps the types of the reservations.             *)
LEMMA ReleaseType ==
  ASSUME TypeOK, NEW c \in Calls, ReleaseReservation(c)
  PROVE  reserved' \in [Keys -> Reservation]
BY InitialValues DEF TypeOK, ReleaseReservation

(* An answer keeps the types of the answers.                                *)
LEMMA TellType ==
  ASSUME TypeOK, NEW k \in Keys, NEW v \in Verdicts, Tell(k, v)
  PROVE  told' \in [Keys -> SUBSET Verdicts]
BY DEF TypeOK, Tell

(* A step of an invocation keeps the types.                                 *)
LEMMA CallStepType ==
  ASSUME TypeOK, NEW c \in Calls, CallStep(c)
  PROVE  TypeOK'
<1> DEFINE k == calls[c].key
<1>0. /\ Frontier \in Nat /\ clock \in Nat /\ gen \in Nat
      /\ LeaseTicks \in Nat /\ ReservationTicks \in Nat /\ ExecutionTicks \in Nat
      /\ ops \in [Keys -> Operation] /\ calls[c] \in Call
      /\ calls[c].pc # "idle" => k \in Keys /\ ops[k] \in Operation
  BY BoundsAssumption DEF Frontier, TypeOK
<1>1. CASE \E q \in Keys, e \in 0..Frontier : FreezeBegin(c, q, e)
  <2>1. PICK q \in Keys, e \in 0..Frontier : FreezeBegin(c, q, e)
    BY <1>1
  <2> DEFINE x == Entered("staging", q, e, "none", 0)
  <2>2. x \in Call /\ x.key = q
    BY <1>0 DEF Entered, Call, Phases
  <2>3. SetCall(c, x)
    BY <2>1 DEF FreezeBegin
  <2> HIDE DEF x
  <2>4. [holder |-> c, expires |-> clock + ReservationTicks] \in Reservation
    BY <1>0 DEF Reservation
  <2>5. reserved' \in [Keys -> Reservation]
    BY <2>1, <2>4 DEF FreezeBegin, TypeOK
  <2> QED
    BY <2>1, <2>2, <2>3, <2>5, SetCallType DEF TypeOK, FreezeBegin
<1>2. CASE \E q \in Keys : ReclaimBegin(c, q)
  <2>1. PICK q \in Keys : ReclaimBegin(c, q)
    BY <1>2
  <2> DEFINE x == Entered("reclaiming", q, ops[q].expected, ops[q].phase,
                          ops[q].lease)
  <2>2. ops[q].expected \in Nat /\ ops[q].phase \in Phases /\ ops[q].lease \in Nat
    BY <1>0 DEF Operation
  <2>3. x \in Call /\ x.key = q
    BY <1>0, <2>2 DEF Entered, Call
  <2>4. SetCall(c, x)
    BY <2>1 DEF ReclaimBegin
  <2> HIDE DEF x
  <2> QED
    BY <2>1, <2>3, <2>4, SetCallType DEF TypeOK, ReclaimBegin
<1>3. CASE FreezeAdmit(c)
  <2> DEFINE x == [calls[c] EXCEPT !.pc = "held", !.phase = "reserved",
                                   !.lease = 1]
             r == Frozen(calls[c].expected, calls[c].base)
  <2>1. k \in Keys
    BY <1>0, <1>3 DEF FreezeAdmit
  <2>2. calls[c].expected \in Nat /\ calls[c].base \in Nat
    BY <1>0 DEF Call
  <2>3. r \in Operation
    BY <1>0, <2>2 DEF Frozen, Operation, Phases, Verdicts
  <2>4. x \in Call
    BY <1>0, MovedCall DEF Phases
  <2>5. x.key = k
    BY <1>0 DEF Call
  <2>6. SetOp(k, r) /\ SetCall(c, x)
    BY <1>3 DEF FreezeAdmit
  <2> HIDE DEF r, x
  <2>7. ops' \in [Keys -> Operation] /\ disk' \in [Keys -> Operation]
    BY <1>3, <2>1, <2>3, <2>6, SetOpType DEF FreezeAdmit, Persist
  <2>8. acquired' \in [Keys -> Nat]
    BY <1>0, <1>3 DEF FreezeAdmit, TypeOK
  <2> QED
    BY <1>3, <2>1, <2>4, <2>5, <2>6, <2>7, <2>8, SetCallType, ReleaseType
    DEF TypeOK, FreezeAdmit
<1>4. CASE ReclaimAdmit(c)
  <2> DEFINE t == clock + LeaseTicks
             r == Replaced(ops[k], ops[k].phase, t)
             x == [calls[c] EXCEPT !.pc = "held", !.lease = r.lease]
  <2>1. k \in Keys /\ ops[k].phase \in Phases /\ t \in Nat
    BY <1>0, <1>4 DEF ReclaimAdmit, Operation
  <2> HIDE DEF t
  <2>2. r \in Operation /\ r.lease \in Nat
    BY <1>0, <2>1, ReplacedRow
  <2>3. SetOp(k, r) /\ SetCall(c, x)
    BY <1>4 DEF ReclaimAdmit, t
  <2> HIDE DEF r
  <2>4. x \in Call /\ x.key = k
    BY <1>0, <2>2 DEF Call
  <2> HIDE DEF x
  <2>5. ops' \in [Keys -> Operation] /\ disk' \in [Keys -> Operation]
    BY <1>4, <2>1, <2>2, <2>3, SetOpType DEF ReclaimAdmit, Persist
  <2>6. acquired' \in [Keys -> Nat]
    BY <1>0, <1>4 DEF ReclaimAdmit, TypeOK
  <2> QED
    BY <1>4, <2>1, <2>3, <2>4, <2>5, <2>6, SetCallType DEF TypeOK, ReclaimAdmit
<1>5. CASE Leave(c)
  BY <1>5, SetIdleType, ReleaseType DEF TypeOK, Leave
<1>6. CASE \E next \in Phases : AdvancePhase(c, next)
  <2>1. PICK next \in Phases : AdvancePhase(c, next)
    BY <1>6
  <2> DEFINE t == clock + LeaseTicks
             r == Replaced(ops[k], next, t)
             x == [calls[c] EXCEPT !.pc = "syncing", !.phase = next,
                                   !.lease = r.lease]
  <2>2. k \in Keys /\ t \in Nat
    BY <1>0, <2>1 DEF AdvancePhase
  <2> HIDE DEF t
  <2>3. r \in Operation /\ r.lease \in Nat
    BY <1>0, <2>2, ReplacedRow
  <2>4. SetOp(k, r) /\ SetCall(c, x)
    BY <2>1 DEF AdvancePhase, t
  <2> HIDE DEF r
  <2>5. x \in Call
    BY <1>0, <2>3, MovedCall
  <2>6. x.key = k
    BY <1>0 DEF Call
  <2> HIDE DEF x
  <2> QED
    BY <2>1, <2>2, <2>3, <2>4, <2>5, <2>6, SetOpType, SetCallType
    DEF TypeOK, AdvancePhase
<1>7. ASSUME NEW r \in Operation, NEW p \in {"syncing", "parking"},
             calls[c].pc = "held", SetOp(k, r),
             SetCall(c, [calls[c] EXCEPT !.pc = p]),
             UNCHANGED <<log, disk, reserved, tickets, imports, clock, gen,
                         told, acquired>>
      PROVE  TypeOK'
  <2> DEFINE x == [calls[c] EXCEPT !.pc = p]
  <2>1. x \in Call /\ x.key = k
    BY <1>0 DEF Call
  <2> HIDE DEF x
  <2>2. k \in Keys
    BY <1>0, <1>7
  <2> QED
    BY <1>7, <2>1, <2>2, SetOpType, SetCallType DEF TypeOK, x
<1>8. CASE EnqueueJob(c)
  <2> DEFINE r1 == [ops[k] EXCEPT !.job = "live"]
             r2 == [r1 EXCEPT !.bound = clock + ExecutionTicks]
  <2>1. r1 \in Operation
    BY <1>0, <1>8 DEF EnqueueJob, Operation
  <2> HIDE DEF r1
  <2>2. r2 \in Operation
    BY <1>0, <2>1 DEF Operation
  <2> QED
    BY <1>7, <1>8, <2>2 DEF EnqueueJob, r1
<1>9. CASE CloseJob(c)
  <2>1. [ops[k] EXCEPT !.job = "done"] \in Operation
    BY <1>0, <1>9 DEF CloseJob, Operation
  <2> QED
    BY <1>7, <1>9, <2>1 DEF CloseJob
<1>10. CASE SuspendForGrant(c)
  <2> DEFINE r1 == [ops[k] EXCEPT !.expires = clock]
             r2 == [r1 EXCEPT !.suspended = TRUE]
  <2>1. r1 \in Operation
    BY <1>0, <1>10 DEF SuspendForGrant, Operation
  <2>2. r2 \in Operation
    BY <1>0, <2>1 DEF Operation
  <2> QED
    BY <1>7, <1>10, <2>2 DEF SuspendForGrant
<1>11. CASE Sync(c)
  <2>1. CASE calls[c].pc = "syncing"
    <3> DEFINE x == [calls[c] EXCEPT !.pc = "held"]
    <3>1. x \in Call /\ x.key = k /\ SetCall(c, x)
      BY <1>0, <1>11, <2>1 DEF Call, Sync
    <3> HIDE DEF x
    <3> QED
      BY <1>0, <1>11, <2>1, <3>1, SetCallType DEF TypeOK, Sync
  <2>2. CASE calls[c].pc # "syncing"
    <3>1. SetCall(c, IdleCall)
      BY <1>11, <2>2 DEF Sync
    <3> QED
      BY <1>11, <3>1, SetIdleType DEF TypeOK, Sync
  <2> QED
    BY <2>1, <2>2
<1>12. CASE RenewLeases(c)
  <2> DEFINE t == RenewedExpiry(ops[k])
             r == Replaced(ops[k], ops[k].phase, t)
             x == [calls[c] EXCEPT !.lease = r.lease]
  <2>1. k \in Keys /\ ops[k].phase \in Phases
    BY <1>0, <1>12 DEF RenewLeases, Operation
  <2>2. t \in Nat
    BY <1>0, <2>1 DEF RenewedExpiry, Operation
  <2> HIDE DEF t
  <2>3. r \in Operation /\ r.lease \in Nat
    BY <1>0, <2>1, <2>2, ReplacedRow
  <2>4. SetOp(k, r) /\ SetCall(c, x)
    BY <1>12 DEF RenewLeases, t
  <2> HIDE DEF r
  <2>5. x \in Call /\ x.key = k
    BY <1>0, <2>3 DEF Call
  <2> HIDE DEF x
  <2>6. ops' \in [Keys -> Operation] /\ disk' \in [Keys -> Operation]
    BY <1>12, <2>1, <2>3, <2>4, SetOpType DEF RenewLeases, Persist
  <2> QED
    BY <1>12, <2>1, <2>4, <2>5, <2>6, SetCallType DEF TypeOK, RenewLeases
<1>13. CASE CommitReplays(c)
  <2>1. k \in Keys /\ ops[k].verdict \in Verdicts
    BY <1>0, <1>13 DEF CommitReplays, Operation
  <2> QED
    BY <1>13, <2>1, SetIdleType, TellType DEF TypeOK, CommitReplays
<1>14. ASSUME NEW v \in Verdicts, log' \in Seq(Record), calls[c].pc = "held",
              SetOp(k, Terminal(ops[k], v)), Persist, Tell(k, v),
              SetCall(c, IdleCall),
              UNCHANGED <<reserved, tickets, imports, clock, gen, acquired>>
       PROVE  TypeOK'
  <2>1. k \in Keys /\ Terminal(ops[k], v) \in Operation
    BY <1>0, <1>14, TerminalRow
  <2>2. ops' \in [Keys -> Operation] /\ disk' \in [Keys -> Operation]
    BY <1>14, <2>1, SetOpType DEF Persist
  <2> QED
    BY <1>14, <2>1, <2>2, SetIdleType, TellType DEF TypeOK
<1>15. CASE CommitCheck(c)
  <2>1. [op |-> k, since |-> ops[k].expected] \in Record
    BY <1>0, <1>15 DEF CommitCheck, Record, Operation
  <2>2. log' \in Seq(Record)
    BY <1>15, <2>1 DEF CommitCheck, TypeOK
  <2> QED
    BY <1>14, <1>15, <2>2 DEF CommitCheck, Verdicts
<1>16. CASE CommitConflict(c)
  BY <1>14, <1>16 DEF CommitConflict, Verdicts, TypeOK
<1>17. CASE FailCheck(c)
  BY <1>14, <1>17 DEF FailCheck, Verdicts, TypeOK
<1>18. CASE CommitRefused(c) \/ FailSettled(c)
  BY <1>18, SetIdleType DEF TypeOK, CommitRefused, FailSettled
<1> QED
  BY <1>1, <1>2, <1>3, <1>4, <1>5, <1>6, <1>8, <1>9, <1>10, <1>11, <1>12,
     <1>13, <1>15, <1>16, <1>17, <1>18 DEF CallStep

(* A restart keeps the types.                                               *)
LEMMA RestartType ==
  ASSUME TypeOK, NEW bad \in SUBSET Keys, Restart(bad)
  PROVE  TypeOK'
<1>1. \A k \in Keys : disk[k] \in Operation /\ Quarantined(disk[k]) \in Operation
  BY QuarantinedRow DEF TypeOK
<1>2. ops' \in [Keys -> Operation] /\ disk' \in [Keys -> Operation]
  BY <1>1 DEF Restart, Persist
<1>3. IdleCall.pc = "idle"
  BY DEF IdleCall
<1>4. gen' \in Nat
  BY DEF Restart, TypeOK
<1> QED
  BY <1>2, <1>3, <1>4, InitialValues DEF TypeOK, Restart

(* The ledger's state has its types in every reachable state.               *)
THEOREM TypeCorrect == Spec => []TypeOK
<1>1. Init => TypeOK
  BY InitType
<1>2. TypeOK /\ [Next]_vars => TypeOK'
  <2> SUFFICES ASSUME TypeOK, [Next]_vars PROVE TypeOK'
    OBVIOUS
  <2>1. CASE \E c \in Calls : CallStep(c)
    BY <2>1, CallStepType
  <2>2. CASE AppendStep
    BY <2>2, AppendType
  <2>3. CASE RowStep
    BY <2>3, RowStepType
  <2>4. CASE Tick
    BY <2>4 DEF TypeOK, Tick
  <2>5. CASE \E bad \in SUBSET Keys : Restart(bad)
    BY <2>5, RestartType
  <2>6. CASE UNCHANGED vars
    BY <2>6 DEF TypeOK, vars
  <2> QED
    BY <2>1, <2>2, <2>3, <2>4, <2>5, <2>6 DEF Next
<1> QED
  BY <1>1, <1>2, PTL DEF Spec
=============================================================================
