----------------------------- MODULE CheckLedger -----------------------------
(***************************************************************************)
(* One task's ledger: the append-only record log, the check operations     *)
(* that are frozen, leased, advanced and committed over it, the in-memory  *)
(* state the service works on and the SQLite rows a crash leaves behind.   *)
(* Sources: adapters/memory/ledger.py (the rules), adapters/sqlite/        *)
(* repository.py (locking and durability), application/check.py (what a    *)
(* caller does with the lease it holds).                                   *)
(***************************************************************************)
EXTENDS Naturals, Sequences, FiniteSets

CONSTANTS
  Keys,              \* check requests, one per (writer_id, request_id)
  SemanticKeys,      \* the keys whose mode is not deterministic_only
  Calls,             \* invocations of execute_check that may run at once
  Works,             \* agent publications, one per (writer_id, operation_id)
  Imports,           \* importer publications
  Observations,      \* observation-authored publications without findings
  Findings,          \* observation-authored publications that record findings
  Receipts,          \* receipt publications
  Captures,          \* observations that arrive through a capture ticket
  Sessions,
  SessionOf,         \* session of each check and each publication
  LeaseTicks,        \* _OPERATION_LEASE_SECONDS
  ReservationTicks,  \* CHECK_ACQUISITION_RESERVATION_SECONDS
  ExecutionTicks,    \* semantic execution deadline plus cleanup grace
  MaxClock,          \* bound: no deadline is set past this instant
  MaxLease,          \* bound: lease generations per operation
  MaxGeneration,     \* bound: service incarnations
  None

Observed == Observations \cup Findings

Appends == Works \cup Imports \cup Observed \cup Receipts

ASSUME KeysAssumption ==
  /\ SemanticKeys \subseteq Keys
  /\ Keys \cap Appends = {}
  /\ None \notin Keys \cup Calls

ASSUME AppendsAssumption ==
  /\ Captures \subseteq Observed
  /\ Works \cap (Imports \cup Observed \cup Receipts) = {}
  /\ Imports \cap (Observed \cup Receipts) = {}
  /\ Receipts \cap Observed = {}
  /\ Observations \cap Findings = {}

ASSUME SessionsAssumption == SessionOf \in [Keys \cup Appends -> Sessions]

ASSUME BoundsAssumption ==
  /\ LeaseTicks \in Nat \ {0}
  /\ ReservationTicks \in Nat \ {0}
  /\ ExecutionTicks \in Nat \ {0}
  /\ MaxClock \in Nat
  /\ MaxLease \in Nat
  /\ MaxGeneration \in Nat

VARIABLES
  log,       \* the records of the task, in ingestion order (memory = disk)
  ops,       \* check operation rows in the service's memory
  disk,      \* the same rows as last committed to SQLite
  reserved,  \* transient acquisition reservations, never persisted
  calls,     \* the running execute_check invocations
  tickets,   \* observation_capture_tickets of the task
  imports,   \* import job of each session
  clock,
  gen,       \* owner generation of the running service
  told,      \* history: ledger-backed verdicts answered to callers of a key
  acquired   \* history: log length when the current lease chain was acquired

vars == <<log, ops, disk, reserved, calls, tickets, imports, clock, gen,
          told, acquired>>

Phases == {"none", "reserved", "local_ready", "semantic_wait",
           "ready_to_finalize", "terminal"}

Verdicts == {"none", "committed", "frontier_changed", "failed", "quarantined"}

Record == [op : Keys \cup Appends, since : Nat]

Operation ==
  [state : {"absent", "pending", "complete", "quarantined"}, phase : Phases,
   expected : Nat, frontier : Nat, owner : Nat, lease : Nat, expires : Nat,
   suspended : BOOLEAN, job : {"none", "live", "done"}, bound : Nat,
   verdict : Verdicts]

Reservation == [holder : Calls \cup {None}, expires : Nat]

Call ==
  [pc : {"idle", "staging", "reclaiming", "held", "syncing", "parking"},
   key : Keys \cup {None}, expected : Nat, base : Nat, phase : Phases,
   lease : Nat]

AbsentOperation ==
  [state |-> "absent", phase |-> "none", expected |-> 0, frontier |-> 0,
   owner |-> 0, lease |-> 0, expires |-> 0, suspended |-> FALSE,
   job |-> "none", bound |-> 0, verdict |-> "none"]

NoReservation == [holder |-> None, expires |-> 0]

IdleCall ==
  [pc |-> "idle", key |-> None, expected |-> 0, base |-> 0,
   phase |-> "none", lease |-> 0]

TypeOK ==
  /\ log \in Seq(Record)
  /\ ops \in [Keys -> Operation]
  /\ disk \in [Keys -> Operation]
  /\ reserved \in [Keys -> Reservation]
  /\ calls \in [Calls -> Call]
  /\ \A c \in Calls : calls[c].pc # "idle" => calls[c].key \in Keys
  /\ tickets \in [Captures -> {"none", "pending", "revoked"}]
  /\ imports \in [Sessions -> {"none", "pending", "terminal"}]
  /\ clock \in Nat
  /\ gen \in Nat
  /\ told \in [Keys -> SUBSET Verdicts]
  /\ acquired \in [Keys -> Nat]

Init ==
  /\ log = <<>>
  /\ ops = [k \in Keys |-> AbsentOperation]
  /\ disk = [k \in Keys |-> AbsentOperation]
  /\ reserved = [k \in Keys |-> NoReservation]
  /\ calls = [c \in Calls |-> IdleCall]
  /\ tickets = [a \in Captures |-> "none"]
  /\ imports = [s \in Sessions |-> "none"]
  /\ clock = 0
  /\ gen = 1
  /\ told = [k \in Keys |-> {}]
  /\ acquired = [k \in Keys |-> 0]

-----------------------------------------------------------------------------
(* What the ledger reads before it decides.                                *)

Frontier == Len(log)

Published(op) == \E i \in 1..Len(log) : log[i].op = op

\* Faulty: the newest record of the suffix is not inspected.
ObservationOnlyButLast(n) ==
  \A i \in 1..Len(log) : (n < i /\ i < Len(log)) => log[i].op \in Observed

ObservationOnlySince(n) ==
  \A i \in 1..Len(log) : n < i => log[i].op \in Observed

\* _receipt_prefix_suffix_safe_unlocked with finding_free=True.
ReceiptSuffixSafe(n) ==
  \A i \in 1..Len(log) : n < i => log[i].op \in Observations \cup Receipts

PendingHandoff == \E a \in Captures : tickets[a] = "pending"

ReservationLive(k) ==
  reserved[k].holder # None /\ reserved[k].expires > clock

\* Faulty: an abandoned or foreign lease still counts as a frozen case.
HasFrozenCaseEver(s) ==
  \E k \in Keys :
    /\ SessionOf[k] = s
    /\ ReservationLive(k) \/ (ops[k].state = "pending" /\ ~ops[k].suspended)

HasActiveFrozenCase(s) ==
  \E k \in Keys :
    /\ SessionOf[k] = s
    /\ \/ ReservationLive(k)
       \/ /\ ops[k].state = "pending"
          /\ ~ops[k].suspended
          /\ ops[k].owner = gen
          /\ ops[k].expires > clock

\* Faulty: a lapsed lease is still honoured.
LeaseEverValid(c) ==
  LET r == ops[calls[c].key] IN
    /\ r.state = "pending"
    /\ r.phase = calls[c].phase
    /\ r.lease = calls[c].lease
    /\ r.owner = gen

\* _require_lease: the caller's copy equals the row's lease, this service
\* owns it, and it has not expired.
LeaseValid(c) ==
  LET r == ops[calls[c].key] IN
    /\ r.state = "pending"
    /\ r.phase = calls[c].phase
    /\ r.lease = calls[c].lease
    /\ r.owner = gen
    /\ r.expires > clock

\* A pending row nobody may still be working on can be reclaimed.
Reclaimable(k) ==
  /\ ops[k].state = "pending"
  /\ ops[k].owner # gen \/ ops[k].expires <= clock

-----------------------------------------------------------------------------
(* How a row changes.                                                      *)

\* The row freeze_case admits for a case built at the given frontier.
Frozen(expected, frontier) ==
  [state |-> "pending", phase |-> "reserved", expected |-> expected,
   frontier |-> frontier, owner |-> gen, lease |-> 1,
   expires |-> clock + LeaseTicks, suspended |-> FALSE, job |-> "none",
   bound |-> 0, verdict |-> "none"]

\* Faulty: the new lease keeps the old generation.
ReplacedSameLease(r, phase, expires) ==
  [r EXCEPT !.phase = phase, !.owner = gen, !.expires = expires,
            !.suspended = FALSE]

\* _replace_pending_record.
Replaced(r, phase, expires) ==
  [r EXCEPT !.phase = phase, !.owner = gen, !.lease = @ + 1,
            !.expires = expires, !.suspended = FALSE]

Terminal(r, verdict) ==
  [r EXCEPT !.state = "complete", !.phase = "terminal", !.owner = 0,
            !.lease = 0, !.expires = 0, !.verdict = verdict]

Quarantined(r) ==
  [r EXCEPT !.state = "quarantined", !.phase = "terminal", !.owner = 0,
            !.lease = 0, !.expires = 0, !.suspended = FALSE,
            !.verdict = "quarantined"]

\* Faulty: the mutation is answered before SQLite has it.
PersistNothing == disk' = disk

\* _sync_after_mutation_locked writes every row of the runtime state, so it
\* also persists what another invocation has changed in memory only.
Persist == disk' = ops'

\* Faulty: the invocation does not remember its request.
EnteredUnkeyed(pc, k, expected, phase, lease) ==
  [pc |-> pc, key |-> None, expected |-> expected, base |-> Frontier,
   phase |-> phase, lease |-> lease]

\* An invocation that has read the head and left the critical section.
Entered(pc, k, expected, phase, lease) ==
  [pc |-> pc, key |-> k, expected |-> expected, base |-> Frontier,
   phase |-> phase, lease |-> lease]

SetOp(k, r) == ops' = [ops EXCEPT ![k] = r]

SetCall(c, r) == calls' = [calls EXCEPT ![c] = r]

Tell(k, verdict) == told' = [told EXCEPT ![k] = @ \cup {verdict}]

ReleaseReservation(c) ==
  reserved' = [k \in Keys |->
    IF reserved[k].holder = c THEN NoReservation ELSE reserved[k]]

\* The bound every new deadline and lease generation respects.
InBounds(deadline, lease) == deadline <= MaxClock /\ lease <= MaxLease

-----------------------------------------------------------------------------
(* Publications (append_batch).                                            *)

AppendWork(a) ==
  /\ a \in Works
  /\ ~Published(a)
  /\ log' = Append(log, [op |-> a, since |-> Frontier])
  /\ UNCHANGED <<ops, disk, reserved, calls, tickets, imports, clock, gen,
                 told, acquired>>

\* Importer-authored batches need the job's publication reservation.
AppendImport(a) ==
  /\ a \in Imports
  /\ ~Published(a)
  /\ imports[SessionOf[a]] = "pending"
  /\ log' = Append(log, [op |-> a, since |-> Frontier])
  /\ UNCHANGED <<ops, disk, reserved, calls, tickets, imports, clock, gen,
                 told, acquired>>

\* Observation defers while a check of its session is actively frozen.
AppendObserved(a) ==
  /\ a \in Observed
  /\ ~Published(a)
  /\ a \in Captures => tickets[a] = "pending"
  /\ ~HasActiveFrozenCase(SessionOf[a])
  /\ log' = Append(log, [op |-> a, since |-> Frontier])
  /\ UNCHANGED <<ops, disk, reserved, calls, tickets, imports, clock, gen,
                 told, acquired>>

\* A receipt pins the frontier e its caller built it from.
AppendReceipt(a, e) ==
  /\ a \in Receipts
  /\ ~Published(a)
  /\ imports[SessionOf[a]] # "pending"
  /\ e \in 0..Frontier
  /\ ReceiptSuffixSafe(e)
  /\ log' = Append(log, [op |-> a, since |-> e])
  /\ UNCHANGED <<ops, disk, reserved, calls, tickets, imports, clock, gen,
                 told, acquired>>

-----------------------------------------------------------------------------
(* Capture tickets and import jobs: rows beside the log in the same bundle. *)

RecordTicket(a) ==
  /\ tickets[a] = "none"
  /\ ~Published(a)
  /\ tickets' = [tickets EXCEPT ![a] = "pending"]
  /\ UNCHANGED <<log, ops, disk, reserved, calls, imports, clock, gen, told,
                 acquired>>

\* The delivery deletes its ticket once the observation is on the ledger.
DeleteTicket(a) ==
  /\ tickets[a] = "pending"
  /\ Published(a)
  /\ tickets' = [tickets EXCEPT ![a] = "none"]
  /\ UNCHANGED <<log, ops, disk, reserved, calls, imports, clock, gen, told,
                 acquired>>

TombstoneTicket(a) ==
  /\ tickets[a] = "pending"
  /\ tickets' = [tickets EXCEPT ![a] = "revoked"]
  /\ UNCHANGED <<log, ops, disk, reserved, calls, imports, clock, gen, told,
                 acquired>>

ReserveImport(s) ==
  /\ imports[s] = "none"
  /\ \E a \in Imports : SessionOf[a] = s
  /\ imports' = [imports EXCEPT ![s] = "pending"]
  /\ UNCHANGED <<log, ops, disk, reserved, calls, tickets, clock, gen, told,
                 acquired>>

CloseImport(s) ==
  /\ imports[s] = "pending"
  /\ imports' = [imports EXCEPT ![s] = "terminal"]
  /\ UNCHANGED <<log, ops, disk, reserved, calls, tickets, clock, gen, told,
                 acquired>>

-----------------------------------------------------------------------------
(* freeze_case: replay, reclaim or acquire.  The repository lock is         *)
(* released while the case object is staged or reloaded, so each takes a    *)
(* step that begins it and a step that revalidates and admits.              *)

\* A terminal row answers the exact replay with its stored result or error.
ReplayVerdict(k) ==
  /\ ops[k].state \in {"complete", "quarantined"}
  /\ Tell(k, ops[k].verdict)
  /\ UNCHANGED <<log, ops, disk, reserved, calls, tickets, imports, clock,
                 gen, acquired>>

\* A new check: the caller holds frontier e, the case is built at the head.
FreezeBegin(c, k, e) ==
  /\ calls[c].pc = "idle"
  /\ ops[k].state = "absent"
  /\ ~PendingHandoff
  /\ ~ReservationLive(k)
  /\ e \in 0..Frontier
  /\ ObservationOnlySince(e)
  /\ InBounds(clock + ReservationTicks, 0)
  /\ reserved' = [reserved EXCEPT
       ![k] = [holder |-> c, expires |-> clock + ReservationTicks]]
  /\ SetCall(c, Entered("staging", k, e, "none", 0))
  /\ UNCHANGED <<log, ops, disk, tickets, imports, clock, gen, told, acquired>>

\* Admission: the reservation is still this call's own, no record moved and
\* no capture handoff landed while the case was staged.
FreezeAdmit(c) ==
  LET k == calls[c].key IN
  /\ calls[c].pc = "staging"
  /\ reserved[k].holder = c
  /\ calls[c].base = Frontier
  /\ ~PendingHandoff
  /\ InBounds(clock + LeaseTicks, 1)
  /\ SetOp(k, Frozen(calls[c].expected, calls[c].base))
  /\ Persist
  /\ ReleaseReservation(c)
  /\ SetCall(c, [calls[c] EXCEPT !.pc = "held", !.phase = "reserved",
                                 !.lease = 1])
  /\ acquired' = [acquired EXCEPT ![k] = Frontier]
  /\ UNCHANGED <<log, tickets, imports, clock, gen, told>>

\* An expired or foreign pending row is taken over by its exact replay.
ReclaimBegin(c, k) ==
  /\ calls[c].pc = "idle"
  /\ Reclaimable(k)
  /\ SetCall(c, Entered("reclaiming", k, ops[k].expected, ops[k].phase,
                        ops[k].lease))
  /\ UNCHANGED <<log, ops, disk, reserved, tickets, imports, clock, gen, told,
                 acquired>>

\* Compare-and-swap on the row and on the record prefix.
ReclaimAdmit(c) ==
  LET k == calls[c].key
      r == Replaced(ops[k], ops[k].phase, clock + LeaseTicks) IN
  /\ calls[c].pc = "reclaiming"
  /\ calls[c].base = Frontier
  /\ ops[k].state = "pending"
  /\ ops[k].lease = calls[c].lease
  /\ InBounds(clock + LeaseTicks, r.lease)
  /\ SetOp(k, r)
  /\ Persist
  /\ SetCall(c, [calls[c] EXCEPT !.pc = "held", !.lease = r.lease])
  /\ acquired' = [acquired EXCEPT ![k] = Frontier]
  /\ UNCHANGED <<log, reserved, tickets, imports, clock, gen, told>>

\* The invocation ends without a verdict: refused, contended, cancelled,
\* lease lost, or answered AWAITING_HUMAN.  Only its own reservation goes.
Leave(c) ==
  /\ calls[c].pc # "idle"
  /\ ReleaseReservation(c)
  /\ SetCall(c, IdleCall)
  /\ UNCHANGED <<log, ops, disk, tickets, imports, clock, gen, told, acquired>>

-----------------------------------------------------------------------------
(* Working under the lease.  These calls change the live memory state under *)
(* the lock, release it, and persist in a second critical section.          *)

PhaseEdges(k) ==
  {<<"reserved", "local_ready">>, <<"local_ready", "ready_to_finalize">>,
   <<"semantic_wait", "ready_to_finalize">>}
  \cup (IF k \in SemanticKeys THEN {<<"local_ready", "semantic_wait">>} ELSE {})

AdvancePhase(c, next) ==
  LET k == calls[c].key
      r == Replaced(ops[k], next, clock + LeaseTicks) IN
  /\ calls[c].pc = "held"
  /\ LeaseValid(c)
  /\ <<ops[k].phase, next>> \in PhaseEdges(k)
  /\ InBounds(r.expires, r.lease)
  /\ SetOp(k, r)
  /\ SetCall(c, [calls[c] EXCEPT !.pc = "syncing", !.phase = next,
                                 !.lease = r.lease])
  /\ UNCHANGED <<log, disk, reserved, tickets, imports, clock, gen, told,
                 acquired>>

\* The job freezes its execution deadline; an existing job is returned as is.
EnqueueJob(c) ==
  LET k == calls[c].key IN
  /\ calls[c].pc = "held"
  /\ LeaseValid(c)
  /\ ops[k].phase = "semantic_wait"
  /\ ops[k].job = "none"
  /\ InBounds(clock + ExecutionTicks, 0)
  /\ SetOp(k, [ops[k] EXCEPT !.job = "live",
                             !.bound = clock + ExecutionTicks])
  /\ SetCall(c, [calls[c] EXCEPT !.pc = "syncing"])
  /\ UNCHANGED <<log, disk, reserved, tickets, imports, clock, gen, told,
                 acquired>>

\* select_attempt and fail_semantic_job ask for the lease, but
\* record_attempt_outcome only for the attempt's own handle: a slow invocation
\* may still close the job after its lease has lapsed or was taken over.
CloseJob(c) ==
  LET k == calls[c].key IN
  /\ calls[c].pc = "held"
  /\ calls[c].phase = "semantic_wait"
  /\ ops[k].state = "pending"
  /\ ops[k].job = "live"
  /\ SetOp(k, [ops[k] EXCEPT !.job = "done"])
  /\ SetCall(c, [calls[c] EXCEPT !.pc = "syncing"])
  /\ UNCHANGED <<log, disk, reserved, tickets, imports, clock, gen, told,
                 acquired>>

\* A missing standing grant parks the check and drops its barrier.
SuspendForGrant(c) ==
  LET k == calls[c].key IN
  /\ calls[c].pc = "held"
  /\ LeaseValid(c)
  /\ ops[k].phase = "semantic_wait"
  /\ ops[k].job = "none"
  /\ SetOp(k, [ops[k] EXCEPT !.expires = clock, !.suspended = TRUE])
  /\ SetCall(c, [calls[c] EXCEPT !.pc = "parking"])
  /\ UNCHANGED <<log, disk, reserved, tickets, imports, clock, gen, told,
                 acquired>>

\* The second critical section; a failed one is Leave, with memory ahead.
Sync(c) ==
  /\ calls[c].pc \in {"syncing", "parking"}
  /\ disk' = ops
  /\ SetCall(c, IF calls[c].pc = "syncing"
                THEN [calls[c] EXCEPT !.pc = "held"] ELSE IdleCall)
  /\ UNCHANGED <<log, ops, reserved, tickets, imports, clock, gen, told,
                 acquired>>

-----------------------------------------------------------------------------
(* Renewal, commit and failure clone the state, and publish the clone only  *)
(* after SQLite has it: one step each.                                      *)

\* A live job ties the lease to its frozen execution deadline.
RenewedExpiry(r) ==
  CASE r.job = "live" -> r.bound
    [] r.job # "live" /\ r.expires < clock + LeaseTicks -> clock + LeaseTicks
    [] OTHER -> r.expires

RenewLeases(c) ==
  LET k == calls[c].key
      r == Replaced(ops[k], ops[k].phase, RenewedExpiry(ops[k])) IN
  /\ calls[c].pc = "held"
  /\ LeaseValid(c)
  /\ r.expires > clock
  /\ InBounds(r.expires, r.lease)
  /\ SetOp(k, r)
  /\ Persist
  /\ SetCall(c, [calls[c] EXCEPT !.lease = r.lease])
  /\ UNCHANGED <<log, reserved, tickets, imports, clock, gen, told, acquired>>

\* A stored verdict answers before the lease is even looked at.
CommitReplays(c) ==
  LET k == calls[c].key IN
  /\ calls[c].pc = "held"
  /\ calls[c].phase = "ready_to_finalize"
  /\ ops[k].state = "complete"
  /\ disk' = ops
  /\ Tell(k, ops[k].verdict)
  /\ SetCall(c, IdleCall)
  /\ UNCHANGED <<log, ops, reserved, tickets, imports, clock, gen, acquired>>

\* A commit under a lost lease is refused, and still writes the clone.
CommitRefused(c) ==
  LET k == calls[c].key IN
  /\ calls[c].pc = "held"
  /\ calls[c].phase = "ready_to_finalize"
  /\ ops[k].state # "complete"
  /\ ~LeaseValid(c)
  /\ disk' = ops
  /\ SetCall(c, IdleCall)
  /\ UNCHANGED <<log, ops, reserved, tickets, imports, clock, gen, told,
                 acquired>>

\* The findings and the check_recorded event form one batch at the head.
CommitCheck(c) ==
  LET k == calls[c].key IN
  /\ calls[c].pc = "held"
  /\ LeaseValid(c)
  /\ ops[k].phase = "ready_to_finalize"
  /\ ObservationOnlySince(ops[k].frontier)
  /\ log' = Append(log, [op |-> k, since |-> ops[k].expected])
  /\ SetOp(k, Terminal(ops[k], "committed"))
  /\ Persist
  /\ Tell(k, "committed")
  /\ SetCall(c, IdleCall)
  /\ UNCHANGED <<reserved, tickets, imports, clock, gen, acquired>>

\* Anything else past the frozen frontier closes the request with a conflict.
CommitConflict(c) ==
  LET k == calls[c].key IN
  /\ calls[c].pc = "held"
  /\ LeaseValid(c)
  /\ ops[k].phase = "ready_to_finalize"
  /\ ~ObservationOnlySince(ops[k].frontier)
  /\ SetOp(k, Terminal(ops[k], "frontier_changed"))
  /\ Persist
  /\ Tell(k, "frontier_changed")
  /\ SetCall(c, IdleCall)
  /\ UNCHANGED <<log, reserved, tickets, imports, clock, gen, acquired>>

\* Faulty: the failure is written without asking who holds the lease.
FailCheckBlindly(c) ==
  LET k == calls[c].key IN
  /\ calls[c].pc = "held"
  /\ SetOp(k, Terminal(ops[k], "failed"))
  /\ Persist
  /\ Tell(k, "failed")
  /\ SetCall(c, IdleCall)
  /\ UNCHANGED <<log, reserved, tickets, imports, clock, gen, acquired>>

\* The pipeline raised: close the operation if the lease is still ours.
FailCheck(c) ==
  LET k == calls[c].key IN
  /\ calls[c].pc = "held"
  /\ LeaseValid(c)
  /\ SetOp(k, Terminal(ops[k], "failed"))
  /\ Persist
  /\ Tell(k, "failed")
  /\ SetCall(c, IdleCall)
  /\ UNCHANGED <<log, reserved, tickets, imports, clock, gen, acquired>>

\* A failure reported after the request was closed with an error is dropped.
FailSettled(c) ==
  LET k == calls[c].key IN
  /\ calls[c].pc = "held"
  /\ ops[k].state = "complete"
  /\ ops[k].verdict # "committed"
  /\ disk' = ops
  /\ SetCall(c, IdleCall)
  /\ UNCHANGED <<log, ops, reserved, tickets, imports, clock, gen, told,
                 acquired>>

-----------------------------------------------------------------------------
(* The environment.                                                        *)

Tick ==
  /\ clock < MaxClock
  /\ clock' = clock + 1
  /\ UNCHANGED <<log, ops, disk, reserved, calls, tickets, imports, gen, told,
                 acquired>>

\* The service dies and its successor recovers from SQLite; the pending rows
\* in bad have a resume object that cannot be authenticated any more.
Restart(bad) ==
  /\ gen < MaxGeneration
  /\ \A k \in bad : disk[k].state = "pending"
  /\ gen' = gen + 1
  /\ ops' = [k \in Keys |-> IF k \in bad THEN Quarantined(disk[k]) ELSE disk[k]]
  /\ Persist
  /\ reserved' = [k \in Keys |-> NoReservation]
  /\ calls' = [c \in Calls |-> IdleCall]
  /\ UNCHANGED <<log, tickets, imports, clock, told, acquired>>

CallStep(c) ==
  \/ \E k \in Keys, e \in 0..Frontier : FreezeBegin(c, k, e)
  \/ \E k \in Keys : ReclaimBegin(c, k)
  \/ FreezeAdmit(c)
  \/ ReclaimAdmit(c)
  \/ Leave(c)
  \/ \E next \in Phases : AdvancePhase(c, next)
  \/ EnqueueJob(c)
  \/ CloseJob(c)
  \/ SuspendForGrant(c)
  \/ Sync(c)
  \/ RenewLeases(c)
  \/ CommitReplays(c)
  \/ CommitRefused(c)
  \/ CommitCheck(c)
  \/ CommitConflict(c)
  \/ FailCheck(c)
  \/ FailSettled(c)

AppendStep ==
  \/ \E a \in Works : AppendWork(a)
  \/ \E a \in Imports : AppendImport(a)
  \/ \E a \in Observed : AppendObserved(a)
  \/ \E a \in Receipts, e \in 0..Frontier : AppendReceipt(a, e)

RowStep ==
  \/ \E a \in Captures :
       RecordTicket(a) \/ DeleteTicket(a) \/ TombstoneTicket(a)
  \/ \E s \in Sessions : ReserveImport(s) \/ CloseImport(s)
  \/ \E k \in Keys : ReplayVerdict(k)

Next ==
  \/ \E c \in Calls : CallStep(c)
  \/ AppendStep
  \/ RowStep
  \/ Tick
  \/ \E bad \in SUBSET Keys : Restart(bad)

Spec == Init /\ [][Next]_vars

\* Time passes and the observation drain keeps delivering what it was handed;
\* nothing is assumed of the callers, who may abandon every check they start.
Fairness ==
  /\ WF_vars(Tick)
  /\ \A a \in Captures : WF_vars(AppendObserved(a)) /\ WF_vars(DeleteTicket(a))

FairSpec == Spec /\ Fairness

-----------------------------------------------------------------------------
(* Properties.                                                             *)

(* A verdict an execute_check caller was given from the ledger is the       *)
(* verdict on disk, so no crash, replay or concurrent invocation of the     *)
(* same request can ever be answered otherwise.                             *)
AnsweredVerdictIsDurable ==
  \A k \in Keys : \A v \in told[k] : disk[k].verdict = v

(* Every request reaches the log at most once, and a check_recorded event   *)
(* is on the log exactly when its operation row is durably committed.       *)
RecordedOnce ==
  /\ \A i, j \in 1..Len(log) : log[i].op = log[j].op => i = j
  /\ \A k \in Keys : Published(k) <=> disk[k].verdict = "committed"

(* Between the frontier a caller of check or receipt held and the record    *)
(* it produced there is nothing but observation (and, for a receipt, other  *)
(* receipts and no finding): no agent or importer work is laundered past    *)
(* a verdict or a receipt that did not see it.                              *)
NoLaunderedWork ==
  \A i, j \in 1..Len(log) :
    (log[i].since < j /\ j < i) =>
      /\ log[i].op \in Keys => log[j].op \in Observed
      /\ log[i].op \in Receipts => log[j].op \in Observations \cup Receipts

LiveLease(k) ==
  /\ ops[k].state = "pending"
  /\ ~ops[k].suspended
  /\ ops[k].owner = gen
  /\ ops[k].expires > clock

(* While a check's lease is live, across any number of renewals and phase   *)
(* advances, no observation of its session has landed since the lease was   *)
(* acquired: a lapsed lease is never extended past what landed meanwhile.   *)
BarrierHolds ==
  \A k \in Keys : LiveLease(k) =>
    \A i \in 1..Len(log) :
      (acquired[k] < i /\ log[i].op \in Observed) =>
        SessionOf[log[i].op] # SessionOf[k]

(* Two invocations never both hold a lease the ledger would accept for the  *)
(* same request.                                                            *)
LeaseExclusive ==
  \A c, d \in Calls :
    /\ calls[c].pc \in {"held", "syncing"} /\ calls[d].pc \in {"held", "syncing"}
    /\ calls[c].key = calls[d].key
    /\ LeaseValid(c) /\ LeaseValid(d)
    => c = d

(* The memory state runs ahead of SQLite only in the lease, phase and job   *)
(* of a pending row: a crash at any moment loses no verdict and no frozen   *)
(* case, and never revives a lease the row had already given away.          *)
CrashLosesOnlyLeaseMotion ==
  \A k \in Keys : disk[k] # ops[k] =>
    /\ disk[k].state = "pending" /\ ops[k].state = "pending"
    /\ disk[k].expected = ops[k].expected
    /\ disk[k].frontier = ops[k].frontier
    /\ disk[k].lease <= ops[k].lease

(* A capture handoff is eventually delivered or revoked even if every       *)
(* caller abandons its check: an abandoned lease stops being a barrier.     *)
HandoffDrains == \A a \in Captures : tickets[a] = "pending" ~> tickets[a] # "pending"

(* docs/INTERFACES.md says a failed persistence sync restores the prior     *)
(* oracle state: with no lifecycle write under way, the rows in memory are  *)
(* the rows SQLite has.                                                     *)
FailedSyncRestores ==
  (\A c \in Calls : calls[c].pc \notin {"syncing", "parking"}) => disk = ops

(* docs/INTERFACES.md says commit_check_if_current refuses while an import  *)
(* of the session is pending.                                               *)
NoCheckDuringImport ==
  [][\A k \in Keys : (~Published(k) /\ Published(k)') =>
       imports[SessionOf[k]] # "pending"]_vars

Promise == INSTANCE OneVerdict WITH
  verdict <- [k \in Keys |-> disk[k].verdict],
  records <- [i \in 1..Len(log) |-> log[i].op]

(* The ledger, with its leases, crashes and concurrent invocations, does    *)
(* only what OneVerdict allows: every step is a publication, a commit, a    *)
(* refusal, a recovery verdict, an answer or invisible to callers.          *)
KeepsPromise == Promise!Spec
=============================================================================
