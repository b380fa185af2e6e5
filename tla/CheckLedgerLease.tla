--------------------------- MODULE CheckLedgerLease ---------------------------
(***************************************************************************)
(* Leases: at most one invocation holds the token the ledger accepts, and  *)
(* a live lease keeps the observations of its session off the log.         *)
(* Cases: nothing but observation lies between the frontier a caller held  *)
(* and the frontier its case was built at, so a commit that finds nothing  *)
(* but observation past the case launders no work.                         *)
(***************************************************************************)
EXTENDS CheckLedgerVerdict

Holding(c) == calls[c].pc \in {"held", "syncing"}

(* A holder's request has a row, its token is not newer than the row's, and *)
(* no two holders of a pending request have the same token.                 *)
TokenInv ==
  /\ \A c \in Calls : Holding(c) =>
       /\ ops[calls[c].key].state # "absent"
       /\ ops[calls[c].key].state = "pending" =>
            calls[c].lease <= ops[calls[c].key].lease
  /\ \A c, d \in Calls :
       /\ c # d /\ Holding(c) /\ Holding(d)
       /\ calls[c].key = calls[d].key
       /\ ops[calls[c].key].state = "pending"
       => calls[c].lease # calls[d].lease

(* A row is not owned by a service that has not run yet, and a suspended    *)
(* row has a lapsed lease.                                                  *)
WellOwned(r) == r.owner <= gen /\ (r.suspended => r.expires <= clock)

(* That holds of every row, in memory and on disk.                          *)
OwnerInv == \A k \in Keys : WellOwned(ops[k]) /\ WellOwned(disk[k])

-----------------------------------------------------------------------------
(* Tokens.                                                                 *)

(* What enqueueing a job, closing it and suspending for a grant leave alone. *)
LEMMA EnqueuedRow ==
  ASSUME NEW r \in Operation, NEW t \in Nat
  PROVE  LET q == [r EXCEPT !.job = "live", !.bound = t] IN
         /\ q.state = r.state /\ q.lease = r.lease /\ q.owner = r.owner
         /\ q.expires = r.expires /\ q.suspended = r.suspended
<1> DEFINE r1 == [r EXCEPT !.job = "live"]
           q == [r1 EXCEPT !.bound = t]
<1>1. /\ r1 \in Operation /\ r1.state = r.state /\ r1.lease = r.lease
      /\ r1.owner = r.owner /\ r1.expires = r.expires
      /\ r1.suspended = r.suspended
  BY DEF Operation
<1>2. [r EXCEPT !.job = "live", !.bound = t] = q
  OBVIOUS
<1> HIDE DEF r1
<1>3. /\ q.state = r1.state /\ q.lease = r1.lease
      /\ q.owner = r1.owner /\ q.expires = r1.expires
      /\ q.suspended = r1.suspended
  BY <1>1 DEF Operation
<1> HIDE DEF q
<1> QED
  BY <1>1, <1>2, <1>3

(* Suspending keeps the token and the owner, and ends the lease.            *)
LEMMA SuspendedRow ==
  ASSUME NEW r \in Operation, NEW t \in Nat
  PROVE  LET q == [r EXCEPT !.expires = t, !.suspended = TRUE] IN
         /\ q.state = r.state /\ q.lease = r.lease /\ q.owner = r.owner
         /\ q.expires = t /\ q.suspended = TRUE
<1> DEFINE r1 == [r EXCEPT !.expires = t]
           q == [r1 EXCEPT !.suspended = TRUE]
<1>1. /\ r1 \in Operation /\ r1.state = r.state /\ r1.lease = r.lease
      /\ r1.owner = r.owner /\ r1.expires = t
  BY DEF Operation
<1>2. [r EXCEPT !.expires = t, !.suspended = TRUE] = q
  OBVIOUS
<1> HIDE DEF r1
<1>3. /\ q.state = r1.state /\ q.lease = r1.lease
      /\ q.owner = r1.owner /\ q.expires = r1.expires
      /\ q.suspended = TRUE
  BY <1>1 DEF Operation
<1> HIDE DEF q
<1> QED
  BY <1>1, <1>2, <1>3

(* A replaced lease is a new token of the same request state.               *)
LEMMA ReplacedToken ==
  ASSUME NEW r \in Operation, NEW phase \in Phases, NEW t \in Nat, gen \in Nat
  PROVE  /\ Replaced(r, phase, t).state = r.state
         /\ Replaced(r, phase, t).lease = r.lease + 1
<1>1. Replaced(r, phase, t).state = r.state
  BY ReplacedRow
<1>2. Replaced(r, phase, t).lease = r.lease + 1
  BY ReplacedRow
<1> QED
  BY <1>1, <1>2

(* A step that hands the caller a token of its own: the first lease of a    *)
(* new row, or one more than the row's last.                                *)
LEMMA TokenAcquired ==
  ASSUME TypeOK, TypeOK', TokenInv, NEW c \in Calls, NEW k \in Keys,
         calls'[c].key = k,
         calls'[c].lease = ops'[k].lease,
         \A d \in Calls \ {c} : calls'[d] = calls[d],
         \A q \in Keys \ {k} : ops'[q] = ops[q],
         ops'[k].state = "pending",
         \/ ops[k].state = "absent"
         \/ ops[k].state = "pending" /\ ops'[k].lease = ops[k].lease + 1
  PROVE  TokenInv'
<1>1. /\ \A d \in Calls : calls[d].lease \in Nat
      /\ \A d \in Calls : Holding(d) => calls[d].key \in Keys
      /\ \A q \in Keys : ops[q].lease \in Nat /\ ops'[q].lease \in Nat
  BY DEF TypeOK, Call, Operation, Holding
<1>2. \A d \in Calls \ {c} : Holding(d)' <=> Holding(d)
  BY DEF Holding
<1>3. ASSUME NEW d \in Calls \ {c}, Holding(d), calls[d].key = k
      PROVE  /\ ops[k].state = "pending"
             /\ calls[d].lease < ops'[k].lease
  BY <1>1, <1>3 DEF TokenInv
<1>4. ASSUME NEW d \in Calls, Holding(d)'
      PROVE  /\ ops'[calls'[d].key].state # "absent"
             /\ ops'[calls'[d].key].state = "pending" =>
                  calls'[d].lease <= ops'[calls'[d].key].lease
  <2>1. CASE d = c
    BY <1>1, <2>1
  <2>2. CASE d # c /\ calls[d].key = k
    BY <1>1, <1>2, <1>3, <1>4, <2>2
  <2>3. CASE d # c /\ calls[d].key # k
    BY <1>1, <1>2, <1>4, <2>3 DEF TokenInv
  <2> QED
    BY <2>1, <2>2, <2>3
<1>5. ASSUME NEW d \in Calls, NEW e \in Calls, d # e, Holding(d)', Holding(e)',
             calls'[d].key = calls'[e].key,
             ops'[calls'[d].key].state = "pending"
      PROVE  calls'[d].lease # calls'[e].lease
  <2>1. CASE d = c
    BY <1>1, <1>2, <1>3, <1>5, <2>1
  <2>2. CASE e = c
    BY <1>1, <1>2, <1>3, <1>5, <2>2
  <2>3. CASE d # c /\ e # c /\ calls[d].key = k
    <3>1. Holding(d) /\ Holding(e) /\ calls[e].key = k /\ ops[k].state = "pending"
      BY <1>2, <1>3, <1>5, <2>3
    <3> QED
      BY <1>5, <2>3, <3>1 DEF TokenInv
  <2>4. CASE d # c /\ e # c /\ calls[d].key # k
    <3>1. /\ Holding(d) /\ Holding(e) /\ calls[e].key = calls[d].key
          /\ calls[d].key \in Keys
          /\ ops[calls[d].key].state = "pending"
      BY <1>1, <1>2, <1>5, <2>4
    <3> QED
      BY <1>5, <2>4, <3>1 DEF TokenInv
  <2> QED
    BY <2>1, <2>2, <2>3, <2>4
<1> QED
  BY <1>4, <1>5 DEF TokenInv, Holding

(* A step that hands out no token: the caller keeps its own or stops        *)
(* holding, and each row keeps its lease or is closed.                      *)
LEMMA TokenKept ==
  ASSUME TypeOK, TokenInv,
         \A c \in Calls : Holding(c)' =>
           Holding(c) /\ calls'[c].key = calls[c].key
                      /\ calls'[c].lease = calls[c].lease,
         \A k \in Keys :
           /\ ops[k].state # "absent" => ops'[k].state # "absent"
           /\ ops'[k].state = "pending" /\ ops[k].state # "absent" =>
                ops[k].state = "pending" /\ ops'[k].lease = ops[k].lease
  PROVE  TokenInv'
<1>1. \A c \in Calls : Holding(c) => calls[c].key \in Keys
  BY DEF TypeOK, Holding
<1>2. ASSUME NEW c \in Calls, Holding(c)'
      PROVE  /\ ops'[calls'[c].key].state # "absent"
             /\ ops'[calls'[c].key].state = "pending" =>
                  calls'[c].lease <= ops'[calls'[c].key].lease
  BY <1>1, <1>2 DEF TokenInv
<1>3. ASSUME NEW d \in Calls, NEW e \in Calls, d # e, Holding(d)', Holding(e)',
             calls'[d].key = calls'[e].key,
             ops'[calls'[d].key].state = "pending"
      PROVE  calls'[d].lease # calls'[e].lease
  <2>1. /\ Holding(d) /\ Holding(e) /\ calls[d].key = calls[e].key
        /\ ops[calls[d].key].state = "pending"
    BY <1>1, <1>3 DEF TokenInv
  <2> QED
    BY <1>3, <2>1 DEF TokenInv
<1> QED
  BY <1>2, <1>3 DEF TokenInv, Holding

(* Every step hands out a fresh token or none.                              *)
LEMMA TokenStep ==
  ASSUME TypeOK, TypeOK', ReservationInv, TokenInv, [Next]_vars
  PROVE  TokenInv'
<1>0. /\ ops \in [Keys -> Operation] /\ calls \in [Calls -> Call]
      /\ clock \in Nat /\ gen \in Nat /\ LeaseTicks \in Nat
  BY BoundsAssumption DEF TypeOK
<1>1. ASSUME NEW c \in Calls, CallStep(c) PROVE TokenInv'
  <2> DEFINE k == calls[c].key
  <2>0. /\ calls[c] \in Call
        /\ calls[c].pc # "idle" => k \in Keys /\ ops[k] \in Operation
    BY DEF TypeOK
  <2>1. CASE FreezeAdmit(c)
    <3> DEFINE x == [calls[c] EXCEPT !.pc = "held", !.phase = "reserved",
                                     !.lease = 1]
               r == Frozen(calls[c].expected, calls[c].base)
    <3>1. k \in Keys /\ ops[k].state = "absent"
      BY <2>1, KeysAssumption DEF FreezeAdmit, TypeOK, ReservationInv
    <3>2. x.key = k /\ x.lease = 1
      BY <2>0 DEF Call
    <3>3. r.state = "pending" /\ r.lease = 1
      BY DEF Frozen
    <3>4. SetCall(c, x) /\ SetOp(k, r)
      BY <2>1 DEF FreezeAdmit
    <3> HIDE DEF x, r
    <3>5. /\ calls'[c] = x /\ ops'[k] = r
          /\ \A d \in Calls \ {c} : calls'[d] = calls[d]
          /\ \A q \in Keys \ {k} : ops'[q] = ops[q]
      BY <1>0, <3>1, <3>4 DEF SetCall, SetOp
    <3> QED
      BY <3>1, <3>2, <3>3, <3>5, TokenAcquired
  <2>2. ASSUME NEW x, NEW r, x.key = k, x.lease = r.lease, k \in Keys,
               SetCall(c, x), SetOp(k, r), ops[k].state = "pending",
               r.state = ops[k].state, r.lease = ops[k].lease + 1
        PROVE  TokenInv'
    <3>1. /\ calls'[c] = x /\ ops'[k] = r
          /\ \A d \in Calls \ {c} : calls'[d] = calls[d]
          /\ \A q \in Keys \ {k} : ops'[q] = ops[q]
      BY <1>0, <2>2 DEF SetCall, SetOp
    <3> QED
      BY <2>2, <3>1, TokenAcquired
  <2>3. CASE ReclaimAdmit(c)
    <3> DEFINE t == clock + LeaseTicks
               r == Replaced(ops[k], ops[k].phase, t)
               x == [calls[c] EXCEPT !.pc = "held", !.lease = r.lease]
    <3>1. SetCall(c, x) /\ SetOp(k, r)
      BY <2>3 DEF ReclaimAdmit
    <3>2. /\ k \in Keys /\ ops[k] \in Operation /\ ops[k].phase \in Phases
          /\ t \in Nat /\ ops[k].state = "pending"
      BY <1>0, <2>0, <2>3 DEF ReclaimAdmit, Operation
    <3> HIDE DEF t
    <3>3. r.state = ops[k].state /\ r.lease = ops[k].lease + 1
      BY <1>0, <3>2, ReplacedToken
    <3> HIDE DEF r
    <3>5. x.key = k /\ x.lease = r.lease
      BY <2>0 DEF Call
    <3> HIDE DEF x
    <3> QED
      BY <2>2, <3>1, <3>2, <3>3, <3>5
  <2>4. CASE \E next \in Phases : AdvancePhase(c, next)
    <3>0. PICK next \in Phases : AdvancePhase(c, next)
      BY <2>4
    <3> DEFINE t == clock + LeaseTicks
               r == Replaced(ops[k], next, t)
               x == [calls[c] EXCEPT !.pc = "syncing", !.phase = next,
                                     !.lease = r.lease]
    <3>1. SetCall(c, x) /\ SetOp(k, r)
      BY <3>0 DEF AdvancePhase
    <3>2. calls[c].pc = "held" /\ ops[k].state = "pending"
      BY <3>0 DEF AdvancePhase, LeaseValid
    <3>3. k \in Keys /\ ops[k] \in Operation /\ t \in Nat
      BY <1>0, <2>0, <3>2
    <3> HIDE DEF t
    <3>4. r.state = ops[k].state /\ r.lease = ops[k].lease + 1
      BY <1>0, <3>3, ReplacedToken
    <3> HIDE DEF r
    <3>6. x.key = k /\ x.lease = r.lease
      BY <2>0 DEF Call
    <3> HIDE DEF x
    <3> QED
      BY <2>2, <3>1, <3>2, <3>3, <3>4, <3>6
  <2>5. CASE RenewLeases(c)
    <3> DEFINE t == RenewedExpiry(ops[k])
               r == Replaced(ops[k], ops[k].phase, t)
               x == [calls[c] EXCEPT !.lease = r.lease]
    <3>1. SetCall(c, x) /\ SetOp(k, r)
      BY <2>5 DEF RenewLeases
    <3>2. /\ k \in Keys /\ ops[k] \in Operation /\ ops[k].phase \in Phases
          /\ ops[k].state = "pending"
      BY <2>0, <2>5 DEF RenewLeases, LeaseValid, Operation
    <3>3. t \in Nat
      BY <1>0, <3>2 DEF RenewedExpiry, Operation
    <3> HIDE DEF t
    <3>4. r.state = ops[k].state /\ r.lease = ops[k].lease + 1
      BY <1>0, <3>2, <3>3, ReplacedToken
    <3> HIDE DEF r
    <3>6. x.key = k /\ x.lease = r.lease
      BY <2>0 DEF Call
    <3> HIDE DEF x
    <3> QED
      BY <2>2, <3>1, <3>2, <3>4, <3>6
  <2>6. CASE EnqueueJob(c) \/ CloseJob(c) \/ SuspendForGrant(c)
    <3>1. PICK p \in {"syncing", "parking"} :
            calls' = [calls EXCEPT ![c] = [calls[c] EXCEPT !.pc = p]]
      BY <2>6 DEF EnqueueJob, CloseJob, SuspendForGrant, SetCall
    <3>2. calls[c].pc = "held" /\ ops[k].state = "pending" /\ k \in Keys
      BY <2>0, <2>6 DEF EnqueueJob, CloseJob, SuspendForGrant, LeaseValid
    <3>3. /\ calls'[c].key = k /\ calls'[c].lease = calls[c].lease
          /\ \A d \in Calls \ {c} : calls'[d] = calls[d]
      BY <1>0, <2>0, <3>1 DEF Call
    <3>4. \E r : /\ SetOp(k, r) /\ r.lease = ops[k].lease
                 /\ r.state = ops[k].state
      <4>1. CASE EnqueueJob(c)
        <5> DEFINE t == clock + ExecutionTicks
                   r == [ops[k] EXCEPT !.job = "live", !.bound = t]
        <5>1. SetOp(k, r) /\ ops[k] \in Operation /\ t \in Nat
          BY <1>0, <2>0, <3>2, <4>1, BoundsAssumption DEF EnqueueJob
        <5> HIDE DEF t
        <5>2. r.lease = ops[k].lease /\ r.state = ops[k].state
          BY <5>1, EnqueuedRow
        <5> HIDE DEF r
        <5> QED
          BY <5>1, <5>2
      <4>2. CASE CloseJob(c)
        BY <2>0, <3>2, <4>2 DEF CloseJob, Operation
      <4>3. CASE SuspendForGrant(c)
        <5> DEFINE r == [ops[k] EXCEPT !.expires = clock, !.suspended = TRUE]
        <5>1. SetOp(k, r) /\ ops[k] \in Operation
          BY <2>0, <3>2, <4>3 DEF SuspendForGrant
        <5>2. r.lease = ops[k].lease /\ r.state = ops[k].state
          BY <1>0, <5>1, SuspendedRow
        <5> HIDE DEF r
        <5> QED
          BY <5>1, <5>2
      <4> QED
        BY <2>6, <4>1, <4>2, <4>3
    <3>5. \A q \in Keys : ops'[q].state = ops[q].state /\ ops'[q].lease = ops[q].lease
      BY <1>0, <3>2, <3>4 DEF SetOp
    <3> QED
      BY <3>2, <3>3, <3>5, TokenKept DEF Holding
  <2>7. CASE Sync(c)
    <3>1. CASE calls[c].pc = "syncing"
      <4>1. /\ calls' = [calls EXCEPT ![c] = [calls[c] EXCEPT !.pc = "held"]]
            /\ UNCHANGED ops
        BY <2>7, <3>1 DEF Sync, SetCall
      <4>2. /\ calls'[c].key = k /\ calls'[c].lease = calls[c].lease
            /\ \A d \in Calls \ {c} : calls'[d] = calls[d]
        BY <1>0, <2>0, <4>1 DEF Call
      <4> QED
        BY <3>1, <4>1, <4>2, TokenKept DEF Holding
    <3>2. CASE calls[c].pc # "syncing"
      <4>1. calls' = [calls EXCEPT ![c] = IdleCall] /\ UNCHANGED ops
        BY <2>7, <3>2 DEF Sync, SetCall
      <4>2. calls'[c].pc = "idle" /\ \A d \in Calls \ {c} : calls'[d] = calls[d]
        BY <1>0, <4>1 DEF IdleCall
      <4> QED
        BY <4>1, <4>2, TokenKept DEF Holding
    <3> QED
      BY <3>1, <3>2
  <2>8. CASE CommitCheck(c) \/ CommitConflict(c) \/ FailCheck(c)
    <3>1. /\ calls' = [calls EXCEPT ![c] = IdleCall] /\ calls[c].pc = "held"
          /\ \E v \in Verdicts : SetOp(k, Terminal(ops[k], v))
      BY <2>8 DEF CommitCheck, CommitConflict, FailCheck, SetCall, Verdicts
    <3>2. \E r : SetOp(k, r) /\ r.state = "complete"
      BY <2>0, <3>1, TerminalRow
    <3>3. calls'[c].pc = "idle" /\ \A d \in Calls \ {c} : calls'[d] = calls[d]
      BY <1>0, <3>1 DEF IdleCall
    <3>4. \A q \in Keys : ops'[q] = ops[q] \/ ops'[q].state = "complete"
      BY <1>0, <3>2 DEF SetOp
    <3> QED
      BY <3>3, <3>4, TokenKept DEF Holding
  <2>9. CASE Leave(c) \/ CommitReplays(c) \/ CommitRefused(c) \/ FailSettled(c)
    <3>1. calls' = [calls EXCEPT ![c] = IdleCall] /\ UNCHANGED ops
      BY <2>9 DEF Leave, CommitReplays, CommitRefused, FailSettled, SetCall
    <3>2. calls'[c].pc = "idle" /\ \A d \in Calls \ {c} : calls'[d] = calls[d]
      BY <1>0, <3>1 DEF IdleCall
    <3> QED
      BY <3>1, <3>2, TokenKept DEF Holding
  <2>10. CASE \/ \E q \in Keys, e \in 0..Frontier : FreezeBegin(c, q, e)
              \/ \E q \in Keys : ReclaimBegin(c, q)
    <3>1. PICK q, e, p, n, m : /\ m \in {"staging", "reclaiming"}
                            /\ calls' = [calls EXCEPT ![c] = Entered(m, q, e, p, n)]
                            /\ UNCHANGED ops
      BY <2>10 DEF FreezeBegin, ReclaimBegin, SetCall
    <3>2. calls'[c].pc = m /\ \A d \in Calls \ {c} : calls'[d] = calls[d]
      BY <1>0, <3>1 DEF Entered
    <3> QED
      BY <3>1, <3>2, TokenKept DEF Holding
  <2> QED
    BY <1>1, <2>1, <2>3, <2>4, <2>5, <2>6, <2>7, <2>8, <2>9, <2>10 DEF CallStep
<1>2. CASE UNCHANGED <<calls, ops>>
  BY <1>2, TokenKept DEF Holding
<1>3. CASE AppendStep
  BY <1>2, <1>3 DEF AppendStep, AppendWork, AppendImport, AppendObserved,
                    AppendReceipt
<1>4. CASE RowStep
  BY <1>2, <1>4 DEF RowStep, RecordTicket, DeleteTicket, TombstoneTicket,
                    ReserveImport, CloseImport, ReplayVerdict
<1>5. CASE Tick \/ UNCHANGED vars
  BY <1>2, <1>5 DEF Tick, vars
<1>6. CASE \E bad \in SUBSET Keys : Restart(bad)
  <2>1. \A c \in Calls : calls'[c].pc = "idle"
    BY <1>6 DEF Restart, IdleCall
  <2> QED
    BY <2>1 DEF TokenInv, Holding
<1> QED
  BY <1>1, <1>3, <1>4, <1>5, <1>6 DEF Next

-----------------------------------------------------------------------------
(* The observation barrier.                                                *)

(* A row is left alone, takes over a lease now, or is not more alive than   *)
(* it was.                                                                  *)
Barred(k) ==
  \/ ops'[k] = ops[k] /\ acquired'[k] = acquired[k]
  \/ /\ WellOwned(ops[k])'
     /\ \/ acquired'[k] = Len(log')
        \/ acquired'[k] = acquired[k] /\ (LiveLease(k)' => LiveLease(k))

LeaseMotion ==
  /\ \A k \in Keys : Barred(k)
  /\ UNCHANGED disk \/ disk' = ops \/ Persist
  /\ UNCHANGED <<clock, gen>>

(* A step of one invocation that rewrites one row.                          *)
LEMMA OneRowMoves ==
  ASSUME TypeOK, NEW k \in Keys, NEW r, SetOp(k, r),
         UNCHANGED disk \/ Persist,
         UNCHANGED <<clock, gen>>,
         r.owner <= gen,
         r.suspended => r.expires <= clock,
         \/ acquired' = [acquired EXCEPT ![k] = Frontier] /\ UNCHANGED log
         \/ /\ UNCHANGED acquired
            /\ (/\ r.state = "pending" /\ ~r.suspended
                /\ r.owner = gen /\ r.expires > clock) => LiveLease(k)
  PROVE  LeaseMotion
<1>1. /\ ops'[k] = r
      /\ \A q \in Keys \ {k} : ops'[q] = ops[q] /\ acquired'[q] = acquired[q]
  BY DEF TypeOK, SetOp
<1>2. WellOwned(ops[k])'
  BY <1>1 DEF WellOwned
<1>3. \/ acquired'[k] = Len(log')
      \/ acquired'[k] = acquired[k] /\ (LiveLease(k)' => LiveLease(k))
  <2>1. CASE acquired' = [acquired EXCEPT ![k] = Frontier] /\ UNCHANGED log
    BY <2>1 DEF TypeOK, Frontier
  <2>2. CASE /\ UNCHANGED acquired
             /\ (/\ r.state = "pending" /\ ~r.suspended
                 /\ r.owner = gen /\ r.expires > clock) => LiveLease(k)
    BY <1>1, <2>2 DEF LiveLease
  <2> QED
    BY <2>1, <2>2
<1>4. \A q \in Keys : Barred(q)
  BY <1>1, <1>2, <1>3 DEF Barred
<1> QED
  BY <1>4 DEF LeaseMotion

(* Working under the lease never revives one: a renewal or an advance needs *)
(* a lease that is live, and a suspended lease has lapsed.                  *)
LEMMA CallMotion ==
  ASSUME TypeOK, OwnerInv, NEW c \in Calls, CallStep(c)
  PROVE  LeaseMotion
<1> DEFINE k == calls[c].key
<1>0. /\ clock \in Nat /\ gen \in Nat /\ LeaseTicks \in Nat
      /\ ExecutionTicks \in Nat
      /\ calls[c].pc # "idle" => k \in Keys /\ ops[k] \in Operation
  BY BoundsAssumption DEF TypeOK
<1>1. CASE UNCHANGED <<ops, acquired, clock, gen>> /\ (UNCHANGED disk \/ disk' = ops)
  BY <1>1 DEF LeaseMotion, Barred
<1>2. CASE \/ \E q \in Keys, e \in 0..Frontier : FreezeBegin(c, q, e)
           \/ \E q \in Keys : ReclaimBegin(c, q)
           \/ Leave(c) \/ Sync(c)
  BY <1>1, <1>2 DEF FreezeBegin, ReclaimBegin, Leave, Sync
<1>3. CASE CommitReplays(c) \/ CommitRefused(c) \/ FailSettled(c)
  BY <1>1, <1>3 DEF CommitReplays, CommitRefused, FailSettled
<1>4. CASE FreezeAdmit(c)
  <2> DEFINE r == Frozen(calls[c].expected, calls[c].base)
  <2>1. /\ k \in Keys /\ SetOp(k, r) /\ Persist
        /\ acquired' = [acquired EXCEPT ![k] = Frontier]
        /\ UNCHANGED <<log, clock, gen>>
    BY <1>0, <1>4 DEF FreezeAdmit
  <2>2. r.owner = gen /\ r.suspended = FALSE
    BY DEF Frozen
  <2> HIDE DEF r
  <2>3. r.owner <= gen /\ ~r.suspended
    BY <1>0, <2>2
  <2> QED
    BY <2>1, <2>3, OneRowMoves
<1>5. ASSUME NEW phase \in Phases, NEW t \in Nat, calls[c].pc # "idle",
             SetOp(k, Replaced(ops[k], phase, t)),
             UNCHANGED disk \/ Persist,
             UNCHANGED <<log, clock, gen>>,
             \/ acquired' = [acquired EXCEPT ![k] = Frontier]
             \/ UNCHANGED acquired /\ LiveLease(k)
      PROVE  LeaseMotion
  <2> DEFINE r == Replaced(ops[k], phase, t)
  <2>1. r.owner = gen /\ r.suspended = FALSE
    BY <1>0, <1>5 DEF Replaced, Operation
  <2>2. SetOp(k, r) /\ k \in Keys
    BY <1>0, <1>5
  <2> HIDE DEF r
  <2> QED
    BY <1>0, <1>5, <2>1, <2>2, OneRowMoves
<1>6. ASSUME calls[c].pc # "idle", LeaseValid(c)
      PROVE  LiveLease(k)
  BY <1>0, <1>6 DEF LeaseValid, LiveLease, OwnerInv, WellOwned, Operation
<1>7. CASE ReclaimAdmit(c)
  <2> DEFINE t == clock + LeaseTicks
  <2>1. /\ calls[c].pc # "idle" /\ SetOp(k, Replaced(ops[k], ops[k].phase, t))
        /\ Persist /\ UNCHANGED <<log, clock, gen>>
        /\ acquired' = [acquired EXCEPT ![k] = Frontier]
    BY <1>7 DEF ReclaimAdmit
  <2>2. ops[k].phase \in Phases /\ t \in Nat
    BY <1>0, <2>1 DEF Operation
  <2> HIDE DEF t
  <2> QED
    BY <1>5, <2>1, <2>2
<1>8. CASE \E next \in Phases : AdvancePhase(c, next)
  <2>1. PICK next \in Phases : AdvancePhase(c, next)
    BY <1>8
  <2> DEFINE t == clock + LeaseTicks
  <2>2. /\ calls[c].pc # "idle" /\ SetOp(k, Replaced(ops[k], next, t))
        /\ LeaseValid(c) /\ UNCHANGED <<log, disk, clock, gen, acquired>>
    BY <2>1 DEF AdvancePhase
  <2>3. t \in Nat /\ LiveLease(k)
    BY <1>0, <1>6, <2>2
  <2> HIDE DEF t
  <2> QED
    BY <1>5, <2>2, <2>3
<1>9. CASE RenewLeases(c)
  <2> DEFINE t == RenewedExpiry(ops[k])
  <2>1. /\ calls[c].pc # "idle" /\ SetOp(k, Replaced(ops[k], ops[k].phase, t))
        /\ Persist /\ LeaseValid(c) /\ UNCHANGED <<log, clock, gen, acquired>>
    BY <1>9 DEF RenewLeases
  <2>2. ops[k].phase \in Phases /\ t \in Nat
    BY <1>0, <2>1 DEF RenewedExpiry, Operation
  <2>3. LiveLease(k)
    BY <1>6, <2>1
  <2> HIDE DEF t
  <2> QED
    BY <1>5, <2>1, <2>2, <2>3
<1>10. CASE EnqueueJob(c)
  <2> DEFINE t == clock + ExecutionTicks
             r == [ops[k] EXCEPT !.job = "live", !.bound = t]
  <2>1. /\ calls[c].pc # "idle" /\ SetOp(k, r) /\ LeaseValid(c)
        /\ UNCHANGED <<disk, clock, gen, acquired>>
    BY <1>10 DEF EnqueueJob
  <2>2. k \in Keys /\ ops[k] \in Operation /\ t \in Nat /\ LiveLease(k)
    BY <1>0, <1>6, <2>1
  <2> HIDE DEF t
  <2>3. r.owner = ops[k].owner /\ r.expires = ops[k].expires
    BY <2>2, EnqueuedRow
  <2>4. r.suspended = ops[k].suspended
    BY <2>2, EnqueuedRow
  <2> HIDE DEF r
  <2>5. r.owner <= gen /\ (r.suspended => r.expires <= clock)
    BY <2>2, <2>3, <2>4 DEF OwnerInv, WellOwned
  <2> QED
    BY <2>1, <2>2, <2>5, OneRowMoves
<1>11. CASE CloseJob(c)
  <2> DEFINE r == [ops[k] EXCEPT !.job = "done"]
  <2>1. /\ calls[c].pc # "idle" /\ SetOp(k, r)
        /\ UNCHANGED <<disk, clock, gen, acquired>>
    BY <1>11 DEF CloseJob
  <2>2. k \in Keys /\ ops[k] \in Operation
    BY <1>0, <2>1
  <2>3. /\ r.owner = ops[k].owner /\ r.expires = ops[k].expires
        /\ r.suspended = ops[k].suspended /\ r.state = ops[k].state
    BY <2>2 DEF Operation
  <2> HIDE DEF r
  <2>4. r.owner <= gen /\ (r.suspended => r.expires <= clock)
    BY <2>2, <2>3 DEF OwnerInv, WellOwned
  <2>5. (/\ r.state = "pending" /\ ~r.suspended
         /\ r.owner = gen /\ r.expires > clock) => LiveLease(k)
    BY <2>3 DEF LiveLease
  <2> QED
    BY <2>1, <2>2, <2>4, <2>5, OneRowMoves
<1>12. CASE SuspendForGrant(c)
  <2> DEFINE r == [ops[k] EXCEPT !.expires = clock, !.suspended = TRUE]
  <2>1. /\ calls[c].pc # "idle" /\ SetOp(k, r)
        /\ UNCHANGED <<disk, clock, gen, acquired>>
    BY <1>12 DEF SuspendForGrant
  <2>2. k \in Keys /\ ops[k] \in Operation
    BY <1>0, <2>1
  <2>3. r.owner = ops[k].owner /\ r.expires = clock
    BY <1>0, <2>2, SuspendedRow
  <2> HIDE DEF r
  <2>4. r.owner <= gen /\ r.expires <= clock /\ ~(r.expires > clock)
    BY <1>0, <2>2, <2>3 DEF OwnerInv, WellOwned
  <2> QED
    BY <2>1, <2>2, <2>4, OneRowMoves
<1>13. CASE CommitCheck(c) \/ CommitConflict(c) \/ FailCheck(c)
  <2>1. PICK v \in Verdicts : SetOp(k, Terminal(ops[k], v))
    BY <1>13 DEF CommitCheck, CommitConflict, FailCheck, Verdicts
  <2>2. /\ calls[c].pc # "idle" /\ Persist /\ UNCHANGED <<clock, gen, acquired>>
    BY <1>13 DEF CommitCheck, CommitConflict, FailCheck
  <2> DEFINE r == Terminal(ops[k], v)
  <2>3. k \in Keys /\ ops[k] \in Operation
    BY <1>0, <2>2
  <2>4. r.state = "complete" /\ r.owner = 0
    BY <2>3, TerminalRow
  <2>5. r.expires = 0
    BY <2>3 DEF Terminal, Operation
  <2>6. SetOp(k, r)
    BY <2>1
  <2> HIDE DEF r
  <2> QED
    BY <1>0, <2>2, <2>3, <2>4, <2>5, <2>6, OneRowMoves
<1> QED
  BY <1>2, <1>3, <1>4, <1>7, <1>8, <1>9, <1>10, <1>11, <1>12, <1>13 DEF CallStep

(* Rows stay well owned when each row moves as a lease does.                *)
LEMMA OwnerKept ==
  ASSUME OwnerInv, \A k \in Keys : ops'[k] = ops[k] \/ WellOwned(ops[k])',
         UNCHANGED disk \/ disk' = ops \/ Persist,
         UNCHANGED <<clock, gen>>
  PROVE  OwnerInv'
<1>1. \A k \in Keys : WellOwned(ops[k])'
  BY DEF OwnerInv, WellOwned
<1>2. \A k \in Keys : WellOwned(disk[k])'
  BY <1>1 DEF OwnerInv, WellOwned, Persist
<1> QED
  BY <1>1, <1>2 DEF OwnerInv

(* No step leaves a row owned by a future service, or suspended and leased. *)
LEMMA OwnerStep ==
  ASSUME TypeOK, TypeOK', OwnerInv, [Next]_vars
  PROVE  OwnerInv'
<1>0. /\ clock \in Nat /\ gen \in Nat
      /\ ops \in [Keys -> Operation] /\ disk \in [Keys -> Operation]
  BY DEF TypeOK
<1>1. CASE \E c \in Calls : CallStep(c)
  BY <1>1, CallMotion, OwnerKept DEF LeaseMotion, Barred
<1>2. CASE UNCHANGED <<ops, disk, clock, gen>>
  BY <1>2, OwnerKept
<1>3. CASE AppendStep
  BY <1>2, <1>3 DEF AppendStep, AppendWork, AppendImport, AppendObserved,
                    AppendReceipt
<1>4. CASE RowStep
  BY <1>2, <1>4 DEF RowStep, RecordTicket, DeleteTicket, TombstoneTicket,
                    ReserveImport, CloseImport, ReplayVerdict
<1>5. CASE Tick
  <2>1. UNCHANGED <<ops, disk, gen>> /\ clock' = clock + 1
    BY <1>5 DEF Tick
  <2>2. \A r \in Operation : WellOwned(r) => r.owner <= gen' /\ (r.suspended => r.expires <= clock')
    BY <1>0, <2>1 DEF WellOwned, Operation
  <2> QED
    BY <1>0, <2>1, <2>2 DEF OwnerInv, WellOwned
<1>6. CASE \E bad \in SUBSET Keys : Restart(bad)
  <2>1. PICK bad \in SUBSET Keys : Restart(bad)
    BY <1>6
  <2>2. /\ gen' = gen + 1 /\ UNCHANGED clock /\ disk' = ops'
        /\ \A k \in Keys :
             ops'[k] = IF k \in bad THEN Quarantined(disk[k]) ELSE disk[k]
    BY <2>1 DEF Restart, Persist
  <2>3. ASSUME NEW k \in Keys PROVE WellOwned(ops[k])'
    <3>1. CASE k \in bad
      <4>1. disk[k] \in Operation
        BY <1>0
      <4>2. Quarantined(disk[k]).owner = 0 /\ Quarantined(disk[k]).expires = 0
        BY <4>1, QuarantinedRow
      <4>3. ops'[k].owner = 0 /\ ops'[k].expires = 0
        BY <2>2, <3>1, <4>2
      <4> QED
        BY <1>0, <2>2, <4>3 DEF WellOwned
    <3>2. CASE k \notin bad
      <4>1. ops'[k] = disk[k] /\ disk[k].owner \in Nat /\ WellOwned(disk[k])
        BY <1>0, <2>2, <3>2 DEF Operation, OwnerInv
      <4> QED
        BY <1>0, <2>2, <4>1 DEF WellOwned
    <3> QED
      BY <3>1, <3>2
  <2> QED
    BY <2>2, <2>3 DEF OwnerInv, WellOwned
<1>7. CASE UNCHANGED vars
  BY <1>2, <1>7 DEF vars
<1> QED
  BY <1>1, <1>3, <1>4, <1>5, <1>6, <1>7 DEF Next

(* The barrier survives when no lease is revived without being taken over   *)
(* at the current head, and an observation lands only outside it.           *)
LEMMA BarrierKept ==
  ASSUME TypeOK, BarrierHolds,
         \A k \in Keys :
           \/ acquired'[k] = Len(log')
           \/ acquired'[k] = acquired[k] /\ (LiveLease(k)' => LiveLease(k)),
         \/ UNCHANGED log
         \/ \E r \in Record :
              /\ log' = Append(log, r)
              /\ r.op \in Observed => ~HasActiveFrozenCase(SessionOf[r.op])
  PROVE  BarrierHolds'
<1> SUFFICES ASSUME NEW k \in Keys, LiveLease(k)', NEW i \in 1..Len(log'),
                    acquired'[k] < i, log'[i].op \in Observed
             PROVE  SessionOf[log'[i].op] # SessionOf[k]
  BY DEF BarrierHolds
<1>0. log \in Seq(Record) /\ Len(log) \in Nat
  BY DEF TypeOK
<1>1. acquired'[k] = acquired[k] /\ LiveLease(k)
  <2>1. Len(log') \in Nat
    BY <1>0
  <2> QED
    BY <2>1
<1>2. CASE UNCHANGED log
  BY <1>1, <1>2 DEF BarrierHolds
<1>3. CASE \E r \in Record :
             /\ log' = Append(log, r)
             /\ r.op \in Observed => ~HasActiveFrozenCase(SessionOf[r.op])
  <2>1. PICK r \in Record :
          /\ log' = Append(log, r)
          /\ r.op \in Observed => ~HasActiveFrozenCase(SessionOf[r.op])
    BY <1>3
  <2>2. CASE i \in 1..Len(log)
    <3>1. log'[i] = log[i]
      BY <1>0, <2>1, <2>2
    <3> QED
      BY <1>1, <2>2, <3>1 DEF BarrierHolds
  <2>3. CASE i = Len(log) + 1
    <3>1. log'[i] = r
      BY <1>0, <2>1, <2>3
    <3>2. ~HasActiveFrozenCase(SessionOf[r.op])
      BY <2>1, <3>1
    <3> QED
      BY <1>1, <3>1, <3>2 DEF HasActiveFrozenCase, LiveLease
  <2> QED
    BY <1>0, <2>1, <2>2, <2>3
<1> QED
  BY <1>2, <1>3

(* No step breaches the barrier of a live lease.                            *)
LEMMA BarrierStep ==
  ASSUME TypeOK, TypeOK', OwnerInv, BarrierHolds, [Next]_vars
  PROVE  BarrierHolds'
<1>0. /\ clock \in Nat /\ gen \in Nat
      /\ ops \in [Keys -> Operation] /\ disk \in [Keys -> Operation]
  BY DEF TypeOK
<1>1. ASSUME NEW c \in Calls, CallStep(c) PROVE BarrierHolds'
  <2>1. UNCHANGED <<clock, gen>> /\ \A k \in Keys : Barred(k)
    BY <1>1, CallMotion DEF LeaseMotion
  <2>2. \A k \in Keys :
           \/ acquired'[k] = Len(log')
           \/ acquired'[k] = acquired[k] /\ (LiveLease(k)' => LiveLease(k))
    BY <2>1 DEF Barred, LiveLease
  <2>3. CASE UNCHANGED log
    BY <2>2, <2>3, BarrierKept
  <2>4. CASE CommitCheck(c)
    <3> DEFINE r == [op |-> calls[c].key, since |-> ops[calls[c].key].expected]
    <3>1. calls[c].pc = "held" /\ log' = Append(log, r)
      BY <2>4 DEF CommitCheck
    <3>2. calls[c].key \in Keys
      BY <3>1 DEF TypeOK
    <3>3. r \in Record /\ r.op \notin Observed
      BY <1>0, <3>2, KeysAssumption DEF Record, Operation, Appends
    <3> HIDE DEF r
    <3> QED
      BY <2>2, <3>1, <3>3, BarrierKept
  <2> QED
    BY <1>1, <2>3, <2>4
       DEF CallStep, FreezeBegin, ReclaimBegin, FreezeAdmit, ReclaimAdmit, Leave,
           AdvancePhase, EnqueueJob, CloseJob, SuspendForGrant, Sync, RenewLeases,
           CommitReplays, CommitRefused, CommitConflict, FailCheck, FailSettled
<1>2. CASE AppendStep
  <2>1. UNCHANGED <<ops, clock, gen, acquired>>
    BY <1>2 DEF AppendStep, AppendWork, AppendImport, AppendObserved, AppendReceipt
  <2>2. \E r \in Record :
          /\ log' = Append(log, r)
          /\ r.op \in Observed => ~HasActiveFrozenCase(SessionOf[r.op])
    <3>0. Len(log) \in Nat
      BY DEF TypeOK
    <3>1. CASE \E a \in Works : AppendWork(a)
      BY <3>0, <3>1, AppendsAssumption DEF AppendWork, Record, Frontier, Appends
    <3>2. CASE \E a \in Imports : AppendImport(a)
      BY <3>0, <3>2, AppendsAssumption DEF AppendImport, Record, Frontier, Appends
    <3>3. CASE \E a \in Observed : AppendObserved(a)
      BY <3>0, <3>3 DEF AppendObserved, Record, Frontier, Appends
    <3>4. CASE \E a \in Receipts, e \in 0..Frontier : AppendReceipt(a, e)
      <4>1. PICK a \in Receipts, e \in 0..Frontier : AppendReceipt(a, e)
        BY <3>4
      <4> DEFINE r == [op |-> a, since |-> e]
      <4>2. log' = Append(log, r)
        BY <4>1 DEF AppendReceipt
      <4>3. r \in Record /\ r.op \notin Observed
        BY <3>0, AppendsAssumption DEF Record, Frontier, Appends
      <4> HIDE DEF r
      <4> QED
        BY <4>2, <4>3
    <3> QED
      BY <1>2, <3>1, <3>2, <3>3, <3>4 DEF AppendStep
  <2> QED
    BY <2>1, <2>2, BarrierKept DEF LiveLease
<1>3. CASE UNCHANGED <<log, ops, clock, gen, acquired>>
  BY <1>3, BarrierKept DEF LiveLease
<1>4. CASE RowStep
  BY <1>3, <1>4 DEF RowStep, RecordTicket, DeleteTicket, TombstoneTicket,
                    ReserveImport, CloseImport, ReplayVerdict
<1>5. CASE Tick
  <2>1. UNCHANGED <<log, ops, gen, acquired>> /\ clock' = clock + 1
    BY <1>5 DEF Tick
  <2>2. \A k \in Keys : ops[k].expires \in Nat
    BY <1>0 DEF Operation
  <2>3. \A k \in Keys : LiveLease(k)' => LiveLease(k)
    BY <1>0, <2>1, <2>2 DEF LiveLease
  <2> QED
    BY <2>1, <2>3, BarrierKept
<1>6. CASE \E bad \in SUBSET Keys : Restart(bad)
  <2>1. PICK bad \in SUBSET Keys : Restart(bad)
    BY <1>6
  <2>2. /\ gen' = gen + 1 /\ UNCHANGED <<log, acquired>>
        /\ \A k \in Keys :
             ops'[k] = IF k \in bad THEN Quarantined(disk[k]) ELSE disk[k]
    BY <2>1 DEF Restart
  <2>3. ASSUME NEW k \in Keys PROVE ~LiveLease(k)'
    <3>1. CASE k \in bad
      <4>1. disk[k] \in Operation
        BY <1>0
      <4>2. Quarantined(disk[k]).owner = 0
        BY <4>1, QuarantinedRow
      <4> QED
        BY <1>0, <2>2, <3>1, <4>2 DEF LiveLease
    <3>2. CASE k \notin bad
      <4>1. ops'[k] = disk[k] /\ disk[k].owner \in Nat /\ disk[k].owner <= gen
        BY <1>0, <2>2, <3>2 DEF Operation, OwnerInv, WellOwned
      <4> QED
        BY <1>0, <2>2, <4>1 DEF LiveLease
    <3> QED
      BY <3>1, <3>2
  <2> QED
    BY <2>2, <2>3, BarrierKept
<1>7. CASE UNCHANGED vars
  BY <1>3, <1>7 DEF vars
<1> QED
  BY <1>1, <1>2, <1>4, <1>5, <1>6, <1>7 DEF Next

-----------------------------------------------------------------------------
(* The theorems.                                                           *)

(* The tokens, the owners and the barrier, with the verdict invariants they *)
(* rest on, hold in every reachable state of the ledger.                    *)
THEOREM LeaseInvariant == Spec => [](TokenInv /\ OwnerInv /\ BarrierHolds)
<1> DEFINE Inv == TokenInv /\ OwnerInv /\ BarrierHolds
<1>1. Init => Inv
  <2> SUFFICES ASSUME Init PROVE Inv
    OBVIOUS
  <2>1. TokenInv
    BY DEF Init, TokenInv, Holding, IdleCall
  <2>2. OwnerInv
    BY DEF Init, OwnerInv, WellOwned, AbsentOperation
  <2>3. BarrierHolds
    BY DEF Init, BarrierHolds, LiveLease, AbsentOperation
  <2> QED
    BY <2>1, <2>2, <2>3
<1>2. /\ TypeOK /\ TypeOK' /\ ReservationInv /\ Inv /\ [Next]_vars => Inv'
  BY TokenStep, OwnerStep, BarrierStep
<1>3. VerdictInv => TypeOK /\ ReservationInv
  BY DEF VerdictInv
<1> HIDE DEF Inv
<1>4. Spec => []Inv
  BY <1>1, <1>2, <1>3, VerdictInvariant, PTL DEF Spec
<1> QED
  BY <1>4 DEF Inv

(* Two invocations never hold a lease the ledger accepts for one request:   *)
(* _require_lease compares tokens, and no token is handed out twice.        *)
THEOREM LeaseIsExclusive == Spec => []LeaseExclusive
<1>1. TypeOK /\ TokenInv => LeaseExclusive
  BY DEF TypeOK, TokenInv, Holding, LeaseExclusive, LeaseValid
<1>2. VerdictInv => TypeOK
  BY DEF VerdictInv
<1> QED
  BY <1>1, <1>2, VerdictInvariant, LeaseInvariant, PTL

(* No observation of a session lands between the acquisition of a lease and *)
(* its end, over every renewal, phase advance and restart.                  *)
THEOREM BarrierIsKept == Spec => []BarrierHolds
  BY LeaseInvariant, PTL

-----------------------------------------------------------------------------
(* Cases.                                                                  *)

(* In the log s nothing but observation follows n up to m.                  *)
Clean(s, n, m) ==
  /\ m <= Len(s)
  /\ \A i \in 1..Len(s) : (n < i /\ i <= m) => s[i].op \in Observed

(* Every open row and every case being staged has a clean case.             *)
CaseInv ==
  /\ \A k \in Keys : ops[k].state = "pending" =>
       Clean(log, ops[k].expected, ops[k].frontier)
  /\ \A c \in Calls : calls[c].pc = "staging" =>
       Clean(log, calls[c].expected, calls[c].base)

Grows == UNCHANGED log \/ \E r \in Record : log' = Append(log, r)

-----------------------------------------------------------------------------
(* Cases stay clean.                                                       *)

(* A clean case stays clean as the log grows.                               *)
LEMMA CleanKept ==
  ASSUME log \in Seq(Record), Grows, NEW n \in Nat, NEW m \in Nat,
         Clean(log, n, m)
  PROVE  Clean(log', n, m)
<1>1. CASE UNCHANGED log
  BY <1>1
<1>2. CASE \E r \in Record : log' = Append(log, r)
  <2>1. PICK r \in Record : log' = Append(log, r)
    BY <1>2
  <2>2. /\ Len(log') = Len(log) + 1 /\ Len(log) \in Nat
        /\ \A i \in 1..Len(log) : log'[i] = log[i]
    BY <2>1
  <2>3. \A i \in 1..Len(log') : i <= m => i \in 1..Len(log)
    BY <2>2 DEF Clean
  <2> QED
    BY <2>2, <2>3 DEF Clean
<1> QED
  BY <1>1, <1>2 DEF Grows

(* A step that stages or opens only clean cases keeps every case clean.     *)
LEMMA CaseKept ==
  ASSUME TypeOK, CaseInv, Grows,
         \A c \in Calls : calls'[c].pc = "staging" =>
           calls'[c] = calls[c] \/ Clean(log', calls'[c].expected, calls'[c].base),
         \A k \in Keys : ops'[k].state = "pending" =>
           \/ /\ ops[k].state = "pending"
              /\ ops'[k].expected = ops[k].expected
              /\ ops'[k].frontier = ops[k].frontier
           \/ Clean(log', ops'[k].expected, ops'[k].frontier)
  PROVE  CaseInv'
<1>0. /\ log \in Seq(Record)
      /\ \A k \in Keys : ops[k].expected \in Nat /\ ops[k].frontier \in Nat
      /\ \A c \in Calls : calls[c].expected \in Nat /\ calls[c].base \in Nat
  BY DEF TypeOK, Operation, Call
<1>1. ASSUME NEW k \in Keys, ops'[k].state = "pending"
      PROVE  Clean(log', ops'[k].expected, ops'[k].frontier)
  <2>1. CASE /\ ops[k].state = "pending"
             /\ ops'[k].expected = ops[k].expected
             /\ ops'[k].frontier = ops[k].frontier
    BY <1>0, <2>1, CleanKept DEF CaseInv
  <2> QED
    BY <1>1, <2>1
<1>2. ASSUME NEW c \in Calls, calls'[c].pc = "staging"
      PROVE  Clean(log', calls'[c].expected, calls'[c].base)
  BY <1>0, <1>2, CleanKept DEF CaseInv
<1> QED
  BY <1>1, <1>2 DEF CaseInv

(* Publications and commits append one record, everything else none.        *)
LEMMA LogGrows ==
  ASSUME TypeOK, VerdictInv, [Next]_vars
  PROVE  Grows
<1>1. \A k \in Keys : ops[k].expected \in Nat
  BY DEF TypeOK, Operation
<1>2. CASE CommitShape
  BY <1>1, <1>2 DEF CommitShape, Grows, Record
<1>3. CASE PublishShape
  BY <1>3 DEF PublishShape, Grows, Record
<1> QED
  BY <1>2, <1>3, StepShape
     DEF Grows, VerdictInv, MoveShape, FreezeShape, RefuseShape, AnswerShape,
         SyncShape, RestartShape, QuietShape

(* A staged case is clean when freeze_case begins and when it is admitted;  *)
(* nothing else opens a request, and no other step changes a case.          *)
LEMMA CaseStep ==
  ASSUME VerdictInv, CaseInv, [Next]_vars
  PROVE  CaseInv'
<1>0. /\ TypeOK /\ ReservationInv /\ CrashLosesOnlyLeaseMotion
      /\ ops \in [Keys -> Operation] /\ disk \in [Keys -> Operation]
      /\ calls \in [Calls -> Call] /\ log \in Seq(Record) /\ Grows
  BY LogGrows DEF VerdictInv, TypeOK
<1>1. ASSUME NEW c \in Calls, CallStep(c) PROVE CaseInv'
  <2>1. ASSUME NEW x, SetCall(c, x), x.pc # "staging",
               \A k \in Keys : ops'[k].state = "pending" =>
                 \/ /\ ops[k].state = "pending"
                    /\ ops'[k].expected = ops[k].expected
                    /\ ops'[k].frontier = ops[k].frontier
                 \/ Clean(log', ops'[k].expected, ops'[k].frontier)
        PROVE  CaseInv'
    <3>1. calls'[c] = x /\ \A d \in Calls \ {c} : calls'[d] = calls[d]
      BY <1>0, <2>1 DEF SetCall
    <3> QED
      BY <1>0, <2>1, <3>1, CaseKept
  <2>2. CASE \E k \in Keys, e \in 0..Frontier : FreezeBegin(c, k, e)
    <3>1. PICK k \in Keys, e \in 0..Frontier : FreezeBegin(c, k, e)
      BY <2>2
    <3> DEFINE x == Entered("staging", k, e, "none", 0)
    <3>2. SetCall(c, x) /\ UNCHANGED <<log, ops>> /\ ObservationOnlySince(e)
      BY <3>1 DEF FreezeBegin
    <3>3. x.expected = e /\ x.base = Len(log)
      BY DEF Entered, Frontier
    <3> HIDE DEF x
    <3>4. Clean(log', x.expected, x.base)
      BY <1>0, <3>2, <3>3 DEF Clean, ObservationOnlySince
    <3>5. calls'[c] = x /\ \A d \in Calls \ {c} : calls'[d] = calls[d]
      BY <1>0, <3>2 DEF SetCall
    <3> QED
      BY <1>0, <3>2, <3>4, <3>5, CaseKept
  <2>3. CASE FreezeAdmit(c)
    <3> DEFINE k == calls[c].key
               r == Frozen(calls[c].expected, calls[c].base)
               x == [calls[c] EXCEPT !.pc = "held", !.phase = "reserved",
                                     !.lease = 1]
    <3>1. /\ k \in Keys /\ SetOp(k, r) /\ SetCall(c, x) /\ UNCHANGED log
          /\ calls[c].pc = "staging"
      BY <1>0, <2>3 DEF FreezeAdmit, TypeOK
    <3>2. r.expected = calls[c].expected /\ r.frontier = calls[c].base
      BY DEF Frozen
    <3>3. x.pc = "held"
      BY <1>0 DEF Call
    <3> HIDE DEF r, x
    <3>4. ops'[k] = r /\ \A q \in Keys \ {k} : ops'[q] = ops[q]
      BY <1>0, <3>1 DEF SetOp
    <3>5. Clean(log', ops'[k].expected, ops'[k].frontier)
      BY <3>1, <3>2, <3>4 DEF CaseInv
    <3> QED
      BY <2>1, <3>1, <3>3, <3>4, <3>5
  <2>4. CASE \/ ReclaimAdmit(c)
             \/ \E next \in Phases : AdvancePhase(c, next)
             \/ EnqueueJob(c) \/ CloseJob(c) \/ SuspendForGrant(c)
             \/ RenewLeases(c)
    <3>1. PICK r \in Operation :
            calls[c].key \in Keys /\ Moved(calls[c].key, r)
      BY <1>0, <2>4, MoveSteps
    <3>2. \A k \in Keys : ops'[k].state = "pending" =>
            /\ ops[k].state = "pending"
            /\ ops'[k].expected = ops[k].expected
            /\ ops'[k].frontier = ops[k].frontier
      BY <1>0, <3>1 DEF Moved, SetOp
    <3>3. \E x : SetCall(c, x) /\ x.pc # "staging"
      <4>0. calls[c] \in Call
        BY <1>0
      <4>1. CASE ReclaimAdmit(c)
        <5>1. PICK n : SetCall(c, [calls[c] EXCEPT !.pc = "held", !.lease = n])
          BY <4>1 DEF ReclaimAdmit
        <5>2. [calls[c] EXCEPT !.pc = "held", !.lease = n].pc = "held"
          BY <4>0 DEF Call
        <5> QED
          BY <5>1, <5>2
      <4>2. CASE \E next \in Phases : AdvancePhase(c, next)
        <5>0. PICK next \in Phases : AdvancePhase(c, next)
          BY <4>2
        <5>1. PICK n :
                SetCall(c, [calls[c] EXCEPT !.pc = "syncing", !.phase = next,
                                            !.lease = n])
          BY <5>0 DEF AdvancePhase
        <5>2. [calls[c] EXCEPT !.pc = "syncing", !.phase = next,
                               !.lease = n].pc = "syncing"
          BY <4>0 DEF Call
        <5> QED
          BY <5>1, <5>2
      <4>3. CASE EnqueueJob(c) \/ CloseJob(c) \/ SuspendForGrant(c)
        <5>1. PICK p \in {"syncing", "parking"} :
                SetCall(c, [calls[c] EXCEPT !.pc = p])
          BY <4>3 DEF EnqueueJob, CloseJob, SuspendForGrant
        <5>2. [calls[c] EXCEPT !.pc = p].pc = p
          BY <4>0 DEF Call
        <5> QED
          BY <5>1, <5>2
      <4>4. CASE RenewLeases(c)
        BY <4>0, <4>4 DEF RenewLeases, Call
      <4> QED
        BY <2>4, <4>1, <4>2, <4>3, <4>4
    <3> QED
      BY <2>1, <3>2, <3>3
  <2>5. CASE CommitCheck(c) \/ CommitConflict(c) \/ FailCheck(c)
    <3>1. PICK v \in Verdicts : SetOp(calls[c].key, Terminal(ops[calls[c].key], v))
      BY <2>5 DEF CommitCheck, CommitConflict, FailCheck, Verdicts
    <3>2. calls[c].pc = "held" /\ SetCall(c, IdleCall)
      BY <2>5 DEF CommitCheck, CommitConflict, FailCheck
    <3>3. calls[c].key \in Keys /\ ops[calls[c].key] \in Operation
      BY <1>0, <3>2 DEF TypeOK
    <3>4. \E r : r.state = "complete" /\ SetOp(calls[c].key, r)
      BY <3>1, <3>3, TerminalRow
    <3>5. \A k \in Keys : ops'[k] = ops[k] \/ ops'[k].state = "complete"
      BY <1>0, <3>3, <3>4 DEF SetOp
    <3> QED
      BY <2>1, <3>2, <3>5 DEF IdleCall
  <2>6. CASE Leave(c) \/ CommitReplays(c) \/ CommitRefused(c) \/ FailSettled(c)
    <3>1. SetCall(c, IdleCall) /\ UNCHANGED ops
      BY <2>6 DEF Leave, CommitReplays, CommitRefused, FailSettled
    <3> QED
      BY <2>1, <3>1 DEF IdleCall
  <2>7. CASE Sync(c)
    <3>1. calls[c] \in Call /\ UNCHANGED ops
      BY <1>0, <2>7 DEF Sync
    <3>2. \E x : SetCall(c, x) /\ x.pc # "staging"
      BY <2>7, <3>1 DEF Sync, Call, IdleCall
    <3> QED
      BY <2>1, <3>1, <3>2
  <2>8. CASE \E k \in Keys : ReclaimBegin(c, k)
    <3>1. PICK k \in Keys :
            /\ SetCall(c, Entered("reclaiming", k, ops[k].expected, ops[k].phase,
                                  ops[k].lease))
            /\ UNCHANGED ops
      BY <2>8 DEF ReclaimBegin
    <3> QED
      BY <2>1, <3>1 DEF Entered
  <2> QED
    BY <1>1, <2>2, <2>3, <2>4, <2>5, <2>6, <2>7, <2>8 DEF CallStep
<1>2. CASE UNCHANGED <<ops, calls>>
  BY <1>0, <1>2, CaseKept
<1>3. CASE AppendStep
  BY <1>2, <1>3 DEF AppendStep, AppendWork, AppendImport, AppendObserved,
                    AppendReceipt
<1>4. CASE RowStep
  BY <1>2, <1>4 DEF RowStep, RecordTicket, DeleteTicket, TombstoneTicket,
                    ReserveImport, CloseImport, ReplayVerdict
<1>5. CASE Tick \/ UNCHANGED vars
  BY <1>2, <1>5 DEF Tick, vars
<1>6. CASE \E bad \in SUBSET Keys : Restart(bad)
  <2>1. PICK bad \in SUBSET Keys : Restart(bad)
    BY <1>6
  <2>2. /\ \A k \in Keys :
             ops'[k] = IF k \in bad THEN Quarantined(disk[k]) ELSE disk[k]
        /\ \A c \in Calls : calls'[c].pc = "idle"
    BY <2>1 DEF Restart, IdleCall
  <2>3. \A k \in Keys : Quarantined(disk[k]).state = "quarantined"
    BY <1>0, QuarantinedRow
  <2>4. ASSUME NEW k \in Keys, ops'[k].state = "pending"
        PROVE  /\ ops[k].state = "pending"
               /\ ops'[k].expected = ops[k].expected
               /\ ops'[k].frontier = ops[k].frontier
    <3>1. ops'[k] = disk[k]
      BY <2>2, <2>3, <2>4
    <3> QED
      BY <1>0, <2>4, <3>1 DEF CrashLosesOnlyLeaseMotion
  <2> QED
    BY <1>0, <2>2, <2>4, CaseKept
<1> QED
  BY <1>1, <1>3, <1>4, <1>5, <1>6 DEF Next

-----------------------------------------------------------------------------
(* No laundering.                                                          *)

(* A new record launders nothing when what follows its frontier allows it.  *)
LEMMA LaunderedAppend ==
  ASSUME log \in Seq(Record), NoLaunderedWork, NEW r \in Record,
         log' = Append(log, r),
         \A j \in 1..Len(log) : r.since < j =>
           /\ r.op \in Keys => log[j].op \in Observed
           /\ r.op \in Receipts => log[j].op \in Observations \cup Receipts
  PROVE  NoLaunderedWork'
<1>1. /\ Len(log) \in Nat /\ Len(log') = Len(log) + 1
      /\ \A i \in 1..Len(log) : log'[i] = log[i]
      /\ log'[Len(log) + 1] = r
  OBVIOUS
<1> SUFFICES ASSUME NEW i \in 1..Len(log'), NEW j \in 1..Len(log'),
                    log'[i].since < j, j < i
             PROVE  /\ log'[i].op \in Keys => log'[j].op \in Observed
                    /\ log'[i].op \in Receipts =>
                         log'[j].op \in Observations \cup Receipts
  BY DEF NoLaunderedWork
<1>2. j \in 1..Len(log)
  BY <1>1
<1>3. CASE i \in 1..Len(log)
  BY <1>1, <1>2, <1>3 DEF NoLaunderedWork
<1>4. CASE i = Len(log) + 1
  BY <1>1, <1>2, <1>4
<1> QED
  BY <1>1, <1>3, <1>4

(* Every step that records something leaves nothing laundered.              *)
LEMMA LaunderedStep ==
  ASSUME VerdictInv, CaseInv, NoLaunderedWork, [Next]_vars
  PROVE  NoLaunderedWork'
<1>0. /\ TypeOK /\ ReservationInv /\ log \in Seq(Record) /\ Len(log) \in Nat
  BY DEF VerdictInv, TypeOK
<1>1. CASE UNCHANGED log
  BY <1>1 DEF NoLaunderedWork
<1>2. ASSUME NEW c \in Calls, CommitCheck(c) PROVE NoLaunderedWork'
  <2> DEFINE k == calls[c].key
             r == [op |-> k, since |-> ops[k].expected]
  <2>1. /\ calls[c].pc = "held" /\ ops[k].state = "pending"
        /\ ObservationOnlySince(ops[k].frontier) /\ log' = Append(log, r)
    BY <1>2 DEF CommitCheck, LeaseValid
  <2>2. k \in Keys /\ ops[k].expected \in Nat /\ ops[k].frontier \in Nat
    BY <1>0, <2>1 DEF TypeOK, Operation
  <2>3. r \in Record /\ r.op = k /\ r.since = ops[k].expected
    BY <2>2 DEF Record
  <2>4. k \notin Receipts
    BY <2>2, KeysAssumption DEF Appends
  <2>5. \A j \in 1..Len(log) : ops[k].expected < j => log[j].op \in Observed
    BY <1>0, <2>1, <2>2 DEF CaseInv, Clean, ObservationOnlySince
  <2> HIDE DEF r
  <2> QED
    BY <1>0, <2>1, <2>3, <2>4, <2>5, LaunderedAppend
<1>3. ASSUME NEW a \in Receipts, NEW e \in 0..Frontier, AppendReceipt(a, e)
      PROVE  NoLaunderedWork'
  <2> DEFINE r == [op |-> a, since |-> e]
  <2>1. log' = Append(log, r) /\ ReceiptSuffixSafe(e)
    BY <1>3 DEF AppendReceipt
  <2>2. r \in Record /\ r.op = a /\ r.since = e /\ a \notin Keys
    BY <1>0, KeysAssumption DEF Record, Appends, Frontier
  <2> HIDE DEF r
  <2> QED
    BY <1>0, <2>1, <2>2, LaunderedAppend DEF ReceiptSuffixSafe
<1>4. ASSUME NEW a \in Appends \ Receipts,
             log' = Append(log, [op |-> a, since |-> Frontier])
      PROVE  NoLaunderedWork'
  <2> DEFINE r == [op |-> a, since |-> Frontier]
  <2>1. r \in Record /\ r.op = a /\ a \notin Keys /\ a \notin Receipts
    BY <1>0, KeysAssumption DEF Record, Appends, Frontier
  <2>2. log' = Append(log, r)
    BY <1>4
  <2> HIDE DEF r
  <2> QED
    BY <1>0, <2>1, <2>2, LaunderedAppend
<1>5. CASE AppendStep
  <2>1. CASE \E a \in Works : AppendWork(a)
    BY <1>4, <2>1, AppendsAssumption DEF AppendWork, Appends
  <2>2. CASE \E a \in Imports : AppendImport(a)
    BY <1>4, <2>2, AppendsAssumption DEF AppendImport, Appends
  <2>3. CASE \E a \in Observed : AppendObserved(a)
    BY <1>4, <2>3, AppendsAssumption DEF AppendObserved, Appends
  <2> QED
    BY <1>3, <1>5, <2>1, <2>2, <2>3 DEF AppendStep
<1>6. ASSUME NEW c \in Calls, CallStep(c) PROVE NoLaunderedWork'
  BY <1>1, <1>2, <1>6
     DEF CallStep, FreezeBegin, ReclaimBegin, FreezeAdmit, ReclaimAdmit, Leave,
         AdvancePhase, EnqueueJob, CloseJob, SuspendForGrant, Sync, RenewLeases,
         CommitReplays, CommitRefused, CommitConflict, FailCheck, FailSettled
<1>7. CASE RowStep \/ Tick \/ UNCHANGED vars
  BY <1>1, <1>7 DEF RowStep, RecordTicket, DeleteTicket, TombstoneTicket,
                    ReserveImport, CloseImport, ReplayVerdict, Tick, vars
<1>8. CASE \E bad \in SUBSET Keys : Restart(bad)
  BY <1>1, <1>8 DEF Restart
<1> QED
  BY <1>5, <1>6, <1>7, <1>8 DEF Next

(* No verdict and no receipt is recorded over agent or importer work its    *)
(* caller had not seen, whatever landed while the case was staged, analysed *)
(* or taken over, and across every restart in between.                      *)
THEOREM NothingIsLaundered == Spec => []NoLaunderedWork
<1>1. Init => CaseInv /\ NoLaunderedWork
  BY DEF Init, CaseInv, NoLaunderedWork, AbsentOperation, IdleCall
<1>2. VerdictInv /\ CaseInv /\ NoLaunderedWork /\ [Next]_vars
        => CaseInv' /\ NoLaunderedWork'
  BY CaseStep, LaunderedStep
<1> QED
  BY <1>1, <1>2, VerdictInvariant, PTL DEF Spec
=============================================================================
