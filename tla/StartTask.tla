----------------------------- MODULE StartTask -----------------------------
(***************************************************************************)
(* The start operation on one workspace/external pair: start.py drives a   *)
(* reservation through four catalog phases while it creates the bundle,    *)
(* appends the lifecycle event and publishes the result object.  Catalog   *)
(* and bundle are two databases, so every step between them is a place     *)
(* where the service may crash or the call be cancelled; a replay of the   *)
(* same request has to pick the work up from what is durable.              *)
(*                                                                         *)
(* A request stands for its operation row, and for the session, writer and *)
(* lifecycle event ids the row froze at reservation.  One service process  *)
(* runs at most one start at a time (Application.start holds _start_lock), *)
(* so there is one attempt, `run`.  Requests select by the pair; handle,   *)
(* delegation and session selectors are not modelled.                      *)
(***************************************************************************)
EXTENDS Naturals, FiniteSets, Sequences

CONSTANTS
    Req,            \* start requests of one pair (external ids)
    ModeOf,         \* [Req -> {"create", "create_or_attach", "attach"}]
    NONE,           \* no session, no result
    MaxCrashes,     \* bound: service restarts
    MaxCancels,     \* bound: cancelled or timed-out calls
    MaxBusy,        \* bound: BUNDLE_BUSY answers of catalog or runtime
    MaxLate,        \* bound: attempts that outlive their lease
    MaxLog,         \* bound: events in the bundle
    MayClose        \* whether the task's work may become terminal

ASSUME StartAssumption ==
    /\ Req # {} /\ IsFiniteSet(Req)
    /\ ModeOf \in [Req -> {"create", "create_or_attach", "attach"}]
    /\ NONE \notin Req
    /\ {MaxCrashes, MaxCancels, MaxBusy, MaxLate, MaxLog} \subseteq Nat
    /\ MayClose \in BOOLEAN

VARIABLES
    route,      \* the task_routes row: state and active_session_id
    op,         \* start_operations rows
    health,     \* task_sessions.health of the session each request minted
    work,       \* task_routes.work_state
    bundle,     \* the bundle directory: absent, made without a ledger, ready
    log,        \* the ledger's events
    objects,    \* finalized START result objects: <<request, frontier>>
    gen,        \* owner_generation of the service process
    run,        \* the attempt that holds _start_lock
    told,       \* answers each request's callers have been given
    faults      \* how many crashes, cancellations and busy answers happened

catalog == <<route, op, health, work>>
disk == <<bundle, log, objects>>
vars == <<catalog, disk, gen, run, told, faults>>

Phases == {"route_reserved", "bundle_ready", "lifecycle_committed",
           "result_published", "terminal"}

\* What a caller is told; `at` is the result's frontier, 0 for an error.
Answer(kind, at) == [kind |-> kind, at |-> at]
Kinds == {"ok", "pending", "retry_ready", "busy", "corrupt", "conflict",
          "not_found", "unsafe", "dir_exists", "session_ended"}

NoOp == [state |-> "absent", phase |-> "route_reserved", action |-> "created",
         owner |-> 0, live |-> FALSE, result |-> 0]
Idle == [pc |-> "idle", req |-> NONE, phase |-> "route_reserved", frontier |-> 0]

Init ==
    /\ route = [state |-> "none", active |-> NONE]
    /\ op = [r \in Req |-> NoOp]
    /\ health = [r \in Req |-> "none"]
    /\ work = "open"
    /\ bundle = "absent"
    /\ log = << >>
    /\ objects = {}
    /\ gen = 1
    /\ run = Idle
    /\ told = [r \in Req |-> {}]
    /\ faults = [crash |-> 0, cancel |-> 0, busy |-> 0, late |-> 0]

-----------------------------------------------------------------------------
Told(r, kind) == told' = [told EXCEPT ![r] = @ \cup {Answer(kind, 0)}]

\* The attempt ends with an error: the caller is told and the runtime and
\* the start lock are released; the catalog row keeps its lease.
FailWith(kind) == Told(run.req, kind) /\ run' = Idle

Lifecycle(r) == [kind |-> "lifecycle", by |-> r]
EventOf(r) == {i \in 1..Len(log) : log[i] = Lifecycle(r)}

\* _require_lease: the row is pending under the unexpired lease of this
\* process.  Only the one attempt reclaims a lease, so lease_generation never
\* tells two holders of a process apart and is left out.
LeaseHeld ==
    LET row == op[run.req]
    IN  row.state = "pending" /\ row.owner = gen /\ row.live

\* From provision_start until release the attempt holds the bundle's runtime.
HoldsRuntime == run.pc \notin {"idle", "reserved", "mkdir"}

-----------------------------------------------------------------------------
(* reserve_or_resume: one catalog transaction.                             *)

Take(r, row) ==
    run' = [pc |-> "reserved", req |-> r, phase |-> row.phase, frontier |-> 0]

\* No row yet: resolve the pair to a route, then create it or attach to it.
Refusal(r) ==
    CASE route.state = "quarantined" -> "corrupt"
      [] ModeOf[r] = "create" /\ route.state # "none" -> "conflict"
      [] ModeOf[r] = "attach" /\ route.state = "none" -> "not_found"
      [] route.state # "none" /\ work # "open" -> "conflict"
      [] OTHER -> "admitted"

Reserve(r) ==
    /\ run.pc = "idle"
    /\ op[r].state = "absent"
    /\ \/ /\ Refusal(r) # "admitted"
          /\ Told(r, Refusal(r))
          /\ UNCHANGED <<catalog, run>>
       \/ /\ Refusal(r) = "admitted"
          /\ LET created == route.state = "none"
                 row == [NoOp EXCEPT !.state = "pending", !.owner = gen, !.live = TRUE,
                            !.action = IF created THEN "created" ELSE "attached"]
             IN  /\ op' = [op EXCEPT ![r] = row]
                 /\ route' = IF created
                             THEN [state |-> "initializing", active |-> r]
                             ELSE route
                 /\ health' = [health EXCEPT ![r] = "active"]
                 /\ Take(r, row)
          /\ UNCHANGED <<work, told>>
    /\ UNCHANGED <<disk, gen, faults>>

\* Mutant: only another process's lease is reclaimed, never an expired one.
ResumeOtherOwnerOnly(r) ==
    /\ run.pc = "idle"
    /\ op[r].state = "pending"
    /\ IF op[r].owner = gen
       THEN Told(r, "pending") /\ UNCHANGED <<op, run>>
       ELSE LET row == [op[r] EXCEPT !.owner = gen, !.live = TRUE]
            IN  op' = [op EXCEPT ![r] = row] /\ Take(r, row) /\ UNCHANGED told
    /\ UNCHANGED <<route, health, work, disk, gen, faults>>

\* _resume_existing on a pending row: a live lease of this generation is
\* OPERATION_PENDING, any other is reclaimed.
Resume(r) ==
    /\ run.pc = "idle"
    /\ op[r].state = "pending"
    /\ \/ /\ op[r].owner = gen /\ op[r].live
          /\ Told(r, "pending")
          /\ UNCHANGED <<op, run>>
       \/ /\ ~(op[r].owner = gen /\ op[r].live)
          /\ LET row == [op[r] EXCEPT !.owner = gen, !.live = TRUE]
             IN  op' = [op EXCEPT ![r] = row] /\ Take(r, row)
          /\ UNCHANGED told
    /\ UNCHANGED <<route, health, work, disk, gen, faults>>

\* A terminal row answers from its stored result; the quarantine envelope of
\* a quarantined row does not decode as a start result.
Replay(r) ==
    /\ run.pc = "idle"
    /\ op[r].state \in {"complete", "quarantined"}
    /\ told' = [told EXCEPT ![r] = @ \cup
                  {IF op[r].state = "complete" THEN Answer("ok", op[r].result)
                   ELSE Answer("corrupt", 0)}]
    /\ UNCHANGED <<catalog, disk, gen, run, faults>>

-----------------------------------------------------------------------------
(* provision_start: the route snapshot, then the bundle on disk.           *)

\* Mutant: the route goes whatever its state.
QuarantineAnyRoute ==
    /\ op' = [op EXCEPT ![run.req] =
                [@ EXCEPT !.state = "quarantined", !.phase = "terminal",
                          !.owner = 0, !.live = FALSE, !.result = 0]]
    /\ route' = [route EXCEPT !.state = "quarantined"]
    /\ FailWith("corrupt")
    /\ UNCHANGED <<health, work>>

\* quarantine: under the lease only; an initializing route a created
\* operation owns goes with it, an active route stays.
Quarantine ==
    /\ IF LeaseHeld
       THEN /\ op' = [op EXCEPT ![run.req] =
                        [@ EXCEPT !.state = "quarantined", !.phase = "terminal",
                                  !.owner = 0, !.live = FALSE,
                                  !.result = 0]]
            /\ route' = IF op[run.req].action = "created"
                             /\ route.state = "initializing"
                        THEN [route EXCEPT !.state = "quarantined"] ELSE route
            /\ FailWith("corrupt")
       ELSE UNCHANGED <<op, route>> /\ FailWith("pending")
    /\ UNCHANGED <<health, work>>

ProvisionQuarantined ==
    /\ run.pc = "reserved" /\ route.state = "quarantined"
    /\ Quarantine
    /\ UNCHANGED <<disk, gen, faults>>

\* inspect_provision: no ledger file means a fresh bundle, whose directory
\* must not exist yet (mkdir exist_ok=False).
ProvisionFresh ==
    /\ run.pc = "reserved" /\ route.state # "quarantined"
    /\ bundle = "absent"
    /\ bundle' = "partial"
    /\ run' = [run EXCEPT !.pc = "mkdir"]
    /\ UNCHANGED <<catalog, log, objects, gen, told, faults>>

InitializeBundle ==
    /\ run.pc = "mkdir"
    /\ bundle' = "ready"
    /\ run' = [run EXCEPT !.pc = "provisioned"]
    /\ UNCHANGED <<catalog, log, objects, gen, told, faults>>

ProvisionExisting ==
    /\ run.pc = "reserved" /\ route.state # "quarantined"
    /\ \/ bundle = "ready" /\ run' = [run EXCEPT !.pc = "provisioned"] /\ UNCHANGED told
       \/ bundle = "partial" /\ FailWith("dir_exists")
    /\ UNCHANGED <<catalog, disk, gen, faults>>

-----------------------------------------------------------------------------
(* The phases after provisioning, each an append, an object or a catalog   *)
(* compare-and-set under the lease.                                        *)

\* advance_phase and its caller: only an attempt whose allocation is still at
\* `from` asks for the successor; a lost lease is OPERATION_PENDING.
Advance(from, to, next, result) ==
    \/ /\ run.phase # from
       /\ run' = [run EXCEPT !.pc = next]
       /\ UNCHANGED <<op, told>>
    \/ /\ run.phase = from /\ LeaseHeld
       /\ op' = [op EXCEPT ![run.req] = [@ EXCEPT !.phase = to, !.result = result]]
       /\ run' = [run EXCEPT !.pc = next, !.phase = to]
       /\ UNCHANGED told
    \/ /\ run.phase = from /\ ~LeaseHeld
       /\ FailWith("pending")
       /\ UNCHANGED op

AdvanceBundleReady ==
    /\ run.pc = "provisioned"
    /\ Advance("route_reserved", "bundle_ready", "bundle", 0)
    /\ UNCHANGED <<route, health, work, disk, gen, faults>>

\* Mutant: the append does not look its request up.
LifecycleAppendAgain ==
    /\ run.pc = "bundle"
    /\ log' = Append(log, Lifecycle(run.req))
    /\ run' = [run EXCEPT !.pc = "appended", !.frontier = Len(log) + 1]
    /\ UNCHANGED <<catalog, bundle, objects, gen, told, faults>>

\* append_batch is idempotent on the request: a second call returns the
\* stored frontier.  It takes no catalog lease.
LifecycleAppend ==
    /\ run.pc = "bundle"
    /\ LET again == EventOf(run.req) # {}
       IN  /\ log' = IF again THEN log ELSE Append(log, Lifecycle(run.req))
           /\ run' = [run EXCEPT !.pc = "appended",
                        !.frontier = IF again THEN CHOOSE i \in EventOf(run.req) : TRUE
                                     ELSE Len(log) + 1]
    /\ UNCHANGED <<catalog, bundle, objects, gen, told, faults>>

AdvanceLifecycleCommitted ==
    /\ run.pc = "appended"
    /\ Advance("bundle_ready", "lifecycle_committed", "committed", 0)
    /\ UNCHANGED <<route, health, work, disk, gen, faults>>

\* Mutant: the result is built but its object is not finalized.
BuildResultUnsaved ==
    /\ run.pc = "committed" /\ run.phase # "result_published"
    /\ Len(log) = run.frontier
    /\ run' = [run EXCEPT !.pc = "built"]
    /\ UNCHANGED <<catalog, disk, gen, told, faults>>

\* _build_result demands a projection exactly at the lifecycle append.
BuildResult ==
    /\ run.pc = "committed" /\ run.phase # "result_published"
    /\ \/ /\ Len(log) = run.frontier
          /\ objects' = objects \cup {<<run.req, run.frontier>>}
          /\ run' = [run EXCEPT !.pc = "built"]
          /\ UNCHANGED <<catalog, told>>
       \/ /\ Len(log) # run.frontier
          /\ Quarantine
          /\ UNCHANGED objects
    /\ UNCHANGED <<bundle, log, gen, faults>>

\* _reopen_result reads the pinned object; an I/O fault leaves the row pending.
ReopenResult ==
    /\ run.pc = "committed" /\ run.phase = "result_published"
    /\ \/ /\ <<run.req, op[run.req].result>> \in objects
          /\ run' = [run EXCEPT !.pc = "pinned"] /\ UNCHANGED told
       \/ FailWith("unsafe")
    /\ UNCHANGED <<catalog, disk, gen, faults>>

PinResult ==
    /\ run.pc = "built"
    /\ Advance("lifecycle_committed", "result_published", "pinned", run.frontier)
    /\ UNCHANGED <<route, health, work, disk, gen, faults>>

\* Mutant: the sessions of earlier starts are left as they are.
CompleteKeepsOthers ==
    /\ run.pc = "pinned" /\ LeaseHeld
    /\ route' = [state |-> "active", active |-> run.req]
    /\ op' = [op EXCEPT ![run.req] =
                [@ EXCEPT !.state = "complete", !.phase = "terminal",
                          !.owner = 0, !.live = FALSE]]
    /\ run' = [run EXCEPT !.pc = "completed"]
    /\ UNCHANGED <<health, work, disk, gen, told, faults>>

\* complete: the route turns to this session, every other session of the task
\* ends, the row becomes terminal.  The trigger on task_sessions lets no ended
\* session become active again, which aborts the whole transaction.
Complete ==
    /\ run.pc = "pinned"
    /\ \/ /\ LeaseHeld /\ health[run.req] # "ended"
          /\ route' = [state |-> "active", active |-> run.req]
          /\ health' = [r \in Req |->
                IF r = run.req THEN "active"
                ELSE IF health[r] = "none" THEN "none" ELSE "ended"]
          /\ op' = [op EXCEPT ![run.req] =
                      [@ EXCEPT !.state = "complete", !.phase = "terminal",
                                !.owner = 0, !.live = FALSE]]
          /\ run' = [run EXCEPT !.pc = "completed"]
          /\ UNCHANGED told
       \/ /\ LeaseHeld /\ health[run.req] = "ended"
          /\ FailWith("session_ended") /\ UNCHANGED <<route, health, op>>
       \/ /\ ~LeaseHeld
          /\ FailWith("pending") /\ UNCHANGED <<route, health, op>>
    /\ UNCHANGED <<work, disk, gen, faults>>

\* Mutant: the answer is cut from the current frontier, not from the result.
AnswerCurrent ==
    /\ run.pc = "completed"
    /\ told' = [told EXCEPT ![run.req] = @ \cup {Answer("ok", Len(log))}]
    /\ run' = Idle
    /\ UNCHANGED <<catalog, disk, gen, faults>>

\* _sync_start_lineage rebinds the row's own active session, then the caller
\* is answered.
AnswerStart ==
    /\ run.pc = "completed"
    /\ told' = [told EXCEPT ![run.req] = @ \cup {Answer("ok", op[run.req].result)}]
    /\ run' = Idle
    /\ UNCHANGED <<catalog, disk, gen, faults>>

-----------------------------------------------------------------------------
(* What happens around the attempt.                                        *)

\* BUNDLE_BUSY from a catalog lock or the runtime's rebind wait: the attempt
\* yields its lease and says so, or keeps the plain error if it cannot.
Busy ==
    /\ run.pc \notin {"idle", "mkdir", "committed", "completed"}
    /\ faults.busy < MaxBusy
    /\ faults' = [faults EXCEPT !.busy = @ + 1]
    /\ \/ /\ LeaseHeld
          /\ op' = [op EXCEPT ![run.req].live = FALSE]
          /\ FailWith("retry_ready")
       \/ /\ FailWith("busy")
          /\ UNCHANGED op
    /\ UNCHANGED <<route, health, work, disk, gen>>

\* The call is cancelled between two commits (each submitted commit is joined
\* first); mkdir and ledger initialisation are joined as well.
Cancel ==
    /\ run.pc \notin {"idle", "mkdir"}
    /\ faults.cancel < MaxCancels
    /\ faults' = [faults EXCEPT !.cancel = @ + 1]
    /\ run' = Idle
    /\ UNCHANGED <<catalog, disk, gen, told>>

\* The process dies and a new one takes the next owner generation.
Crash ==
    /\ faults.crash < MaxCrashes
    /\ faults' = [faults EXCEPT !.crash = @ + 1]
    /\ gen' = gen + 1
    /\ run' = Idle
    /\ UNCHANGED <<catalog, disk, told>>

LeaseExpires(r) ==
    /\ op[r].live
    /\ IF run.req = r
       THEN /\ faults.late < MaxLate
            /\ faults' = [faults EXCEPT !.late = @ + 1]
       ELSE UNCHANGED faults
    /\ op' = [op EXCEPT ![r].live = FALSE]
    /\ UNCHANGED <<route, health, work, disk, gen, run, told>>

\* The holder of the active session publishes, also that the work is over; the
\* runtime refuses it while a start of another session holds the bundle.
Publish(r, kind) ==
    /\ route.state = "active" /\ route.active = r
    /\ HoldsRuntime => run.req = r
    /\ Len(log) < MaxLog
    /\ kind = "closing" => work = "open"
    /\ log' = Append(log, [kind |-> kind, by |-> r])
    /\ UNCHANGED <<catalog, bundle, objects, gen, run, told, faults>>

\* The ledger's closing event reaches the route's work_state, at once or when a
\* restarted service reconciles the two.
ReconcileWork ==
    /\ work = "open"
    /\ \E i \in 1..Len(log) : log[i].kind = "closing"
    /\ work' = "closed"
    /\ UNCHANGED <<route, op, health, disk, gen, run, told, faults>>

PublicationKinds == {"publication"} \cup (IF MayClose THEN {"closing"} ELSE {})

Step ==
    \/ ProvisionQuarantined \/ ProvisionFresh \/ InitializeBundle \/ ProvisionExisting
    \/ AdvanceBundleReady \/ LifecycleAppend \/ AdvanceLifecycleCommitted
    \/ BuildResult \/ ReopenResult \/ PinResult \/ Complete \/ AnswerStart

Call(r) == Reserve(r) \/ Resume(r) \/ Replay(r)

Next ==
    \/ Step \/ Busy \/ Cancel \/ Crash \/ ReconcileWork
    \/ \E r \in Req : Call(r) \/ LeaseExpires(r)
    \/ \E r \in Req, kind \in PublicationKinds : Publish(r, kind)

Spec == Init /\ [][Next]_vars

\* The process keeps running a started attempt, callers replay a request they
\* have no result for, the clock runs past every lease, and a read fault of
\* the object store clears.
Fairness ==
    /\ WF_vars(Step)
    /\ SF_vars(ReopenResult /\ run'.pc = "pinned")
    /\ \A r \in Req : SF_vars(Call(r)) /\ WF_vars(LeaseExpires(r))

FairSpec == Spec /\ Fairness

-----------------------------------------------------------------------------
(* Properties.                                                             *)

TypeOK ==
    /\ route \in [state : {"none", "initializing", "active", "quarantined"},
                  active : Req \cup {NONE}]
    /\ op \in [Req -> [state : {"absent", "pending", "complete", "quarantined"},
                       phase : Phases, action : {"created", "attached"},
                       owner : Nat, live : BOOLEAN, result : Nat]]
    /\ health \in [Req -> {"none", "active", "ended"}]
    /\ work \in {"open", "closed"}
    /\ bundle \in {"absent", "partial", "ready"}
    /\ log \in Seq([kind : {"lifecycle", "publication", "closing"}, by : Req])
    /\ objects \subseteq Req \X Nat
    /\ gen \in Nat \ {0}
    /\ run \in [pc : {"idle", "reserved", "mkdir", "provisioned", "bundle", "appended",
                     "committed", "built", "pinned", "completed"},
                req : Req \cup {NONE}, phase : Phases, frontier : Nat]
    /\ told \in [Req -> SUBSET [kind : Kinds, at : Nat]]
    /\ faults \in [crash : 0..MaxCrashes, cancel : 0..MaxCancels,
                  busy : 0..MaxBusy, late : 0..MaxLate]

\* However often a start is interrupted and replayed, its lifecycle event is in
\* the ledger at most once.
OneLifecycle == \A r \in Req : Cardinality(EventOf(r)) <= 1

\* The catalog never claims a milestone the bundle does not have: after any
\* crash between the two databases, bundle_ready has a bundle,
\* lifecycle_committed an event and result_published the pinned object.
PhaseIsBacked ==
    \A r \in Req :
        LET row == op[r]
            done == row.phase = "terminal"
        IN  row.state \in {"pending", "complete"} =>
            /\ row.phase # "route_reserved" => bundle = "ready"
            /\ row.phase \in {"lifecycle_committed", "result_published"} \/ done
                    => EventOf(r) # {}
            /\ row.phase = "result_published" \/ done
                    => row.result \in EventOf(r) /\ <<r, row.result>> \in objects

\* An active route names the one completed start whose session is live: every
\* start it superseded has its session ended.
ActiveRouteHasOneSession ==
    route.state = "active" =>
        {r \in Req : op[r].state = "complete" /\ health[r] = "active"} = {route.active}

\* Every successful answer to a request, first or replayed, carries the same
\* result, and a request once answered is never told its start is corrupt.
SameAnswer ==
    \A r \in Req : \A a, b \in told[r] :
        a.kind = "ok" => b.kind # "corrupt" /\ (b.kind = "ok" => a = b)

\* A contradiction met by one start never takes an active task out of service:
\* only the initializing route of the start that created it is quarantined.
ActiveRouteStays == [][route.state = "active" => route'.state = "active"]_vars

\* Cancelled, busy or outlived by its lease, the only start of a pair that its
\* caller keeps replaying completes as long as the service does not crash.
InterruptedStartCompletes ==
    \A r \in Req :
        [](faults.crash = 0 /\ \A q \in Req \ {r} : op[q].state = "absent")
            => (op[r].state = "pending" ~> op[r].state = "complete")

\* guidance/workflow.md on retry_ready: the reservation is retained and the
\* identical request is to be replayed.  A start told so is not then corrupt.
RetryReadyIsReplayable ==
    \A r \in Req : Answer("retry_ready", 0) \in told[r] => Answer("corrupt", 0) \notin told[r]

\* start_catalog.py on a second rotation: the pending operation owns recovery
\* through its own request id and lease, so its replays bring it to an end.
PendingOwnsRecovery ==
    \A r \in Req : op[r].state = "pending" ~> op[r].state # "pending"

\* start_catalog.py: an abandoned pending operation never wedges the ordinary
\* same-pair attach.
AbandonedNeverWedges == \A r \in Req : Answer("dir_exists", 0) \notin told[r]

\* INTERFACES.md: terminal work is not resumed, so the session its caller still
\* holds keeps the route.
TerminalWorkKeepsSession == [][work = "closed" => route'.active = route.active]_vars
=============================================================================
