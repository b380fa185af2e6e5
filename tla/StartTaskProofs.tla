--------------------------- MODULE StartTaskProofs ---------------------------
(***************************************************************************)
(* For any number of requests, crashes, cancellations, busy answers and    *)
(* outlived leases: what the start catalog claims of the bundle is there,  *)
(* a request has one lifecycle event and one result, and an active route   *)
(* has one session.                                                        *)
(*                                                                         *)
(* Catalog and bundle are two databases, and nothing but the attempt ties  *)
(* them: the invariant says what the attempt has already made durable at   *)
(* each of its points (RunBacked), and that the row it works on is still   *)
(* the one it reserved (RunRow).                                           *)
(***************************************************************************)
EXTENDS StartTask, FiniteSetTheorems, TLAPS

Route == [state : {"none", "initializing", "active", "quarantined"},
          active : Req \cup {NONE}]
Row == [state : {"absent", "pending", "complete", "quarantined"},
        phase : Phases, action : {"created", "attached"},
        owner : Nat, live : BOOLEAN, result : Nat]
Attempt == [pc : {"idle", "reserved", "mkdir", "provisioned", "bundle", "appended",
                  "committed", "built", "pinned", "completed"},
            req : Req \cup {NONE}, phase : Phases, frontier : Nat]
Event == [kind : {"lifecycle", "publication", "closing"}, by : Req]
Replies == [kind : Kinds, at : Nat]
Faults == [crash : 0..MaxCrashes, cancel : 0..MaxCancels,
           busy : 0..MaxBusy, late : 0..MaxLate]

-----------------------------------------------------------------------------
(* The inductive invariant.                                                *)

Provisioned == {"provisioned", "bundle", "appended", "committed", "built", "pinned",
                "completed"}

\* The attempt works on the row it reserved, at the phase it knows, and on a
\* route that is not quarantined once it is past the reservation.
RunRow ==
    /\ run.pc # "idle" => run.req \in Req
    /\ run.pc \notin {"idle", "completed"} =>
         op[run.req].state = "pending" /\ op[run.req].phase = run.phase
    /\ run.pc = "completed" => op[run.req].state = "complete"
    /\ run.pc \notin {"idle", "reserved"} => route.state # "quarantined"

\* What is durable at each point of the attempt.
RunBacked ==
    /\ run.pc \in Provisioned => bundle = "ready"
    /\ run.pc \in Provisioned \ {"provisioned"} => run.phase # "route_reserved"
    /\ run.pc \in {"appended", "committed", "built"} => run.frontier \in EventOf(run.req)
    /\ run.pc \in {"committed", "built", "pinned"} => run.phase # "bundle_ready"
    /\ run.pc = "built" =>
         run.phase = "lifecycle_committed" /\ <<run.req, run.frontier>> \in objects
    /\ run.pc = "pinned" => run.phase = "result_published"

PendingOpen == \A r \in Req : op[r].state = "pending" => op[r].phase # "terminal"
CompleteIsActive == \A r \in Req : op[r].state = "complete" => route.state = "active"
OneEvent == \A r \in Req : \A i, j \in EventOf(r) : i = j

\* An answer says what the row says: a result only of a completed row, and
\* corruption only of a quarantined row or route.
ToldIsTrue ==
    \A r \in Req : \A a \in told[r] :
        /\ a.kind = "ok" => op[r].state = "complete" /\ a.at = op[r].result
        /\ a.kind = "corrupt" => route.state = "quarantined" \/ op[r].state = "quarantined"

Rows == PhaseIsBacked /\ PendingOpen /\ CompleteIsActive /\ ActiveRouteHasOneSession

Inv == TypeOK /\ RunRow /\ RunBacked /\ Rows /\ OneEvent /\ ToldIsTrue

-----------------------------------------------------------------------------
(* Types.                                                                  *)

\* The types by name.
LEMMA Typed ==
    TypeOK <=>
        /\ route \in Route /\ op \in [Req -> Row]
        /\ health \in [Req -> {"none", "active", "ended"}]
        /\ work \in {"open", "closed"} /\ bundle \in {"absent", "partial", "ready"}
        /\ log \in Seq(Event) /\ objects \subseteq Req \X Nat /\ gen \in Nat \ {0}
        /\ run \in Attempt /\ told \in [Req -> SUBSET Replies] /\ faults \in Faults
BY DEF TypeOK, Route, Row, Attempt, Event, Replies, Faults

\* A row stays one when a field is set to a value of its type.
LEMMA RowFields ==
    \A r \in Row :
        /\ \A x \in {"absent", "pending", "complete", "quarantined"} :
             [r EXCEPT !.state = x] \in Row
        /\ \A x \in Phases : [r EXCEPT !.phase = x] \in Row
        /\ \A x \in {"created", "attached"} : [r EXCEPT !.action = x] \in Row
        /\ \A x \in Nat : [r EXCEPT !.owner = x] \in Row /\ [r EXCEPT !.result = x] \in Row
        /\ \A x \in BOOLEAN : [r EXCEPT !.live = x] \in Row
BY DEF Row

\* So does an attempt.
LEMMA AttemptFields ==
    \A a \in Attempt :
        /\ \A x \in {"reserved", "mkdir", "provisioned", "bundle", "appended",
                     "committed", "built", "pinned", "completed"} :
             [a EXCEPT !.pc = x] \in Attempt
        /\ \A x \in Phases : [a EXCEPT !.phase = x] \in Attempt
        /\ \A x \in Nat : [a EXCEPT !.frontier = x] \in Attempt
BY DEF Attempt

\* The row of a request is replaced.
LEMMA RowSet ==
    ASSUME op \in [Req -> Row], NEW q \in Req, NEW row \in Row,
           op' = [op EXCEPT ![q] = row]
    PROVE  /\ op' \in [Req -> Row] /\ op'[q] = row
           /\ \A r \in Req : r # q => op'[r] = op[r]
OBVIOUS

RowKept(r) ==
    op'[r].state = op[r].state /\ op'[r].phase = op[r].phase /\ op'[r].result = op[r].result

\* A row that only loses or renews its lease is kept.
LEMMA LeaseMoves ==
    ASSUME op \in [Req -> Row], gen \in Nat, NEW q \in Req,
           \/ op' = [op EXCEPT ![q].live = FALSE]
           \/ op' = [op EXCEPT ![q] = [op[q] EXCEPT !.owner = gen, !.live = TRUE]]
    PROVE  op' \in [Req -> Row] /\ \A r \in Req : RowKept(r)
<1>0. op[q] \in Row
  OBVIOUS
<1>1. CASE op' = [op EXCEPT ![q].live = FALSE]
  <2> DEFINE row == [op[q] EXCEPT !.live = FALSE]
  <2>1. op' = [op EXCEPT ![q] = row]
    BY <1>1
  <2>2. /\ row \in Row /\ row.state = op[q].state /\ row.phase = op[q].phase
        /\ row.result = op[q].result
    BY <1>0 DEF Row
  <2> HIDE DEF row
  <2> QED BY <2>1, <2>2, RowSet DEF RowKept
<1>2. CASE op' = [op EXCEPT ![q] = [op[q] EXCEPT !.owner = gen, !.live = TRUE]]
  <2> DEFINE row == [op[q] EXCEPT !.owner = gen, !.live = TRUE]
  <2>1. op' = [op EXCEPT ![q] = row]
    BY <1>2
  <2>2. row \in Row
    BY <1>0, RowFields
  <2>3. row.state = op[q].state /\ row.phase = op[q].phase /\ row.result = op[q].result
    BY <1>0 DEF Row
  <2> HIDE DEF row
  <2> QED BY <2>1, <2>2, <2>3, RowSet DEF RowKept
<1> QED BY <1>1, <1>2

Adds(q, kind, n) == told' = [told EXCEPT ![q] = @ \cup {Answer(kind, n)}]

\* An answer more for request q.
LEMMA ToldMore ==
    ASSUME told \in [Req -> SUBSET Replies], NEW q \in Req, NEW kind \in Kinds, NEW n \in Nat,
           Adds(q, kind, n)
    PROVE  /\ told' \in [Req -> SUBSET Replies]
           /\ \A r \in Req : \A a \in told'[r] :
                a \in told[r] \/ (r = q /\ a.kind = kind /\ a.at = n)
<1>1. /\ Answer(kind, n) \in Replies /\ Answer(kind, n).kind = kind
      /\ Answer(kind, n).at = n
  BY DEF Answer, Replies
<1> QED BY <1>1 DEF Adds

\* The event a step appends, and the events of the requests after it.
LEMMA AppendEvent ==
    ASSUME log \in Seq(Event), NEW x \in Event, log' = Append(log, x)
    PROVE  /\ log' \in Seq(Event)
           /\ \A r \in Req :
                /\ EventOf(r) \subseteq EventOf(r)'
                /\ x # Lifecycle(r) => EventOf(r)' = EventOf(r)
                /\ x = Lifecycle(r) => EventOf(r)' = EventOf(r) \cup {Len(log) + 1}
<1>1. /\ log' \in Seq(Event) /\ Len(log') = Len(log) + 1 /\ Len(log) \in Nat
      /\ \A i \in 1..Len(log) : log'[i] = log[i]
      /\ log'[Len(log) + 1] = x
  OBVIOUS
<1>2. 1..Len(log') = 1..Len(log) \cup {Len(log) + 1} /\ Len(log) + 1 \notin 1..Len(log)
  BY <1>1
<1>3. \A r \in Req : EventOf(r)' = {i \in 1..Len(log') : log'[i] = Lifecycle(r)}
  BY DEF EventOf, Lifecycle
<1> QED BY <1>1, <1>2, <1>3 DEF EventOf

\* Different requests have different lifecycle events.
LEMMA LifecycleDiffers ==
    \A q, r \in Req : /\ Lifecycle(q) \in Event
                      /\ Lifecycle(q) = Lifecycle(r) => q = r
                      /\ \A x \in Event : x.kind # "lifecycle" => x # Lifecycle(r)
<1>1. \A q \in Req : Lifecycle(q) \in Event /\ Lifecycle(q).by = q
                     /\ Lifecycle(q).kind = "lifecycle"
  BY DEF Lifecycle, Event
<1> QED BY <1>1

-----------------------------------------------------------------------------
(* What a step may do.                                                     *)

\* The bundle never loses what it has.
DiskGrows ==
    /\ \A r \in Req : EventOf(r) \subseteq EventOf(r)'
    /\ objects \subseteq objects'
    /\ bundle = "ready" => bundle' = "ready"

\* The catalog is left alone, the leases apart.
Kept == route' = route /\ health' = health /\ \A r \in Req : RowKept(r)

\* Every new answer is one the catalog backs.
Honest ==
    \A r \in Req : \A a \in told'[r] :
        \/ a \in told[r]
        \/ a.kind \notin {"ok", "corrupt"}
        \/ a.kind = "ok" /\ op'[r].state = "complete" /\ a.at = op'[r].result
        \/ a.kind = "corrupt"
             /\ (route'.state = "quarantined" \/ op'[r].state = "quarantined")

\* What every step starts from.
LEMMA Basics ==
    ASSUME Inv
    PROVE  /\ route \in Route /\ op \in [Req -> Row]
           /\ health \in [Req -> {"none", "active", "ended"}]
           /\ work \in {"open", "closed"} /\ bundle \in {"absent", "partial", "ready"}
           /\ log \in Seq(Event) /\ objects \subseteq Req \X Nat /\ gen \in Nat \ {0}
           /\ run \in Attempt /\ told \in [Req -> SUBSET Replies] /\ faults \in Faults
           /\ run.pc # "idle" => run.req \in Req
BY Typed DEF Inv, RunRow

\* The answers stay true as long as terminal rows and a quarantined route stay.
LEMMA ToldStep ==
    ASSUME Inv, Honest,
           route.state = "quarantined" => route'.state = "quarantined",
           \A r \in Req : op[r].state \in {"complete", "quarantined"} => RowKept(r)
    PROVE  ToldIsTrue'
<1>1. ASSUME NEW r \in Req, NEW a \in told'[r]
      PROVE  /\ a.kind = "ok" => op'[r].state = "complete" /\ a.at = op'[r].result
             /\ a.kind = "corrupt" =>
                  route'.state = "quarantined" \/ op'[r].state = "quarantined"
  <2>1. CASE a \in told[r]
    <3>1. /\ a.kind = "ok" => op[r].state = "complete" /\ a.at = op[r].result
          /\ a.kind = "corrupt" =>
               route.state = "quarantined" \/ op[r].state = "quarantined"
      BY <2>1 DEF Inv, ToldIsTrue
    <3> QED BY <3>1 DEF RowKept
  <2>2. CASE a \notin told[r]
    BY <1>1, <2>2 DEF Honest
  <2> QED BY <2>1, <2>2
<1> QED BY <1>1 DEF ToldIsTrue

\* A step that leaves the catalog alone keeps what it claims.
LEMMA KeptRows ==
    ASSUME Inv, Kept, DiskGrows
    PROVE  Rows'
<1>0. PhaseIsBacked /\ PendingOpen /\ CompleteIsActive /\ ActiveRouteHasOneSession
  BY DEF Inv, Rows
<1>1. PhaseIsBacked'
  <2>1. ASSUME NEW r \in Req, op'[r].state \in {"pending", "complete"}
        PROVE  /\ op'[r].phase # "route_reserved" => bundle' = "ready"
               /\ op'[r].phase \in {"lifecycle_committed", "result_published", "terminal"}
                    => EventOf(r)' # {}
               /\ op'[r].phase \in {"result_published", "terminal"}
                    => op'[r].result \in EventOf(r)' /\ <<r, op'[r].result>> \in objects'
    BY <1>0, <2>1 DEF PhaseIsBacked, Kept, RowKept, DiskGrows
  <2> QED BY <2>1 DEF PhaseIsBacked
<1>2. PendingOpen' /\ CompleteIsActive'
  BY <1>0 DEF PendingOpen, CompleteIsActive, Kept, RowKept
<1>3. ActiveRouteHasOneSession'
  <2>1. {r \in Req : op'[r].state = "complete" /\ health'[r] = "active"}
          = {r \in Req : op[r].state = "complete" /\ health[r] = "active"}
    BY DEF Kept, RowKept
  <2> QED BY <1>0, <2>1 DEF ActiveRouteHasOneSession, Kept
<1> QED BY <1>1, <1>2, <1>3 DEF Rows

\* What such a step leaves to show.
LEMMA KeptStep ==
    ASSUME Inv, TypeOK', Kept, DiskGrows, OneEvent', Honest, RunRow', RunBacked'
    PROVE  Inv'
<1>1. ToldIsTrue'
  BY ToldStep DEF Kept
<1>2. Rows'
  BY KeptRows
<1> QED BY <1>1, <1>2 DEF Inv

\* An idle attempt owes nothing.
LEMMA IdleRun ==
    ASSUME run' = Idle
    PROVE  run' \in Attempt /\ RunRow' /\ RunBacked'
<1>1. run'.pc = "idle" /\ Idle \in Attempt
  BY DEF Idle, Attempt, Phases
<1> QED BY <1>1 DEF RunRow, RunBacked, Provisioned

\* The attempt stays where it is.
LEMMA SameRun ==
    ASSUME Inv, run' = run, Kept, DiskGrows
    PROVE  RunRow' /\ RunBacked'
<1>1. RunRow /\ RunBacked
  BY DEF Inv
<1>2. RunRow'
  BY <1>1 DEF RunRow, Kept, RowKept
<1>3. RunBacked'
  <2>1. run.pc \in {"appended", "committed", "built"} => run.req \in Req
    BY <1>1 DEF RunRow
  <2>2. /\ run'.pc \in Provisioned => bundle' = "ready"
        /\ run'.pc \in Provisioned \ {"provisioned"} => run'.phase # "route_reserved"
        /\ run'.pc \in {"committed", "built", "pinned"} => run'.phase # "bundle_ready"
        /\ run'.pc = "built" =>
             run'.phase = "lifecycle_committed" /\ <<run'.req, run'.frontier>> \in objects'
        /\ run'.pc = "pinned" => run'.phase = "result_published"
    BY <1>1 DEF RunBacked, DiskGrows
  <2>3. run.pc \in {"appended", "committed", "built"} => run.frontier \in EventOf(run.req)
    BY <1>1 DEF RunBacked
  <2>4. ASSUME run.pc \in {"appended", "committed", "built"}
        PROVE  run'.frontier \in EventOf(run.req)'
    <3>1. PICK q \in Req : q = run.req
      BY <2>1, <2>4
    <3>2. EventOf(q) \subseteq EventOf(q)' /\ run.frontier \in EventOf(q)
      BY <2>3, <2>4, <3>1 DEF DiskGrows
    <3>3. EventOf(q)' = EventOf(run.req)'
      BY <3>1 DEF EventOf, Lifecycle
    <3> QED BY <3>2, <3>3
  <2> QED BY <2>2, <2>4 DEF RunBacked
<1> QED BY <1>2, <1>3

\* The bundle is left alone.
LEMMA DiskKept ==
    ASSUME Inv, UNCHANGED disk
    PROVE  DiskGrows /\ OneEvent' /\ \A r \in Req : EventOf(r)' = EventOf(r)
<1>1. log' = log /\ objects' = objects /\ bundle' = bundle
  BY DEF disk
<1>2. \A r \in Req : EventOf(r)' = EventOf(r)
  BY <1>1 DEF EventOf, Lifecycle
<1> QED BY <1>1, <1>2 DEF DiskGrows, OneEvent, Inv

\* The attempt fails: its caller is told, and it is over.
LEMMA Fails ==
    ASSUME Inv, run.pc # "idle", NEW kind \in Kinds, FailWith(kind)
    PROVE  /\ told' \in [Req -> SUBSET Replies] /\ run' \in Attempt /\ RunRow' /\ RunBacked'
           /\ \A r \in Req : \A a \in told'[r] :
                a \in told[r] \/ (r = run.req /\ a.kind = kind /\ a.at = 0)
<1>1. Adds(run.req, kind, 0) /\ run' = Idle
  BY DEF FailWith, Told, Adds
<1>2. run.req \in Req /\ told \in [Req -> SUBSET Replies] /\ 0 \in Nat
  BY Basics
<1>3. /\ told' \in [Req -> SUBSET Replies]
      /\ \A r \in Req : \A a \in told'[r] :
                a \in told[r] \/ (r = run.req /\ a.kind = kind /\ a.at = 0)
  BY <1>1, <1>2, ToldMore
<1> QED BY <1>1, <1>3, IdleRun

\* The forms in which an attempt moves on.
LEMMA Moves ==
    ASSUME run \in Attempt,
           NEW x \in {"reserved", "mkdir", "provisioned", "bundle", "appended",
                      "committed", "built", "pinned", "completed"}
    PROVE  /\ run' = [run EXCEPT !.pc = x] =>
                /\ run' \in Attempt /\ run'.pc = x /\ run'.req = run.req
                /\ run'.phase = run.phase /\ run'.frontier = run.frontier
           /\ \A p \in Phases : run' = [run EXCEPT !.pc = x, !.phase = p] =>
                /\ run' \in Attempt /\ run'.pc = x /\ run'.req = run.req
                /\ run'.phase = p /\ run'.frontier = run.frontier
           /\ \A n \in Nat : run' = [run EXCEPT !.pc = x, !.frontier = n] =>
                /\ run' \in Attempt /\ run'.pc = x /\ run'.req = run.req
                /\ run'.phase = run.phase /\ run'.frontier = n
<1>1. run' = [run EXCEPT !.pc = x] =>
                /\ run' \in Attempt /\ run'.pc = x /\ run'.req = run.req
                /\ run'.phase = run.phase /\ run'.frontier = run.frontier
  BY DEF Attempt
<1>2. ASSUME NEW p \in Phases, run' = [run EXCEPT !.pc = x, !.phase = p]
      PROVE  /\ run' \in Attempt /\ run'.pc = x /\ run'.req = run.req
             /\ run'.phase = p /\ run'.frontier = run.frontier
  <2>1. run'.pc = x /\ run'.req = run.req /\ run'.phase = p /\ run'.frontier = run.frontier
    BY <1>2 DEF Attempt
  <2>2. run' \in Attempt
    BY <1>2, AttemptFields
  <2> QED BY <2>1, <2>2
<1>3. ASSUME NEW n \in Nat, run' = [run EXCEPT !.pc = x, !.frontier = n]
      PROVE  /\ run' \in Attempt /\ run'.pc = x /\ run'.req = run.req
             /\ run'.phase = run.phase /\ run'.frontier = n
  <2>1. run'.pc = x /\ run'.req = run.req /\ run'.phase = run.phase /\ run'.frontier = n
    BY <1>3 DEF Attempt
  <2>2. run' \in Attempt
    BY <1>3, AttemptFields
  <2> QED BY <2>1, <2>2
<1> QED BY <1>1, <1>2, <1>3

-----------------------------------------------------------------------------
(* reserve_or_resume.                                                      *)

\* A call that is only answered: the refusal of a reservation, a pending row,
\* the replay of a terminal one.
LEMMA AnswerSteps ==
    ASSUME Inv, NEW q \in Req, NEW kind \in Kinds, NEW n \in Nat,
           Adds(q, kind, n),
           UNCHANGED <<catalog, run, disk, gen, faults>>,
           kind = "ok" => op[q].state = "complete" /\ n = op[q].result,
           kind = "corrupt" => route.state = "quarantined" \/ op[q].state = "quarantined"
    PROVE  Inv'
<1>1. /\ told' \in [Req -> SUBSET Replies]
      /\ \A r \in Req : \A a \in told'[r] :
           a \in told[r] \/ (r = q /\ a.kind = kind /\ a.at = n)
  BY Basics, ToldMore
<1>2. /\ route' = route /\ op' = op /\ health' = health /\ work' = work /\ run' = run
      /\ bundle' = bundle /\ log' = log /\ objects' = objects /\ gen' = gen
      /\ faults' = faults
  BY DEF catalog, disk
<1>3. TypeOK'
  BY <1>1, <1>2, Basics, Typed DEF TypeOK, Replies
<1>4. Kept
  BY <1>2 DEF Kept, RowKept
<1>5. Honest
  BY <1>1, <1>2 DEF Honest
<1>6. DiskGrows /\ OneEvent'
  BY DiskKept
<1> QED BY <1>2, <1>3, <1>4, <1>5, <1>6, SameRun, KeptStep

\* A row is reserved, or its lease reclaimed, and the attempt begins.
LEMMA BeginStep ==
    ASSUME Inv, NEW q \in Req, run.pc = "idle", NEW row \in Row,
           op' = [op EXCEPT ![q] = row], Take(q, row),
           UNCHANGED <<work, disk, gen, told, faults>>,
           row.state = "pending",
           \/ /\ op[q].state = "absent" /\ row.phase = "route_reserved"
              /\ health' \in [Req -> {"none", "active", "ended"}]
              /\ \A r \in Req : r # q => health'[r] = health[r]
              /\ route' \in Route
              /\ route' = route \/ (route.state = "none" /\ route'.state = "initializing")
           \/ /\ op[q].state = "pending" /\ row.phase = op[q].phase
              /\ row.result = op[q].result /\ route' = route /\ health' = health
    PROVE  Inv'
<1>0. Rows /\ RunRow /\ RunBacked
  BY DEF Inv
<1>1. op' \in [Req -> Row] /\ op'[q] = row /\ \A r \in Req : r # q => op'[r] = op[r]
  BY Basics, RowSet
<1>2. run' = [pc |-> "reserved", req |-> q, phase |-> row.phase, frontier |-> 0]
  BY DEF Take
<1>3. /\ run' \in Attempt /\ run'.pc = "reserved" /\ run'.req = q
      /\ run'.phase = row.phase
  BY <1>2 DEF Attempt, Row
<1>4. DiskGrows /\ OneEvent' /\ \A r \in Req : EventOf(r)' = EventOf(r)
  BY DiskKept
<1>5. /\ work' = work /\ bundle' = bundle /\ log' = log /\ objects' = objects
      /\ gen' = gen /\ faults' = faults /\ told' = told
  BY DEF disk
<1>6. TypeOK'
  <2>1. route' \in Route /\ health' \in [Req -> {"none", "active", "ended"}]
    BY Basics
  <2> QED BY <1>1, <1>3, <1>5, <2>1, Basics, Typed
             DEF TypeOK, Route, Row, Attempt, Event, Replies, Faults
<1>7. RunRow' /\ RunBacked'
  BY <1>1, <1>3 DEF RunRow, RunBacked, Provisioned
<1>8. /\ route.state = "quarantined" => route'.state = "quarantined"
      /\ route.state = "active" => route' = route
      /\ route'.state = "active" => route' = route
  OBVIOUS
<1>9. ToldIsTrue'
  <2>1. Honest
    BY <1>5 DEF Honest
  <2>2. \A r \in Req : op[r].state \in {"complete", "quarantined"} => RowKept(r)
    BY <1>1 DEF RowKept
  <2> QED BY <1>8, <2>1, <2>2, ToldStep
<1>10. PhaseIsBacked'
  <2>1. ASSUME NEW r \in Req, op'[r].state \in {"pending", "complete"}
        PROVE  /\ op'[r].phase # "route_reserved" => bundle' = "ready"
               /\ op'[r].phase \in {"lifecycle_committed", "result_published", "terminal"}
                    => EventOf(r)' # {}
               /\ op'[r].phase \in {"result_published", "terminal"}
                    => op'[r].result \in EventOf(r)' /\ <<r, op'[r].result>> \in objects'
    <3>1. CASE r = q /\ op[q].state = "absent"
      BY <1>1, <3>1
    <3>2. CASE r # q \/ op[q].state = "pending"
      <4>1. op'[r].state = op[r].state /\ op'[r].phase = op[r].phase
            /\ op'[r].result = op[r].result
        BY <1>1, <3>2
      <4>2. PhaseIsBacked
        BY <1>0 DEF Rows
      <4> QED BY <1>4, <1>5, <2>1, <4>1, <4>2 DEF PhaseIsBacked
    <3> QED BY <3>1, <3>2
  <2> QED BY <2>1 DEF PhaseIsBacked
<1>11. PendingOpen' /\ CompleteIsActive'
  BY <1>0, <1>1, <1>8 DEF Rows, PendingOpen, CompleteIsActive
<1>12. ActiveRouteHasOneSession'
  <2>1. {r \in Req : op'[r].state = "complete" /\ health'[r] = "active"}
          = {r \in Req : op[r].state = "complete" /\ health[r] = "active"}
    BY <1>1
  <2> QED BY <1>0, <1>8, <2>1 DEF Rows, ActiveRouteHasOneSession
<1> QED BY <1>4, <1>6, <1>7, <1>9, <1>10, <1>11, <1>12 DEF Inv, Rows

\* reserve_or_resume keeps the invariant.
LEMMA CallSteps ==
    ASSUME Inv, NEW q \in Req, Call(q)
    PROVE  Inv'
<1>0. op \in [Req -> Row] /\ op[q] \in Row /\ gen \in Nat /\ route \in Route
  BY Basics
<1>1. CASE Reserve(q) /\ Refusal(q) # "admitted"
  <2>1. /\ Adds(q, Refusal(q), 0)
        /\ UNCHANGED <<catalog, run, disk, gen, faults>>
    BY <1>1 DEF Reserve, Told, Adds
  <2>2. /\ Refusal(q) \in Kinds /\ Refusal(q) # "ok"
        /\ Refusal(q) = "corrupt" => route.state = "quarantined"
    BY <1>1 DEF Refusal, Kinds
  <2> HIDE DEF Refusal
  <2> QED BY <2>1, <2>2, AnswerSteps
<1>2. CASE Reserve(q) /\ Refusal(q) = "admitted"
  <2> DEFINE created == route.state = "none"
             act == IF created THEN "created" ELSE "attached"
             row == [NoOp EXCEPT !.state = "pending", !.owner = gen, !.live = TRUE,
                                 !.action = act]
  <2>1. /\ op' = [op EXCEPT ![q] = row] /\ Take(q, row)
        /\ route' = IF created THEN [state |-> "initializing", active |-> q] ELSE route
        /\ health' = [health EXCEPT ![q] = "active"]
        /\ UNCHANGED <<work, disk, gen, told, faults>>
        /\ run.pc = "idle" /\ op[q].state = "absent"
    BY <1>2 DEF Reserve
  <2>2. row \in Row
    <3>1. NoOp \in Row
      BY DEF NoOp, Row, Phases
    <3> QED BY <1>0, <3>1, RowFields
  <2>3. row.state = "pending" /\ row.phase = "route_reserved"
    BY DEF NoOp
  <2> HIDE DEF row
  <2>4. /\ health' \in [Req -> {"none", "active", "ended"}]
        /\ \A r \in Req : r # q => health'[r] = health[r]
    BY <2>1, Basics
  <2>5. /\ route' \in Route
        /\ route' = route \/ (route.state = "none" /\ route'.state = "initializing")
    BY <1>0, <2>1 DEF Route
  <2> QED BY <2>1, <2>2, <2>3, <2>4, <2>5, BeginStep
<1>3. CASE Resume(q) /\ op[q].owner = gen /\ op[q].live
  <2>1. /\ Adds(q, "pending", 0)
        /\ UNCHANGED <<catalog, run, disk, gen, faults>>
    BY <1>3 DEF Resume, Told, catalog, Adds
  <2> QED BY <2>1, AnswerSteps DEF Kinds
<1>4. CASE Resume(q) /\ ~(op[q].owner = gen /\ op[q].live)
  <2> DEFINE row == [op[q] EXCEPT !.owner = gen, !.live = TRUE]
  <2>1. /\ op' = [op EXCEPT ![q] = row] /\ Take(q, row) /\ route' = route
        /\ health' = health /\ UNCHANGED <<work, disk, gen, told, faults>>
        /\ run.pc = "idle" /\ op[q].state = "pending"
    BY <1>4 DEF Resume
  <2>2. row \in Row
    BY <1>0, RowFields
  <2>3. row.state = op[q].state /\ row.phase = op[q].phase /\ row.result = op[q].result
    BY <1>0 DEF Row
  <2> HIDE DEF row
  <2> QED BY <2>1, <2>2, <2>3, BeginStep
<1>5. CASE Replay(q) /\ op[q].state = "complete"
  <2>1. /\ Adds(q, "ok", op[q].result)
        /\ UNCHANGED <<catalog, run, disk, gen, faults>>
    BY <1>5 DEF Replay, Adds
  <2>2. op[q].result \in Nat /\ "ok" \in Kinds
    BY <1>0 DEF Row, Kinds
  <2> QED BY <1>5, <2>1, <2>2, AnswerSteps
<1>6. CASE Replay(q) /\ op[q].state # "complete"
  <2>1. /\ Adds(q, "corrupt", 0)
        /\ UNCHANGED <<catalog, run, disk, gen, faults>> /\ op[q].state = "quarantined"
    BY <1>6 DEF Replay, Adds
  <2>2. "corrupt" \in Kinds
    BY DEF Kinds
  <2> QED BY <2>1, <2>2, AnswerSteps
<1> QED BY <1>1, <1>2, <1>3, <1>4, <1>5, <1>6 DEF Call

-----------------------------------------------------------------------------
(* The attempt.                                                            *)

\* quarantine of the attempt's row, under the lease or not.
LEMMA QuarantineStep ==
    ASSUME Inv, run.pc \notin {"idle", "completed"}, Quarantine,
           UNCHANGED <<disk, gen, faults>>
    PROVE  Inv'
<1> DEFINE q == run.req
<1>0. /\ q \in Req /\ op[q] \in Row /\ op \in [Req -> Row] /\ op[q].state = "pending"
      /\ route \in Route
  BY Basics DEF Inv, RunRow
<1>1. /\ health' = health /\ work' = work /\ bundle' = bundle /\ log' = log
      /\ objects' = objects /\ gen' = gen /\ faults' = faults
  BY DEF Quarantine, disk
<1>2. DiskGrows /\ OneEvent' /\ \A r \in Req : EventOf(r)' = EventOf(r)
  BY DiskKept
<1>3. CASE ~LeaseHeld
  <2>1. op' = op /\ route' = route /\ FailWith("pending") /\ "pending" \in Kinds
    BY <1>3 DEF Quarantine, Kinds
  <2>2. /\ told' \in [Req -> SUBSET Replies] /\ run' \in Attempt /\ RunRow' /\ RunBacked'
        /\ \A r \in Req : \A a \in told'[r] : a \in told[r] \/ a.kind = "pending"
    BY <2>1, Fails
  <2>3. Kept /\ Honest
    BY <1>1, <2>1, <2>2 DEF Kept, RowKept, Honest
  <2>4. TypeOK'
    BY <1>1, <2>1, <2>2, Basics, Typed DEF TypeOK, Replies, Attempt
  <2> QED BY <1>2, <2>2, <2>3, <2>4, KeptStep
<1>4. CASE LeaseHeld
  <2> DEFINE row == [op[q] EXCEPT !.state = "quarantined", !.phase = "terminal",
                                  !.owner = 0, !.live = FALSE, !.result = 0]
  <2>1. /\ op' = [op EXCEPT ![q] = row] /\ FailWith("corrupt") /\ "corrupt" \in Kinds
        /\ route' = IF op[q].action = "created" /\ route.state = "initializing"
                    THEN [route EXCEPT !.state = "quarantined"] ELSE route
    BY <1>4 DEF Quarantine, Kinds
  <2>2. row \in Row
    <3>1. "terminal" \in Phases
      BY DEF Phases
    <3> QED BY <1>0, <3>1, RowFields
  <2>3. row.state = "quarantined"
    BY <1>0 DEF Row
  <2> HIDE DEF row
  <2>4. /\ told' \in [Req -> SUBSET Replies] /\ run' \in Attempt /\ RunRow' /\ RunBacked'
        /\ \A r \in Req : \A a \in told'[r] :
             a \in told[r] \/ (r = q /\ a.kind = "corrupt")
    BY <2>1, Fails
  <2>5. op' \in [Req -> Row] /\ op'[q] = row /\ \A r \in Req : r # q => op'[r] = op[r]
    BY <1>0, <2>1, <2>2, RowSet
  <2>6. /\ route' \in Route /\ (route.state = "quarantined" => route' = route)
        /\ route.state = "active" => route' = route
        /\ route'.state = "active" => route' = route
    BY <1>0, <2>1 DEF Route
  <2>7. TypeOK'
    BY <1>1, <2>4, <2>5, <2>6, Basics, Typed
       DEF TypeOK, Route, Row, Attempt, Event, Replies, Faults
  <2>8. ToldIsTrue'
    <3>1. Honest
      BY <2>3, <2>4, <2>5 DEF Honest
    <3>2. \A r \in Req : op[r].state \in {"complete", "quarantined"} => RowKept(r)
      BY <1>0, <2>5 DEF RowKept
    <3> QED BY <2>6, <3>1, <3>2, ToldStep
  <2>9. PhaseIsBacked /\ PendingOpen /\ CompleteIsActive /\ ActiveRouteHasOneSession
    BY DEF Inv, Rows
  <2>10. PhaseIsBacked'
    BY <1>1, <1>2, <2>3, <2>5, <2>9 DEF PhaseIsBacked
  <2>11. PendingOpen' /\ CompleteIsActive'
    BY <2>3, <2>5, <2>6, <2>9 DEF PendingOpen, CompleteIsActive
  <2>12. ActiveRouteHasOneSession'
    <3>1. {r \in Req : op'[r].state = "complete" /\ health'[r] = "active"}
            = {r \in Req : op[r].state = "complete" /\ health[r] = "active"}
      BY <1>0, <1>1, <2>3, <2>5
    <3> QED BY <2>6, <2>9, <3>1 DEF ActiveRouteHasOneSession
  <2> QED BY <1>2, <2>4, <2>7, <2>8, <2>10, <2>11, <2>12 DEF Inv, Rows
<1> QED BY <1>3, <1>4

\* What must be durable at point x, with phase p and frontier n.
BackedAt(x, p, n) ==
    /\ x \in Provisioned => bundle = "ready"
    /\ x \in Provisioned \ {"provisioned"} => p # "route_reserved"
    /\ x \in {"appended", "committed", "built"} => n \in EventOf(run.req)
    /\ x \in {"committed", "built", "pinned"} => p # "bundle_ready"
    /\ x = "built" => p = "lifecycle_committed" /\ <<run.req, n>> \in objects
    /\ x = "pinned" => p = "result_published"

\* A move with bundle and catalog left alone.
LEMMA MoveStep ==
    ASSUME Inv, run.pc \notin {"idle", "completed"}, UNCHANGED <<catalog, gen, told, faults>>,
           UNCHANGED disk,
           NEW x \in {"reserved", "mkdir", "provisioned", "bundle", "appended",
                      "committed", "built", "pinned"},
           run' = [run EXCEPT !.pc = x], BackedAt(x, run.phase, run.frontier),
           route.state # "quarantined"
    PROVE  Inv'
<1>1. /\ run' \in Attempt /\ run'.pc = x /\ run'.req = run.req
      /\ run'.phase = run.phase /\ run'.frontier = run.frontier
  BY Basics, Moves
<1>2. /\ route' = route /\ op' = op /\ health' = health /\ work' = work /\ gen' = gen
      /\ told' = told /\ faults' = faults /\ bundle' = bundle /\ log' = log
      /\ objects' = objects
  BY DEF catalog, disk
<1>3. DiskGrows /\ OneEvent' /\ \A r \in Req : EventOf(r)' = EventOf(r)
  BY DiskKept
<1>4. TypeOK'
  BY <1>1, <1>2, Basics, Typed DEF TypeOK, Attempt
<1>5. Kept /\ Honest
  BY <1>2 DEF Kept, RowKept, Honest
<1>6. RunRow'
  BY <1>1, <1>2 DEF Inv, RunRow
<1>7. RunBacked'
  <2>1. EventOf(run.req)' = EventOf(run.req)
    BY <1>1, <1>2 DEF EventOf, Lifecycle
  <2> QED BY <1>1, <1>2, <2>1 DEF RunBacked, BackedAt
<1> QED BY <1>3, <1>4, <1>5, <1>6, <1>7, KeptStep

\* The attempt ends with an answer other than a result or corruption, and the
\* catalog is left alone but for a lease.
LEMMA FailStep ==
    ASSUME Inv, run.pc # "idle", NEW kind \in Kinds \ {"ok", "corrupt"}, FailWith(kind),
           op' \in [Req -> Row], \A r \in Req : RowKept(r), faults' \in Faults,
           UNCHANGED <<route, health, work, disk, gen>>
    PROVE  Inv'
<1>1. /\ told' \in [Req -> SUBSET Replies] /\ run' \in Attempt /\ RunRow' /\ RunBacked'
      /\ \A r \in Req : \A a \in told'[r] : a \in told[r] \/ a.kind = kind
  BY Fails
<1>2. /\ route' = route /\ health' = health /\ work' = work /\ gen' = gen
      /\ bundle' = bundle /\ log' = log /\ objects' = objects
  BY DEF disk
<1>3. Kept /\ Honest
  BY <1>1, <1>2 DEF Kept, Honest
<1>4. TypeOK'
  BY <1>1, <1>2, Basics, Typed DEF TypeOK, Row, Attempt, Replies, Faults
<1>5. DiskGrows /\ OneEvent'
  BY DiskKept
<1> QED BY <1>1, <1>3, <1>4, <1>5, KeptStep

\* The bundle's directory is made, then its ledger.
LEMMA ProvisionSteps ==
    ASSUME Inv, \/ ProvisionQuarantined \/ ProvisionFresh \/ InitializeBundle
                \/ ProvisionExisting
    PROVE  Inv'
<1>0. /\ run \in Attempt /\ bundle \in {"absent", "partial", "ready"}
      /\ op \in [Req -> Row] /\ faults \in Faults
  BY Basics
<1>1. CASE ProvisionQuarantined
  BY <1>1, QuarantineStep DEF ProvisionQuarantined
<1>2. CASE ProvisionExisting /\ bundle = "partial"
  <2>1. /\ run.pc = "reserved" /\ FailWith("dir_exists")
        /\ UNCHANGED <<catalog, disk, gen, faults>>
    BY <1>2 DEF ProvisionExisting
  <2>2. op' = op /\ faults' = faults /\ UNCHANGED <<route, health, work, disk, gen>>
    BY <2>1 DEF catalog
  <2> QED BY <1>0, <2>1, <2>2, FailStep DEF RowKept, Kinds
<1>3. CASE ProvisionExisting /\ bundle # "partial"
  <2>1. /\ run.pc = "reserved" /\ bundle = "ready" /\ run' = [run EXCEPT !.pc = "provisioned"]
        /\ UNCHANGED <<catalog, gen, told, faults>> /\ UNCHANGED disk
        /\ route.state # "quarantined"
    BY <1>3 DEF ProvisionExisting
  <2>2. BackedAt("provisioned", run.phase, run.frontier)
    BY <2>1 DEF BackedAt, Provisioned
  <2> QED BY <2>1, <2>2, MoveStep
<1>4. CASE ProvisionFresh \/ InitializeBundle
  <2>1. PICK x \in {"mkdir", "provisioned"} :
          /\ run.pc \in {"reserved", "mkdir"} /\ run' = [run EXCEPT !.pc = x]
          /\ x = "provisioned" => bundle' = "ready"
          /\ bundle' \in {"partial", "ready"} /\ (bundle = "ready" => bundle' = "ready")
          /\ route.state # "quarantined"
    <3>1. CASE ProvisionFresh
      BY <3>1 DEF ProvisionFresh
    <3>2. CASE InitializeBundle
      BY <3>2 DEF InitializeBundle, Inv, RunRow
    <3> QED BY <1>4, <3>1, <3>2
  <2>2. /\ run' \in Attempt /\ run'.pc = x /\ run'.req = run.req /\ run'.phase = run.phase
    BY <1>0, <2>1, Moves
  <2>3. /\ route' = route /\ op' = op /\ health' = health /\ work' = work /\ gen' = gen
        /\ told' = told /\ faults' = faults /\ log' = log /\ objects' = objects
    BY <1>4 DEF ProvisionFresh, InitializeBundle, catalog
  <2>4. \A r \in Req : EventOf(r)' = EventOf(r)
    BY <2>3 DEF EventOf, Lifecycle
  <2>5. DiskGrows /\ OneEvent'
    BY <2>1, <2>3, <2>4 DEF DiskGrows, Inv, OneEvent
  <2>6. TypeOK'
    BY <2>1, <2>2, <2>3, Basics, Typed DEF TypeOK, Attempt
  <2>7. Kept /\ Honest
    BY <2>3 DEF Kept, RowKept, Honest
  <2>8. RunRow'
    BY <2>1, <2>2, <2>3 DEF Inv, RunRow
  <2>9. RunBacked'
    BY <2>1, <2>2 DEF RunBacked, Provisioned
  <2> QED BY <2>5, <2>6, <2>7, <2>8, <2>9, KeptStep
<1> QED BY <1>1, <1>2, <1>3, <1>4

\* advance_phase, and the steps around it: the attempt is past the phase, moves
\* the row under its lease, or has lost the lease.
LEMMA AdvanceStep ==
    ASSUME Inv, run.pc \notin {"idle", "completed"}, route.state # "quarantined",
           NEW from \in Phases, NEW to \in Phases \ {"terminal"}, NEW n \in Nat,
           NEW x \in {"bundle", "committed", "pinned"},
           Advance(from, to, x, n), UNCHANGED <<route, health, work, disk, gen, faults>>,
           run.phase # from => BackedAt(x, run.phase, run.frontier),
           run.phase = from => BackedAt(x, to, run.frontier),
           bundle = "ready",
           to \in {"lifecycle_committed", "result_published"} => EventOf(run.req) # {},
           to = "result_published" => n \in EventOf(run.req) /\ <<run.req, n>> \in objects
    PROVE  Inv'
<1> DEFINE q == run.req
<1>0. /\ q \in Req /\ op[q] \in Row /\ op \in [Req -> Row] /\ op[q].state = "pending"
      /\ faults \in Faults /\ run \in Attempt
  BY Basics DEF Inv, RunRow
<1>1. /\ route' = route /\ health' = health /\ work' = work /\ gen' = gen
      /\ bundle' = bundle /\ log' = log /\ objects' = objects /\ faults' = faults
  BY DEF disk
<1>2. CASE run.phase # from
  <2>1. run' = [run EXCEPT !.pc = x] /\ op' = op /\ told' = told
    BY <1>2 DEF Advance
  <2> QED BY <1>1, <1>2, <2>1, MoveStep DEF catalog
<1>3. CASE run.phase = from /\ ~LeaseHeld
  <2>1. FailWith("pending") /\ op' = op
    BY <1>3 DEF Advance
  <2> QED BY <1>0, <1>1, <2>1, FailStep DEF RowKept, Kinds
<1>4. CASE run.phase = from /\ LeaseHeld
  <2> DEFINE row == [op[q] EXCEPT !.phase = to, !.result = n]
  <2>1. /\ op' = [op EXCEPT ![q] = row] /\ run' = [run EXCEPT !.pc = x, !.phase = to]
        /\ told' = told
    BY <1>4 DEF Advance
  <2>2. row \in Row
    BY <1>0, RowFields
  <2>3. row.state = "pending" /\ row.phase = to /\ row.result = n
    BY <1>0 DEF Row
  <2> HIDE DEF row
  <2>4. op' \in [Req -> Row] /\ op'[q] = row /\ \A r \in Req : r # q => op'[r] = op[r]
    BY <1>0, <2>1, <2>2, RowSet
  <2>5. /\ run' \in Attempt /\ run'.pc = x /\ run'.req = q /\ run'.phase = to
        /\ run'.frontier = run.frontier
    BY <1>0, <2>1, Moves
  <2>6. DiskGrows /\ OneEvent' /\ \A r \in Req : EventOf(r)' = EventOf(r)
    BY DiskKept
  <2>7. TypeOK'
    BY <1>1, <2>1, <2>4, <2>5, Basics, Typed DEF TypeOK, Row, Attempt
  <2>8. RunRow'
    BY <1>1, <2>3, <2>4, <2>5, <1>0 DEF RunRow
  <2>9. RunBacked'
    <3>1. EventOf(run.req)' = EventOf(run.req)
      BY <1>1, <2>5 DEF EventOf, Lifecycle
    <3> QED BY <1>1, <1>4, <2>5, <3>1 DEF RunBacked, BackedAt
  <2>10. ToldIsTrue'
    <3>1. Honest
      BY <2>1 DEF Honest
    <3>2. \A r \in Req : op[r].state \in {"complete", "quarantined"} => RowKept(r)
      BY <1>0, <2>4 DEF RowKept
    <3> QED BY <1>1, <3>1, <3>2, ToldStep
  <2>11. PhaseIsBacked /\ PendingOpen /\ CompleteIsActive /\ ActiveRouteHasOneSession
    BY DEF Inv, Rows
  <2>12. PhaseIsBacked'
    <3>1. ASSUME NEW r \in Req, op'[r].state \in {"pending", "complete"}
          PROVE  /\ op'[r].phase # "route_reserved" => bundle' = "ready"
                 /\ op'[r].phase \in {"lifecycle_committed", "result_published", "terminal"}
                      => EventOf(r)' # {}
                 /\ op'[r].phase \in {"result_published", "terminal"}
                      => op'[r].result \in EventOf(r)' /\ <<r, op'[r].result>> \in objects'
      <4>1. CASE r = q
        BY <1>0, <1>1, <2>3, <2>4, <2>6, <4>1
      <4>2. CASE r # q
        BY <1>1, <2>4, <2>6, <2>11, <3>1, <4>2 DEF PhaseIsBacked
      <4> QED BY <4>1, <4>2
    <3> QED BY <3>1 DEF PhaseIsBacked
  <2>13. PendingOpen' /\ CompleteIsActive'
    BY <1>1, <2>3, <2>4, <2>11 DEF PendingOpen, CompleteIsActive
  <2>14. ActiveRouteHasOneSession'
    <3>1. {r \in Req : op'[r].state = "complete" /\ health'[r] = "active"}
            = {r \in Req : op[r].state = "complete" /\ health[r] = "active"}
      BY <1>0, <1>1, <2>3, <2>4
    <3> QED BY <1>1, <2>11, <3>1 DEF ActiveRouteHasOneSession
  <2> QED BY <2>6, <2>7, <2>8, <2>9, <2>10, <2>12, <2>13, <2>14 DEF Inv, Rows
<1> QED BY <1>2, <1>3, <1>4

\* The three catalog phases between reservation and completion.
LEMMA PhaseSteps ==
    ASSUME Inv, AdvanceBundleReady \/ AdvanceLifecycleCommitted \/ PinResult
    PROVE  Inv'
<1>0. /\ run.pc \in {"provisioned", "appended", "built"} /\ bundle = "ready"
      /\ route.state # "quarantined" /\ run.frontier \in Nat /\ run.phase \in Phases
      /\ UNCHANGED <<route, health, work, disk, gen, faults>>
  BY Basics DEF AdvanceBundleReady, AdvanceLifecycleCommitted, PinResult, Inv, RunBacked,
                RunRow, Provisioned, Attempt
<1>1. RunBacked /\ RunRow
  BY DEF Inv
<1>2. CASE AdvanceBundleReady
  <2>1. run.pc = "provisioned" /\ Advance("route_reserved", "bundle_ready", "bundle", 0)
    BY <1>2 DEF AdvanceBundleReady
  <2>2. /\ run.phase # "route_reserved" => BackedAt("bundle", run.phase, run.frontier)
        /\ BackedAt("bundle", "bundle_ready", run.frontier)
    BY <1>0 DEF BackedAt, Provisioned
  <2> QED BY <1>0, <2>1, <2>2, AdvanceStep DEF Phases
<1>3. CASE AdvanceLifecycleCommitted
  <2>1. /\ run.pc = "appended"
        /\ Advance("bundle_ready", "lifecycle_committed", "committed", 0)
        /\ run.frontier \in EventOf(run.req) /\ run.phase # "route_reserved"
    BY <1>1, <1>3 DEF AdvanceLifecycleCommitted, RunBacked, Provisioned
  <2>2. /\ run.phase # "bundle_ready" => BackedAt("committed", run.phase, run.frontier)
        /\ BackedAt("committed", "lifecycle_committed", run.frontier)
    BY <1>0, <2>1 DEF BackedAt, Provisioned
  <2> QED BY <1>0, <2>1, <2>2, AdvanceStep DEF Phases
<1>4. CASE PinResult
  <2>1. /\ run.pc = "built" /\ run.phase = "lifecycle_committed"
        /\ Advance("lifecycle_committed", "result_published", "pinned", run.frontier)
        /\ run.frontier \in EventOf(run.req) /\ <<run.req, run.frontier>> \in objects
    BY <1>1, <1>4 DEF PinResult, RunBacked
  <2>2. BackedAt("pinned", "result_published", run.frontier)
    BY <1>0 DEF BackedAt, Provisioned
  <2> QED BY <1>0, <2>1, <2>2, AdvanceStep DEF Phases
<1> QED BY <1>2, <1>3, <1>4

\* The lifecycle event is appended once; a second append finds the first.
LEMMA AppendStep ==
    ASSUME Inv, LifecycleAppend
    PROVE  Inv'
<1> DEFINE q == run.req
           again == EventOf(q) # {}
           n == IF again THEN CHOOSE i \in EventOf(q) : TRUE ELSE Len(log) + 1
<1>0. /\ run.pc = "bundle" /\ q \in Req /\ log \in Seq(Event) /\ run \in Attempt
      /\ Len(log) \in Nat
  BY Basics DEF LifecycleAppend
<1>1. /\ log' = IF again THEN log ELSE Append(log, Lifecycle(q))
      /\ run' = [run EXCEPT !.pc = "appended", !.frontier = n]
  BY DEF LifecycleAppend
<1>2. /\ route' = route /\ op' = op /\ health' = health /\ work' = work /\ gen' = gen
      /\ told' = told /\ faults' = faults /\ bundle' = bundle /\ objects' = objects
  BY DEF LifecycleAppend, catalog
<1>3. /\ log' \in Seq(Event) /\ n \in Nat
      /\ {i \in 1..Len(log') : log'[i] = Lifecycle(q)} = IF again THEN EventOf(q) ELSE {n}
      /\ n \in {i \in 1..Len(log') : log'[i] = Lifecycle(q)}
      /\ \A r \in Req : r # q => EventOf(r)' = EventOf(r)
  <2>1. CASE again
    <3>1. n \in EventOf(q) /\ log' = log
      BY <1>1, <2>1
    <3>2. EventOf(q) \subseteq Nat
      BY <1>0 DEF EventOf
    <3>3. \A r \in Req : EventOf(r)' = EventOf(r)
      BY <3>1 DEF EventOf, Lifecycle
    <3>4. {i \in 1..Len(log') : log'[i] = Lifecycle(q)} = EventOf(q)
      BY <3>1 DEF EventOf
    <3> QED BY <1>0, <2>1, <3>1, <3>2, <3>3, <3>4
  <2>2. CASE ~again
    <3>1. log' = Append(log, Lifecycle(q)) /\ n = Len(log) + 1 /\ EventOf(q) = {}
      BY <1>1, <2>2
    <3>2. Lifecycle(q) \in Event /\ \A r \in Req : r # q => Lifecycle(q) # Lifecycle(r)
      BY <1>0, LifecycleDiffers
    <3>3. /\ log' \in Seq(Event)
          /\ \A r \in Req :
               /\ Lifecycle(q) # Lifecycle(r) => EventOf(r)' = EventOf(r)
               /\ Lifecycle(q) = Lifecycle(r) => EventOf(r)' = EventOf(r) \cup {n}
      BY <1>0, <3>1, <3>2, AppendEvent
    <3>4. /\ log' \in Seq(Event) /\ Len(log') = Len(log) + 1
          /\ \A i \in 1..Len(log) : log'[i] = log[i]
          /\ log'[Len(log) + 1] = Lifecycle(q)
      BY <1>0, <3>1, <3>2
    <3>5. {i \in 1..Len(log') : log'[i] = Lifecycle(q)} = {n}
      <4>1. \A i \in 1..Len(log) : log[i] # Lifecycle(q)
        BY <3>1 DEF EventOf
      <4>2. 1..Len(log') = 1..Len(log) \cup {n} /\ n \notin 1..Len(log)
        BY <1>0, <3>1, <3>4
      <4> QED BY <3>1, <3>4, <4>1, <4>2
    <3> QED BY <1>0, <2>2, <3>1, <3>2, <3>3, <3>5
  <2> QED BY <2>1, <2>2
<1> HIDE DEF n, again
<1>4. /\ run' \in Attempt /\ run'.pc = "appended" /\ run'.req = q
      /\ run'.phase = run.phase /\ run'.frontier = n
  BY <1>0, <1>1, <1>3, Moves
<1>5. PICK p \in Req : p = q
  BY <1>0
<1>6. EventOf(p)' = {i \in 1..Len(log') : log'[i] = Lifecycle(p)}
  BY DEF EventOf, Lifecycle
<1>7. EventOf(p)' = (IF again THEN EventOf(p) ELSE {n}) /\ n \in EventOf(p)'
  BY <1>3, <1>5, <1>6
<1>8. OneEvent'
  <2>1. ASSUME NEW r \in Req, NEW i \in EventOf(r)', NEW j \in EventOf(r)' PROVE i = j
    <3>1. \A k, l \in EventOf(r) : k = l
      BY DEF Inv, OneEvent
    <3> QED BY <1>3, <1>5, <1>7, <2>1, <3>1
  <2> QED BY <2>1 DEF OneEvent
<1>9. DiskGrows
  <2>1. \A r \in Req : EventOf(r) \subseteq EventOf(r)'
    BY <1>3, <1>5, <1>7 DEF again
  <2> QED BY <1>2, <2>1 DEF DiskGrows
<1>10. TypeOK'
  BY <1>2, <1>3, <1>4, Basics, Typed DEF TypeOK, Attempt, Event
<1>11. Kept /\ Honest
  BY <1>2 DEF Kept, RowKept, Honest
<1>12. RunRow'
  BY <1>0, <1>2, <1>4 DEF Inv, RunRow
<1>13. RunBacked'
  <2>1. EventOf(run.req)' = EventOf(p)'
    BY <1>4, <1>5 DEF EventOf, Lifecycle
  <2>2. bundle = "ready" /\ run.phase # "route_reserved"
    BY <1>0 DEF Inv, RunBacked, Provisioned
  <2> QED BY <1>2, <1>4, <1>7, <2>1, <2>2 DEF RunBacked
<1> QED BY <1>8, <1>9, <1>10, <1>11, <1>12, <1>13, KeptStep

\* The result object is built or reopened.
LEMMA ResultSteps ==
    ASSUME Inv, BuildResult \/ ReopenResult
    PROVE  Inv'
<1>0. /\ run.pc = "committed" /\ run.req \in Req /\ run \in Attempt /\ bundle = "ready"
      /\ run.frontier \in EventOf(run.req) /\ run.phase # "route_reserved"
      /\ run.phase # "bundle_ready" /\ route.state # "quarantined"
      /\ op \in [Req -> Row] /\ faults \in Faults
  BY Basics DEF BuildResult, ReopenResult, Inv, RunBacked, RunRow, Provisioned
<1>1. CASE BuildResult /\ Len(log) # run.frontier
  <2>1. Quarantine /\ UNCHANGED <<disk, gen, faults>>
    BY <1>1 DEF BuildResult, disk
  <2> QED BY <1>0, <2>1, QuarantineStep
<1>2. CASE BuildResult /\ Len(log) = run.frontier
  <2>1. /\ objects' = objects \cup {<<run.req, run.frontier>>}
        /\ run' = [run EXCEPT !.pc = "built"] /\ run.phase # "result_published"
    BY <1>2 DEF BuildResult
  <2>2. /\ route' = route /\ op' = op /\ health' = health /\ work' = work /\ gen' = gen
        /\ told' = told /\ faults' = faults /\ bundle' = bundle /\ log' = log
    BY <1>2 DEF BuildResult, catalog
  <2>3. run.phase = "lifecycle_committed"
    <3>1. op[run.req].state = "pending" /\ op[run.req].phase = run.phase
      BY <1>0 DEF Inv, RunRow
    <3>2. run.phase # "terminal" /\ run.phase \in Phases
      BY <1>0, <3>1 DEF Inv, Rows, PendingOpen, Attempt
    <3> QED BY <1>0, <2>1, <3>2 DEF Phases
  <2>4. /\ run' \in Attempt /\ run'.pc = "built" /\ run'.req = run.req
        /\ run'.phase = run.phase /\ run'.frontier = run.frontier
    BY <1>0, <2>1, Moves
  <2>5. \A r \in Req : EventOf(r)' = EventOf(r)
    BY <2>2 DEF EventOf, Lifecycle
  <2>6. DiskGrows /\ OneEvent'
    BY <2>1, <2>2, <2>5 DEF DiskGrows, Inv, OneEvent
  <2>7. TypeOK'
    <3>1. objects' \subseteq Req \X Nat
      BY <1>0, <2>1, Basics DEF Attempt
    <3> QED BY <2>2, <2>4, <3>1, Basics, Typed DEF TypeOK, Attempt
  <2>8. Kept /\ Honest
    BY <2>2 DEF Kept, RowKept, Honest
  <2>9. RunRow'
    BY <1>0, <2>2, <2>4 DEF Inv, RunRow
  <2>10. RunBacked'
    <3>1. EventOf(run.req)' = EventOf(run.req)
      BY <2>2, <2>4 DEF EventOf, Lifecycle
    <3> QED BY <1>0, <2>1, <2>2, <2>3, <2>4, <3>1 DEF RunBacked, Provisioned
  <2> QED BY <2>6, <2>7, <2>8, <2>9, <2>10, KeptStep
<1>3. CASE ReopenResult /\ FailWith("unsafe")
  <2>1. op' = op /\ faults' = faults /\ UNCHANGED <<route, health, work, disk, gen>>
    BY <1>3 DEF ReopenResult, catalog
  <2> QED BY <1>0, <1>3, <2>1, FailStep DEF RowKept, Kinds
<1>4. CASE ReopenResult /\ ~FailWith("unsafe")
  <2>1. /\ run' = [run EXCEPT !.pc = "pinned"] /\ run.phase = "result_published"
        /\ UNCHANGED <<catalog, gen, told, faults>> /\ UNCHANGED disk
    BY <1>4 DEF ReopenResult
  <2>2. BackedAt("pinned", run.phase, run.frontier)
    BY <1>0, <2>1 DEF BackedAt, Provisioned
  <2> QED BY <1>0, <2>1, <2>2, MoveStep
<1> QED BY <1>1, <1>2, <1>3, <1>4

\* complete: the route turns to this session and every other one ends.
LEMMA CompleteStep ==
    ASSUME Inv, Complete
    PROVE  Inv'
<1> DEFINE q == run.req
<1>0. /\ run.pc = "pinned" /\ q \in Req /\ op[q] \in Row /\ op \in [Req -> Row]
      /\ op[q].state = "pending" /\ op[q].phase = "result_published"
      /\ route.state # "quarantined" /\ run \in Attempt /\ faults \in Faults
      /\ health \in [Req -> {"none", "active", "ended"}]
      /\ run.phase = "result_published" /\ bundle = "ready"
  BY Basics DEF Complete, Inv, RunRow, RunBacked, Provisioned
<1>1. /\ work' = work /\ bundle' = bundle /\ log' = log /\ objects' = objects
      /\ gen' = gen /\ faults' = faults /\ UNCHANGED disk
  BY DEF Complete, disk
<1>2. CASE ~LeaseHeld \/ health[q] = "ended"
  <2>1. /\ FailWith("pending") \/ FailWith("session_ended")
        /\ op' = op /\ route' = route /\ health' = health
    BY <1>2 DEF Complete
  <2> QED BY <1>0, <1>1, <2>1, FailStep DEF RowKept, Kinds
<1>3. CASE LeaseHeld /\ health[q] # "ended"
  <2> DEFINE row == [op[q] EXCEPT !.state = "complete", !.phase = "terminal",
                                  !.owner = 0, !.live = FALSE]
  <2>1. /\ op' = [op EXCEPT ![q] = row] /\ run' = [run EXCEPT !.pc = "completed"]
        /\ route' = [state |-> "active", active |-> q] /\ told' = told
        /\ health' = [r \in Req |-> IF r = q THEN "active"
                                    ELSE IF health[r] = "none" THEN "none" ELSE "ended"]
    BY <1>3 DEF Complete
  <2>2. row \in Row
    <3>1. "terminal" \in Phases
      BY DEF Phases
    <3> QED BY <1>0, <3>1, RowFields
  <2>3. row.state = "complete" /\ row.phase = "terminal" /\ row.result = op[q].result
    BY <1>0 DEF Row
  <2> HIDE DEF row
  <2>4. op' \in [Req -> Row] /\ op'[q] = row /\ \A r \in Req : r # q => op'[r] = op[r]
    BY <1>0, <2>1, <2>2, RowSet
  <2>5. /\ run' \in Attempt /\ run'.pc = "completed" /\ run'.req = q
        /\ run'.phase = run.phase /\ run'.frontier = run.frontier
    BY <1>0, <2>1, Moves
  <2>6. DiskGrows /\ OneEvent' /\ \A r \in Req : EventOf(r)' = EventOf(r)
    BY <1>1, DiskKept
  <2>7. /\ route' \in Route /\ route'.state = "active" /\ route'.active = q
        /\ health' \in [Req -> {"none", "active", "ended"}] /\ health'[q] = "active"
        /\ \A r \in Req : r # q => health'[r] # "active"
    BY <1>0, <2>1 DEF Route
  <2>8. TypeOK'
    BY <1>1, <2>1, <2>4, <2>5, <2>7, Basics, Typed DEF TypeOK, Route, Row, Attempt
  <2>9. RunRow' /\ RunBacked'
    BY <1>0, <1>1, <2>3, <2>4, <2>5, <2>7 DEF RunRow, RunBacked, Provisioned
  <2>10. ToldIsTrue'
    <3>1. Honest
      BY <2>1 DEF Honest
    <3>2. \A r \in Req : op[r].state \in {"complete", "quarantined"} => RowKept(r)
      BY <1>0, <2>4 DEF RowKept
    <3> QED BY <1>0, <3>1, <3>2, ToldStep
  <2>11. PhaseIsBacked /\ PendingOpen /\ CompleteIsActive
    BY DEF Inv, Rows
  <2>12. PhaseIsBacked'
    <3>1. ASSUME NEW r \in Req, op'[r].state \in {"pending", "complete"}
          PROVE  /\ op'[r].phase # "route_reserved" => bundle' = "ready"
                 /\ op'[r].phase \in {"lifecycle_committed", "result_published", "terminal"}
                      => EventOf(r)' # {}
                 /\ op'[r].phase \in {"result_published", "terminal"}
                      => op'[r].result \in EventOf(r)' /\ <<r, op'[r].result>> \in objects'
      <4>1. CASE r = q
        <5>1. op[r].result \in EventOf(r) /\ <<r, op[r].result>> \in objects
          BY <1>0, <2>11, <4>1 DEF PhaseIsBacked
        <5>2. op'[r].result = op[r].result /\ EventOf(r)' = EventOf(r)
          BY <2>3, <2>4, <2>6, <4>1
        <5> QED BY <1>0, <1>1, <5>1, <5>2
      <4>2. CASE r # q
        BY <1>1, <2>4, <2>6, <2>11, <3>1, <4>2 DEF PhaseIsBacked
      <4> QED BY <4>1, <4>2
    <3> QED BY <3>1 DEF PhaseIsBacked
  <2>13. PendingOpen' /\ CompleteIsActive'
    BY <2>3, <2>4, <2>7, <2>11 DEF PendingOpen, CompleteIsActive
  <2>14. ActiveRouteHasOneSession'
    <3>1. {r \in Req : op'[r].state = "complete" /\ health'[r] = "active"} = {q}
      BY <1>0, <2>3, <2>4, <2>7
    <3> QED BY <2>7, <3>1 DEF ActiveRouteHasOneSession
  <2> QED BY <2>6, <2>8, <2>9, <2>10, <2>12, <2>13, <2>14 DEF Inv, Rows
<1> QED BY <1>2, <1>3

\* The caller is given the stored result.
LEMMA AnswerStep ==
    ASSUME Inv, AnswerStart
    PROVE  Inv'
<1> DEFINE q == run.req
<1>0. /\ run.pc = "completed" /\ q \in Req /\ op[q].state = "complete"
      /\ op[q].result \in Nat /\ told \in [Req -> SUBSET Replies] /\ "ok" \in Kinds
  BY Basics DEF AnswerStart, Inv, RunRow, Row, Kinds
<1>1. Adds(q, "ok", op[q].result) /\ run' = Idle
  BY DEF AnswerStart, Adds
<1>2. /\ route' = route /\ op' = op /\ health' = health /\ work' = work /\ gen' = gen
      /\ faults' = faults /\ bundle' = bundle /\ log' = log /\ objects' = objects
      /\ UNCHANGED disk
  BY DEF AnswerStart, catalog, disk
<1>3. /\ told' \in [Req -> SUBSET Replies]
      /\ \A r \in Req : \A a \in told'[r] :
           a \in told[r] \/ (r = q /\ a.kind = "ok" /\ a.at = op[q].result)
  BY <1>0, <1>1, ToldMore
<1>4. run' \in Attempt /\ RunRow' /\ RunBacked'
  BY <1>1, IdleRun
<1>5. TypeOK'
  BY <1>2, <1>3, <1>4, Basics, Typed DEF TypeOK, Attempt, Replies
<1>6. Kept /\ Honest
  BY <1>0, <1>2, <1>3 DEF Kept, RowKept, Honest
<1> QED BY <1>2, <1>4, <1>5, <1>6, DiskKept, KeptStep

-----------------------------------------------------------------------------
(* What happens around the attempt.                                        *)

\* The bounds on faults.
LEMMA FaultBounds ==
    ASSUME faults \in Faults
    PROVE  /\ faults.busy < MaxBusy => [faults EXCEPT !.busy = @ + 1] \in Faults
           /\ faults.cancel < MaxCancels => [faults EXCEPT !.cancel = @ + 1] \in Faults
           /\ faults.crash < MaxCrashes => [faults EXCEPT !.crash = @ + 1] \in Faults
           /\ faults.late < MaxLate => [faults EXCEPT !.late = @ + 1] \in Faults
BY StartAssumption DEF Faults

\* A busy answer, a cancellation, a crash.
LEMMA InterruptSteps ==
    ASSUME Inv, Busy \/ Cancel \/ Crash
    PROVE  Inv'
<1>0. /\ op \in [Req -> Row] /\ faults \in Faults /\ gen \in Nat \ {0}
      /\ told \in [Req -> SUBSET Replies]
  BY Basics
<1>1. CASE Busy
  <2>1. /\ run.pc # "idle" /\ faults' \in Faults /\ run.req \in Req
        /\ UNCHANGED <<route, health, work, disk, gen>>
    BY <1>0, <1>1, FaultBounds, Basics DEF Busy
  <2>2. /\ FailWith("retry_ready") \/ FailWith("busy")
        /\ op' = op \/ op' = [op EXCEPT ![run.req].live = FALSE]
    BY <1>1 DEF Busy
  <2>3. op' \in [Req -> Row] /\ \A r \in Req : RowKept(r)
    <3>1. CASE op' = op
      BY <1>0, <3>1 DEF RowKept
    <3>2. CASE op' = [op EXCEPT ![run.req].live = FALSE]
      BY <1>0, <2>1, <3>2, LeaseMoves
    <3> QED BY <2>2, <3>1, <3>2
  <2> QED BY <2>1, <2>2, <2>3, FailStep DEF Kinds
<1>2. CASE Cancel \/ Crash
  <2>1. /\ run' = Idle /\ told' = told /\ faults' \in Faults /\ gen' \in Nat \ {0}
        /\ route' = route /\ op' = op /\ health' = health /\ work' = work
        /\ UNCHANGED disk
    BY <1>0, <1>2, FaultBounds DEF Cancel, Crash, catalog
  <2>2. bundle' = bundle /\ log' = log /\ objects' = objects
    BY <2>1 DEF disk
  <2>3. run' \in Attempt /\ RunRow' /\ RunBacked'
    BY <2>1, IdleRun
  <2>4. TypeOK'
    BY <2>1, <2>2, <2>3, Basics, Typed DEF TypeOK, Attempt, Faults
  <2>5. Kept /\ Honest
    BY <2>1 DEF Kept, RowKept, Honest
  <2> QED BY <2>1, <2>3, <2>4, <2>5, DiskKept, KeptStep
<1> QED BY <1>1, <1>2

\* A lease runs out, the holder of the session publishes, the work is over.
LEMMA OtherSteps ==
    ASSUME Inv,
           \/ \E r \in Req : LeaseExpires(r)
           \/ \E r \in Req, kind \in PublicationKinds : Publish(r, kind)
           \/ ReconcileWork
           \/ UNCHANGED vars
    PROVE  Inv'
<1>0. /\ op \in [Req -> Row] /\ faults \in Faults /\ gen \in Nat /\ log \in Seq(Event)
  BY Basics
<1>1. ASSUME NEW q \in Req, LeaseExpires(q) PROVE Inv'
  <2>1. /\ op' = [op EXCEPT ![q].live = FALSE] /\ faults' \in Faults
        /\ route' = route /\ health' = health /\ work' = work /\ gen' = gen /\ run' = run
        /\ told' = told /\ UNCHANGED disk
    BY <1>0, <1>1, FaultBounds DEF LeaseExpires
  <2>2. op' \in [Req -> Row] /\ \A r \in Req : RowKept(r)
    BY <1>0, <2>1, LeaseMoves
  <2>3. Kept /\ Honest /\ DiskGrows /\ OneEvent'
    BY <2>1, <2>2, DiskKept DEF Kept, Honest
  <2>4. TypeOK'
    BY <2>1, <2>2, Basics, Typed DEF TypeOK, Row, Faults, disk
  <2> QED BY <2>1, <2>3, <2>4, SameRun, KeptStep
<1>2. ASSUME NEW q \in Req, NEW kind \in PublicationKinds, Publish(q, kind) PROVE Inv'
  <2> DEFINE x == [kind |-> kind, by |-> q]
  <2>1. /\ log' = Append(log, x) /\ route' = route /\ op' = op /\ health' = health
        /\ work' = work /\ gen' = gen /\ run' = run /\ told' = told /\ faults' = faults
        /\ bundle' = bundle /\ objects' = objects
    BY <1>2 DEF Publish, catalog
  <2>2. x \in Event /\ x.kind # "lifecycle"
    BY DEF Event, PublicationKinds
  <2> HIDE DEF x
  <2>3. \A r \in Req : x # Lifecycle(r)
    BY <2>2, LifecycleDiffers
  <2>4. log' \in Seq(Event) /\ \A r \in Req : EventOf(r)' = EventOf(r)
    BY <1>0, <2>1, <2>2, <2>3, AppendEvent
  <2>5. Kept /\ Honest /\ DiskGrows /\ OneEvent'
    BY <2>1, <2>4 DEF Kept, RowKept, Honest, DiskGrows, Inv, OneEvent
  <2>6. TypeOK'
    BY <2>1, <2>4, Basics, Typed DEF TypeOK, Event
  <2> QED BY <2>1, <2>5, <2>6, SameRun, KeptStep
<1>3. CASE ReconcileWork \/ UNCHANGED vars
  <2>1. /\ work' \in {"open", "closed"} /\ route' = route /\ op' = op /\ health' = health
        /\ gen' = gen /\ run' = run /\ told' = told /\ faults' = faults /\ UNCHANGED disk
    BY <1>3, Basics DEF ReconcileWork, vars, catalog
  <2>2. Kept /\ Honest /\ DiskGrows /\ OneEvent'
    BY <2>1, DiskKept DEF Kept, RowKept, Honest
  <2>3. TypeOK'
    BY <2>1, Basics, Typed DEF TypeOK, disk
  <2> QED BY <2>1, <2>2, <2>3, SameRun, KeptStep
<1> QED BY <1>1, <1>2, <1>3

-----------------------------------------------------------------------------
(* The theorems.                                                           *)

\* Every step keeps the invariant.
LEMMA InvStep ==
    ASSUME Inv, [Next]_vars
    PROVE  Inv'
<1>1. CASE Step
  BY <1>1, ProvisionSteps, PhaseSteps, AppendStep, ResultSteps, CompleteStep, AnswerStep
     DEF Step
<1> QED BY <1>1, CallSteps, InterruptSteps, OtherSteps DEF Next

\* The initial state: no route, no operation, no bundle.
LEMMA InvInit ==
    ASSUME Init
    PROVE  Inv
<1>1. NoOp \in Row /\ NoOp.state = "absent" /\ Idle \in Attempt /\ Idle.pc = "idle"
  BY DEF NoOp, Row, Idle, Attempt, Phases
<1>2. <<>> \in Seq(Event)
  OBVIOUS
<1>3. faults \in Faults
  BY StartAssumption DEF Init, Faults
<1>4. TypeOK
  BY <1>1, <1>2, <1>3, Typed DEF Init, Route
<1>5. /\ \A r \in Req : op[r] = NoOp /\ told[r] = {} /\ EventOf(r) = {}
      /\ run = Idle /\ route.state = "none"
  BY DEF Init, EventOf
<1>6. RunRow /\ RunBacked
  BY <1>1, <1>5 DEF RunRow, RunBacked, Provisioned
<1>7. Rows
  BY <1>1, <1>5 DEF Rows, PhaseIsBacked, PendingOpen, CompleteIsActive,
                    ActiveRouteHasOneSession
<1>8. OneEvent /\ ToldIsTrue
  BY <1>5 DEF OneEvent, ToldIsTrue
<1> QED BY <1>4, <1>6, <1>7, <1>8 DEF Inv

\* The invariant holds in every state of every behaviour.
THEOREM Invariance == Spec => []Inv
<1>1. Init => Inv
  BY InvInit
<1>2. Inv /\ [Next]_vars => Inv'
  BY InvStep
<1> QED BY <1>1, <1>2, PTL DEF Spec

\* However often a start is interrupted and replayed, and whatever else is
\* published, append_batch puts its lifecycle event into the ledger once at
\* most.
THEOREM LifecycleOnce == Spec => []OneLifecycle
<1>1. ASSUME Inv, NEW r \in Req PROVE Cardinality(EventOf(r)) <= 1
  <2>1. CASE EventOf(r) = {}
    BY <2>1, FS_EmptySet
  <2>2. CASE EventOf(r) # {}
    <3>1. PICK i \in EventOf(r) : EventOf(r) = {i}
      BY <1>1, <2>2 DEF Inv, OneEvent
    <3> QED BY <3>1, FS_Singleton
  <2> QED BY <2>1, <2>2
<1>2. Inv => OneLifecycle
  BY <1>1 DEF OneLifecycle
<1> QED BY <1>2, Invariance, PTL

\* Whatever crash, cancellation or lost lease falls between the two databases,
\* a phase in the start catalog is backed by the bundle, the lifecycle event
\* and the pinned result object it stands for.
THEOREM PhasesAreBacked == Spec => []PhaseIsBacked
<1>1. Inv => PhaseIsBacked
  BY DEF Inv, Rows
<1> QED BY <1>1, Invariance, PTL

\* complete leaves an active route with exactly one completed start whose
\* session is live, however many starts of the pair overtake each other.
THEOREM OneSession == Spec => []ActiveRouteHasOneSession
<1>1. Inv => ActiveRouteHasOneSession
  BY DEF Inv, Rows
<1> QED BY <1>1, Invariance, PTL

\* All successful answers to a request carry the result its row pinned, and a
\* request that was answered is never reported corrupt.
THEOREM AnswersAgree == Spec => []SameAnswer
<1>1. ASSUME Inv, NEW r \in Req, NEW a \in told[r], NEW b \in told[r], a.kind = "ok"
      PROVE  b.kind # "corrupt" /\ (b.kind = "ok" => a = b)
  <2>1. /\ op[r].state = "complete" /\ a.at = op[r].result
        /\ b.kind = "ok" => b.at = op[r].result
        /\ b.kind = "corrupt" => route.state = "quarantined" \/ op[r].state = "quarantined"
    BY <1>1 DEF Inv, ToldIsTrue
  <2>2. route.state = "active"
    BY <1>1, <2>1 DEF Inv, Rows, CompleteIsActive
  <2>3. a \in Replies /\ b \in Replies
    BY <1>1, Basics
  <2>4. a.kind = b.kind /\ a.at = b.at => a = b
    BY <2>3 DEF Replies
  <2> QED BY <1>1, <2>1, <2>2, <2>4
<1>2. Inv => SameAnswer
  BY <1>1 DEF SameAnswer
<1> QED BY <1>2, Invariance, PTL

\* No start, resumed, contradicted or quarantined, takes an active route out
\* of service.
THEOREM ActiveStaysActive == Spec => ActiveRouteStays
<1>1. ASSUME Inv, [Next]_vars, route.state = "active" PROVE route'.state = "active"
  <2>1. CASE Step
    BY <1>1, <2>1
       DEF Step, ProvisionQuarantined, ProvisionFresh, InitializeBundle, ProvisionExisting,
           AdvanceBundleReady, LifecycleAppend, AdvanceLifecycleCommitted, BuildResult,
           ReopenResult, PinResult, Complete, AnswerStart, Quarantine, catalog
  <2>2. ASSUME NEW r \in Req, Call(r) PROVE route' = route
    BY <1>1, <2>2 DEF Call, Reserve, Resume, Replay, catalog
  <2>3. CASE Busy \/ Cancel \/ Crash \/ ReconcileWork \/ UNCHANGED vars
    BY <1>1, <2>3 DEF Busy, Cancel, Crash, ReconcileWork, catalog, vars
  <2>4. ASSUME NEW r \in Req, LeaseExpires(r) PROVE route' = route
    BY <2>4 DEF LeaseExpires
  <2>5. ASSUME NEW r \in Req, NEW kind \in PublicationKinds, Publish(r, kind)
        PROVE  route' = route
    BY <2>5 DEF Publish, catalog
  <2> QED BY <1>1, <2>1, <2>2, <2>3, <2>4, <2>5 DEF Next
<1>2. Inv /\ [Next]_vars => [route.state = "active" => route'.state = "active"]_vars
  BY <1>1
<1> QED BY <1>2, Invariance, PTL DEF Spec, ActiveRouteStays
=============================================================================
