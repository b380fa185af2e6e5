---------------------- MODULE ServiceLifecycleProofs ----------------------
(***************************************************************************)
(* For any number of calls, locks, failures, lost connections and          *)
(* ceremonies: who may be where while the service is in which state.       *)
(*                                                                         *)
(* The first part is about the activation lock, which has one holder, and  *)
(* the keys, which have an owner; the second about the last lock that has  *)
(* ended; the third about a service of which no session lock has ended in  *)
(* the middle of a ceremony.  No part assumes anything of the constants    *)
(* but LifecycleAssumption.                                                *)
(***************************************************************************)
EXTENDS ServiceLifecycle, SequenceTheorems, TLAPS

-----------------------------------------------------------------------------
(* Where the actors may be.                                                *)

\* Where an actor is that has the activation lock and is not just woken.
Working == {"granted", "loading", "reconciling", "building", "undoing", "draining", "closing"}
\* Where a call is on the way to a ready application.
Moving == {"loading", "reconciling", "building", "undoing"}

LockPlaces == {"idle", "connected", "queued", "granted", "draining", "closing", "done"}
Place(a) ==
    IF a \in Calls THEN {"idle", "connected", "queued", "granted", "admitted", "done"} \cup Moving
    ELSE IF a \in Locks THEN LockPlaces
    ELSE IF a = "human" THEN Ceremony \cup {"idle", "done"}
    ELSE IF a = "stop" THEN LockPlaces \cup {"idling", "requeued"}
    ELSE {"idle", "building", "undoing", "done"}
Places == Waits \cup Working \cup {"queued", "idling", "requeued"}

Scalars ==
    /\ svc \in {"starting", "locked", "unlocking", "ready", "draining", "failed", "gone"}
    /\ vault \in {"locked", "ready", "closed"} /\ gen \in Nat \ {0} /\ app \in Nat
    /\ reason \in {"none", "soft", "hard"} /\ fails \in 0..RetryLimit
    /\ admitted \subseteq Calls
    /\ drain \in [pc : {"off", "wait", "closing", "failed"}, stop : BOOLEAN]
    /\ cap \in [Actors -> Nat]
    /\ held \in {"none", "soft", "hard", "overwritten", "dropped"}
    /\ flaws \subseteq {"crossed", "undrained"}
    /\ spent \in [failures : Nat, cancels : Nat, ceremonies : Nat]

Roles == pc \in [Actors -> Places] /\ \A a \in Actors : pc[a] \in Place(a)
Queue == act \in Seq(Actors)

\* Who works on the service is at the head of the queue.
Holder == \A a \in Actors : pc[a] \in Working => act # <<>> /\ Head(act) = a

\* Until the start has ended nobody else has come, but for a dropped lock.
Early ==
    pc["start"] # "done" =>
        /\ \A a \in Actors \ {"start"} : pc[a] \in {"idle", "done"}
        /\ pc["start"] = "idle" => act = <<>>

Shape == Scalars /\ Roles /\ Queue /\ Holder /\ Early

-----------------------------------------------------------------------------
(* The activation queue.                                                   *)

\* Who leaves the queue leaves it a queue, and its head unless it was that.
LEMMA WithoutQueue ==
    ASSUME Queue, NEW a \in Actors
    PROVE  /\ Without(a) \in Seq(Actors)
           /\ act # <<>> /\ Head(act) # a =>
                Without(a) # <<>> /\ Head(Without(a)) = Head(act)
<1> USE DEF Queue
<1>1. CASE ~ \E i \in 1..Len(act) : act[i] = a
  BY <1>1 DEF Without
<1>2. CASE \E i \in 1..Len(act) : act[i] = a
  <2>1. PICK at \in 1..Len(act) : at = CHOOSE i \in 1..Len(act) : act[i] = a
    BY <1>2
  <2>2. act[at] = a
    BY <1>2, <2>1
  <2>3. PICK s, t : s = SubSeq(act, 1, at - 1) /\ t = SubSeq(act, at + 1, Len(act))
    OBVIOUS
  <2>4. Without(a) = s \o t
    BY <1>2, <2>1, <2>3 DEF Without
  <2>5. s \in Seq(Actors) /\ Len(s) = at - 1 /\ (at > 1 => s[1] = act[1])
    <3>1. at - 1 \in 0..Len(act) /\ \A i \in 1..(at - 1) : act[i] \in Actors
      OBVIOUS
    <3> QED
      BY <2>3, <3>1, SubSeqProperties
  <2>6. t \in Seq(Actors)
    BY <2>3, SubSeqProperties
  <2>7. ASSUME act # <<>>, Head(act) # a
        PROVE  s \o t # <<>> /\ Head(s \o t) = Head(act)
    <3>1. at > 1
      BY <2>2, <2>7
    <3>2. Len(s) >= 1 /\ s[1] = act[1]
      BY <2>5, <3>1
    <3>3. Len(s \o t) >= 1 /\ (s \o t)[1] = s[1] /\ s \o t \in Seq(Actors)
      BY <2>5, <2>6, <3>2
    <3>4. PICK u \in Seq(Actors) : u = s \o t
      BY <3>3
    <3>5. u # <<>> /\ Head(u) = u[1] /\ Head(act) = act[1]
      BY <2>7, <3>3, <3>4, HeadTailProperties
    <3> QED
      BY <3>2, <3>3, <3>4, <3>5
  <2> QED
    BY <2>4, <2>5, <2>6, <2>7
<1> QED
  BY <1>1, <1>2

\* What a step may do with the place of one actor and with the queue.
Keeps(a, w) == act' = act /\ (w \in Working => act # <<>> /\ Head(act) = a)
Joins(a, w) == act' = Append(act, a) /\ (w \in Working => act = <<>>)
Leaves(a, w) == act' = Without(a) /\ w \notin Working
Requeues(a, w) == act' = Append(Without(a), a) /\ (w \in Working => Without(a) = <<>>)
Proceeds(a, w) ==
    /\ pc' = [pc EXCEPT ![a] = w]
    /\ w \in Place(a)
    /\ Keeps(a, w) \/ Joins(a, w) \/ Leaves(a, w) \/ Requeues(a, w)
    /\ pc["start"] = "done" \/ a = "start" \/ (w = "done" /\ act' = act)
    /\ a = "start" => w # "idle" /\ pc["start"] # "done"

LEMMA PlaceIsPlace == \A a : Place(a) \subseteq Places
BY DEF Place, Places, LockPlaces, Moving, Ceremony, Waits, Working

LEMMA ProceedsKeepsShape ==
    ASSUME Shape, NEW a \in Actors, NEW w, Proceeds(a, w)
    PROVE  Roles' /\ Queue' /\ Holder' /\ Early'
<1>0. Roles /\ Queue /\ Holder /\ Early
  BY DEF Shape
<1>1. pc' = [pc EXCEPT ![a] = w] /\ w \in Place(a)
  BY DEF Proceeds
<1>2. Actors' = Actors /\ Places' = Places /\ \A b : Place(b)' = Place(b)
  BY DEF Actors, Places, Place, LockPlaces, Moving, Ceremony, Waits, Working
<1>3. Roles'
  BY <1>0, <1>1, PlaceIsPlace DEF Roles
<1>4. Without(a) \in Seq(Actors)
      /\ (act # <<>> /\ Head(act) # a => Without(a) # <<>> /\ Head(Without(a)) = Head(act))
  BY <1>0, WithoutQueue
<1>5. Queue'
  <2>1. PICK q \in Seq(Actors) : q = Without(a)
    BY <1>4
  <2>2. Append(act, a) \in Seq(Actors) /\ Append(q, a) \in Seq(Actors)
    BY <1>0, AppendProperties DEF Queue
  <2>3. act' \in {act, q, Append(act, a), Append(q, a)}
    BY <2>1 DEF Proceeds, Keeps, Joins, Leaves, Requeues
  <2>4. act' \in Seq(Actors)
    BY <1>0, <2>2, <2>3 DEF Queue
  <2> QED
    BY <2>4 DEF Queue
<1>6. pc'[a] = w /\ \A b \in Actors \ {a} : pc'[b] = pc[b]
  BY <1>0, <1>1 DEF Roles
<1>7. ASSUME NEW b \in Actors, pc'[b] \in Working
      PROVE  act' # <<>> /\ Head(act') = b
  <2>1. CASE b # a
    <3>1. act # <<>> /\ Head(act) = b /\ act \in Seq(Actors)
      BY <2>1, <1>0, <1>6, <1>7 DEF Holder, Queue
    <3>2. \A s \in Seq(Actors) : s # <<>> => Append(s, a) # <<>> /\ Head(Append(s, a)) = Head(s)
      BY AppendProperties
    <3> QED
      BY <2>1, <3>1, <3>2, <1>4 DEF Proceeds, Keeps, Joins, Leaves, Requeues
  <2>2. CASE b = a
    <3>1. w \in Working
      BY <2>2, <1>6, <1>7
    <3>2. Append(<<>>, a) # <<>> /\ Head(Append(<<>>, a)) = a
      OBVIOUS
    <3> QED
      BY <2>2, <3>1, <3>2 DEF Proceeds, Keeps, Joins, Leaves, Requeues, Working
  <2> QED
    BY <2>1, <2>2
<1>8. Holder'
  BY <1>7 DEF Holder, Working
<1>9. Early'
  BY <1>0, <1>1, <1>6 DEF Early, Proceeds, Actors
<1> QED
  BY <1>3, <1>5, <1>8, <1>9

LEMMA PlaceOf ==
    /\ \A c \in Calls :
         Place(c) = {"idle", "connected", "queued", "granted", "admitted", "done"} \cup Moving
    /\ \A l \in Locks : Place(l) = LockPlaces
    /\ Place("human") = Ceremony \cup {"idle", "done"}
    /\ Place("stop") = LockPlaces \cup {"idling", "requeued"}
    /\ Place("start") = {"idle", "building", "undoing", "done"}
    /\ \A a \in Calls \cup Locks : a \notin {"human", "stop", "start"}
    /\ Calls \cap Locks = {}
    /\ Calls \cup Locks \cup {"human", "stop", "start"} = Actors
BY LifecycleAssumption DEF Place, Actors, Locks

LEMMA LockVaultScalars ==
    ASSUME Scalars, LockVault
    PROVE  vault' \in {"locked", "ready", "closed"} /\ gen' \in Nat \ {0}
BY DEF LockVault, Scalars

LEMMA UndoScalars ==
    ASSUME Scalars, NEW a, Undo(a)
    PROVE  Scalars'
<1>1. vault' \in {"locked", "ready", "closed"} /\ gen' \in Nat \ {0}
  BY LockVaultScalars DEF Undo
<1>2. fails' \in 0..RetryLimit /\ reason' \in {"none", "soft", "hard"}
  BY LifecycleAssumption DEF Undo, Scalars
<1>3. svc' \in {"starting", "locked", "unlocking", "ready", "draining", "failed", "gone"}
  BY DEF Undo, Relocked, Scalars
<1> QED
  BY <1>1, <1>2, <1>3 DEF Undo, Scalars, Actors

LEMMA BeginDrainScalars ==
    ASSUME Scalars, NEW stop \in BOOLEAN, BeginDrain(stop)
    PROVE  drain' \in [pc : {"off", "wait", "closing", "failed"}, stop : BOOLEAN]
           /\ svc' = "draining"
BY DEF BeginDrain

LEMMA RelockedScalars ==
    ASSUME Scalars
    PROVE  Relocked \in {"starting", "locked", "unlocking", "ready", "draining", "failed", "gone"}
BY DEF Relocked, Scalars

LEMMA Proceeding ==
    ASSUME Shape, NEW a \in Actors, NEW w \in Place(a), pc' = [pc EXCEPT ![a] = w],
           Keeps(a, w) \/ Joins(a, w) \/ Leaves(a, w) \/ Requeues(a, w),
           a # "start", pc["start"] = "done"
    PROVE  Proceeds(a, pc'[a])
<1>1. pc'[a] = w
  BY DEF Shape, Roles
<1> QED
  BY <1>1 DEF Proceeds

\* Somebody other than the start is under way only when the start has ended.
LEMMA StartedWhenUnderWay ==
    ASSUME Shape, NEW a \in Actors, a # "start", pc[a] \notin {"idle", "done"}
    PROVE  pc["start"] = "done"
BY DEF Shape, Early

\* A lock's turn: a drain of a ready service, or at once, or over an application.
LEMMA LockTurnCases ==
    ASSUME NEW l \in Locks, LockTurn(l)
    PROVE  /\ Turn(l) /\ UNCHANGED <<fails, admitted, cap, spent>>
           /\ \/ /\ svc = "ready" /\ BeginDrain(FALSE) /\ To(l, "draining")
                 /\ UNCHANGED <<vault, gen, app, reason, act, held, flaws>>
              \/ /\ svc # "ready" /\ svc' = Relocked /\ app = 0
                 /\ LockVault /\ EndLock(l) /\ UNCHANGED <<app, drain>>
              \/ /\ svc # "ready" /\ svc' = Relocked /\ app # 0
                 /\ TakeApp /\ To(l, "closing") /\ UNCHANGED <<act, drain, held, flaws>>
                 /\ LockVault \/ UNCHANGED <<vault, gen>>
BY DEF LockTurn

\* The stop's turn: the service is closed, or a drain begins.
LEMMA StopTurnCases ==
    ASSUME StopTurn
    PROVE  /\ Turn("stop") /\ UNCHANGED <<fails, admitted, cap, held, flaws, spent>>
           /\ IF svc = "unlocking" THEN LockVault ELSE UNCHANGED <<vault, gen>>
           /\ \/ svc = "draining" /\ CloseReady /\ UNCHANGED <<svc, drain>>
              \/ /\ svc # "draining" /\ To("stop", "draining") /\ UNCHANGED <<app, reason, act>>
                 /\ \/ Draining /\ svc' = Relocked /\ UNCHANGED drain
                    \/ ~Draining /\ BeginDrain(TRUE)
BY DEF StopTurn

-----------------------------------------------------------------------------
(* Every step keeps the actors where they may be, and moves one of them.   *)

LEMMA DispatchProceeds ==
    ASSUME Shape, NEW c \in Calls, Dispatch(c)
    PROVE  Scalars' /\ Proceeds(c, pc'[c])
<1>1. Scalars'
  BY DEF Dispatch, Shape, Scalars, To, Join, core, Actors
<1>2. Proceeds(c, pc'[c])
  BY PlaceOf DEF Dispatch, Shape, Roles, Holder, Early, Proceeds, Keeps, Joins, Leaves,
     Requeues, To, Join, core, Moving, Working, Ceremony, LockPlaces
<1> QED
  BY <1>1, <1>2

LEMMA SoftBeginProceeds ==
    ASSUME Shape, NEW c \in Calls, SoftBegin(c)
    PROVE  Scalars' /\ Proceeds(c, pc'[c])
<1>1. Scalars'
  BY DEF SoftBegin, Shape, Scalars, To, Actors
<1>2. Proceeds(c, pc'[c])
  BY PlaceOf DEF SoftBegin, Shape, Roles, Holder, Early, Proceeds, Keeps, Joins, Leaves,
     Requeues, To, Turn, Moving, Working, Ceremony, LockPlaces
<1> QED
  BY <1>1, <1>2

LEMMA SoftUnlockProceeds ==
    ASSUME Shape, NEW c \in Calls, SoftUnlock(c)
    PROVE  Scalars' /\ Proceeds(c, pc'[c])
<1>1. Scalars'
  <2>1. CASE SoftRefused(c)
    BY <2>1, RelockedScalars DEF Shape, Scalars, SoftRefused, Actors
  <2>2. CASE vault' = "ready" /\ gen' = gen + 1
                /\ UNCHANGED <<svc, app, reason, fails, admitted, drain, cap, held, flaws, spent>>
    BY <2>2 DEF Shape, Scalars, Actors
  <2> QED
    BY <2>1, <2>2 DEF SoftUnlock
<1>2. Proceeds(c, pc'[c])
  BY PlaceOf DEF SoftUnlock, Shape, Roles, Holder, Early, Proceeds, Keeps, Joins, Leaves,
     Requeues, To, SoftRefused, Moving, Working, Ceremony, LockPlaces
<1> QED
  BY <1>1, <1>2

LEMMA SoftActivateProceeds ==
    ASSUME Shape, NEW c \in Calls, SoftActivate(c)
    PROVE  Scalars' /\ Proceeds(c, pc'[c])
<1>1. Scalars'
  <2>1. CASE SoftRefused(c)
    BY <2>1, RelockedScalars DEF Shape, Scalars, SoftRefused, Actors
  <2>2. CASE Undo(c)
    BY <2>2, UndoScalars DEF Shape
  <2>3. CASE /\ cap' = [cap EXCEPT ![c] = gen]
             /\ UNCHANGED <<core, reason, fails, admitted, drain, held, flaws, spent>>
    BY <2>3 DEF Shape, Scalars, core, Actors
  <2> QED
    BY <2>1, <2>2, <2>3 DEF SoftActivate
<1>2. Proceeds(c, pc'[c])
  BY PlaceOf DEF SoftActivate, Shape, Roles, Holder, Early, Proceeds, Keeps, Joins,
     Leaves, Requeues, To, Undo, SoftRefused, core, Moving, Working, Ceremony, LockPlaces
<1> QED
  BY <1>1, <1>2

LEMMA FinishProceeds ==
    ASSUME Shape, NEW c \in Calls, Finish(c)
    PROVE  Scalars' /\ Proceeds(c, pc'[c])
<1>1. Scalars'
  BY DEF Finish, Shape, Scalars, To, core, Actors
<1>2. Proceeds(c, pc'[c])
  BY PlaceOf DEF Finish, Shape, Roles, Holder, Early, Proceeds, Keeps, Joins, Leaves,
     Requeues, To, core, Moving, Working, Ceremony, LockPlaces
<1> QED
  BY <1>1, <1>2

LEMMA CancelCallProceeds ==
    ASSUME Shape, NEW c \in Calls, CancelCall(c)
    PROVE  Scalars' /\ Proceeds(c, pc'[c])
<1>1. Scalars'
  BY DEF CancelCall, Shape, Scalars, LockVault, Relocked, To, Actors
<1>2. Proceeds(c, pc'[c])
  <2>1. "done" \in Place(c) /\ "done" \notin Working /\ c \in Actors /\ c # "start"
    BY PlaceOf DEF Working
  <2>2. pc' = [pc EXCEPT ![c] = "done"] /\ Leaves(c, "done")
    BY <2>1 DEF CancelCall, To, Leaves
  <2>3. pc["start"] = "done"
    BY <2>1, StartedWhenUnderWay DEF CancelCall
  <2> QED
    BY <2>1, <2>2, <2>3, Proceeding
<1> QED
  BY <1>1, <1>2

LEMMA ConnectProceeds ==
    ASSUME Shape, NEW c \in Calls \cup Explicit, Connect(c)
    PROVE  Scalars' /\ Proceeds(c, pc'[c])
<1>1. Scalars'
  BY DEF Connect, Shape, Scalars, To, core, Actors
<1>2. Proceeds(c, pc'[c])
  <2>1. PICK w : w = IF svc \in {"draining", "failed"} THEN "done" ELSE "connected"
    OBVIOUS
  <2>2. w \in Place(c) /\ w \notin Working /\ c \in Actors /\ c # "start"
    <3>1. c \in Calls \cup Locks
      BY DEF Locks
    <3> QED
      BY <2>1, <3>1, PlaceOf DEF Working, LockPlaces
  <2>3. pc' = [pc EXCEPT ![c] = w] /\ Keeps(c, w) /\ pc["start"] = "done"
    BY <2>1, <2>2 DEF Connect, To, Keeps, Started
  <2> QED
    BY <2>2, <2>3, Proceeding
<1> QED
  BY <1>1, <1>2

LEMMA BuiltProceeds ==
    ASSUME Shape, NEW a \in Calls \cup {"human", "start"}, Built(a)
    PROVE  Scalars' /\ Proceeds(a, pc'[a])
<1>1. Scalars'
  <2>1. cap[a] \in Nat /\ 0 \in 0..RetryLimit /\ {a} \cap Calls \subseteq Calls
    BY LifecycleAssumption DEF Shape, Scalars, Actors
  <2>2. admitted' \subseteq Calls
    BY DEF Built, Shape, Scalars, core
  <2>3. CASE pc' = [pc EXCEPT ![a] = "undoing"] /\ UNCHANGED core
    BY <2>2, <2>3 DEF Built, Shape, Scalars, core, Actors
  <2> QED
    BY <2>1, <2>2, <2>3 DEF Built, Shape, Scalars, To, core, Actors
<1>2. Proceeds(a, pc'[a])
  BY PlaceOf DEF Built, Shape, Roles, Holder, Early, Proceeds, Keeps, Joins, Leaves,
     Requeues, To, core, Moving, Working, Ceremony, LockPlaces
<1> QED
  BY <1>1, <1>2

LEMMA BuildFailsProceeds ==
    ASSUME Shape, NEW a \in Calls \cup {"human", "start"}, BuildFails(a)
    PROVE  Scalars' /\ Proceeds(a, pc'[a])
<1>1. Scalars'
  BY DEF BuildFails, Shape, Scalars, To, core, Actors
<1>2. Proceeds(a, pc'[a])
  BY PlaceOf DEF BuildFails, Shape, Roles, Holder, Early, Proceeds, Keeps, Joins, Leaves,
     Requeues, To, core, Moving, Working, Ceremony, LockPlaces
<1> QED
  BY <1>1, <1>2

LEMMA UndoneProceeds ==
    ASSUME Shape, NEW a \in Calls \cup {"human", "start"}, Undone(a)
    PROVE  Scalars' /\ Proceeds(a, pc'[a])
<1>1. Scalars'
  BY UndoScalars DEF Undone, Shape
<1>2. Proceeds(a, pc'[a])
  BY PlaceOf DEF Undone, Shape, Roles, Holder, Early, Proceeds, Keeps, Joins, Leaves,
     Requeues, To, Undo, Moving, Working, Ceremony, LockPlaces
<1> QED
  BY <1>1, <1>2

LEMMA RequestLockProceeds ==
    ASSUME Shape, NEW l \in Locks, RequestLock(l)
    PROVE  Scalars' /\ Proceeds(l, pc'[l])
<1>1. Scalars'
  BY DEF RequestLock, Shape, Scalars, To, Join, core, Actors
<1>2. Proceeds(l, pc'[l])
  <2>1. {"granted", "queued"} \subseteq Place(l) /\ l \in Actors /\ l # "start"
    BY PlaceOf DEF LockPlaces
  <2>2. pc["start"] = "done"
    BY <2>1, StartedWhenUnderWay DEF RequestLock
  <2>3. PICK w \in {"granted", "queued"} : w = IF act = <<>> THEN "granted" ELSE "queued"
    OBVIOUS
  <2>4. pc' = [pc EXCEPT ![l] = w] /\ Joins(l, w)
    BY <2>3 DEF RequestLock, Join, To, Joins, Working
  <2> QED
    BY <2>1, <2>2, <2>3, <2>4, Proceeding
<1> QED
  BY <1>1, <1>2

LEMMA SessionEventProceeds ==
    ASSUME Shape, NEW l \in Locks, SessionEvent(l)
    PROVE  Scalars' /\ Proceeds(l, pc'[l])
<1>1. Scalars'
  BY DEF SessionEvent, Shape, Scalars, To, Join, core, Actors
<1>2. Proceeds(l, pc'[l])
  BY PlaceOf DEF SessionEvent, Shape, Roles, Holder, Early, Proceeds, Keeps, Joins, Leaves,
     Requeues, To, Join, Started, core, Moving, Working, Ceremony, LockPlaces
<1> QED
  BY <1>1, <1>2

LEMMA CancelLockProceeds ==
    ASSUME Shape, NEW l \in Locks, CancelLock(l)
    PROVE  Scalars' /\ Proceeds(l, pc'[l])
<1>1. Scalars'
  BY DEF CancelLock, Shape, Scalars, To, core, Actors
<1>2. Proceeds(l, pc'[l])
  <2>1. "done" \in Place(l) /\ "done" \notin Working /\ l \in Actors /\ l # "start"
    BY PlaceOf DEF Working, LockPlaces
  <2>2. pc' = [pc EXCEPT ![l] = "done"] /\ Leaves(l, "done")
    BY <2>1 DEF CancelLock, To, Leaves
  <2>3. pc["start"] = "done"
    BY <2>1, StartedWhenUnderWay DEF CancelLock
  <2> QED
    BY <2>1, <2>2, <2>3, Proceeding
<1> QED
  BY <1>1, <1>2

LEMMA LockTurnProceeds ==
    ASSUME Shape, NEW l \in Locks, LockTurn(l)
    PROVE  Scalars' /\ Proceeds(l, pc'[l])
<1>1. Scalars'
  <2>1. Scalars
    BY DEF Shape
  <2>2. svc' \in {"starting", "locked", "unlocking", "ready", "draining", "failed", "gone"}
    BY <2>1, RelockedScalars DEF LockTurn, BeginDrain
  <2>3. vault' \in {"locked", "ready", "closed"} /\ gen' \in Nat \ {0}
    BY <2>1, LockVaultScalars DEF LockTurn, Scalars
  <2>4. app' \in Nat /\ reason' \in {"none", "soft", "hard"}
        /\ held' \in {"none", "soft", "hard", "overwritten", "dropped"}
        /\ flaws' \subseteq {"crossed", "undrained"}
    <3>1. app' \in {0, app} /\ app \in Nat
      BY <2>1, LockTurnCases DEF Scalars, TakeApp
    <3>2. reason' \in {reason, "soft", "hard"} /\ reason \in {"none", "soft", "hard"}
      BY <2>1, LockTurnCases DEF Scalars, TakeApp, EndLock
    <3>3. held' \in {held, "soft", "hard", "overwritten"}
          /\ held \in {"none", "soft", "hard", "overwritten", "dropped"}
      BY <2>1, LockTurnCases DEF Scalars, EndLock
    <3>4. flaws' \in {flaws, flaws \cup {"crossed"}} /\ flaws \subseteq {"crossed", "undrained"}
      BY <2>1, LockTurnCases DEF Scalars, EndLock
    <3> QED
      BY <3>1, <3>2, <3>3, <3>4
  <2>5. drain' \in [pc : {"off", "wait", "closing", "failed"}, stop : BOOLEAN]
    <3>1. drain' = drain \/ drain' = [pc |-> "wait", stop |-> FALSE]
      BY LockTurnCases DEF BeginDrain
    <3>2. [pc |-> "wait", stop |-> FALSE]
            \in [pc : {"off", "wait", "closing", "failed"}, stop : BOOLEAN]
      OBVIOUS
    <3>3. drain \in [pc : {"off", "wait", "closing", "failed"}, stop : BOOLEAN]
      BY <2>1 DEF Scalars
    <3> QED
      BY <3>1, <3>2, <3>3
  <2>6. UNCHANGED <<fails, admitted, cap, spent>>
    BY DEF LockTurn
  <2> QED
    BY <2>1, <2>2, <2>3, <2>4, <2>5, <2>6 DEF Scalars, Actors
<1>2. Proceeds(l, pc'[l])
  <2>1. {"done", "draining", "closing"} \subseteq Place(l) /\ "done" \notin Working
        /\ l \in Actors /\ l # "start"
    BY PlaceOf DEF Working, LockPlaces
  <2>2. act # <<>> /\ Head(act) = l /\ pc["start"] = "done"
    BY <2>1, StartedWhenUnderWay DEF LockTurn, Turn
  <2>3. \/ pc' = [pc EXCEPT ![l] = "done"] /\ Leaves(l, "done")
        \/ pc' = [pc EXCEPT ![l] = "draining"] /\ Keeps(l, "draining")
        \/ pc' = [pc EXCEPT ![l] = "closing"] /\ Keeps(l, "closing")
    BY <2>1, <2>2 DEF LockTurn, EndLock, To, Leaves, Keeps
  <2> QED
    BY <2>1, <2>2, <2>3, Proceeding
<1> QED
  BY <1>1, <1>2

LEMMA LockDrainedProceeds ==
    ASSUME Shape, NEW l \in Locks, LockDrained(l)
    PROVE  Scalars' /\ Proceeds(l, pc'[l])
<1>1. Scalars'
  <2>1. held' \in {held, "soft", "hard", "overwritten"} /\ reason' \in {reason, "soft", "hard"}
        /\ flaws' \in {flaws, flaws \cup {"crossed"}} /\ app' \in {app, 0}
    BY DEF LockDrained, EndLock
  <2>2. vault' \in {"locked", "ready", "closed"} /\ gen' \in Nat \ {0}
    BY LockVaultScalars DEF LockDrained, Shape, Scalars
  <2> QED
    BY <2>1, <2>2 DEF LockDrained, Shape, Scalars, Actors
<1>2. Proceeds(l, pc'[l])
  BY PlaceOf DEF LockDrained, Shape, Roles, Holder, Early, Proceeds, Keeps, Joins, Leaves,
     Requeues, To, EndLock, Moving, Working, Ceremony, LockPlaces
<1> QED
  BY <1>1, <1>2

LEMMA LockClosesProceeds ==
    ASSUME Shape, NEW l \in Locks, LockCloses(l)
    PROVE  Scalars' /\ Proceeds(l, pc'[l])
<1>1. Scalars'
  BY DEF LockCloses, Shape, Scalars, LockVault, EndLock, To, Actors
<1>2. Proceeds(l, pc'[l])
  <2>1. "done" \in Place(l) /\ "done" \notin Working /\ l \in Actors /\ l # "start"
    BY PlaceOf DEF Working, LockPlaces
  <2>2. pc' = [pc EXCEPT ![l] = "done"] /\ Leaves(l, "done")
    BY <2>1 DEF LockCloses, EndLock, To, Leaves
  <2>3. pc["start"] = "done"
    BY <2>1, StartedWhenUnderWay DEF LockCloses
  <2> QED
    BY <2>1, <2>2, <2>3, Proceeding
<1> QED
  BY <1>1, <1>2

LEMMA BeginProceeds ==
    ASSUME Shape, Begin
    PROVE  Scalars' /\ Proceeds("human", pc'["human"])
<1>1. Scalars'
  BY DEF Begin, Shape, Scalars, To, Actors
<1>2. Proceeds("human", pc'["human"])
  BY PlaceOf DEF Begin, Shape, Roles, Holder, Early, Proceeds, Keeps, Joins, Leaves,
     Requeues, To, Started, Moving, Working, Ceremony, LockPlaces
<1> QED
  BY <1>1, <1>2

LEMMA UnlocksProceeds ==
    ASSUME Shape, Unlocks
    PROVE  Scalars' /\ Proceeds("human", pc'["human"])
<1>1. Scalars'
  BY DEF Unlocks, Shape, Scalars, To, Join, Actors
<1>2. Proceeds("human", pc'["human"])
  BY PlaceOf DEF Unlocks, Shape, Roles, Holder, Early, Proceeds, Keeps, Joins, Leaves,
     Requeues, To, Join, Moving, Working, Ceremony, LockPlaces
<1> QED
  BY <1>1, <1>2

LEMMA UnlockFailsProceeds ==
    ASSUME Shape, UnlockFails
    PROVE  Scalars' /\ Proceeds("human", pc'["human"])
<1>1. Scalars'
  BY DEF UnlockFails, Shape, Scalars, To, Actors
<1>2. Proceeds("human", pc'["human"])
  BY PlaceOf DEF UnlockFails, Shape, Roles, Holder, Early, Proceeds, Keeps, Joins, Leaves,
     Requeues, To, Moving, Working, Ceremony, LockPlaces
<1> QED
  BY <1>1, <1>2

LEMMA CeremonyEndsProceeds ==
    ASSUME Shape, CeremonyEnds
    PROVE  Scalars' /\ Proceeds("human", pc'["human"])
<1>1. Scalars'
  BY DEF CeremonyEnds, Shape, Scalars, Relocked, To, Actors
<1>2. Proceeds("human", pc'["human"])
  BY PlaceOf DEF CeremonyEnds, Shape, Roles, Holder, Early, Proceeds, Keeps, Joins,
     Leaves, Requeues, To, Moving, Working, Ceremony, LockPlaces
<1> QED
  BY <1>1, <1>2

LEMMA CancelCeremonyProceeds ==
    ASSUME Shape, CancelCeremony
    PROVE  Scalars' /\ Proceeds("human", pc'["human"])
<1>1. Scalars'
  BY DEF CancelCeremony, Shape, Scalars, LockVault, Relocked, To, Actors
<1>2. Proceeds("human", pc'["human"])
  BY PlaceOf DEF CancelCeremony, Shape, Roles, Holder, Early, Proceeds, Keeps, Joins,
     Leaves, Requeues, To, Moving, Working, Ceremony, LockPlaces
<1> QED
  BY <1>1, <1>2

LEMMA ActivateProceeds ==
    ASSUME Shape, Activate
    PROVE  Scalars' /\ Proceeds("human", pc'["human"])
<1>1. Scalars'
  BY UndoScalars DEF Activate, Shape, Scalars, core, Actors
<1>2. Proceeds("human", pc'["human"])
  BY PlaceOf DEF Activate, Shape, Roles, Holder, Early, Proceeds, Keeps, Joins, Leaves,
     Requeues, To, Turn, Undo, core, Moving, Working, Ceremony, LockPlaces
<1> QED
  BY <1>1, <1>2

LEMMA IdleStopProceeds ==
    ASSUME Shape, IdleStop
    PROVE  Scalars' /\ Proceeds("stop", pc'["stop"])
<1>1. Scalars'
  BY BeginDrainScalars DEF IdleStop, Shape, Scalars, Actors
<1>2. Proceeds("stop", pc'["stop"])
  BY PlaceOf DEF IdleStop, Shape, Roles, Holder, Early, Proceeds, Keeps, Joins, Leaves,
     Requeues, To, Started, Moving, Working, Ceremony, LockPlaces
<1> QED
  BY <1>1, <1>2

LEMMA StopProceeds ==
    ASSUME Shape, Stop
    PROVE  Scalars' /\ Proceeds("stop", pc'["stop"])
<1>1. Scalars'
  BY DEF Stop, Shape, Scalars, To, Join, core, Actors
<1>2. Proceeds("stop", pc'["stop"])
  BY PlaceOf DEF Stop, Shape, Roles, Holder, Early, Proceeds, Keeps, Joins, Leaves,
     Requeues, To, Join, Started, core, Moving, Working, Ceremony, LockPlaces
<1> QED
  BY <1>1, <1>2

LEMMA StopTurnProceeds ==
    ASSUME Shape, StopTurn
    PROVE  Scalars' /\ Proceeds("stop", pc'["stop"])
<1>1. Scalars'
  <2>1. Scalars
    BY DEF Shape
  <2>2. svc' \in {"starting", "locked", "unlocking", "ready", "draining", "failed", "gone"}
    BY <2>1, RelockedScalars DEF StopTurn, BeginDrain, Scalars
  <2>3. vault' \in {"locked", "ready", "closed"} /\ gen' \in Nat \ {0}
    BY <2>1, LockVaultScalars DEF StopTurn, Scalars
  <2>4. app' \in Nat /\ reason' \in {"none", "soft", "hard"}
    <3>1. app' \in {0, app} /\ app \in Nat
      BY <2>1, StopTurnCases DEF Scalars, TakeApp, CloseReady
    <3>2. reason' \in {reason, "soft"} /\ reason \in {"none", "soft", "hard"}
      BY <2>1, StopTurnCases DEF Scalars, TakeApp, CloseReady
    <3> QED
      BY <3>1, <3>2
  <2>5. drain' \in [pc : {"off", "wait", "closing", "failed"}, stop : BOOLEAN]
    <3>1. drain' = drain \/ drain' = [pc |-> "wait", stop |-> TRUE]
      BY StopTurnCases DEF BeginDrain
    <3>2. [pc |-> "wait", stop |-> TRUE]
            \in [pc : {"off", "wait", "closing", "failed"}, stop : BOOLEAN]
      OBVIOUS
    <3>3. drain \in [pc : {"off", "wait", "closing", "failed"}, stop : BOOLEAN]
      BY <2>1 DEF Scalars
    <3> QED
      BY <3>1, <3>2, <3>3
  <2>6. UNCHANGED <<fails, admitted, cap, held, flaws, spent>>
    BY DEF StopTurn
  <2> QED
    BY <2>1, <2>2, <2>3, <2>4, <2>5, <2>6 DEF Scalars, Actors
<1>2. Proceeds("stop", pc'["stop"])
  <2>1. {"draining", "closing", "requeued"} \subseteq Place("stop") /\ "stop" \in Actors
    BY PlaceOf DEF LockPlaces
  <2>2. act # <<>> /\ Head(act) = "stop" /\ pc["start"] = "done"
    BY <2>1, StartedWhenUnderWay DEF StopTurn, Turn
  <2>3. \/ pc' = [pc EXCEPT !["stop"] = "draining"] /\ Keeps("stop", "draining")
        \/ pc' = [pc EXCEPT !["stop"] = "closing"] /\ Requeues("stop", "closing")
        \/ pc' = [pc EXCEPT !["stop"] = "requeued"] /\ Requeues("stop", "requeued")
    BY <2>2, StopTurnCases DEF CloseReady, To, Keeps, Requeues, Working
  <2> QED
    BY <2>1, <2>2, <2>3, Proceeding
<1> QED
  BY <1>1, <1>2

LEMMA StopDrainedProceeds ==
    ASSUME Shape, StopDrained
    PROVE  Scalars' /\ Proceeds("stop", pc'["stop"])
<1>1. Scalars'
  BY DEF StopDrained, Shape, Scalars, TakeApp, CloseReady, To, Actors
<1>2. Proceeds("stop", pc'["stop"])
  BY PlaceOf DEF StopDrained, Shape, Roles, Holder, Early, Proceeds, Keeps, Joins, Leaves,
     Requeues, To, CloseReady, Moving, Working, Ceremony, LockPlaces
<1> QED
  BY <1>1, <1>2

LEMMA StopTakesProceeds ==
    ASSUME Shape, StopTakes
    PROVE  Scalars' /\ Proceeds("stop", pc'["stop"])
<1>1. Scalars'
  BY DEF StopTakes, Shape, Scalars, TakeApp, To, Actors
<1>2. Proceeds("stop", pc'["stop"])
  <2>1. "closing" \in Place("stop") /\ "stop" \in Actors
    BY PlaceOf DEF LockPlaces
  <2>2. pc["start"] = "done"
    BY <2>1, StartedWhenUnderWay DEF StopTakes
  <2>3. act # <<>>
    BY DEF StopTakes
  <2>4. pc' = [pc EXCEPT !["stop"] = "closing"] /\ Keeps("stop", "closing")
    BY <2>3 DEF StopTakes, To, Keeps
  <2> QED
    BY <2>1, <2>2, <2>4, Proceeding
<1> QED
  BY <1>1, <1>2

LEMMA StopClosesProceeds ==
    ASSUME Shape, StopCloses
    PROVE  Scalars' /\ Proceeds("stop", pc'["stop"])
<1>1. Scalars'
  BY DEF StopCloses, Shape, Scalars, To, Actors
<1>2. Proceeds("stop", pc'["stop"])
  BY PlaceOf DEF StopCloses, Shape, Roles, Holder, Early, Proceeds, Keeps, Joins, Leaves,
     Requeues, To, Moving, Working, Ceremony, LockPlaces
<1> QED
  BY <1>1, <1>2

LEMMA StartProceeds ==
    ASSUME Shape, Start
    PROVE  Scalars' /\ Proceeds("start", pc'["start"])
<1>1. Scalars'
  BY DEF Start, Shape, Scalars, To, Actors
<1>2. Proceeds("start", pc'["start"])
  <2>1. {"building", "done"} \subseteq Place("start")
    BY PlaceOf
  <2>2. act = <<>> /\ pc["start"] = "idle" /\ pc \in [Actors -> Places] /\ "start" \in Actors
    BY PlaceOf DEF Start, Shape, Early, Roles
  <2>3. PICK w \in {"building", "done"} : w = IF vault = "ready" THEN "building" ELSE "done"
    OBVIOUS
  <2>4. pc' = [pc EXCEPT !["start"] = w]
        /\ act' = IF vault = "ready" THEN Append(act, "start") ELSE act
    BY <2>3 DEF Start, To
  <2>5. Keeps("start", w) \/ Joins("start", w)
    BY <2>2, <2>3, <2>4 DEF Keeps, Joins, Working
  <2>6. pc'["start"] = w
    BY <2>2, <2>4
  <2> QED
    BY <2>1, <2>2, <2>3, <2>4, <2>5, <2>6 DEF Proceeds
<1> QED
  BY <1>1, <1>2

LEMMA DrainEmptyShape ==
    ASSUME Shape, DrainEmpty
    PROVE  Scalars' /\ UNCHANGED <<pc, act>>
BY DEF DrainEmpty, Shape, Scalars, TakeApp

LEMMA DrainClosesShape ==
    ASSUME Shape, DrainCloses
    PROVE  Scalars' /\ UNCHANGED <<pc, act>>
BY DEF DrainCloses, Shape, Scalars, LockVault

LEMMA DrainDeadlineShape ==
    ASSUME Shape, DrainDeadline
    PROVE  Scalars' /\ UNCHANGED <<pc, act>>
BY DEF DrainDeadline, Shape, Scalars

LEMMA IdleRelockShape ==
    ASSUME Shape, IdleRelock
    PROVE  Scalars' /\ UNCHANGED <<pc, act>>
BY DEF IdleRelock, Shape, Scalars, BeginDrain

\* An explicit or session lock's wait, a drain and the idle timers move nobody else.
LEMMA StepKeepsShape ==
    ASSUME Shape, NEW a \in Actors \cup {"drain", "idle"}, Step(a)
    PROVE  Shape'
<1>1. ASSUME NEW b \in Actors, Scalars', Proceeds(b, pc'[b]) PROVE Shape'
  BY <1>1, ProceedsKeepsShape DEF Shape
<1>2. ASSUME Scalars', UNCHANGED <<pc, act>> PROVE Shape'
  BY <1>2 DEF Shape, Roles, Queue, Holder, Early, Actors, Places, Place, LockPlaces, Moving,
         Ceremony, Waits, Working
<1>0. ASSUME a \in Calls \cup Explicit, Connect(a)
      PROVE  Shape'
  <2>1. a \in Calls \cup Locks
    BY <1>0 DEF Locks
  <2> QED
    BY <1>0, <1>1, <2>1, ConnectProceeds, PlaceOf
<1>3. ASSUME a \in Calls, CallStep(a) \/ Finish(a) \/ CancelCall(a)
      PROVE  Shape'
  <2>1. Scalars' /\ Proceeds(a, pc'[a])
    BY <1>3, DispatchProceeds, SoftBeginProceeds, SoftUnlockProceeds,
       SoftActivateProceeds, BuiltProceeds, UndoneProceeds, FinishProceeds, CancelCallProceeds
       DEF CallStep, Activation
  <2> QED
    BY <1>1, <1>3, <2>1, PlaceOf
<1>4. ASSUME a \in Locks, RequestLock(a) \/ SessionEvent(a) \/ LockStep(a) \/ CancelLock(a)
      PROVE  Shape'
  <2>1. Scalars' /\ Proceeds(a, pc'[a])
    BY <1>4, RequestLockProceeds, SessionEventProceeds, LockTurnProceeds, LockDrainedProceeds,
       LockClosesProceeds, CancelLockProceeds DEF LockStep
  <2> QED
    BY <1>1, <1>4, <2>1, PlaceOf
<1>5. ASSUME a \in Actors, BuildFails(a)
      PROVE  Shape'
  <2>1. a \in Calls \cup {"human", "start"}
    <3>1. "building" \in Place(a)
      BY <1>5 DEF BuildFails, Shape, Roles
    <3> QED
      BY <1>5, <3>1, PlaceOf DEF LockPlaces
  <2> QED
    BY <1>1, <1>5, <2>1, BuildFailsProceeds
<1>6. ASSUME a = "human", Begin \/ Unlocks \/ UnlockFails \/ CeremonyEnds \/ CancelCeremony
                            \/ HumanStep
      PROVE  Shape'
  <2>1. Scalars' /\ Proceeds("human", pc'["human"])
    BY <1>6, BeginProceeds, UnlocksProceeds, UnlockFailsProceeds, CeremonyEndsProceeds,
       CancelCeremonyProceeds, ActivateProceeds, BuiltProceeds, UndoneProceeds
       DEF HumanStep, Activation
  <2> QED
    BY <1>1, <2>1, PlaceOf
<1>7. ASSUME a = "start", StartStep
      PROVE  Shape'
  <2>1. Scalars' /\ Proceeds("start", pc'["start"])
    BY <1>7, StartProceeds, BuiltProceeds, UndoneProceeds DEF StartStep, Activation
  <2> QED
    BY <1>1, <2>1, PlaceOf
<1>8. ASSUME a = "stop", Stop \/ StopStep
      PROVE  Shape'
  <2>1. Scalars' /\ Proceeds("stop", pc'["stop"])
    BY <1>8, StopProceeds, StopTurnProceeds, StopDrainedProceeds, StopTakesProceeds,
       StopClosesProceeds DEF StopStep
  <2> QED
    BY <1>1, <2>1, PlaceOf
<1>9. ASSUME DrainStep \/ IdleRelock \/ IdleStop
      PROVE  Shape'
  <2>1. ASSUME IdleStop PROVE Shape'
    BY <2>1, <1>1, IdleStopProceeds, PlaceOf
  <2> QED
    BY <2>1, <1>2, <1>9, DrainEmptyShape, DrainClosesShape, DrainDeadlineShape, IdleRelockShape
       DEF DrainStep
<1> QED
  BY <1>0, <1>3, <1>4, <1>5, <1>6, <1>7, <1>8, <1>9 DEF Step, Locks

-----------------------------------------------------------------------------
(* Unlocked keys have an owner.                                            *)

Owning == {"building", "undoing"}

\* Keys in memory of a service that is not ready: somebody is about to install
\* the application or to lock the vault again, or a connection was lost.
KeysOwned ==
    vault = "ready" =>
        \/ svc \in {"ready", "starting", "gone"}
        \/ drain.pc # "off" \/ spent.cancels # 0
        \/ pc["human"] \in Owning \cup {"queued", "granted"}
        \/ pc["start"] \in Owning
        \/ \E c \in Calls : pc[c] \in Owning \cup {"reconciling"}

LEMMA ConnectKeys ==
    ASSUME Shape, KeysOwned, NEW c \in Calls \cup Explicit, Connect(c)
    PROVE  KeysOwned'
BY PlaceOf DEF Connect, Shape, Scalars, Roles, KeysOwned, Owning, Moving, To, core

LEMMA DispatchKeys ==
    ASSUME Shape, KeysOwned, NEW c \in Calls, Dispatch(c)
    PROVE  KeysOwned'
BY PlaceOf DEF Dispatch, Shape, Scalars, Roles, KeysOwned, Owning, Moving, To, core, Join

LEMMA SoftBeginKeys ==
    ASSUME Shape, KeysOwned, NEW c \in Calls, SoftBegin(c)
    PROVE  KeysOwned'
<1>1. pc' = [pc EXCEPT ![c] = pc'[c]] /\ pc[c] \in {"queued", "granted"}
  BY SoftBeginProceeds DEF Proceeds, SoftBegin, Turn
<1>2. svc' = svc \/ svc = "locked"
  BY DEF SoftBegin
<1>3. UNCHANGED <<vault, drain, spent>>
  BY DEF SoftBegin
<1> QED
  BY <1>1, <1>2, <1>3, PlaceOf DEF Shape, Roles, KeysOwned, Owning

LEMMA SoftUnlockKeys ==
    ASSUME Shape, KeysOwned, NEW c \in Calls, SoftUnlock(c)
    PROVE  KeysOwned'
BY PlaceOf DEF SoftUnlock, Shape, Scalars, Roles, KeysOwned, Owning, Moving, To,
   SoftRefused, Relocked

LEMMA SoftActivateKeys ==
    ASSUME Shape, KeysOwned, NEW c \in Calls, SoftActivate(c)
    PROVE  KeysOwned'
BY PlaceOf DEF SoftActivate, Shape, Scalars, Roles, KeysOwned, Owning, Moving, To, core,
   SoftRefused, Undo, LockVault

LEMMA FinishKeys ==
    ASSUME Shape, KeysOwned, NEW c \in Calls, Finish(c)
    PROVE  KeysOwned'
BY PlaceOf DEF Finish, Shape, Scalars, Roles, KeysOwned, Owning, Moving, To, core

LEMMA CancelCallKeys ==
    ASSUME Shape, KeysOwned, NEW c \in Calls, CancelCall(c)
    PROVE  KeysOwned'
BY PlaceOf DEF CancelCall, Shape, Scalars, Roles, KeysOwned, Owning, Moving, To

LEMMA BuiltKeys ==
    ASSUME Shape, KeysOwned, NEW a \in Calls \cup {"human", "start"}, Built(a)
    PROVE  KeysOwned'
BY PlaceOf DEF Built, Shape, Scalars, Roles, KeysOwned, Owning, Moving, To, core

LEMMA BuildFailsKeys ==
    ASSUME Shape, KeysOwned, NEW a \in Calls \cup {"human", "start"}, BuildFails(a)
    PROVE  KeysOwned'
BY PlaceOf DEF BuildFails, Shape, Scalars, Roles, KeysOwned, Owning, Moving, To, core

LEMMA UndoneKeys ==
    ASSUME Shape, KeysOwned, NEW a \in Calls \cup {"human", "start"}, Undone(a)
    PROVE  KeysOwned'
BY PlaceOf DEF Undone, Shape, Scalars, Roles, KeysOwned, Owning, Moving, To, Undo,
   LockVault

LEMMA RequestLockKeys ==
    ASSUME Shape, KeysOwned, NEW l \in Locks, RequestLock(l)
    PROVE  KeysOwned'
BY PlaceOf DEF RequestLock, Shape, Scalars, Roles, KeysOwned, Owning, Moving, To, core,
   Join

LEMMA SessionEventKeys ==
    ASSUME Shape, KeysOwned, NEW l \in Locks, SessionEvent(l)
    PROVE  KeysOwned'
BY PlaceOf DEF SessionEvent, Shape, Scalars, Roles, KeysOwned, Owning, Moving, To, core,
   Join

LEMMA CancelLockKeys ==
    ASSUME Shape, KeysOwned, NEW l \in Locks, CancelLock(l)
    PROVE  KeysOwned'
BY DEF CancelLock, Shape, Scalars, KeysOwned

LEMMA LockDrainedKeys ==
    ASSUME Shape, KeysOwned, NEW l \in Locks, LockDrained(l)
    PROVE  KeysOwned'
BY PlaceOf DEF LockDrained, Shape, Scalars, Roles, KeysOwned, Owning, Moving, To,
   LockVault, EndLock

LEMMA LockClosesKeys ==
    ASSUME Shape, KeysOwned, NEW l \in Locks, LockCloses(l)
    PROVE  KeysOwned'
BY PlaceOf DEF LockCloses, Shape, Scalars, Roles, KeysOwned, Owning, Moving, To,
   LockVault, EndLock

LEMMA LockTurnKeys ==
    ASSUME Shape, KeysOwned, NEW l \in Locks, LockTurn(l)
    PROVE  KeysOwned'
BY PlaceOf, LockTurnCases DEF Shape, Scalars, Roles, KeysOwned, Owning, To, LockVault,
   EndLock, Relocked, BeginDrain

LEMMA BeginKeys ==
    ASSUME Shape, KeysOwned, Begin
    PROVE  KeysOwned'
BY PlaceOf DEF Begin, Shape, Scalars, Roles, KeysOwned, Owning, Moving, To

LEMMA UnlocksKeys ==
    ASSUME Shape, KeysOwned, Unlocks
    PROVE  KeysOwned'
BY PlaceOf DEF Unlocks, Shape, Scalars, Roles, KeysOwned, Owning, Moving, To, Join

LEMMA UnlockFailsKeys ==
    ASSUME Shape, KeysOwned, UnlockFails
    PROVE  KeysOwned'
BY PlaceOf DEF UnlockFails, Shape, Scalars, Roles, KeysOwned, Owning, Moving, To

LEMMA CeremonyEndsKeys ==
    ASSUME Shape, KeysOwned, CeremonyEnds
    PROVE  KeysOwned'
BY PlaceOf DEF CeremonyEnds, Shape, Scalars, Roles, KeysOwned, Owning, Moving, To,
   Relocked

LEMMA CancelCeremonyKeys ==
    ASSUME Shape, KeysOwned, CancelCeremony
    PROVE  KeysOwned'
BY PlaceOf DEF CancelCeremony, Shape, Scalars, Roles, KeysOwned, Owning, Moving, To

LEMMA ActivateKeys ==
    ASSUME Shape, KeysOwned, Activate
    PROVE  KeysOwned'
BY PlaceOf DEF Activate, Shape, Scalars, Roles, KeysOwned, Owning, Moving, To, core, Undo,
   LockVault

LEMMA IdleStopKeys ==
    ASSUME Shape, KeysOwned, IdleStop
    PROVE  KeysOwned'
BY PlaceOf DEF IdleStop, Shape, Scalars, Roles, KeysOwned, Owning, Moving, To, BeginDrain

LEMMA StopKeys ==
    ASSUME Shape, KeysOwned, Stop
    PROVE  KeysOwned'
BY PlaceOf DEF Stop, Shape, Scalars, Roles, KeysOwned, Owning, Moving, To, core, Join

LEMMA StopDrainedKeys ==
    ASSUME Shape, KeysOwned, StopDrained
    PROVE  KeysOwned'
BY PlaceOf DEF StopDrained, Shape, Scalars, Roles, KeysOwned, Owning, Moving, To,
   CloseReady

LEMMA StopTakesKeys ==
    ASSUME Shape, KeysOwned, StopTakes
    PROVE  KeysOwned'
BY PlaceOf DEF StopTakes, Shape, Scalars, Roles, KeysOwned, Owning, Moving, To

LEMMA StopClosesKeys ==
    ASSUME Shape, KeysOwned, StopCloses
    PROVE  KeysOwned'
BY PlaceOf DEF StopCloses, Shape, Scalars, Roles, KeysOwned, Owning, Moving, To

LEMMA StartKeys ==
    ASSUME Shape, KeysOwned, Start
    PROVE  KeysOwned'
BY PlaceOf DEF Start, Shape, Scalars, Roles, KeysOwned, Owning, Moving, To

LEMMA DrainEmptyKeys ==
    ASSUME Shape, KeysOwned, DrainEmpty
    PROVE  KeysOwned'
BY PlaceOf DEF DrainEmpty, Shape, Scalars, Roles, KeysOwned, Owning, Moving

LEMMA DrainClosesKeys ==
    ASSUME Shape, KeysOwned, DrainCloses
    PROVE  KeysOwned'
BY PlaceOf DEF DrainCloses, Shape, Scalars, Roles, KeysOwned, Owning, Moving, LockVault

LEMMA DrainDeadlineKeys ==
    ASSUME Shape, KeysOwned, DrainDeadline
    PROVE  KeysOwned'
BY PlaceOf DEF DrainDeadline, Shape, Scalars, Roles, KeysOwned, Owning, Moving

LEMMA IdleRelockKeys ==
    ASSUME Shape, KeysOwned, IdleRelock
    PROVE  KeysOwned'
BY PlaceOf DEF IdleRelock, Shape, Scalars, Roles, KeysOwned, Owning, Moving, BeginDrain

LEMMA StopTurnKeys ==
    ASSUME Shape, KeysOwned, StopTurn
    PROVE  KeysOwned'
BY PlaceOf, StopTurnCases DEF Shape, Scalars, Roles, KeysOwned, Owning, To, LockVault,
   CloseReady, Relocked, BeginDrain, Draining

LEMMA StepKeepsKeysOwned ==
    ASSUME Shape, KeysOwned, NEW a \in Actors \cup {"drain", "idle"}, Step(a)
    PROVE  KeysOwned'
<1>1. ASSUME a \in Calls, CallStep(a) \/ Finish(a) \/ CancelCall(a)
      PROVE  KeysOwned'
  BY <1>1, DispatchKeys, SoftBeginKeys, SoftUnlockKeys, SoftActivateKeys,
     BuiltKeys, UndoneKeys, FinishKeys, CancelCallKeys DEF CallStep, Activation
<1>2. ASSUME a \in Locks, RequestLock(a) \/ SessionEvent(a) \/ LockStep(a) \/ CancelLock(a)
      PROVE  KeysOwned'
  BY <1>2, RequestLockKeys, SessionEventKeys, LockTurnKeys, LockDrainedKeys, LockClosesKeys,
     CancelLockKeys DEF LockStep
<1>3. ASSUME a \in Actors, BuildFails(a)
      PROVE  KeysOwned'
  <2>1. a \in Calls \cup {"human", "start"}
    <3>1. "building" \in Place(a)
      BY <1>3 DEF BuildFails, Shape, Roles
    <3> QED
      BY <1>3, <3>1, PlaceOf DEF LockPlaces
  <2> QED
    BY <1>3, <2>1, BuildFailsKeys
<1>4. ASSUME Begin \/ Unlocks \/ UnlockFails \/ CeremonyEnds \/ CancelCeremony \/ HumanStep
             \/ StartStep
      PROVE  KeysOwned'
  BY <1>4, BeginKeys, UnlocksKeys, UnlockFailsKeys, CeremonyEndsKeys, CancelCeremonyKeys,
     ActivateKeys, StartKeys, BuiltKeys, UndoneKeys DEF HumanStep, StartStep, Activation
<1>5. ASSUME Stop \/ StopStep \/ DrainStep \/ IdleRelock \/ IdleStop
      PROVE  KeysOwned'
  BY <1>5, StopKeys, StopTurnKeys, StopDrainedKeys, StopTakesKeys, StopClosesKeys,
     DrainEmptyKeys, DrainClosesKeys, DrainDeadlineKeys, IdleRelockKeys, IdleStopKeys
     DEF StopStep, DrainStep
<1> QED
  BY <1>1, <1>2, <1>3, <1>4, <1>5, ConnectKeys DEF Step, Locks

LEMMA InitShape == Init => Shape /\ KeysOwned
<1> SUFFICES ASSUME Init PROVE Shape /\ KeysOwned
  OBVIOUS
<1>1. Scalars
  BY LifecycleAssumption DEF Init, Scalars
<1>2. pc \in [Actors -> Places] /\ \A a \in Actors : pc[a] = "idle"
  BY DEF Init, Places, Waits
<1>3. \A a \in Actors : "idle" \in Place(a)
  BY PlaceOf DEF LockPlaces
<1>4. act = <<>> /\ act \in Seq(Actors)
  BY DEF Init
<1>5. Roles /\ Queue /\ Holder /\ Early
  BY <1>2, <1>3, <1>4 DEF Roles, Queue, Holder, Early, Working
<1>6. KeysOwned
  BY DEF Init, KeysOwned
<1> QED
  BY <1>1, <1>5, <1>6 DEF Shape

Ran == ran \subseteq Actors \cup {"drain", "idle"}
ShapeInv == Shape /\ KeysOwned /\ Ran

\* A step of the service is a step of somebody who may run now.
LEMMA NextIsStep ==
    ASSUME Next
    PROVE  svc # "gone" /\ \E a \in Actors \cup {"drain", "idle"} : Step(a)
BY DEF Next, Runs

LEMMA ShapeStep == ShapeInv /\ [Next]_vars => ShapeInv'
<1> SUFFICES ASSUME ShapeInv, [Next]_vars PROVE ShapeInv'
  OBVIOUS
<1>1. CASE Next
  <2>1. Shape' /\ KeysOwned'
    BY <1>1, NextIsStep, StepKeepsShape, StepKeepsKeysOwned DEF ShapeInv
  <2>2. Ran'
    <3>1. PICK a \in Actors \cup {"drain", "idle"} : Runs(a)
      BY <1>1 DEF Next
    <3>2. ran' = {} \/ ran' = ran \cup {a}
      BY <3>1 DEF Runs
    <3>3. ran' \subseteq Actors \cup {"drain", "idle"}
      BY <3>2 DEF ShapeInv, Ran
    <3> QED
      BY <3>3 DEF Ran, Actors
  <2> QED
    BY <2>1, <2>2 DEF ShapeInv
<1>2. CASE UNCHANGED vars
  BY <1>2 DEF vars, core, ShapeInv, Shape, Scalars, Roles, Queue, Holder, Early, KeysOwned,
     Owning, Ran, Actors, Places, Place, LockPlaces, Moving, Ceremony, Waits, Working
<1> QED
  BY <1>1, <1>2

\* The activation lock has one holder, and unlocked keys have an owner.
THEOREM ShapeInvariance == Spec => []ShapeInv
<1>1. Init => ShapeInv
  BY InitShape DEF ShapeInv, Init, Ran
<1> QED
  BY <1>1, ShapeStep, PTL DEF Spec

\* The state of the service and of everybody who moves it keeps its shape.
THEOREM Types == Spec => []TypeOK
<1>1. ShapeInv => TypeOK
  BY DEF ShapeInv, Shape, Scalars, Roles, Queue, Ran, Places, Working, TypeOK
<1> QED
  BY <1>1, ShapeInvariance, PTL

\* Whatever calls, locks, ceremonies, idle relocks and stops come, and however
\* their activations fail: once all have come to rest, with no connection lost
\* and no drain failed, an unlocked vault belongs to a ready service.
THEOREM KeysAreOwned == Spec => []KeysNeedReady
<1>1. ShapeInv => KeysNeedReady
  <2> SUFFICES ASSUME Shape, KeysOwned,
                      \A a \in Actors : pc[a] \in {"idle", "done", "connected", "typing"},
                      ~Draining, drain.pc # "failed", spent.cancels = 0, vault = "ready"
               PROVE  svc \in {"ready", "starting", "gone"}
    BY DEF ShapeInv, KeysNeedReady
  <2>1. drain.pc = "off"
    BY DEF Draining, Shape, Scalars
  <2> QED
    BY <2>1, PlaceOf DEF KeysOwned, Owning
<1> QED
  BY <1>1, ShapeInvariance, PTL

-----------------------------------------------------------------------------
(* The last lock that has ended.                                           *)

\* Who locks the service by hand does so when it is not ready.
Lockers == \A l \in Locks : pc[l] \in {"draining", "closing"} => svc # "ready"

\* A lock that nobody has lifted: nobody is about to make the service ready, and
\* after a hard one the reason lets no call begin.
HeldFast ==
    held \in {"soft", "hard"} =>
        /\ svc # "ready" /\ \A c \in Calls : pc[c] \notin Moving
        /\ held = "hard" => reason = "hard"

\* No lock ends before the start has ended.
HeldLate == pc["start"] # "done" => held \in {"none", "dropped"}

Standing == Lockers /\ HeldFast /\ HeldLate

\* One actor at a time works on the service.
LEMMA Solo ==
    ASSUME Shape
    PROVE  /\ \A a, b \in Actors : pc[a] \in Working /\ pc[b] \in Working => a = b
           /\ \A a, b \in Actors : Turn(a) /\ pc[b] \in Working => a = b
BY DEF Shape, Holder, Turn

LEMMA ConnectStands ==
    ASSUME Shape, Standing, NEW c \in Calls \cup Explicit, Connect(c)
    PROVE  Standing'
BY DEF Connect, To, Started, core, Standing, Lockers, HeldFast, HeldLate, Moving, Locks

LEMMA DispatchStands ==
    ASSUME Shape, Standing, NEW c \in Calls, Dispatch(c)
    PROVE  Standing'
BY PlaceOf DEF Dispatch, To, Join, core, Standing, Lockers, HeldFast, HeldLate, Shape,
   Roles, Moving

LEMMA SoftBeginStands ==
    ASSUME Shape, Standing, NEW c \in Calls, SoftBegin(c)
    PROVE  Standing'
BY PlaceOf DEF SoftBegin, To, Turn, Standing, Lockers, HeldFast, HeldLate, Shape, Roles,
   Moving

LEMMA SoftUnlockStands ==
    ASSUME Shape, Standing, NEW c \in Calls, SoftUnlock(c)
    PROVE  Standing'
BY PlaceOf DEF SoftUnlock, To, Relocked, SoftRefused, Standing, Lockers, HeldFast,
   HeldLate, Shape, Roles, Moving

LEMMA SoftActivateStands ==
    ASSUME Shape, Standing, NEW c \in Calls, SoftActivate(c)
    PROVE  Standing'
BY PlaceOf DEF SoftActivate, To, LockVault, Relocked, Undo, SoftRefused, core, Standing,
   Lockers, HeldFast, HeldLate, Shape, Roles, Moving

LEMMA FinishStands ==
    ASSUME Shape, Standing, NEW c \in Calls, Finish(c)
    PROVE  Standing'
BY DEF Finish, To, core, Standing, Lockers, HeldFast, HeldLate, Moving

LEMMA CancelCallStands ==
    ASSUME Shape, Standing, NEW c \in Calls, CancelCall(c)
    PROVE  Standing'
BY DEF CancelCall, To, LockVault, Relocked, Standing, Lockers, HeldFast, HeldLate,
   Moving

LEMMA BuiltStands ==
    ASSUME Shape, Standing, NEW a \in Calls \cup {"human", "start"}, Built(a)
    PROVE  Standing'
<1>1. HeldLate'
  BY PlaceOf DEF Built, To, core, Standing, HeldLate, Shape, Roles
<1>2. Lockers'
  BY PlaceOf, Solo DEF Built, To, core, Standing, Lockers, Shape, Roles, Working
<1>3. HeldFast'
  BY PlaceOf DEF Built, To, core, Standing, HeldFast, HeldLate, Shape, Roles, Moving
<1> QED
  BY <1>1, <1>2, <1>3 DEF Standing

LEMMA BuildFailsStands ==
    ASSUME Shape, Standing, NEW a \in Calls \cup {"human", "start"}, BuildFails(a)
    PROVE  Standing'
BY DEF BuildFails, To, core, Standing, Lockers, HeldFast, HeldLate, Moving

LEMMA UndoneStands ==
    ASSUME Shape, Standing, NEW a \in Calls \cup {"human", "start"}, Undone(a)
    PROVE  Standing'
BY DEF Undone, To, LockVault, Relocked, Undo, Standing, Lockers, HeldFast, HeldLate,
   Moving

LEMMA RequestLockStands ==
    ASSUME Shape, Standing, NEW l \in Locks, RequestLock(l)
    PROVE  Standing'
BY DEF RequestLock, To, Join, core, Standing, Lockers, HeldFast, HeldLate, Moving

LEMMA SessionEventStands ==
    ASSUME Shape, Standing, NEW l \in Locks, SessionEvent(l)
    PROVE  Standing'
BY PlaceOf DEF SessionEvent, To, Join, Started, core, Standing, Lockers, HeldFast,
   HeldLate, Shape, Roles, Moving

LEMMA LockTurnStands ==
    ASSUME Shape, Standing, NEW l \in Locks, LockTurn(l)
    PROVE  Standing'
<1>1. Lockers'
  BY LockTurnCases DEF To, Turn, LockVault, Relocked, TakeApp, BeginDrain, EndLock,
     Standing, Lockers
<1>2. HeldFast'
  BY PlaceOf, Solo, LockTurnCases DEF To, Turn, LockVault, Relocked, TakeApp,
     BeginDrain, EndLock, Standing, HeldFast, Shape, Roles, Working, Moving
<1>3. HeldLate'
  BY PlaceOf, LockTurnCases DEF To, Turn, LockVault, Relocked, TakeApp, BeginDrain,
     EndLock, Standing, HeldLate, Shape, Roles, Early
<1> QED
  BY <1>1, <1>2, <1>3 DEF Standing

LEMMA LockDrainedStands ==
    ASSUME Shape, Standing, NEW l \in Locks, LockDrained(l)
    PROVE  Standing'
<1>1. Lockers'
  BY DEF LockDrained, To, LockVault, EndLock, Draining, Standing, Lockers
<1>2. HeldFast'
  BY PlaceOf, Solo DEF LockDrained, To, LockVault, EndLock, Draining, Standing,
     HeldFast, Lockers, Shape, Roles, Working, Moving
<1>3. HeldLate'
  BY PlaceOf DEF LockDrained, To, LockVault, EndLock, Draining, Standing, HeldLate,
     Shape, Roles, Early
<1> QED
  BY <1>1, <1>2, <1>3 DEF Standing

LEMMA LockClosesStands ==
    ASSUME Shape, Standing, NEW l \in Locks, LockCloses(l)
    PROVE  Standing'
<1>1. Lockers'
  BY DEF LockCloses, To, LockVault, EndLock, Standing, Lockers
<1>2. HeldFast'
  BY PlaceOf, Solo DEF LockCloses, To, LockVault, EndLock, Standing, HeldFast, Lockers,
     Working, Moving
<1>3. HeldLate'
  BY PlaceOf DEF LockCloses, To, LockVault, EndLock, Standing, HeldLate, Shape, Early
<1> QED
  BY <1>1, <1>2, <1>3 DEF Standing

LEMMA CancelLockStands ==
    ASSUME Shape, Standing, NEW l \in Locks, CancelLock(l)
    PROVE  Standing'
BY DEF CancelLock, To, Draining, core, Standing, Lockers, HeldFast, HeldLate, Moving

LEMMA BeginStands ==
    ASSUME Shape, Standing, Begin
    PROVE  Standing'
BY DEF Begin, To, Started, Standing, Lockers, HeldFast, HeldLate, Moving

LEMMA UnlocksStands ==
    ASSUME Shape, Standing, Unlocks
    PROVE  Standing'
BY PlaceOf DEF Unlocks, To, Join, Standing, Lockers, HeldFast, HeldLate, Shape, Roles,
   Moving

LEMMA UnlockFailsStands ==
    ASSUME Shape, Standing, UnlockFails
    PROVE  Standing'
BY DEF UnlockFails, To, Standing, Lockers, HeldFast, HeldLate, Moving

LEMMA CeremonyEndsStands ==
    ASSUME Shape, Standing, CeremonyEnds
    PROVE  Standing'
BY DEF CeremonyEnds, To, Relocked, Standing, Lockers, HeldFast, HeldLate, Moving

LEMMA CancelCeremonyStands ==
    ASSUME Shape, Standing, CancelCeremony
    PROVE  Standing'
BY DEF CancelCeremony, To, LockVault, Relocked, Standing, Lockers, HeldFast, HeldLate,
   Moving

LEMMA ActivateStands ==
    ASSUME Shape, Standing, Activate
    PROVE  Standing'
BY PlaceOf DEF Activate, To, Turn, LockVault, Relocked, Undo, core, Standing, Lockers,
   HeldFast, HeldLate, Shape, Roles, Moving

LEMMA StartStands ==
    ASSUME Shape, Standing, Start
    PROVE  Standing'
BY DEF Start, To, Standing, Lockers, HeldFast, HeldLate, Moving

LEMMA DrainEmptyStands ==
    ASSUME Shape, Standing, DrainEmpty
    PROVE  Standing'
BY DEF DrainEmpty, TakeApp, Standing, Lockers, HeldFast, HeldLate, Moving

LEMMA DrainClosesStands ==
    ASSUME Shape, Standing, DrainCloses
    PROVE  Standing'
BY DEF DrainCloses, LockVault, Standing, Lockers, HeldFast, HeldLate, Moving

LEMMA DrainDeadlineStands ==
    ASSUME Shape, Standing, DrainDeadline
    PROVE  Standing'
BY DEF DrainDeadline, Standing, Lockers, HeldFast, HeldLate, Moving

LEMMA IdleRelockStands ==
    ASSUME Shape, Standing, IdleRelock
    PROVE  Standing'
BY DEF IdleRelock, Started, BeginDrain, NoClients, Standing, Lockers, HeldFast,
   HeldLate, Moving

LEMMA IdleStopStands ==
    ASSUME Shape, Standing, IdleStop
    PROVE  Standing'
BY DEF IdleStop, To, Started, BeginDrain, NoClients, Draining, Standing, Lockers,
   HeldFast, HeldLate, Moving

LEMMA StopStands ==
    ASSUME Shape, Standing, Stop
    PROVE  Standing'
BY DEF Stop, To, Join, Started, Draining, core, Standing, Lockers, HeldFast, HeldLate,
   Moving

LEMMA StopTurnStands ==
    ASSUME Shape, Standing, StopTurn
    PROVE  Standing'
BY PlaceOf, StopTurnCases DEF To, Turn, LockVault, Relocked, TakeApp, BeginDrain,
   CloseReady, Draining, Standing, Lockers, HeldFast, HeldLate, Shape, Roles, Moving

LEMMA StopDrainedStands ==
    ASSUME Shape, Standing, StopDrained
    PROVE  Standing'
BY PlaceOf DEF StopDrained, To, TakeApp, CloseReady, Draining, Standing, Lockers,
   HeldFast, HeldLate, Shape, Roles, Moving

LEMMA StopTakesStands ==
    ASSUME Shape, Standing, StopTakes
    PROVE  Standing'
BY PlaceOf DEF StopTakes, To, TakeApp, Standing, Lockers, HeldFast, HeldLate, Moving

LEMMA StopClosesStands ==
    ASSUME Shape, Standing, StopCloses
    PROVE  Standing'
BY DEF StopCloses, To, Standing, Lockers, HeldFast, HeldLate, Moving

LEMMA StepKeepsStanding ==
    ASSUME Shape, Standing, NEW a \in Actors \cup {"drain", "idle"}, Step(a)
    PROVE  Standing'
<1>1. ASSUME a \in Calls, CallStep(a) \/ Finish(a) \/ CancelCall(a)
      PROVE  Standing'
  BY <1>1, DispatchStands, SoftBeginStands, SoftUnlockStands, SoftActivateStands, BuiltStands,
     UndoneStands, FinishStands, CancelCallStands DEF CallStep, Activation
<1>2. ASSUME a \in Locks, RequestLock(a) \/ SessionEvent(a) \/ LockStep(a) \/ CancelLock(a)
      PROVE  Standing'
  BY <1>2, RequestLockStands, SessionEventStands, LockTurnStands, LockDrainedStands,
     LockClosesStands, CancelLockStands DEF LockStep
<1>3. ASSUME a \in Actors, BuildFails(a)
      PROVE  Standing'
  <2>1. a \in Calls \cup {"human", "start"}
    <3>1. "building" \in Place(a)
      BY <1>3 DEF BuildFails, Shape, Roles
    <3> QED
      BY <1>3, <3>1, PlaceOf DEF LockPlaces
  <2> QED
    BY <1>3, <2>1, BuildFailsStands
<1>4. ASSUME Begin \/ Unlocks \/ UnlockFails \/ CeremonyEnds \/ CancelCeremony \/ HumanStep
             \/ StartStep
      PROVE  Standing'
  BY <1>4, BeginStands, UnlocksStands, UnlockFailsStands, CeremonyEndsStands,
     CancelCeremonyStands, ActivateStands, StartStands, BuiltStands, UndoneStands
     DEF HumanStep, StartStep, Activation
<1>5. ASSUME Stop \/ StopStep \/ DrainStep \/ IdleRelock \/ IdleStop
      PROVE  Standing'
  BY <1>5, StopStands, StopTurnStands, StopDrainedStands, StopTakesStands, StopClosesStands,
     DrainEmptyStands, DrainClosesStands, DrainDeadlineStands, IdleRelockStands, IdleStopStands
     DEF StopStep, DrainStep
<1> QED
  BY <1>1, <1>2, <1>3, <1>4, <1>5, ConnectStands DEF Step, Locks

LEMMA InitStands == Init => Standing
<1> SUFFICES ASSUME Init PROVE Standing
  OBVIOUS
<1>1. \A a \in Locks \cup Calls : pc[a] = "idle"
  BY DEF Init, Actors
<1> QED
  BY <1>1 DEF Init, Standing, Lockers, HeldFast, HeldLate

LEMMA StandingStep ==
    ASSUME ShapeInv, Standing, [Next]_vars
    PROVE  Standing'
<1>1. CASE Next
  BY <1>1, NextIsStep, StepKeepsStanding DEF ShapeInv
<1>2. CASE UNCHANGED vars
  BY <1>2 DEF vars, core, Standing, Lockers, HeldFast, HeldLate, Moving, Locks
<1> QED
  BY <1>1, <1>2

\* The last lock that has ended stands until something may lift it.
THEOREM StandingInvariance == Spec => []Standing
<1>1. ShapeInv /\ Standing /\ [Next]_vars => Standing'
  BY StandingStep
<1> QED
  BY <1>1, InitStands, ShapeInvariance, PTL DEF Spec

\* However many locks of all three kinds come, beside whatever re-readies,
\* ceremonies, drains and lost connections: after the last lock that has ended only
\* what may lift this lock makes the service ready again.
THEOREM LastLockStands == Spec => []LastLockHolds
<1>1. Standing => LastLockHolds
  BY DEF Standing, HeldFast, LastLockHolds
<1> QED
  BY <1>1, StandingInvariance, PTL

-----------------------------------------------------------------------------
(* A service of which no session lock has ended in the middle of a ceremony. *)

\* Until the start has ended nobody else has come, but for a dropped lock.
Alone ==
    pc["start"] # "done" =>
        /\ \A a \in Actors \ {"start"} : pc[a] \in {"idle", "done"}
        /\ app = 0 /\ admitted = {} /\ drain.pc = "off" /\ flaws = {}
        /\ svc = IF pc["start"] = "idle" THEN "starting" ELSE "unlocking"

\* A re-ready owns the service from end to end: no ceremony runs beside it.
OneMover ==
    \A c \in Calls : pc[c] \in Moving =>
        svc = "unlocking" /\ pc["human"] \notin Ceremony

\* Beside a ceremony no application is installed or in use; if somebody has
\* locked the service under it, no re-ready may start.
CeremonyAlone ==
    pc["human"] \in Ceremony =>
        /\ app = 0 /\ admitted = {}
        /\ svc \in {"unlocking", "draining"} \/ (svc = "locked" /\ reason = "hard")

\* Only beside a stop may a failed ceremony reverse the state of a drain.
DrainOwned ==
    Draining =>
        \/ svc = "draining" /\ pc["human"] \notin Ceremony
        \/ pc["stop"] = "draining" /\ drain.stop /\ svc \in {"draining", "locked", "unlocking"}

\* Who waits for a drain finds the service closed when the drain has ended, or
\* the drain has failed.
Drainers ==
    /\ pc["stop"] = "draining" => svc # "ready"
    /\ \A a \in Locks \cup {"stop"} : pc[a] = "draining" /\ drain.pc = "off" =>
            app = 0 /\ admitted = {}
Closing == drain.pc = "closing" => app = 0 /\ admitted = {}
Failing == drain.pc = "failed" => "undrained" \in flaws

\* An unopened service has nothing installed and nobody admitted.
Unopened == svc \in {"starting", "locked", "unlocking"} => app = 0 /\ admitted = {}

\* Admitted calls are met in a ready service, or by somebody who waits for them, or
\* by whoever comes after a drain that has ended before them.
Attended ==
    admitted # {} /\ Serving =>
        \/ svc = "ready" \/ "undrained" \in flaws
        \/ \E a \in Locks \cup {"stop"} : pc[a] = "draining"

Alive ==
    /\ Alone /\ OneMover /\ CeremonyAlone /\ DrainOwned /\ Drainers /\ Closing /\ Failing
    /\ Unopened /\ Attended /\ ReadyMeansUnlocked /\ AdmittedKeepApplication

AliveInv == svc = "gone" \/ "crossed" \in flaws \/ Alive

LEMMA ConnectAlive ==
    ASSUME Shape, Standing, Alive, svc # "gone", NEW c \in Calls \cup Explicit, Connect(c)
    PROVE  AliveInv'
<1>1. svc' = "gone" \/ "crossed" \in flaws' \/ (Alone' /\ OneMover' /\ CeremonyAlone' /\
      DrainOwned' /\ Drainers' /\ Closing' /\ Failing' /\ Unopened' /\ Attended' /\
      ReadyMeansUnlocked' /\ AdmittedKeepApplication')
  BY DEF Connect, To, Started, Draining, core, Serving, Alive, Alone, OneMover,
     CeremonyAlone, DrainOwned, Drainers, Closing, Failing, Unopened, Attended,
     ReadyMeansUnlocked, AdmittedKeepApplication, Moving, Ceremony, Locks
<1> QED
  BY <1>1 DEF AliveInv, Alive

LEMMA DispatchAlive ==
    ASSUME Shape, Standing, Alive, svc # "gone", NEW c \in Calls, Dispatch(c)
    PROVE  AliveInv'
<1>1. svc' = "gone" \/ "crossed" \in flaws' \/ (Alone' /\ OneMover' /\ CeremonyAlone' /\
      DrainOwned' /\ Drainers' /\ Closing' /\ Failing' /\ Unopened' /\ Attended' /\
      ReadyMeansUnlocked' /\ AdmittedKeepApplication')
  BY PlaceOf DEF Dispatch, To, Join, Draining, core, Serving, Alive, Alone, OneMover,
     CeremonyAlone, DrainOwned, Drainers, Closing, Failing, Unopened, Attended,
     ReadyMeansUnlocked, AdmittedKeepApplication, Shape, Roles, Moving, Ceremony,
     LockPlaces
<1> QED
  BY <1>1 DEF AliveInv, Alive

LEMMA SoftBeginAlive ==
    ASSUME Shape, Standing, Alive, svc # "gone", NEW c \in Calls, SoftBegin(c)
    PROVE  AliveInv'
<1>1. svc' = "gone" \/ "crossed" \in flaws' \/ (Alone' /\ CeremonyAlone' /\ DrainOwned'
      /\ Drainers' /\ Closing' /\ Failing' /\ Unopened' /\ Attended' /\
      ReadyMeansUnlocked' /\ AdmittedKeepApplication')
  BY PlaceOf DEF SoftBegin, To, Turn, Draining, Serving, Alive, Alone, CeremonyAlone,
     DrainOwned, Drainers, Closing, Failing, Unopened, Attended, ReadyMeansUnlocked,
     AdmittedKeepApplication, Shape, Roles, Ceremony
<1>2. svc' = "gone" \/ "crossed" \in flaws' \/ OneMover'
  BY PlaceOf DEF SoftBegin, To, Turn, Alive, OneMover, CeremonyAlone, Shape, Roles,
     Moving, Ceremony
<1> QED
  BY <1>1, <1>2 DEF AliveInv, Alive

LEMMA SoftUnlockAlive ==
    ASSUME Shape, Standing, Alive, svc # "gone", NEW c \in Calls, SoftUnlock(c)
    PROVE  AliveInv'
<1>1. svc' = "gone" \/ "crossed" \in flaws' \/ (Alone' /\ CeremonyAlone' /\ DrainOwned'
      /\ Drainers' /\ Closing' /\ Failing' /\ Unopened' /\ Attended' /\
      ReadyMeansUnlocked' /\ AdmittedKeepApplication')
  BY PlaceOf DEF SoftUnlock, To, Relocked, SoftRefused, Draining, Serving, Alive, Alone,
     CeremonyAlone, DrainOwned, Drainers, Closing, Failing, Unopened, Attended,
     ReadyMeansUnlocked, AdmittedKeepApplication, Shape, Roles, Ceremony
<1>2. svc' = "gone" \/ "crossed" \in flaws' \/ OneMover'
  BY PlaceOf, Solo DEF SoftUnlock, To, Relocked, SoftRefused, Alive, OneMover, Shape,
     Roles, Working, Moving, Ceremony
<1> QED
  BY <1>1, <1>2 DEF AliveInv, Alive

LEMMA SoftActivateAlive ==
    ASSUME Shape, Standing, Alive, svc # "gone", NEW c \in Calls, SoftActivate(c)
    PROVE  AliveInv'
<1>1. svc' = "gone" \/ "crossed" \in flaws' \/ (Alone' /\ DrainOwned' /\ Drainers' /\
      Closing' /\ Failing' /\ Unopened' /\ Attended' /\ AdmittedKeepApplication')
  BY PlaceOf DEF SoftActivate, To, LockVault, Relocked, Undo, SoftRefused, Draining,
     core, Serving, Alive, Alone, DrainOwned, Drainers, Closing, Failing, Unopened,
     Attended, AdmittedKeepApplication, Shape, Roles, Ceremony
<1>2. svc' = "gone" \/ "crossed" \in flaws' \/ OneMover'
  BY PlaceOf, Solo DEF SoftActivate, To, LockVault, Relocked, Undo, SoftRefused, core,
     Alive, OneMover, Shape, Roles, Working, Moving, Ceremony
<1>3. svc' = "gone" \/ "crossed" \in flaws' \/ CeremonyAlone'
  BY PlaceOf DEF SoftActivate, To, LockVault, Relocked, Undo, SoftRefused, core, Alive,
     CeremonyAlone, OneMover, Shape, Roles, Moving, Ceremony
<1>4. svc' = "gone" \/ "crossed" \in flaws' \/ ReadyMeansUnlocked'
  BY DEF SoftActivate, To, LockVault, Relocked, Undo, SoftRefused, core, Serving, Alive,
     ReadyMeansUnlocked, OneMover, Moving, Ceremony
<1> QED
  BY <1>1, <1>2, <1>3, <1>4 DEF AliveInv, Alive

LEMMA FinishAlive ==
    ASSUME Shape, Standing, Alive, svc # "gone", NEW c \in Calls, Finish(c)
    PROVE  AliveInv'
<1>1. svc' = "gone" \/ "crossed" \in flaws' \/ (Alone' /\ OneMover' /\ CeremonyAlone' /\
      DrainOwned' /\ Drainers' /\ Closing' /\ Failing' /\ Unopened' /\ Attended' /\
      ReadyMeansUnlocked' /\ AdmittedKeepApplication')
  BY DEF Finish, To, Draining, core, Serving, Alive, Alone, OneMover, CeremonyAlone,
     DrainOwned, Drainers, Closing, Failing, Unopened, Attended, ReadyMeansUnlocked,
     AdmittedKeepApplication, Moving, Ceremony
<1> QED
  BY <1>1 DEF AliveInv, Alive

LEMMA CancelCallAlive ==
    ASSUME Shape, Standing, Alive, svc # "gone", NEW c \in Calls, CancelCall(c)
    PROVE  AliveInv'
<1>1. svc' = "gone" \/ "crossed" \in flaws' \/ (Alone' /\ CeremonyAlone' /\ DrainOwned'
      /\ Drainers' /\ Closing' /\ Failing' /\ Unopened' /\ Attended' /\
      AdmittedKeepApplication')
  BY PlaceOf DEF CancelCall, To, LockVault, Relocked, Draining, Serving, Alive, Alone,
     CeremonyAlone, DrainOwned, Drainers, Closing, Failing, Unopened, Attended,
     AdmittedKeepApplication, Ceremony
<1>2. svc' = "gone" \/ "crossed" \in flaws' \/ OneMover'
  BY PlaceOf, Solo DEF CancelCall, To, LockVault, Relocked, Alive, OneMover, Shape,
     Roles, Working, Moving, Ceremony
<1>3. svc' = "gone" \/ "crossed" \in flaws' \/ ReadyMeansUnlocked'
  BY DEF CancelCall, To, LockVault, Relocked, Serving, Alive, ReadyMeansUnlocked,
     OneMover, Moving, Ceremony
<1> QED
  BY <1>1, <1>2, <1>3 DEF AliveInv, Alive

LEMMA BuiltAlive ==
    ASSUME Shape, Standing, Alive, svc # "gone", NEW a \in Calls \cup {"human", "start"}, Built(a)
    PROVE  AliveInv'
<1>1. svc' = "gone" \/ "crossed" \in flaws' \/ (Failing' /\ Unopened' /\ Attended' /\
      ReadyMeansUnlocked' /\ AdmittedKeepApplication')
  BY PlaceOf DEF Built, To, core, Serving, Alive, Failing, Unopened, Attended,
     ReadyMeansUnlocked, AdmittedKeepApplication, Shape, Roles, Scalars
<1>2. svc' = "gone" \/ "crossed" \in flaws' \/ OneMover'
  BY PlaceOf, Solo DEF Built, To, core, Alive, OneMover, Shape, Roles, Working, Moving,
     Ceremony
<1>3. svc' = "gone" \/ "crossed" \in flaws' \/ CeremonyAlone'
  BY PlaceOf, Solo DEF Built, To, core, Alive, CeremonyAlone, Alone, OneMover, Shape,
     Roles, Working, Moving, Ceremony
<1>4. svc' = "gone" \/ "crossed" \in flaws' \/ DrainOwned'
  BY PlaceOf, Solo DEF Built, To, Draining, core, Alive, DrainOwned, Shape, Roles,
     Working, Ceremony
<1>5. svc' = "gone" \/ "crossed" \in flaws' \/ Drainers'
  BY PlaceOf, Solo DEF Built, To, core, Alive, Drainers, Shape, Roles, Working
<1>6. svc' = "gone" \/ "crossed" \in flaws' \/ Closing'
  BY PlaceOf, Solo DEF Built, To, Draining, core, Alive, Closing, DrainOwned, Working,
     Ceremony
<1>7. svc' = "gone" \/ "crossed" \in flaws' \/ Alone'
  <2>1. CASE a = "start"
    BY <2>1, PlaceOf DEF Built, To, core, Shape, Roles, Alive, Alone, Working
  <2>2. CASE a # "start"
    BY <2>2, PlaceOf DEF Built, To, core, Shape, Roles, Early, Alone
  <2> QED
    BY <2>1, <2>2
<1> QED
  BY <1>1, <1>2, <1>3, <1>4, <1>5, <1>6, <1>7 DEF AliveInv, Alive

LEMMA BuildFailsAlive ==
    ASSUME Shape, Standing, Alive, svc # "gone", NEW a \in Calls \cup {"human", "start"}, BuildFails(a)
    PROVE  AliveInv'
<1>1. svc' = "gone" \/ "crossed" \in flaws' \/ (Alone' /\ OneMover' /\ CeremonyAlone' /\
      DrainOwned' /\ Drainers' /\ Closing' /\ Failing' /\ Unopened' /\ Attended' /\
      ReadyMeansUnlocked' /\ AdmittedKeepApplication')
  BY DEF BuildFails, To, Draining, core, Serving, Alive, Alone, OneMover, CeremonyAlone,
     DrainOwned, Drainers, Closing, Failing, Unopened, Attended, ReadyMeansUnlocked,
     AdmittedKeepApplication, Moving, Ceremony
<1> QED
  BY <1>1 DEF AliveInv, Alive

LEMMA UndoneAlive ==
    ASSUME Shape, Standing, Alive, svc # "gone", NEW a \in Calls \cup {"human", "start"}, Undone(a)
    PROVE  AliveInv'
<1>1. svc' = "gone" \/ "crossed" \in flaws' \/ (Alone' /\ DrainOwned' /\ Drainers' /\
      Closing' /\ Failing' /\ Unopened' /\ Attended' /\ AdmittedKeepApplication')
  BY PlaceOf DEF Undone, To, LockVault, Relocked, Undo, Draining, Serving, Alive, Alone,
     DrainOwned, Drainers, Closing, Failing, Unopened, Attended,
     AdmittedKeepApplication, Ceremony
<1>2. svc' = "gone" \/ "crossed" \in flaws' \/ OneMover'
  BY PlaceOf, Solo DEF Undone, To, LockVault, Relocked, Undo, Alive, OneMover, Shape,
     Roles, Working, Moving, Ceremony
<1>3. svc' = "gone" \/ "crossed" \in flaws' \/ CeremonyAlone'
  BY DEF Undone, To, LockVault, Relocked, Undo, Alive, CeremonyAlone, OneMover, Moving,
     Ceremony
<1>4. svc' = "gone" \/ "crossed" \in flaws' \/ ReadyMeansUnlocked'
  BY Solo DEF Undone, To, LockVault, Relocked, Undo, Serving, Alive, ReadyMeansUnlocked,
     OneMover, CeremonyAlone, Working, Moving, Ceremony
<1> QED
  BY <1>1, <1>2, <1>3, <1>4 DEF AliveInv, Alive

LEMMA RequestLockAlive ==
    ASSUME Shape, Standing, Alive, svc # "gone", NEW l \in Locks, RequestLock(l)
    PROVE  AliveInv'
<1>1. svc' = "gone" \/ "crossed" \in flaws' \/ (Alone' /\ OneMover' /\ CeremonyAlone' /\
      DrainOwned' /\ Drainers' /\ Closing' /\ Failing' /\ Unopened' /\ Attended' /\
      ReadyMeansUnlocked' /\ AdmittedKeepApplication')
  BY PlaceOf DEF RequestLock, To, Join, Draining, core, Serving, Alive, Alone, OneMover,
     CeremonyAlone, DrainOwned, Drainers, Closing, Failing, Unopened, Attended,
     ReadyMeansUnlocked, AdmittedKeepApplication, Moving, Ceremony
<1> QED
  BY <1>1 DEF AliveInv, Alive

LEMMA SessionEventAlive ==
    ASSUME Shape, Standing, Alive, svc # "gone", NEW l \in Locks, SessionEvent(l)
    PROVE  AliveInv'
<1>1. svc' = "gone" \/ "crossed" \in flaws' \/ (Alone' /\ OneMover' /\ CeremonyAlone' /\
      DrainOwned' /\ Drainers')
  BY PlaceOf DEF SessionEvent, To, Join, Started, Draining, core, Alive, Alone,
     OneMover, CeremonyAlone, DrainOwned, Drainers, Shape, Roles, Moving, Ceremony
<1>2. svc' = "gone" \/ "crossed" \in flaws' \/ (Closing' /\ Failing' /\ Unopened' /\
      Attended' /\ ReadyMeansUnlocked' /\ AdmittedKeepApplication')
  BY PlaceOf DEF SessionEvent, To, Join, Started, core, Serving, Alive, Closing,
     Failing, Unopened, Attended, ReadyMeansUnlocked, AdmittedKeepApplication, Shape,
     Roles
<1> QED
  BY <1>1, <1>2 DEF AliveInv, Alive

LEMMA LockTurnAlive ==
    ASSUME Shape, Standing, Alive, svc # "gone", NEW l \in Locks, LockTurn(l)
    PROVE  AliveInv'
<1>1. svc' = "gone" \/ "crossed" \in flaws' \/ (Alone' /\ CeremonyAlone' /\ Drainers' /\
      Closing' /\ Failing' /\ Unopened' /\ Attended' /\ ReadyMeansUnlocked')
  BY PlaceOf, LockTurnCases DEF To, Turn, LockVault, Relocked, TakeApp, BeginDrain,
     EndLock, Serving, Alive, Alone, CeremonyAlone, Drainers, Closing, Failing,
     Unopened, Attended, ReadyMeansUnlocked, Shape, Roles, Ceremony
<1>2. svc' = "gone" \/ "crossed" \in flaws' \/ OneMover'
  BY PlaceOf, Solo, LockTurnCases DEF To, Turn, LockVault, Relocked, TakeApp,
     BeginDrain, EndLock, Alive, OneMover, Shape, Roles, Working, Moving, Ceremony
<1>3. svc' = "gone" \/ "crossed" \in flaws' \/ DrainOwned'
  BY PlaceOf, LockTurnCases DEF To, Turn, LockVault, Relocked, TakeApp, BeginDrain,
     EndLock, Draining, Alive, DrainOwned, CeremonyAlone, Shape, Roles, Ceremony
<1>4. svc' = "gone" \/ "crossed" \in flaws' \/ AdmittedKeepApplication'
  BY PlaceOf, Solo, LockTurnCases DEF To, Turn, LockVault, Relocked, TakeApp,
     BeginDrain, EndLock, Serving, Alive, AdmittedKeepApplication, Attended, Working
<1> QED
  BY <1>1, <1>2, <1>3, <1>4 DEF AliveInv, Alive

LEMMA LockDrainedAlive ==
    ASSUME Shape, Standing, Alive, svc # "gone", NEW l \in Locks, LockDrained(l)
    PROVE  AliveInv'
<1>1. svc' = "gone" \/ "crossed" \in flaws' \/ (Alone' /\ OneMover' /\ CeremonyAlone' /\
      DrainOwned' /\ Drainers' /\ Closing' /\ Failing' /\ Unopened')
  BY PlaceOf DEF LockDrained, To, LockVault, EndLock, Draining, Alive, Alone, OneMover,
     CeremonyAlone, DrainOwned, Drainers, Closing, Failing, Unopened, Shape, Roles,
     Moving, Ceremony
<1>2. svc' = "gone" \/ "crossed" \in flaws' \/ Attended'
  BY Solo DEF LockDrained, To, LockVault, EndLock, Draining, Serving, Alive, Attended,
     Drainers, Failing, Shape, Scalars, Working
<1>3. svc' = "gone" \/ "crossed" \in flaws' \/ ReadyMeansUnlocked'
  BY PlaceOf DEF LockDrained, To, LockVault, EndLock, Draining, Serving, Alive,
     ReadyMeansUnlocked, Drainers, Shape, Roles, Scalars
<1>4. svc' = "gone" \/ "crossed" \in flaws' \/ AdmittedKeepApplication'
  BY PlaceOf DEF LockDrained, To, LockVault, EndLock, Draining, Serving, Alive,
     AdmittedKeepApplication, Drainers, Shape, Roles, Scalars
<1> QED
  BY <1>1, <1>2, <1>3, <1>4 DEF AliveInv, Alive

LEMMA LockClosesAlive ==
    ASSUME Shape, Standing, Alive, svc # "gone", NEW l \in Locks, LockCloses(l)
    PROVE  AliveInv'
<1>1. svc' = "gone" \/ "crossed" \in flaws' \/ (Alone' /\ OneMover' /\ CeremonyAlone' /\
      DrainOwned' /\ Drainers' /\ Closing' /\ Failing' /\ Unopened' /\ Attended' /\
      AdmittedKeepApplication')
  BY PlaceOf DEF LockCloses, To, LockVault, EndLock, Draining, Serving, Alive, Alone,
     OneMover, CeremonyAlone, DrainOwned, Drainers, Closing, Failing, Unopened,
     Attended, AdmittedKeepApplication, Moving, Ceremony
<1>2. svc' = "gone" \/ "crossed" \in flaws' \/ ReadyMeansUnlocked'
  BY DEF LockCloses, To, LockVault, EndLock, Serving, Standing, Alive,
     ReadyMeansUnlocked, Lockers
<1> QED
  BY <1>1, <1>2 DEF AliveInv, Alive

LEMMA CancelLockAlive ==
    ASSUME Shape, Standing, Alive, svc # "gone", NEW l \in Locks, CancelLock(l)
    PROVE  AliveInv'
<1>1. svc' = "gone" \/ "crossed" \in flaws' \/ (Alone' /\ OneMover' /\ CeremonyAlone' /\
      DrainOwned' /\ Closing' /\ Failing' /\ Unopened' /\ ReadyMeansUnlocked' /\
      AdmittedKeepApplication')
  BY PlaceOf DEF CancelLock, To, Draining, core, Serving, Alive, Alone, OneMover,
     CeremonyAlone, DrainOwned, Closing, Failing, Unopened, ReadyMeansUnlocked,
     AdmittedKeepApplication, Shape, Scalars, Moving, Ceremony
<1>2. svc' = "gone" \/ "crossed" \in flaws' \/ Drainers'
  BY PlaceOf, Solo DEF CancelLock, To, Draining, core, Alive, Drainers, Shape, Roles,
     Working
<1>3. svc' = "gone" \/ "crossed" \in flaws' \/ Attended'
  BY PlaceOf, Solo DEF CancelLock, To, Draining, core, Serving, Alive, Attended,
     Drainers, Failing, Shape, Scalars, Working
<1> QED
  BY <1>1, <1>2, <1>3 DEF AliveInv, Alive

LEMMA BeginAlive ==
    ASSUME Shape, Standing, Alive, svc # "gone", Begin
    PROVE  AliveInv'
<1>1. svc' = "gone" \/ "crossed" \in flaws' \/ (Alone' /\ OneMover' /\ DrainOwned' /\
      Drainers' /\ Closing' /\ Failing' /\ Unopened' /\ Attended' /\ ReadyMeansUnlocked'
      /\ AdmittedKeepApplication')
  BY DEF Begin, To, Started, Draining, Serving, Alive, Alone, OneMover, DrainOwned,
     Drainers, Closing, Failing, Unopened, Attended, ReadyMeansUnlocked,
     AdmittedKeepApplication, Moving, Ceremony
<1>2. svc' = "gone" \/ "crossed" \in flaws' \/ CeremonyAlone'
  BY DEF Begin, To, Started, Alive, CeremonyAlone, Unopened, Ceremony
<1> QED
  BY <1>1, <1>2 DEF AliveInv, Alive

LEMMA UnlocksAlive ==
    ASSUME Shape, Standing, Alive, svc # "gone", Unlocks
    PROVE  AliveInv'
<1>1. svc' = "gone" \/ "crossed" \in flaws' \/ (Alone' /\ OneMover' /\ CeremonyAlone' /\
      DrainOwned' /\ Drainers' /\ Closing' /\ Failing' /\ Unopened' /\ Attended' /\
      ReadyMeansUnlocked' /\ AdmittedKeepApplication')
  BY PlaceOf DEF Unlocks, To, Join, Draining, Serving, Alive, Alone, OneMover,
     CeremonyAlone, DrainOwned, Drainers, Closing, Failing, Unopened, Attended,
     ReadyMeansUnlocked, AdmittedKeepApplication, Shape, Roles, Moving, Ceremony
<1> QED
  BY <1>1 DEF AliveInv, Alive

LEMMA UnlockFailsAlive ==
    ASSUME Shape, Standing, Alive, svc # "gone", UnlockFails
    PROVE  AliveInv'
<1>1. svc' = "gone" \/ "crossed" \in flaws' \/ (Alone' /\ OneMover' /\ CeremonyAlone' /\
      DrainOwned' /\ Drainers' /\ Closing' /\ Failing' /\ Attended' /\
      ReadyMeansUnlocked' /\ AdmittedKeepApplication')
  BY PlaceOf DEF UnlockFails, To, Draining, Serving, Alive, Alone, OneMover,
     CeremonyAlone, DrainOwned, Drainers, Closing, Failing, Attended,
     ReadyMeansUnlocked, AdmittedKeepApplication, Shape, Roles, Moving, Ceremony
<1>2. svc' = "gone" \/ "crossed" \in flaws' \/ Unopened'
  BY DEF UnlockFails, To, Alive, Unopened, CeremonyAlone, Ceremony
<1> QED
  BY <1>1, <1>2 DEF AliveInv, Alive

LEMMA CeremonyEndsAlive ==
    ASSUME Shape, Standing, Alive, svc # "gone", CeremonyEnds
    PROVE  AliveInv'
<1>1. svc' = "gone" \/ "crossed" \in flaws' \/ (Alone' /\ OneMover' /\ CeremonyAlone' /\
      DrainOwned' /\ Drainers' /\ Closing' /\ Failing' /\ Unopened' /\ Attended' /\
      ReadyMeansUnlocked' /\ AdmittedKeepApplication')
  BY PlaceOf DEF CeremonyEnds, To, Relocked, Draining, Serving, Alive, Alone, OneMover,
     CeremonyAlone, DrainOwned, Drainers, Closing, Failing, Unopened, Attended,
     ReadyMeansUnlocked, AdmittedKeepApplication, Shape, Roles, Moving, Ceremony
<1> QED
  BY <1>1 DEF AliveInv, Alive

LEMMA CancelCeremonyAlive ==
    ASSUME Shape, Standing, Alive, svc # "gone", CancelCeremony
    PROVE  AliveInv'
<1>1. svc' = "gone" \/ "crossed" \in flaws' \/ (Alone' /\ OneMover' /\ CeremonyAlone' /\
      DrainOwned' /\ Drainers' /\ Closing' /\ Failing' /\ Unopened' /\ Attended' /\
      AdmittedKeepApplication')
  BY PlaceOf DEF CancelCeremony, To, LockVault, Relocked, Draining, Serving, Alive,
     Alone, OneMover, CeremonyAlone, DrainOwned, Drainers, Closing, Failing, Unopened,
     Attended, AdmittedKeepApplication, Shape, Roles, Moving, Ceremony
<1>2. svc' = "gone" \/ "crossed" \in flaws' \/ ReadyMeansUnlocked'
  BY DEF CancelCeremony, To, LockVault, Relocked, Serving, Alive, ReadyMeansUnlocked,
     CeremonyAlone, Ceremony
<1> QED
  BY <1>1, <1>2 DEF AliveInv, Alive

LEMMA ActivateAlive ==
    ASSUME Shape, Standing, Alive, svc # "gone", Activate
    PROVE  AliveInv'
<1>1. svc' = "gone" \/ "crossed" \in flaws' \/ (Alone' /\ OneMover' /\ CeremonyAlone' /\
      DrainOwned' /\ Drainers' /\ Closing' /\ Failing' /\ Unopened' /\ Attended' /\
      AdmittedKeepApplication')
  BY PlaceOf DEF Activate, To, Turn, LockVault, Relocked, Undo, Draining, core, Serving,
     Alive, Alone, OneMover, CeremonyAlone, DrainOwned, Drainers, Closing, Failing,
     Unopened, Attended, AdmittedKeepApplication, Shape, Roles, Moving, Ceremony
<1>2. svc' = "gone" \/ "crossed" \in flaws' \/ ReadyMeansUnlocked'
  BY DEF Activate, To, Turn, LockVault, Relocked, Undo, core, Serving, Alive,
     ReadyMeansUnlocked, CeremonyAlone, Ceremony
<1> QED
  BY <1>1, <1>2 DEF AliveInv, Alive

LEMMA StartAlive ==
    ASSUME Shape, Standing, Alive, svc # "gone", Start
    PROVE  AliveInv'
<1>1. svc' = "gone" \/ "crossed" \in flaws' \/ (Alone' /\ OneMover' /\ CeremonyAlone' /\
      DrainOwned' /\ Drainers' /\ Closing' /\ Failing' /\ Unopened' /\ Attended' /\
      ReadyMeansUnlocked' /\ AdmittedKeepApplication')
  BY PlaceOf DEF Start, To, Draining, Serving, Alive, Alone, OneMover, CeremonyAlone,
     DrainOwned, Drainers, Closing, Failing, Unopened, Attended, ReadyMeansUnlocked,
     AdmittedKeepApplication, Shape, Roles, Moving, Ceremony
<1> QED
  BY <1>1 DEF AliveInv, Alive

LEMMA DrainEmptyAlive ==
    ASSUME Shape, Standing, Alive, svc # "gone", DrainEmpty
    PROVE  AliveInv'
<1>1. svc' = "gone" \/ "crossed" \in flaws' \/ (Alone' /\ OneMover' /\ CeremonyAlone' /\
      DrainOwned' /\ Drainers' /\ Closing' /\ Failing' /\ Unopened' /\ Attended' /\
      AdmittedKeepApplication')
  BY DEF DrainEmpty, TakeApp, Draining, Serving, Alive, Alone, OneMover, CeremonyAlone,
     DrainOwned, Drainers, Closing, Failing, Unopened, Attended,
     AdmittedKeepApplication, Moving, Ceremony
<1>2. svc' = "gone" \/ "crossed" \in flaws' \/ ReadyMeansUnlocked'
  BY DEF DrainEmpty, TakeApp, Draining, Serving, Alive, ReadyMeansUnlocked, DrainOwned,
     Ceremony
<1> QED
  BY <1>1, <1>2 DEF AliveInv, Alive

LEMMA DrainClosesAlive ==
    ASSUME Shape, Standing, Alive, svc # "gone", DrainCloses
    PROVE  AliveInv'
<1>1. svc' = "gone" \/ "crossed" \in flaws' \/ (Alone' /\ DrainOwned' /\ Closing' /\
      Failing' /\ ReadyMeansUnlocked' /\ AdmittedKeepApplication')
  BY DEF DrainCloses, LockVault, Draining, Serving, Alive, Alone, DrainOwned, Closing,
     Failing, ReadyMeansUnlocked, AdmittedKeepApplication, Ceremony
<1>2. svc' = "gone" \/ "crossed" \in flaws' \/ OneMover'
  BY PlaceOf, Solo DEF DrainCloses, LockVault, Draining, Alive, OneMover, DrainOwned,
     Working, Moving, Ceremony
<1>3. svc' = "gone" \/ "crossed" \in flaws' \/ CeremonyAlone'
  BY DEF DrainCloses, LockVault, Draining, Alive, CeremonyAlone, DrainOwned, Ceremony
<1>4. svc' = "gone" \/ "crossed" \in flaws' \/ Drainers'
  BY DEF DrainCloses, LockVault, Alive, Drainers, Closing
<1>5. svc' = "gone" \/ "crossed" \in flaws' \/ Unopened'
  BY DEF DrainCloses, LockVault, Alive, Unopened, Closing
<1>6. svc' = "gone" \/ "crossed" \in flaws' \/ Attended'
  BY DEF DrainCloses, LockVault, Draining, Serving, Alive, Attended, DrainOwned,
     Ceremony
<1> QED
  BY <1>1, <1>2, <1>3, <1>4, <1>5, <1>6 DEF AliveInv, Alive

LEMMA DrainDeadlineAlive ==
    ASSUME Shape, Standing, Alive, svc # "gone", DrainDeadline
    PROVE  AliveInv'
<1>1. svc' = "gone" \/ "crossed" \in flaws' \/ (Alone' /\ CeremonyAlone' /\ DrainOwned'
      /\ Drainers' /\ Closing' /\ Failing' /\ Unopened' /\ Attended' /\
      ReadyMeansUnlocked' /\ AdmittedKeepApplication')
  BY DEF DrainDeadline, Draining, Serving, Alive, Alone, CeremonyAlone, DrainOwned,
     Drainers, Closing, Failing, Unopened, Attended, ReadyMeansUnlocked,
     AdmittedKeepApplication, Ceremony
<1>2. svc' = "gone" \/ "crossed" \in flaws' \/ OneMover'
  BY DEF DrainDeadline, Alive, OneMover, Unopened, Moving, Ceremony
<1> QED
  BY <1>1, <1>2 DEF AliveInv, Alive

LEMMA IdleRelockAlive ==
    ASSUME Shape, Standing, Alive, svc # "gone", IdleRelock
    PROVE  AliveInv'
<1>1. svc' = "gone" \/ "crossed" \in flaws' \/ (Alone' /\ OneMover' /\ CeremonyAlone' /\
      DrainOwned' /\ Drainers' /\ Closing' /\ Failing' /\ Unopened' /\ Attended' /\
      ReadyMeansUnlocked' /\ AdmittedKeepApplication')
  BY DEF IdleRelock, Started, BeginDrain, NoClients, Draining, Serving, Alive, Alone,
     OneMover, CeremonyAlone, DrainOwned, Drainers, Closing, Failing, Unopened,
     Attended, ReadyMeansUnlocked, AdmittedKeepApplication, Moving, Ceremony
<1> QED
  BY <1>1 DEF AliveInv, Alive

LEMMA IdleStopAlive ==
    ASSUME Shape, Standing, Alive, svc # "gone", IdleStop
    PROVE  AliveInv'
<1>1. svc' = "gone" \/ "crossed" \in flaws' \/ (Alone' /\ OneMover' /\ CeremonyAlone' /\
      DrainOwned' /\ Drainers' /\ Closing' /\ Failing' /\ Unopened' /\ Attended' /\
      ReadyMeansUnlocked' /\ AdmittedKeepApplication')
  BY DEF IdleStop, To, Started, BeginDrain, NoClients, Draining, Serving, Alive, Alone,
     OneMover, CeremonyAlone, DrainOwned, Drainers, Closing, Failing, Unopened,
     Attended, ReadyMeansUnlocked, AdmittedKeepApplication, Moving, Ceremony
<1> QED
  BY <1>1 DEF AliveInv, Alive

LEMMA StopAlive ==
    ASSUME Shape, Standing, Alive, svc # "gone", Stop
    PROVE  AliveInv'
<1>1. svc' = "gone" \/ "crossed" \in flaws' \/ (Alone' /\ OneMover' /\ CeremonyAlone' /\
      DrainOwned' /\ Drainers' /\ Closing' /\ Failing' /\ Unopened' /\ Attended' /\
      ReadyMeansUnlocked' /\ AdmittedKeepApplication')
  BY DEF Stop, To, Join, Started, Draining, core, Serving, Alive, Alone, OneMover,
     CeremonyAlone, DrainOwned, Drainers, Closing, Failing, Unopened, Attended,
     ReadyMeansUnlocked, AdmittedKeepApplication, Moving, Ceremony
<1> QED
  BY <1>1 DEF AliveInv, Alive

LEMMA StopTurnAlive ==
    ASSUME Shape, Standing, Alive, svc # "gone", StopTurn
    PROVE  AliveInv'
<1>1. svc' = "gone" \/ "crossed" \in flaws' \/ (Alone' /\ DrainOwned' /\ Closing' /\
      Failing' /\ Unopened' /\ Attended' /\ ReadyMeansUnlocked' /\
      AdmittedKeepApplication')
  BY PlaceOf, StopTurnCases DEF To, Turn, LockVault, Relocked, TakeApp, BeginDrain,
     CloseReady, Draining, Serving, Alive, Alone, DrainOwned, Closing, Failing,
     Unopened, Attended, ReadyMeansUnlocked, AdmittedKeepApplication, Shape, Roles,
     Ceremony, LockPlaces
<1>2. svc' = "gone" \/ "crossed" \in flaws' \/ OneMover'
  BY PlaceOf, Solo, StopTurnCases DEF To, Turn, LockVault, Relocked, TakeApp,
     BeginDrain, CloseReady, Draining, Alive, OneMover, Shape, Roles, Working, Moving,
     Ceremony
<1>3. svc' = "gone" \/ "crossed" \in flaws' \/ CeremonyAlone'
  BY PlaceOf, StopTurnCases DEF To, Turn, LockVault, Relocked, TakeApp, BeginDrain,
     CloseReady, Draining, Alive, CeremonyAlone, DrainOwned, Shape, Roles, Ceremony
<1>4. svc' = "gone" \/ "crossed" \in flaws' \/ Drainers'
  BY PlaceOf, StopTurnCases DEF To, Turn, LockVault, Relocked, TakeApp, BeginDrain,
     CloseReady, Draining, Alive, Drainers, DrainOwned, Shape, Roles, Ceremony
<1> QED
  BY <1>1, <1>2, <1>3, <1>4 DEF AliveInv, Alive

LEMMA StopDrainedAlive ==
    ASSUME Shape, Standing, Alive, svc # "gone", StopDrained
    PROVE  AliveInv'
<1>1. svc' = "gone" \/ "crossed" \in flaws' \/ (Alone' /\ OneMover' /\ CeremonyAlone' /\
      DrainOwned' /\ Drainers' /\ Closing' /\ Failing' /\ Unopened' /\
      ReadyMeansUnlocked' /\ AdmittedKeepApplication')
  BY PlaceOf DEF StopDrained, To, TakeApp, CloseReady, Draining, Serving, Alive, Alone,
     OneMover, CeremonyAlone, DrainOwned, Drainers, Closing, Failing, Unopened,
     ReadyMeansUnlocked, AdmittedKeepApplication, Shape, Roles, Moving, Ceremony
<1>2. svc' = "gone" \/ "crossed" \in flaws' \/ Attended'
  BY DEF StopDrained, To, TakeApp, CloseReady, Draining, Serving, Alive, Attended,
     Drainers, Shape, Scalars
<1> QED
  BY <1>1, <1>2 DEF AliveInv, Alive

LEMMA StopTakesAlive ==
    ASSUME Shape, Standing, Alive, svc # "gone", StopTakes
    PROVE  AliveInv'
<1>1. svc' = "gone" \/ "crossed" \in flaws' \/ (Alone' /\ OneMover' /\ CeremonyAlone' /\
      DrainOwned' /\ Drainers' /\ Closing' /\ Failing' /\ Unopened' /\ Attended' /\
      ReadyMeansUnlocked' /\ AdmittedKeepApplication')
  BY PlaceOf DEF StopTakes, To, TakeApp, Draining, Serving, Alive, Alone, OneMover,
     CeremonyAlone, DrainOwned, Drainers, Closing, Failing, Unopened, Attended,
     ReadyMeansUnlocked, AdmittedKeepApplication, Shape, Roles, Moving, Ceremony
<1> QED
  BY <1>1 DEF AliveInv, Alive

LEMMA StopClosesAlive ==
    ASSUME Shape, Standing, Alive, svc # "gone", StopCloses
    PROVE  AliveInv'
<1>1. svc' = "gone" \/ "crossed" \in flaws' \/ (Alone' /\ OneMover' /\ CeremonyAlone' /\
      DrainOwned' /\ Drainers' /\ Closing' /\ Failing' /\ Unopened' /\ Attended' /\
      ReadyMeansUnlocked' /\ AdmittedKeepApplication')
  BY DEF StopCloses, To, Draining, Serving, Alive, Alone, OneMover, CeremonyAlone,
     DrainOwned, Drainers, Closing, Failing, Unopened, Attended, ReadyMeansUnlocked,
     AdmittedKeepApplication, Moving, Ceremony
<1> QED
  BY <1>1 DEF AliveInv, Alive

\* While the service lives, every step keeps the invariant, unless by it a session
\* lock ends in the middle of a ceremony.
LEMMA StepKeepsAlive ==
    ASSUME Shape, Standing, Alive, svc # "gone",
           NEW a \in Actors \cup {"drain", "idle"}, Step(a)
    PROVE  AliveInv'
<1>1. ASSUME a \in Calls, CallStep(a) \/ Finish(a) \/ CancelCall(a)
      PROVE  AliveInv'
  BY <1>1, DispatchAlive, SoftBeginAlive, SoftUnlockAlive, SoftActivateAlive, BuiltAlive,
     UndoneAlive, FinishAlive, CancelCallAlive DEF CallStep, Activation
<1>2. ASSUME a \in Locks, RequestLock(a) \/ SessionEvent(a) \/ LockStep(a) \/ CancelLock(a)
      PROVE  AliveInv'
  BY <1>2, RequestLockAlive, SessionEventAlive, LockTurnAlive, LockDrainedAlive,
     LockClosesAlive, CancelLockAlive DEF LockStep
<1>3. ASSUME a \in Actors, BuildFails(a)
      PROVE  AliveInv'
  <2>1. a \in Calls \cup {"human", "start"}
    <3>1. "building" \in Place(a)
      BY <1>3 DEF BuildFails, Shape, Roles
    <3> QED
      BY <1>3, <3>1, PlaceOf DEF LockPlaces
  <2> QED
    BY <1>3, <2>1, BuildFailsAlive
<1>4. ASSUME Begin \/ Unlocks \/ UnlockFails \/ CeremonyEnds \/ CancelCeremony \/ HumanStep
             \/ StartStep
      PROVE  AliveInv'
  BY <1>4, BeginAlive, UnlocksAlive, UnlockFailsAlive, CeremonyEndsAlive,
     CancelCeremonyAlive, ActivateAlive, StartAlive, BuiltAlive, UndoneAlive
     DEF HumanStep, StartStep, Activation
<1>5. ASSUME Stop \/ StopStep \/ DrainStep \/ IdleRelock \/ IdleStop
      PROVE  AliveInv'
  BY <1>5, StopAlive, StopTurnAlive, StopDrainedAlive, StopTakesAlive, StopClosesAlive,
     DrainEmptyAlive, DrainClosesAlive, DrainDeadlineAlive, IdleRelockAlive, IdleStopAlive
     DEF StopStep, DrainStep
<1> QED
  BY <1>1, <1>2, <1>3, <1>4, <1>5, ConnectAlive DEF Step, Locks

\* History forgets nothing.
LEMMA FlawsStay ==
    ASSUME NEW a \in Actors \cup {"drain", "idle"}, Step(a), "crossed" \in flaws
    PROVE  "crossed" \in flaws'
<1>1. ASSUME Connect(a) \/ CallStep(a) \/ Finish(a) \/ CancelCall(a)
      PROVE  flaws' = flaws
  BY <1>1 DEF Connect, CallStep, Finish, CancelCall, Dispatch, SoftBegin, SoftUnlock, SoftActivate,
     SoftRefused, Activation, Built, Undone, Undo
<1>2. ASSUME RequestLock(a) \/ SessionEvent(a) \/ LockStep(a) \/ CancelLock(a)
      PROVE  "crossed" \in flaws'
  BY <1>2 DEF RequestLock, SessionEvent, LockStep, CancelLock, LockTurn, LockDrained, LockCloses,
     EndLock
<1>3. ASSUME BuildFails(a) \/ Begin \/ Unlocks \/ UnlockFails \/ CeremonyEnds \/ CancelCeremony
             \/ HumanStep \/ StartStep
      PROVE  flaws' = flaws
  BY <1>3 DEF BuildFails, Begin, Unlocks, UnlockFails, CeremonyEnds, CancelCeremony, HumanStep,
     StartStep, Activate, Activation, Built, Undone, Undo, Start
<1>4. ASSUME Stop \/ StopStep \/ IdleRelock \/ IdleStop
      PROVE  flaws' = flaws
  BY <1>4 DEF Stop, StopStep, StopTurn, StopDrained, StopTakes, StopCloses, IdleRelock, IdleStop
<1>5. ASSUME DrainStep
      PROVE  "crossed" \in flaws'
  BY <1>5 DEF DrainStep, DrainEmpty, DrainCloses, DrainDeadline
<1> QED
  BY <1>1, <1>2, <1>3, <1>4, <1>5 DEF Step

LEMMA InitAlive == Init => AliveInv
<1> SUFFICES ASSUME Init PROVE Alive
  BY DEF AliveInv
<1>1. \A a \in Actors : pc[a] = "idle"
  BY DEF Init
<1>2. \A a \in Locks \cup Calls \cup {"human", "stop", "start"} : pc[a] = "idle"
  BY <1>1 DEF Actors
<1> QED
  BY <1>2 DEF Init, Actors, Alive, Alone, OneMover, CeremonyAlone, DrainOwned, Drainers,
     Closing, Failing, Unopened, Attended, ReadyMeansUnlocked, AdmittedKeepApplication,
     Moving, Ceremony, Serving, Draining

LEMMA AliveStep ==
    ASSUME ShapeInv, Standing, AliveInv, [Next]_vars
    PROVE  AliveInv'
<1>1. CASE Next
  BY <1>1, NextIsStep, StepKeepsAlive, FlawsStay DEF ShapeInv, AliveInv
<1>2. CASE UNCHANGED vars
  BY <1>2 DEF vars, core, AliveInv, Alive, Alone, OneMover, CeremonyAlone, DrainOwned,
     Drainers, Closing, Failing, Unopened, Attended, ReadyMeansUnlocked,
     AdmittedKeepApplication, Moving, Ceremony, Serving, Draining, Actors, Locks
<1> QED
  BY <1>1, <1>2

\* The invariant of a service of which no session lock has ended in the middle of
\* a ceremony.
THEOREM AliveInvariance == Spec => []AliveInv
<1>1. ShapeInv /\ Standing /\ AliveInv /\ [Next]_vars => AliveInv'
  BY AliveStep
<1> QED
  BY <1>1, InitAlive, ShapeInvariance, StandingInvariance, PTL DEF Spec

\* Until a session lock has ended in the middle of a ceremony, whatever other locks,
\* overtaken activations, hung-up calls, idle relocks and stops come: a service that
\* says it is ready has its vault unlocked and the application of this vault
\* generation.
THEOREM ReadyIsUnlocked == Spec => []ReadyMeansUnlocked
<1>1. AliveInv => ReadyMeansUnlocked
  BY DEF AliveInv, Alive, ReadyMeansUnlocked
<1> QED
  BY <1>1, AliveInvariance, PTL

\* Until then, and until a drain has ended before its calls: none of any number of
\* locks, nor a drain, an idle relock or a stop before its last step takes the
\* application from an admitted call.
THEOREM AdmittedAreServed == Spec => []AdmittedKeepApplication
<1>1. AliveInv => AdmittedKeepApplication
  BY DEF AliveInv, Alive, AdmittedKeepApplication, Serving
<1> QED
  BY <1>1, AliveInvariance, PTL

\* Until a session lock has ended in the middle of a ceremony, also after a failed
\* drain: what says locked has closed its application and has no admitted call.
THEOREM LockedMeansClosed == Spec => []LockedIsClosed
<1>1. AliveInv => LockedIsClosed
  BY DEF AliveInv, Alive, Unopened, LockedIsClosed
<1> QED
  BY <1>1, AliveInvariance, PTL
=============================================================================
