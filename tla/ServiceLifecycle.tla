------------------------- MODULE ServiceLifecycle -------------------------
(***************************************************************************)
(* The state of the per-user service and its vault, and everybody who      *)
(* moves them: the start of the daemon, ordinary calls (which re-ready the  *)
(* service after a soft lock), the human's unlock ceremony, lock requests  *)
(* of three kinds, the idle monitor, and stop.                             *)
(*                                                                         *)
(* The activation lock is first come, first served; the lifecycle and the  *)
(* vault mutexes are never held across a suspension, so what is done under *)
(* them between two awaits is one step.  Passphrase mode: vault.unlock has *)
(* no await inside.  The dispatch gates, which only let fewer calls run at *)
(* a time, are left out.                                                   *)
(***************************************************************************)
EXTENDS Naturals, Sequences

CONSTANTS
    Calls,          \* ordinary calls, each on a connection of its own
    Explicit,       \* SERVICE_LOCK calls, each on a connection of its own
    Session,        \* events of the session monitor: user_session_locked, system_suspend
    Lost,           \* its monitor_lost, which counts as an explicit lock
    AutoUnlock,     \* whether the vault was unlocked before the daemon starts
    RetryLimit,     \* _SOFT_REREADY_ACTIVATION_RETRY_LIMIT
    MaxFailures,    \* bound: ready applications that fail to build
    MaxCancels,     \* bound: connections that go away in mid-call
    MaxCeremonies,  \* bound: unlock ceremonies
    Meetings,       \* bound: the sets of locks, and "stop", that may come in one behaviour
    Deadlines,      \* whether a drain may run into its deadline
    Idles,          \* whether the idle monitor may fire
    Stops           \* whether the service may be stopped

ASSUME LifecycleAssumption ==
    /\ Calls \cap (Explicit \cup Session \cup Lost) = {}
    /\ Explicit \cap (Session \cup Lost) = {} /\ Session \cap Lost = {}
    /\ (Calls \cup Explicit \cup Session \cup Lost) \cap {"human", "stop", "start"} = {}
    /\ {RetryLimit, MaxFailures, MaxCancels, MaxCeremonies} \subseteq Nat
    /\ {AutoUnlock, Deadlines, Idles, Stops} \subseteq BOOLEAN

VARIABLES
    svc,        \* ServiceState of the lifecycle, "gone" once the process has ended
    vault,      \* VaultState: "locked", "ready" or "closed"
    gen,        \* the vault's generation
    app,        \* vault generation of the installed ready application, 0 if none
    reason,     \* _state_reason: "none", "soft" (idle, session) or "hard"
    fails,      \* _soft_reready_activation_failures
    admitted,   \* the lifecycle's admissions
    act,        \* _activation_lock: its holder, then those waiting for it
    ran,        \* the tasks that ran since one that has the lock was woken
    drain,      \* the drain task: "off", "wait", "closing" or "failed"; and whether it is a stop
    pc,         \* where each actor is
    cap,        \* the vault generation an actor activates
    held,       \* history: the last lock that nothing has lifted that may lift it, see EndLock
    flaws,      \* history: "crossed", a session lock ended in mid-ceremony; "undrained", a
                \* drain ended before its calls did
    spent       \* bounds used up

core == <<svc, vault, gen, app>>
vars == <<core, reason, fails, admitted, act, ran, drain, pc, cap, held, flaws, spent>>

Locks == Explicit \cup Session \cup Lost
Actors == Calls \cup Locks \cup {"human", "stop", "start"}

Init ==
    /\ svc = "starting" /\ gen = 1 /\ app = 0
    /\ vault = IF AutoUnlock THEN "ready" ELSE "locked"
    /\ reason = "none" /\ fails = 0 /\ admitted = {} /\ act = <<>> /\ ran = {}
    /\ drain = [pc |-> "off", stop |-> FALSE]
    /\ pc = [a \in Actors |-> "idle"] /\ cap = [a \in Actors |-> 0]
    /\ held = "none" /\ flaws = {}
    /\ spent = [failures |-> 0, cancels |-> 0, ceremonies |-> 0]

-----------------------------------------------------------------------------
\* Small effects

To(a, where) == pc' = [pc EXCEPT ![a] = where]
\* a wants the activation lock; a free lock is had without a suspension
Join(a) ==
    /\ act' = Append(act, a)
    /\ To(a, IF act = <<>> THEN "granted" ELSE "queued")
\* a has the activation lock and goes on
Turn(a) == act # <<>> /\ Head(act) = a /\ pc[a] \in {"queued", "granted"}
\* the queue after a, who is in it at most once, has left it
Without(a) ==
    LET at == CHOOSE i \in 1..Len(act) : act[i] = a
    IN  IF \E i \in 1..Len(act) : act[i] = a
        THEN SubSeq(act, 1, at - 1) \o SubSeq(act, at + 1, Len(act)) ELSE act
Started == pc["start"] = "done" /\ svc # "gone"
MayCome(a) ==
    \E m \in Meetings : a \in m /\ \A b \in (Locks \cup {"stop"}) \ m : pc[b] = "idle"

\* VaultService.lock
LockVault ==
    /\ vault' = IF vault = "ready" THEN "locked" ELSE vault
    /\ gen' = IF vault = "ready" THEN gen + 1 ELSE gen
\* _release_unlocking and its like: only UNLOCKING goes back to LOCKED
Relocked == IF svc = "unlocking" THEN "locked" ELSE svc

-----------------------------------------------------------------------------
\* _activate_ready_application_locked, by the actor that holds the lock

MayActivate(a) == svc = "unlocking" /\ vault = "ready" /\ gen = cap[a] /\ app = 0

\* Mutant: the vault stays unlocked when the application cannot be built.
UndoKeepsKeys(a) ==
    /\ svc' = IF a = "start" THEN "gone" ELSE Relocked
    /\ reason' = "hard"
    /\ act' = Without(a)
    /\ To(a, "done")
    /\ UNCHANGED <<vault, gen, app, fails, admitted, drain, cap, held, flaws, spent>>

\* the failure path: the vault is locked again, UNLOCKING becomes LOCKED, and
\* a soft re-ready may keep its reason for a number of attempts
Undo(a) ==
    /\ LockVault
    /\ svc' = IF a = "start" THEN "gone" ELSE Relocked
    /\ IF a \in Calls /\ fails < RetryLimit
       THEN reason' = "soft" /\ fails' = fails + 1
       ELSE reason' = "hard" /\ UNCHANGED fails
    /\ act' = Without(a)
    /\ To(a, "done")
    /\ UNCHANGED <<app, admitted, drain, cap, held, flaws, spent>>

\* The application is built; it is installed if nothing has moved meanwhile.
\* The call that built it is admitted in the same breath.
Built(a) ==
    /\ pc[a] = "building"
    /\ IF svc = "unlocking" /\ vault = "ready" /\ gen = cap[a]
       THEN /\ app' = cap[a] /\ svc' = "ready" /\ reason' = "none" /\ fails' = 0
            /\ held' = IF a = "human" THEN "none" ELSE held
            /\ act' = Without(a)
            /\ IF a \in Calls THEN To(a, "admitted") /\ admitted' = admitted \cup {a}
                              ELSE To(a, "done") /\ UNCHANGED admitted
            /\ UNCHANGED <<vault, gen, drain, cap, flaws, spent>>
       ELSE /\ To(a, "undoing")
            /\ UNCHANGED <<core, reason, fails, admitted, act, drain, cap, held, flaws, spent>>

\* The ready application cannot be built.
BuildFails(a) ==
    /\ pc[a] = "building" /\ spent.failures < MaxFailures
    /\ spent' = [spent EXCEPT !.failures = @ + 1]
    /\ To(a, "undoing")
    /\ UNCHANGED <<core, reason, fails, admitted, act, drain, cap, held, flaws>>

\* Mutant: the activation lock is not given back.
UndoneKeepsLock(a) ==
    /\ pc[a] = "undoing"
    /\ LockVault /\ svc' = Relocked /\ reason' = "hard" /\ To(a, "done")
    /\ UNCHANGED <<app, fails, admitted, act, drain, cap, held, flaws, spent>>

\* the half-built application has been closed
Undone(a) == pc[a] = "undoing" /\ Undo(a)

-----------------------------------------------------------------------------
\* start

\* Locked, or with a vault unlocked beforehand on to UNLOCKING and activation.
Start ==
    /\ svc = "starting" /\ pc["start"] = "idle"
    /\ IF vault = "ready"
       THEN /\ svc' = "unlocking" /\ To("start", "building") /\ act' = Append(act, "start")
            /\ cap' = [cap EXCEPT !["start"] = gen]
            /\ UNCHANGED reason
       ELSE /\ svc' = "locked" /\ To("start", "done") /\ reason' = "hard"
            /\ UNCHANGED <<act, cap>>
    /\ UNCHANGED <<vault, gen, app, fails, admitted, drain, held, flaws, spent>>

-----------------------------------------------------------------------------
\* Ordinary calls

\* client_connected refuses while the service drains or has failed; so it does
\* with a SERVICE_LOCK call.
Connect(c) ==
    /\ Started /\ pc[c] = "idle" /\ (c \in Explicit => MayCome(c))
    /\ To(c, IF svc \in {"draining", "failed"} THEN "done" ELSE "connected")
    /\ UNCHANGED <<core, reason, fails, admitted, act, drain, cap, held, flaws, spent>>

\* _dispatch_ready_under_maintenance_gate up to its first suspension: admitted
\* to the installed application, refused, or off to re-ready a soft lock.
Dispatch(c) ==
    /\ pc[c] = "connected" /\ svc # "gone"
    /\ IF app # 0
       THEN /\ IF svc = "ready" THEN To(c, "admitted") /\ admitted' = admitted \cup {c}
                                ELSE To(c, "done") /\ UNCHANGED admitted
            /\ UNCHANGED act
       ELSE /\ IF reason = "soft" /\ svc = "locked"
               THEN Join(c)
               ELSE To(c, "done") /\ UNCHANGED act
            /\ UNCHANGED admitted
    /\ UNCHANGED <<core, reason, fails, drain, cap, held, flaws, spent>>

\* Mutant: the reason is not read again under the activation lock.
SoftBeginStale(c) ==
    /\ Turn(c)
    /\ IF svc = "locked" /\ app = 0
       THEN /\ svc' = "unlocking" /\ To(c, "loading")
            /\ held' = IF held \in {"soft", "dropped"} THEN "none" ELSE held
            /\ UNCHANGED act
       ELSE /\ To(c, "done") /\ act' = Without(c)
            /\ UNCHANGED <<svc, held>>
    /\ UNCHANGED <<vault, gen, app, reason, fails, admitted, drain, cap, flaws, spent>>

\* _try_soft_lock_auto_ready, under the activation lock: everything is looked
\* at again.  A call that finds the application installed is admitted to it.
SoftBegin(c) ==
    /\ Turn(c)
    /\ IF reason = "soft" /\ svc = "locked" /\ app = 0
       THEN /\ svc' = "unlocking" /\ To(c, "loading")
            /\ held' = IF held \in {"soft", "dropped"} THEN "none" ELSE held
            /\ UNCHANGED <<act, admitted>>
       ELSE /\ IF app # 0 /\ svc = "ready"
               THEN To(c, "admitted") /\ admitted' = admitted \cup {c}
               ELSE To(c, "done") /\ UNCHANGED admitted
            /\ act' = Without(c)
            /\ UNCHANGED <<svc, held>>
    /\ UNCHANGED <<vault, gen, app, reason, fails, drain, cap, flaws, spent>>

\* a soft re-ready without usable credential, or that finds the vault unlocked
\* by somebody else: back to LOCKED, for a hard reason
SoftRefused(c) ==
    /\ svc' = Relocked /\ reason' = "hard"
    /\ To(c, "done") /\ act' = Without(c)
    /\ UNCHANGED <<vault, gen, app, fails, admitted, drain, cap, held, flaws, spent>>

\* The stored passphrase has been read (_soft_unlock_passphrase_locked).
SoftUnlock(c) ==
    /\ pc[c] = "loading"
    /\ \/ SoftRefused(c)
       \/ /\ vault = "locked"
          /\ vault' = "ready" /\ gen' = gen + 1
          /\ To(c, "reconciling")
          /\ UNCHANGED <<svc, app, reason, fails, admitted, act, drain, cap, held, flaws, spent>>

\* The stored slots are reconciled; the application is built.
SoftActivate(c) ==
    /\ pc[c] = "reconciling"
    /\ IF vault # "ready" THEN SoftRefused(c)
       ELSE IF svc = "unlocking" /\ app = 0
       THEN /\ To(c, "building") /\ cap' = [cap EXCEPT ![c] = gen]
            /\ UNCHANGED <<core, reason, fails, admitted, act, drain, held, flaws, spent>>
       ELSE Undo(c)

\* The handler returns and the admission is released.
Finish(c) ==
    /\ pc[c] = "admitted"
    /\ admitted' = admitted \ {c}
    /\ To(c, "done")
    /\ UNCHANGED <<core, reason, fails, act, drain, cap, held, flaws, spent>>

\* The connection goes away and the call is cancelled where it waits.  The
\* re-ready catches errors, not cancellation: only a call that is building has
\* its unlock taken back; while the half-built application closes, the rest of
\* the failure path is skipped.
CancelCall(c) ==
    /\ spent.cancels < MaxCancels
    /\ pc[c] \in {"queued", "loading", "reconciling", "building", "undoing", "admitted"}
    /\ spent' = [spent EXCEPT !.cancels = @ + 1]
    /\ To(c, "done") /\ act' = Without(c) /\ admitted' = admitted \ {c}
    /\ IF pc[c] = "building"
       THEN LockVault /\ svc' = Relocked /\ reason' = "hard"
       ELSE UNCHANGED <<svc, vault, gen, reason>>
    /\ UNCHANGED <<app, fails, drain, cap, held, flaws>>

-----------------------------------------------------------------------------
\* The unlock ceremony

\* begin_passphrase_unlock
Begin ==
    /\ Started /\ pc["human"] \in {"idle", "done"} /\ spent.ceremonies < MaxCeremonies
    /\ svc = "locked" /\ vault # "closed"
    /\ svc' = "unlocking"
    /\ To("human", "typing")
    /\ spent' = [spent EXCEPT !.ceremonies = @ + 1]
    /\ UNCHANGED <<vault, gen, app, reason, fails, admitted, act, drain, cap, held, flaws>>

\* complete_passphrase_unlock with the right passphrase: on to the activation,
\* or, if the service has left UNLOCKING, the vault is locked again at once.
Unlocks ==
    /\ pc["human"] = "typing" /\ vault = "locked"
    /\ IF svc = "unlocking"
       THEN /\ vault' = "ready" /\ gen' = gen + 1
            /\ cap' = [cap EXCEPT !["human"] = gen + 1]
            /\ Join("human")
       ELSE /\ gen' = gen + 2 /\ To("human", "done")
            /\ UNCHANGED <<vault, cap, act>>
    /\ UNCHANGED <<svc, app, reason, fails, admitted, drain, held, flaws, spent>>

\* A wrong passphrase, or a vault that is already unlocked or closed: the
\* service is sent to LOCKED, from UNLOCKING or from DRAINING alike.
UnlockFails ==
    /\ pc["human"] = "typing"
    /\ svc' = IF svc \in {"unlocking", "draining"} THEN "locked" ELSE svc
    /\ To("human", "done")
    /\ UNCHANGED <<vault, gen, app, reason, fails, admitted, act, drain, cap, held, flaws, spent>>

\* The human goes away, or the ceremony expires.
CeremonyEnds ==
    /\ pc["human"] = "typing"
    /\ svc' = Relocked
    /\ To("human", "done")
    /\ UNCHANGED <<vault, gen, app, reason, fails, admitted, act, drain, cap, held, flaws, spent>>

\* ... while the activation waits, builds or closes what it has built: the unlock
\* is rolled back.
CancelCeremony ==
    /\ spent.cancels < MaxCancels
    /\ pc["human"] \in {"queued", "building", "undoing"}
    /\ spent' = [spent EXCEPT !.cancels = @ + 1]
    /\ LockVault /\ svc' = Relocked
    /\ reason' = IF pc["human"] = "building" THEN "hard" ELSE reason
    /\ act' = Without("human") /\ To("human", "done")
    /\ UNCHANGED <<app, fails, admitted, drain, cap, held, flaws>>

Activate ==
    /\ Turn("human")
    /\ IF MayActivate("human")
       THEN /\ To("human", "building")
            /\ UNCHANGED <<core, reason, fails, admitted, act, drain, cap, held, flaws, spent>>
       ELSE Undo("human")

-----------------------------------------------------------------------------
\* The drain task

Draining == drain.pc \in {"wait", "closing"}

BeginDrain(stop) == svc' = "draining" /\ drain' = [pc |-> "wait", stop |-> stop]

\* _close_ready_locked takes the application away; an idle relock is a soft one
TakeApp ==
    /\ app' = 0
    /\ reason' = IF app # 0 /\ reason = "none" THEN "soft" ELSE reason

\* Mutant: the drain does not wait for the calls under way.
DrainAtOnce ==
    /\ drain.pc = "wait"
    /\ TakeApp
    /\ drain' = [drain EXCEPT !.pc = "closing"]
    /\ UNCHANGED <<svc, vault, gen, fails, admitted, act, pc, cap, held, flaws, spent>>

\* No admission is left: the ready composition is closed.
DrainEmpty ==
    /\ drain.pc = "wait" /\ admitted = {}
    /\ TakeApp
    /\ drain' = [drain EXCEPT !.pc = "closing"]
    /\ UNCHANGED <<svc, vault, gen, fails, admitted, act, pc, cap, held, flaws, spent>>

DrainCloses ==
    /\ drain.pc = "closing"
    /\ LockVault
    /\ svc' = IF drain.stop THEN "draining" ELSE "locked"
    /\ drain' = [drain EXCEPT !.pc = "off"]
    /\ UNCHANGED <<app, reason, fails, admitted, act, pc, cap, held, flaws, spent>>

\* Mutant: the drain has no deadline.
DrainForever == drain.pc = "deadline" /\ UNCHANGED vars

\* A call outlasts the drain: nothing is closed, the service has failed.
DrainDeadline ==
    /\ Deadlines /\ drain.pc = "wait" /\ admitted # {}
    /\ svc' = "failed"
    /\ drain' = [drain EXCEPT !.pc = "failed"]
    /\ flaws' = flaws \cup {"undrained"}
    /\ UNCHANGED <<vault, gen, app, reason, fails, admitted, act, pc, cap, held, spent>>

-----------------------------------------------------------------------------
\* Locks: SERVICE_LOCK calls on the control channel, and session events

RequestLock(l) ==
    /\ pc[l] = "connected" /\ svc # "gone"
    /\ Join(l)
    /\ UNCHANGED <<core, reason, fails, admitted, drain, cap, held, flaws, spent>>

\* An event that comes while the daemon starts is dropped; after monitor_lost
\* none comes.
SessionEvent(l) ==
    /\ pc[l] = "idle" /\ MayCome(l) /\ \A m \in Lost : pc[m] = "idle"
    /\ IF Started THEN Join(l) /\ UNCHANGED held
                  ELSE To(l, "done") /\ held' = "dropped" /\ UNCHANGED act
    /\ UNCHANGED <<core, reason, fails, admitted, drain, cap, flaws, spent>>

Ceremony == {"typing", "queued", "granted", "building", "undoing"}

\* Mutant: a lock publishes its reason only where there was none.
EndLockKeepsReason(l) ==
    /\ reason' = IF reason # "none" THEN reason ELSE IF l \in Session THEN "soft" ELSE "hard"
    /\ held' = IF l \notin Session THEN "hard"
               ELSE IF held \in {"hard", "overwritten"} THEN "overwritten" ELSE "soft"
    /\ flaws' = IF l \in Session /\ pc["human"] \in Ceremony
                THEN flaws \cup {"crossed"} ELSE flaws
    /\ To(l, "done") /\ act' = Without(l)

\* The lock is done: its reason is published, whatever was there before.  A
\* session lock overwrites the hard reason of an explicit one.
EndLock(l) ==
    /\ reason' = IF l \in Session THEN "soft" ELSE "hard"
    /\ held' = IF l \notin Session THEN "hard"
               ELSE IF held \in {"hard", "overwritten"} THEN "overwritten" ELSE "soft"
    /\ flaws' = IF l \in Session /\ pc["human"] \in Ceremony
                THEN flaws \cup {"crossed"} ELSE flaws
    /\ To(l, "done") /\ act' = Without(l)

\* Mutant: a ready service is closed without a drain.
LockTurnAbrupt(l) ==
    /\ Turn(l)
    /\ LockVault /\ svc' = "locked" /\ app' = 0 /\ EndLock(l)
    /\ UNCHANGED <<fails, admitted, drain, cap, spent>>

LockTurn(l) ==
    /\ Turn(l)
    /\ IF svc = "ready"
       THEN /\ BeginDrain(FALSE) /\ To(l, "draining")
            /\ UNCHANGED <<vault, gen, app, reason, act, held, flaws>>
       ELSE /\ svc' = Relocked
            /\ IF app = 0
               THEN LockVault /\ EndLock(l) /\ UNCHANGED <<app, drain>>
               ELSE /\ TakeApp /\ To(l, "closing")
                    /\ IF svc = "unlocking" THEN LockVault ELSE UNCHANGED <<vault, gen>>
                    /\ UNCHANGED <<act, drain, held, flaws>>
    /\ UNCHANGED <<fails, admitted, cap, spent>>

\* The drain it waited for has ended; if it failed, so does the lock.
LockDrained(l) ==
    /\ pc[l] = "draining" /\ ~Draining
    /\ IF drain.pc = "failed"
       THEN /\ To(l, "done") /\ act' = Without(l)
            /\ UNCHANGED <<vault, gen, app, reason, held, flaws>>
       ELSE LockVault /\ EndLock(l) /\ app' = 0
    /\ UNCHANGED <<svc, fails, admitted, drain, cap, spent>>

LockCloses(l) ==
    /\ pc[l] = "closing"
    /\ LockVault /\ EndLock(l)
    /\ UNCHANGED <<svc, app, fails, admitted, drain, cap, spent>>

\* The connection of a SERVICE_LOCK goes away.  It awaits the drain task itself,
\* which is cancelled with it and leaves the service draining.
CancelLock(l) ==
    /\ spent.cancels < MaxCancels
    /\ pc[l] \in {"queued", "draining", "closing"}
    /\ spent' = [spent EXCEPT !.cancels = @ + 1]
    /\ To(l, "done") /\ act' = Without(l)
    /\ IF pc[l] = "draining" /\ Draining
       THEN /\ drain' = [drain EXCEPT !.pc = "off"]
            /\ flaws' = IF admitted # {} THEN flaws \cup {"undrained"} ELSE flaws
       ELSE UNCHANGED <<drain, flaws>>
    /\ UNCHANGED <<core, reason, fails, admitted, cap, held>>

-----------------------------------------------------------------------------
\* The idle monitor and stop

NoClients ==
    /\ admitted = {}
    /\ \A a \in Calls \cup Explicit \cup {"human"} : pc[a] \in {"idle", "done"}

\* the drain of an idle relock is not under the activation lock
IdleRelock ==
    /\ Idles /\ Started /\ svc = "ready" /\ NoClients
    /\ BeginDrain(FALSE)
    /\ UNCHANGED <<vault, gen, app, reason, fails, admitted, act, pc, cap, held, flaws, spent>>

\* The process has been idle: the lifecycle drains, then the daemon stops.
IdleStop ==
    /\ Stops /\ Idles /\ Started /\ pc["stop"] = "idle" /\ MayCome("stop") /\ NoClients
    /\ To("stop", "idling")
    /\ IF Draining \/ svc = "unlocking" THEN UNCHANGED <<svc, drain>> ELSE BeginDrain(TRUE)
    /\ UNCHANGED <<vault, gen, app, reason, fails, admitted, act, cap, held, flaws, spent>>

Stop ==
    /\ Stops /\ Started
    /\ (pc["stop"] = "idle" /\ MayCome("stop")) \/ (pc["stop"] = "idling" /\ ~Draining)
    /\ reason' = "hard"
    /\ Join("stop")
    /\ UNCHANGED <<core, fails, admitted, drain, cap, held, flaws, spent>>

\* _close_components: the activation lock is given back and taken again, behind
\* those who wait for it; if nobody does the application is closed at once.
CloseReady ==
    /\ act' = Append(Without("stop"), "stop")
    /\ IF Without("stop") = <<>>
       THEN TakeApp /\ To("stop", "closing")
       ELSE To("stop", "requeued") /\ UNCHANGED <<app, reason>>

StopTurn ==
    /\ Turn("stop")
    /\ IF svc = "unlocking" THEN LockVault ELSE UNCHANGED <<vault, gen>>
    /\ IF svc = "draining"
       THEN CloseReady /\ UNCHANGED <<svc, drain>>
       ELSE /\ IF Draining THEN svc' = Relocked /\ UNCHANGED drain ELSE BeginDrain(TRUE)
            /\ To("stop", "draining") /\ UNCHANGED <<app, reason, act>>
    /\ UNCHANGED <<fails, admitted, cap, held, flaws, spent>>

\* A stop whose drain fails is an error, and the process ends with it.
StopDrained ==
    /\ pc["stop"] = "draining" /\ ~Draining
    /\ IF drain.pc = "failed"
       THEN svc' = "gone" /\ To("stop", "done") /\ UNCHANGED <<app, reason, act>>
       ELSE CloseReady /\ UNCHANGED svc
    /\ UNCHANGED <<vault, gen, fails, admitted, drain, cap, held, flaws, spent>>

StopTakes ==
    /\ pc["stop"] = "requeued" /\ act # <<>> /\ Head(act) = "stop"
    /\ TakeApp /\ To("stop", "closing")
    /\ UNCHANGED <<svc, vault, gen, fails, admitted, act, drain, cap, held, flaws, spent>>

StopCloses ==
    /\ pc["stop"] = "closing"
    /\ vault' = "closed" /\ gen' = gen + 1 /\ svc' = "gone"
    /\ To("stop", "done") /\ act' = Without("stop")
    /\ UNCHANGED <<app, reason, fails, admitted, drain, cap, held, flaws, spent>>

-----------------------------------------------------------------------------
Activation(a) == Built(a) \/ Undone(a)
CallStep(c) ==
    \/ Dispatch(c) \/ SoftBegin(c) \/ SoftUnlock(c) \/ SoftActivate(c)
    \/ Activation(c)
LockStep(l) == LockTurn(l) \/ LockDrained(l) \/ LockCloses(l)
StopStep == StopTurn \/ StopDrained \/ StopTakes \/ StopCloses
HumanStep == Activate \/ Activation("human")
StartStep == Start \/ Activation("start")
DrainStep == DrainEmpty \/ DrainCloses \/ DrainDeadline

Step(a) ==
    \/ a \in Calls /\ (Connect(a) \/ CallStep(a) \/ Finish(a) \/ CancelCall(a))
    \/ a \in Explicit /\ (Connect(a) \/ RequestLock(a) \/ LockStep(a) \/ CancelLock(a))
    \/ a \in Session \cup Lost /\ (SessionEvent(a) \/ LockStep(a))
    \/ a \in Actors /\ BuildFails(a)
    \/ a = "human" /\ (Begin \/ Unlocks \/ UnlockFails \/ CeremonyEnds
                          \/ CancelCeremony \/ HumanStep)
    \/ a = "start" /\ StartStep
    \/ a = "stop" /\ (Stop \/ StopStep)
    \/ a = "drain" /\ DrainStep
    \/ a = "idle" /\ (IdleRelock \/ IdleStop)

\* The event loop.  Whoever takes a free activation lock goes on before anybody
\* else.  A task whose wait for the lock or for a drain is over runs after the
\* tasks that are ready to run by then, each of which runs at most once before
\* it: what else they wait for is input, another thread or a store.
Woken ==
    {a \in Actors : /\ act # <<>> /\ Head(act) = a
                    /\ pc[a] \in {"queued", "requeued"} \/ (pc[a] = "draining" /\ ~Draining)}
Runs(a) ==
    /\ a \notin ran \ Woken
    /\ (\E b \in Actors : pc[b] = "granted") => Turn(a)
    /\ Step(a)
    /\ ran' = IF Woken' = {} THEN {} ELSE ran \cup {a}

Next == svc # "gone" /\ \E a \in Actors \cup {"drain", "idle"} : Runs(a)

Spec == Init /\ [][Next]_vars

\* The event loop runs every task that can go on, and timers fire; nobody
\* need come, and no handler need return.
Waits == {"idle", "done", "connected", "admitted", "typing"}
Goes(a) == a \in {"start", "drain"} \/ (a \in Actors /\ pc[a] \notin Waits \ {"connected"})
Fairness ==
    \A a \in Actors \cup {"drain"} : WF_vars(svc # "gone" /\ Goes(a) /\ Runs(a))
FairSpec == Spec /\ Fairness

-----------------------------------------------------------------------------
\* Properties

\* The shape of the service's state and of the actors that move it.
TypeOK ==
    /\ svc \in {"starting", "locked", "unlocking", "ready", "draining", "failed", "gone"}
    /\ vault \in {"locked", "ready", "closed"} /\ gen \in Nat /\ app \in Nat
    /\ reason \in {"none", "soft", "hard"} /\ fails \in 0..RetryLimit
    /\ admitted \subseteq Calls /\ act \in Seq(Actors) /\ ran \subseteq Actors \cup {"drain", "idle"}
    /\ drain \in [pc : {"off", "wait", "closing", "failed"}, stop : BOOLEAN]
    /\ pc \in [Actors -> Waits \cup
                {"queued", "granted", "loading", "reconciling", "building", "undoing", "draining",
                 "closing", "idling", "requeued"}]
    /\ cap \in [Actors -> Nat]
    /\ held \in {"none", "soft", "hard", "overwritten", "dropped"}
    /\ flaws \subseteq {"crossed", "undrained"}
    /\ spent \in [failures : Nat, cancels : Nat, ceremonies : Nat]

\* until the last step of a stop, which closes everything as it stands
Serving == pc["stop"] # "closing" /\ svc # "gone"

\* A service that says it is ready has its vault unlocked and an application
\* built for exactly this vault generation: no rollback of a call or of a ceremony
\* that a lock, a stop or somebody's hanging up has overtaken locks the vault
\* under it (_activate_ready_application_locked, _rollback_ready_failure).  The
\* promise ends when a session lock has ended in the middle of a ceremony: its
\* reason lets a call make the service ready before the ceremony rolls back.
ReadyMeansUnlocked ==
    "crossed" \notin flaws /\ svc = "ready" /\ Serving => vault = "ready" /\ app = gen

\* When nobody is at work on the service, nobody has hung up in mid-call and no
\* drain has failed, the vault's keys are in memory only if the service is
\* ready (ADR-008: a lock clears the in-process keys).
KeysNeedReady ==
    /\ \A a \in Actors : pc[a] \in {"idle", "done", "connected", "typing"}
    /\ ~Draining /\ drain.pc # "failed" /\ spent.cancels = 0 /\ vault = "ready"
    => svc \in {"ready", "starting", "gone"}

\* daemon.py on a failed re-ready: the service does not stay as it is until a
\* manual ceremony, so somebody is about to move an unlocking service on.
UnlockingIsOwned ==
    svc = "unlocking" => \E a \in Actors :
        pc[a] \in {"typing", "loading", "reconciling", "building", "undoing"}
            \/ (a = "human" /\ pc[a] \in {"queued", "granted"})

\* The service says locked only when the application is closed and no call is
\* still admitted to it; until a session lock has ended in the middle of a
\* ceremony, which may then fail beside a ready service.
LockedIsClosed == "crossed" \notin flaws /\ svc = "locked" => app = 0 /\ admitted = {}

\* The application a call has been admitted to is not closed under it: drain(),
\* lock() and the idle relock wait for the admissions.  The promise ends when a
\* drain has ended before its calls, by its deadline or by a lost connection, since
\* the next lock or stop closes what it finds; and with a crossed session lock.
AdmittedKeepApplication == flaws = {} /\ admitted # {} /\ Serving => app # 0

\* ADR-008 and _try_soft_lock_auto_ready: after a lock the service is not ready
\* until something that may lift that lock has run: a re-ready or a ceremony after
\* a session lock, only a ceremony after an explicit one; an event that comes
\* while the daemon starts is no exception.
LockHolds == svc = "ready" => held = "none"

\* As LockHolds, for the last lock that has ended: whatever re-ready or ceremony
\* was under way or waited when lock() wrote its reason, after a session lock it is
\* a re-ready or a ceremony that makes the service ready, after a SERVICE_LOCK or
\* monitor_lost only a ceremony.
LastLockHolds == svc = "ready" => held \notin {"soft", "hard"}

\* A lock request ends: nothing holds the activation lock for ever.
LockEnds ==
    \A l \in Locks : pc[l] \in {"queued", "granted"} ~> pc[l] = "done" \/ svc = "gone"

\* A stop ends the process, whatever call, ceremony or drain is under way.
StopEnds == (pc["stop"] \in {"granted", "queued", "idling"}) ~> (svc = "gone")
=============================================================================
