--------------------------- MODULE BundleRuntime ---------------------------
(***************************************************************************)
(* LocalBundleRuntime for one task: the cached entry that holds the open   *)
(* bundle, the opening tasks that build entries, the calls that lease the  *)
(* entry for a session (a payload read, a write, or a start that provisions *)
(* the bundle for a new session), and the bundle's owner generation, which *)
(* another service process may take over.                                  *)
(*                                                                         *)
(* The cache lock is never held across a suspension, so what the code does *)
(* under it is one step; every await (inspection, the opening, the fence   *)
(* validation, the wait for a rebind, the handler) ends a step, and a call *)
(* may be cancelled there.  Generation and nonce of the owner row change   *)
(* together in one transaction and are one number here.                    *)
(***************************************************************************)
EXTENDS Naturals, Sequences, FiniteSets

CONSTANTS
    Calls,          \* the invocations
    Kind,           \* Kind[c]: "read", "write" or "start"
    Session,        \* Session[c]: the session the call is for
    Repeating,      \* calls that come back once answered
    MaxEntries,     \* bound: entries ever opened
    MaxWrites,      \* bound: entries of the log
    MaxCancels,     \* bound: cancelled calls
    MaxEvictions,   \* bound: idle evictions caused by other tasks
    MaxTakeovers,   \* bound: takeovers by another service process
    Limits,         \* whether the opening limit of the repository may be reached
    Closes,         \* whether the runtime may be closed
    NONE            \* no entry

ASSUME RuntimeAssumption ==
    /\ IsFiniteSet(Calls)
    /\ Kind \in [Calls -> {"read", "write", "start"}]
    /\ Repeating \subseteq Calls
    /\ {MaxEntries, MaxWrites, MaxCancels, MaxEvictions, MaxTakeovers} \subseteq Nat
    /\ Limits \in BOOLEAN /\ Closes \in BOOLEAN
    /\ NONE \notin Nat

VARIABLES
    owner,      \* owner_generation in bundle_meta
    log,        \* the owner generations under which the bundle was written
    fence,      \* _active_fences[ledger path] of this process, or NONE
    entry,      \* the entries this runtime has opened or is opening
    cached,     \* _entries[task], or NONE
    opening,    \* _opening[task], or NONE
    closed,     \* the runtime has been closed
    full,       \* other tasks of the repository fill the opening limit
    call,       \* the calls
    spent       \* faults used up, and the generation another process acquired last

bundle == <<owner, log>>
cache == <<cached, opening, closed>>
vars == <<bundle, fence, entry, cache, full, call, spent>>

Ids == 1..MaxEntries
Sessions == {Session[c] : c \in Calls}
Needs(c) == IF Kind[c] = "read" THEN "read" ELSE "write"

Unused == [st |-> "unused", session |-> NONE, auth |-> "read", seen |-> 0, fence |-> NONE,
           pending |-> 0, usages |-> 0, waiters |-> 0, poisoned |-> FALSE,
           shut |-> "no", recovered |-> FALSE]
Idle == [pc |-> "idle", seen |-> 0, e |-> NONE, out |-> "none"]

Init ==
    /\ owner = 0 /\ log = <<>>
    /\ fence = NONE
    /\ entry = [i \in Ids |-> Unused]
    /\ cached = NONE /\ opening = NONE /\ closed = FALSE
    /\ full = FALSE
    /\ call = [c \in Calls |-> Idle]
    /\ spent = [cancels |-> 0, evictions |-> 0, takeovers |-> 0, foreign |-> 0]

-----------------------------------------------------------------------------
\* Answers and small steps of a call

Answered(c, out) == [call EXCEPT ![c].pc = "done", ![c].out = out]
At(c, pc, e) == [call EXCEPT ![c].pc = pc, ![c].e = e]

\* release of the pending claim, on every exit path of _lease
Unclaim(es, e) == [es EXCEPT ![e].pending = @ - 1]
\* Mutant: an entry leaves the cache and is not closed.
DiscardForgets(es, e) == [es EXCEPT ![e].poisoned = TRUE]

\* an entry leaves the cache and is closed by whoever removed it (_close_entry)
Discard(es, e) ==
    [es EXCEPT ![e].poisoned = TRUE, ![e].shut = IF @ = "no" THEN "asked" ELSE @]

Authorized(e, c) == Needs(c) = "write" => entry[e].auth = "write"
Busy(e) == entry[e].usages > 0 \/ entry[e].pending > 0

\* route / provision_start: resolve and inspect the bundle, owner row included
Inspect(c) ==
    /\ call[c].pc = "idle"
    /\ call' = IF closed THEN Answered(c, "unavailable")
               ELSE [call EXCEPT ![c].pc = "inspected", ![c].seen = owner]
    /\ UNCHANGED <<bundle, fence, entry, cache, full, spent>>

\* A repeating client asks again.
Again(c) ==
    /\ c \in Repeating /\ call[c].pc = "done"
    /\ call' = [call EXCEPT ![c] = Idle]
    /\ UNCHANGED <<bundle, fence, entry, cache, full, spent>>

-----------------------------------------------------------------------------
\* _entry_for: one pass of its loop under the cache lock

\* A start that waited for the entry's users leaves the wait when they are
\* gone; it runs the loop again without a suspension in between.
Woken(c) ==
    /\ call[c].pc = "waitrebind"
    /\ closed \/ entry[call[c].e].poisoned \/ ~Busy(call[c].e)
Looking(c) == call[c].pc = "inspected" \/ Woken(c)
\* the entries once c has left the set of waiters
Left(c) == IF call[c].pc = "waitrebind"
           THEN [entry EXCEPT ![call[c].e].waiters = @ - 1] ELSE entry

Stale(c) ==
    /\ Looking(c) /\ closed
    /\ call' = Answered(c, "unavailable")
    /\ entry' = Left(c)
    /\ UNCHANGED <<bundle, fence, cache, full, spent>>

SameRoute(e, c) == entry[e].session = Session[c] /\ Authorized(e, c)

\* Mutant: readers are served although a start waits.
ReuseIgnoresWaiters(c) ==
    /\ Looking(c) /\ ~closed /\ cached # NONE /\ SameRoute(cached, c)
    /\ entry' = [Left(c) EXCEPT ![cached].pending = @ + 1]
    /\ call' = At(c, "leasing", cached)
    /\ UNCHANGED <<bundle, fence, cache, full, spent>>

\* The cached entry serves this session: claim a pending lease, unless a
\* start is waiting for the entry to drain.
Reuse(c) ==
    /\ Looking(c) /\ ~closed /\ cached # NONE /\ SameRoute(cached, c)
    /\ Left(c)[cached].waiters = 0 \/ Kind[c] = "start"
    /\ entry' = [Left(c) EXCEPT ![cached].pending = @ + 1]
    /\ call' = At(c, "leasing", cached)
    /\ UNCHANGED <<bundle, fence, cache, full, spent>>

YieldToStart(c) ==
    /\ Looking(c) /\ ~closed /\ cached # NONE /\ SameRoute(cached, c)
    /\ Left(c)[cached].waiters > 0 /\ Kind[c] # "start"
    /\ entry' = Left(c)
    /\ call' = Answered(c, "rebind_busy")
    /\ UNCHANGED <<bundle, fence, cache, full, spent>>

\* Mutant: a lease still being validated does not stop the rebind.
RebindIgnoresPending(c) ==
    /\ Looking(c) /\ ~closed /\ cached # NONE /\ ~SameRoute(cached, c)
    /\ Authorized(cached, c) /\ entry[cached].usages = 0
    /\ entry' = [Left(c) EXCEPT ![cached].session = Session[c], ![cached].pending = @ + 1]
    /\ call' = At(c, "rebinding", cached)
    /\ UNCHANGED <<bundle, fence, cache, full, spent>>

\* Nobody uses the entry: bind it to this session and claim it.
Rebind(c) ==
    /\ Looking(c) /\ ~closed /\ cached # NONE /\ ~SameRoute(cached, c)
    /\ Authorized(cached, c) /\ ~Busy(cached)
    /\ entry' = [Left(c) EXCEPT ![cached].session = Session[c], ![cached].pending = @ + 1]
    /\ call' = At(c, "rebinding", cached)
    /\ UNCHANGED <<bundle, fence, cache, full, spent>>

\* The entry is in use for another session: a start waits, others are refused.
InUse(c) ==
    /\ Looking(c) /\ ~closed /\ cached # NONE /\ ~SameRoute(cached, c) /\ Busy(cached)
    /\ IF Kind[c] = "start" /\ Authorized(cached, c)
       THEN /\ entry' = [Left(c) EXCEPT ![cached].waiters = @ + 1]
            /\ call' = At(c, "waitrebind", cached)
       ELSE /\ entry' = Left(c)
            /\ call' = Answered(c, "busy")
    /\ UNCHANGED <<bundle, fence, cache, full, spent>>

\* the next entry to be opened, if the bound leaves one
Fresh == {i \in Ids : entry[i].st = "unused" /\ \A j \in 1..(i-1) : entry[j].st # "unused"}
NewOpening(es, i, c) ==
    [es EXCEPT ![i].st = "opening", ![i].session = Session[c], ![i].auth = Needs(c),
               ![i].seen = call[c].seen]

\* Mutant: an entry with too little authority is replaced although it is in use.
ReplaceInUse(c) ==
    /\ Looking(c) /\ ~closed /\ cached # NONE /\ ~Authorized(cached, c)
    /\ ~full
    /\ \E i \in Fresh :
        /\ entry' = NewOpening(Discard(Left(c), cached), i, c)
        /\ opening' = i
        /\ call' = At(c, "waitopen", i)
    /\ cached' = NONE
    /\ UNCHANGED <<bundle, fence, closed, full, spent>>

\* An idle entry with too little authority is removed from the cache and the
\* opening of another is started; the removed one is closed only after that.
Replace(c) ==
    /\ Looking(c) /\ ~closed /\ cached # NONE /\ ~Busy(cached) /\ ~Authorized(cached, c)
    /\ ~full
    /\ \E i \in Fresh :
        /\ entry' = NewOpening(Discard(Left(c), cached), i, c)
        /\ opening' = i
        /\ call' = At(c, "waitopen", i)
    /\ cached' = NONE
    /\ UNCHANGED <<bundle, fence, closed, full, spent>>

\* The opening limit is reached: the call is refused with the entry already
\* removed from the cache, and nobody is left to close it.
ReplaceRefused(c) ==
    /\ Looking(c) /\ ~closed /\ cached # NONE /\ ~Busy(cached) /\ ~Authorized(cached, c)
    /\ full
    /\ entry' = [Left(c) EXCEPT ![cached].poisoned = TRUE]
    /\ cached' = NONE
    /\ call' = Answered(c, "busy")
    /\ UNCHANGED <<bundle, fence, opening, closed, full, spent>>

Open(c) ==
    /\ Looking(c) /\ ~closed /\ cached = NONE /\ opening = NONE
    /\ IF full
       THEN /\ call' = Answered(c, "busy") /\ entry' = Left(c) /\ UNCHANGED opening
       ELSE \E i \in Fresh :
                /\ entry' = NewOpening(Left(c), i, c)
                /\ opening' = i
                /\ call' = At(c, "waitopen", i)
    /\ UNCHANGED <<bundle, fence, cached, closed, full, spent>>

Join(c) ==
    /\ Looking(c) /\ ~closed /\ cached = NONE /\ opening # NONE
    /\ entry' = Left(c)
    /\ call' = IF Authorized(opening, c) THEN At(c, "waitopen", opening)
               ELSE Answered(c, "busy")
    /\ UNCHANGED <<bundle, fence, cache, full, spent>>

-----------------------------------------------------------------------------
\* _open_entry: the shielded opening task, which no cancelled caller stops

\* a physical close forgets the registered fence only if it is the entry's own
Forget(f) == IF fence = f THEN NONE ELSE fence
Failed(i) ==
    /\ entry' = [entry EXCEPT ![i].st = "failed"]
    /\ opening' = IF opening = i THEN NONE ELSE opening

\* acquire_fence: a writer swaps the owner row it inspected for the next
\* generation; a reader adopts the inspected one.  Both register it.
AcquireFence(i) ==
    /\ entry[i].st = "opening"
    /\ IF entry[i].auth = "write" /\ owner # entry[i].seen
       THEN Failed(i) /\ UNCHANGED <<owner, fence>>
       ELSE LET f == IF entry[i].auth = "write" THEN owner + 1 ELSE entry[i].seen IN
            /\ owner' = IF entry[i].auth = "write" THEN f ELSE owner
            /\ fence' = f
            /\ entry' = [entry EXCEPT ![i].st = "fenced", ![i].fence = f]
            /\ UNCHANGED opening
    /\ UNCHANGED <<log, cached, closed, full, call, spent>>

\* open_ledger: the registered fence must still match the owner row, and the
\* runtime must still be ready; then the entry is published in the cache
\* before any waiter runs (_schedule_opening_adoption).
OpenLedger(i) ==
    /\ entry[i].st = "fenced"
    /\ IF fence # NONE /\ fence = owner /\ ~closed
       THEN /\ entry' = [entry EXCEPT ![i].st = "open"]
            /\ opening' = NONE /\ cached' = i
            /\ UNCHANGED fence
       ELSE /\ Failed(i)
            /\ fence' = IF fence # NONE /\ fence # owner /\ ~closed THEN NONE
                        ELSE Forget(entry[i].fence)
            /\ UNCHANGED cached
    /\ UNCHANGED <<bundle, closed, full, call, spent>>

\* A waiter of the opening wakes: it runs the loop again, with the inspection
\* it made before, or is told the opening failed.
Opened(c) ==
    /\ call[c].pc = "waitopen"
    /\ entry[call[c].e].st \in {"open", "failed"}
    /\ call' = IF entry[call[c].e].st = "open" THEN At(c, "inspected", NONE)
               ELSE Answered(c, "failed")
    /\ UNCHANGED <<bundle, fence, entry, cache, full, spent>>

\* close_entry: the ledger, the writer thread and the fence of the entry go.
CloseEntry(i) ==
    /\ entry[i].shut = "asked"
    /\ entry' = [entry EXCEPT ![i].shut = "done"]
    /\ fence' = Forget(entry[i].fence)
    /\ UNCHANGED <<bundle, cache, full, call, spent>>

-----------------------------------------------------------------------------
\* The rest of a rebind, and the lease

\* a rebind that fails takes the entry out of the cache
DropRebind(c) ==
    LET e == call[c].e IN
    /\ entry' = Discard(Unclaim(entry, e), e)
    /\ cached' = IF cached = e THEN NONE ELSE cached

ValidateRebind(c) ==
    /\ call[c].pc = "rebinding"
    /\ IF entry[call[c].e].fence = owner
       THEN call' = [call EXCEPT ![c].pc = "leasing"] /\ UNCHANGED <<entry, cached>>
       ELSE DropRebind(c) /\ call' = Answered(c, "fence_lost")
    /\ UNCHANGED <<bundle, fence, opening, closed, full, spent>>

\* _lease: validate_fence reads the owner row
Validate(c) ==
    /\ call[c].pc = "leasing"
    /\ IF closed \/ entry[call[c].e].fence # owner
       THEN /\ entry' = Unclaim(entry, call[c].e)
            /\ call' = Answered(c, IF closed THEN "unavailable" ELSE "fence_lost")
       ELSE /\ call' = [call EXCEPT ![c].pc = "validated"]
            /\ UNCHANGED entry
    /\ UNCHANGED <<bundle, fence, cache, full, spent>>

Admit(c) ==
    LET e == call[c].e IN
    /\ call[c].pc = "validated"
    /\ IF entry[e].poisoned \/ closed
       THEN /\ entry' = Unclaim(entry, e)
            /\ call' = Answered(c, "unavailable")
       ELSE /\ entry' = [Unclaim(entry, e) EXCEPT ![e].usages = @ + 1]
            /\ call' = [call EXCEPT ![c].pc = "live"]
    /\ UNCHANGED <<bundle, fence, cache, full, spent>>

\* Mutant: the owner checked when the lease was given is not checked again.
WriteUnverified(c) ==
    /\ call[c].pc = "live" /\ Kind[c] # "read"
    /\ entry[call[c].e].shut # "done"
    /\ Len(log) < MaxWrites
    /\ log' = Append(log, entry[call[c].e].fence)
    /\ UNCHANGED <<owner, call, fence, entry, cache, full, spent>>

\* A write transaction of the ledger: _verify_owner inside it.
Write(c) ==
    /\ call[c].pc = "live" /\ Kind[c] # "read"
    /\ entry[call[c].e].shut # "done"
    /\ Len(log) < MaxWrites
    /\ IF entry[call[c].e].fence = owner
       THEN log' = Append(log, entry[call[c].e].fence) /\ UNCHANGED call
       ELSE call' = [call EXCEPT ![c].out = "unsafe"] /\ UNCHANGED log
    /\ UNCHANGED <<owner, fence, entry, cache, full, spent>>

\* The first use of an entry recovers its projection; operations it must
\* quarantine are written, under the fence of a reader too.
Recover(c) ==
    LET e == call[c].e IN
    /\ call[c].pc = "live" /\ ~entry[e].recovered /\ entry[e].shut # "done"
    /\ Len(log) < MaxWrites
    /\ IF entry[e].fence = owner
       THEN /\ log' = Append(log, entry[e].fence)
            /\ entry' = [entry EXCEPT ![e].recovered = TRUE] /\ UNCHANGED call
       ELSE call' = [call EXCEPT ![c].out = "unsafe"] /\ UNCHANGED <<log, entry>>
    /\ UNCHANGED <<owner, fence, cache, full, spent>>

\* release: a runtime that was closed has forgotten the lease
Released(c) ==
    entry' = IF closed THEN entry ELSE [entry EXCEPT ![call[c].e].usages = @ - 1]

Release(c) ==
    /\ call[c].pc = "live"
    /\ Released(c)
    /\ call' = Answered(c, IF call[c].out = "none" THEN "ok" ELSE call[c].out)
    /\ UNCHANGED <<bundle, fence, cache, full, spent>>

\* release evicts idle entries beyond the limit, the one it has just made idle
\* when that is the oldest
ReleaseEvicts(c) ==
    LET e == call[c].e IN
    /\ call[c].pc = "live" /\ ~closed /\ spent.evictions < MaxEvictions
    /\ cached = e /\ entry[e].usages = 1 /\ entry[e].pending = 0 /\ entry[e].waiters = 0
    /\ entry' = Discard([entry EXCEPT ![e].usages = 0], e)
    /\ cached' = NONE
    /\ call' = Answered(c, IF call[c].out = "none" THEN "ok" ELSE call[c].out)
    /\ spent' = [spent EXCEPT !.evictions = @ + 1]
    /\ UNCHANGED <<bundle, fence, opening, closed, full>>

-----------------------------------------------------------------------------
\* Deadlines, cancellations, other tasks, other processes

RebindTimeout(c) ==
    /\ call[c].pc = "waitrebind"
    /\ entry' = Left(c)
    /\ call' = Answered(c, "rebind_busy")
    /\ UNCHANGED <<bundle, fence, cache, full, spent>>

\* Mutant: a cancelled validation keeps its claim.
CancelKeepsClaim(c) ==
    /\ spent.cancels < MaxCancels
    /\ call[c].pc = "leasing"
    /\ call' = Answered(c, "cancelled")
    /\ spent' = [spent EXCEPT !.cancels = @ + 1]
    /\ UNCHANGED <<bundle, fence, entry, cache, full>>

\* The request's deadline passes, or its client goes away, at an await.
Cancel(c) ==
    /\ spent.cancels < MaxCancels
    /\ call[c].pc \notin {"idle", "done"}
    /\ CASE call[c].pc = "waitrebind" -> entry' = Left(c) /\ UNCHANGED cached
         [] call[c].pc = "rebinding" -> DropRebind(c)
         [] call[c].pc \in {"leasing", "validated"} ->
                entry' = Unclaim(entry, call[c].e) /\ UNCHANGED cached
         [] call[c].pc = "live" -> Released(c) /\ UNCHANGED cached
         [] call[c].pc \in {"inspected", "waitopen"} -> UNCHANGED <<entry, cached>>
    /\ call' = Answered(c, "cancelled")
    /\ spent' = [spent EXCEPT !.cancels = @ + 1]
    /\ UNCHANGED <<bundle, fence, opening, closed, full>>

\* The release of another task's lease evicts this task's idle entry.
Evict ==
    /\ spent.evictions < MaxEvictions
    /\ cached # NONE /\ ~Busy(cached) /\ entry[cached].waiters = 0
    /\ entry' = Discard(entry, cached)
    /\ cached' = NONE
    /\ spent' = [spent EXCEPT !.evictions = @ + 1]
    /\ UNCHANGED <<bundle, fence, opening, closed, full, call>>

OtherOpenings ==
    /\ Limits
    /\ full' = ~full
    /\ UNCHANGED <<bundle, fence, entry, cache, call, spent>>

\* Another service process acquires the bundle, and writes as its owner.
Takeover ==
    /\ spent.takeovers < MaxTakeovers
    /\ owner' = owner + 1
    /\ spent' = [spent EXCEPT !.takeovers = @ + 1, !.foreign = owner + 1]
    /\ UNCHANGED <<log, fence, entry, cache, full, call>>

OtherWrites ==
    /\ spent.foreign = owner /\ spent.takeovers > 0 /\ Len(log) < MaxWrites
    /\ log' = Append(log, owner)
    /\ UNCHANGED <<owner, fence, entry, cache, full, call, spent>>

\* close: every cached entry is poisoned and closed, leases or not; what is
\* opening closes itself when it finds the runtime no longer ready.
Close ==
    /\ Closes /\ ~closed
    /\ closed' = TRUE
    /\ entry' = IF cached = NONE THEN entry ELSE Discard(entry, cached)
    /\ cached' = NONE /\ opening' = NONE
    /\ UNCHANGED <<bundle, fence, full, call, spent>>

-----------------------------------------------------------------------------
\* What a call does of its own accord
Step(c) ==
    \/ Inspect(c)
    \/ Stale(c) \/ Reuse(c) \/ YieldToStart(c) \/ Rebind(c) \/ InUse(c)
    \/ Replace(c) \/ ReplaceRefused(c) \/ Open(c) \/ Join(c)
    \/ Opened(c) \/ ValidateRebind(c) \/ Validate(c) \/ Admit(c)
    \/ Release(c) \/ ReleaseEvicts(c)
OpeningStep(i) == AcquireFence(i) \/ OpenLedger(i)

Next ==
    \/ \E c \in Calls :
        Step(c) \/ Again(c) \/ Write(c) \/ Recover(c) \/ RebindTimeout(c) \/ Cancel(c)
    \/ \E i \in Ids : OpeningStep(i) \/ CloseEntry(i)
    \/ Evict \/ OtherOpenings \/ Takeover \/ OtherWrites \/ Close

Spec == Init /\ [][Next]_vars

\* The event loop runs every ready task, handlers end, threads finish; no
\* client need come, nor a deadline pass.
Fairness ==
    /\ \A c \in Calls : WF_vars(Step(c))
    /\ \A i \in Ids : WF_vars(OpeningStep(i)) /\ WF_vars(CloseEntry(i))
FairSpec == Spec /\ Fairness

-----------------------------------------------------------------------------
\* Properties

EntryRec ==
    [st : {"unused", "opening", "fenced", "open", "failed"},
     session : Sessions \cup {NONE}, auth : {"read", "write"},
     seen : Nat, fence : Nat \cup {NONE},
     pending : Nat, usages : Nat, waiters : Nat,
     poisoned : BOOLEAN, shut : {"no", "asked", "done"}, recovered : BOOLEAN]
CallRec ==
    [pc : {"idle", "inspected", "waitrebind", "rebinding", "waitopen", "leasing",
           "validated", "live", "done"},
     seen : Nat, e : Ids \cup {NONE},
     out : {"none", "ok", "busy", "rebind_busy", "failed", "fence_lost", "unavailable",
            "unsafe", "cancelled"}]

\* The shape of the state of LocalBundleRuntime, its calls and the owner row.
TypeOK ==
    /\ owner \in Nat /\ log \in Seq(Nat) /\ fence \in Nat \cup {NONE}
    /\ entry \in [Ids -> EntryRec]
    /\ cached \in Ids \cup {NONE} /\ opening \in Ids \cup {NONE}
    /\ closed \in BOOLEAN /\ full \in BOOLEAN
    /\ call \in [Calls -> CallRec]
    /\ spent \in [cancels : Nat, evictions : Nat, takeovers : Nat, foreign : Nat]

In(pcs, e) == {c \in Calls : call[c].pc \in pcs /\ call[c].e = e}

\* The counters that decide whether an entry may be rebound, evicted or
\* replaced count exactly the calls that stand behind them, whatever was
\* cancelled or failed on the way (pending, usages and rebind_waiters in
\* _entry_for, _lease and release): one too many blocks every rebind for
\* ever, one too few lets the entry go from under a user.
CountsExact ==
    ~closed => \A e \in Ids :
        /\ entry[e].pending = Cardinality(In({"rebinding", "leasing", "validated"}, e))
        /\ entry[e].usages = Cardinality(In({"live"}, e))
        /\ entry[e].waiters = Cardinality(In({"waitrebind"}, e))

\* A call that has been given an entry, from the claim in _entry_for to its
\* release, works on the session it asked for: no rebind, join of another
\* caller's opening or replacement changes the entry's session under it.
LeaseServesItsSession ==
    \A c \in Calls : call[c].pc \in {"leasing", "validated", "live"} =>
        entry[call[c].e].session = Session[c]

\* As long as no call is cancelled, a leased entry stays open until its lease
\* is released, unless the runtime is closed or the bundle has been taken over
\* (_close_entry is never called on the entry of a live lease).
LiveLeaseIsOpen ==
    spent.cancels = 0 => \A c \in Calls : call[c].pc = "live" =>
        \/ entry[call[c].e].shut = "no"
        \/ closed
        \/ entry[call[c].e].fence # owner

\* A lost generation poisons the cached handle: a call told that its fence is
\* no longer the owner's leaves no usable entry behind.
GenerationLossPoisons ==
    \A c \in Calls : call[c].pc = "done" /\ call[c].out = "fence_lost" =>
        entry[call[c].e].poisoned

\* The runtime implements the ownership contract of the bundle: whatever is
\* interleaved or cancelled, and whoever takes over, each write is made under
\* the generation that owns the bundle at that moment.
Fenced == INSTANCE FencedLog
BundleIsFenced == Fenced!Spec

\* What is taken out of the cache is closed in the end: no ledger connection,
\* writer thread or registered fence of a removed entry stays behind.
RemovedIsClosed ==
    \A i \in Ids : entry[i].poisoned ~> entry[i].shut = "done"

\* A start waiting for the users of the bundle gets its turn, although
\* readers of the old session keep coming and the entry it waits for may be
\* taken away, as long as the bound on openings leaves it one.
StartGetsTurn ==
    \A c \in Calls : call[c].pc = "waitrebind" ~> call[c].pc # "waitrebind" \/ Fresh = {}
=============================================================================
