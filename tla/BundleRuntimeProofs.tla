------------------------ MODULE BundleRuntimeProofs ------------------------
(***************************************************************************)
(* For any number of calls, entries, cancellations and takeovers: the      *)
(* bundle runtime implements FencedLog; and the counters of an entry, the  *)
(* session it serves and the time it is closed are what the calls that     *)
(* hold it rely on.  The second part rests on one inductive invariant,     *)
(* Inv, and on what a single step may do: Taken(c), the step of call c, or *)
(* Background, a step that changes no call.                                *)
(***************************************************************************)
EXTENDS BundleRuntime, FiniteSetTheorems, TLAPS

Contract == <<owner, log>>

\* The start of the runtime is the start of the contract: a bundle without
\* owner and without writes.
LEMMA InitFenced == Init => Fenced!Init
BY DEF Init, Fenced!Init

\* Only four actions touch the owner row or the log; the others leave both
\* alone (the write path of LocalBundleRuntime and its ledger).
LEMMA OthersLeaveBundle ==
    ASSUME Next,
           ~ \E c \in Calls : Write(c) \/ Recover(c),
           ~ \E i \in Ids : AcquireFence(i),
           ~ (Takeover \/ OtherWrites)
    PROVE  UNCHANGED Contract
<1>1. ASSUME NEW c \in Calls, Step(c) PROVE UNCHANGED Contract
  BY <1>1 DEF Step, Inspect, Stale, Reuse, YieldToStart, Rebind, InUse, Replace,
        ReplaceRefused, Open, Join, Opened, ValidateRebind, Validate, Admit, Release,
        ReleaseEvicts, Contract, bundle
<1>2. ASSUME NEW c \in Calls, Again(c) \/ RebindTimeout(c) \/ Cancel(c)
      PROVE UNCHANGED Contract
  BY <1>2 DEF Again, RebindTimeout, Cancel, Contract, bundle
<1>3. ASSUME NEW i \in Ids, OpenLedger(i) \/ CloseEntry(i) PROVE UNCHANGED Contract
  BY <1>3 DEF OpenLedger, CloseEntry, Contract, bundle
<1>4. ASSUME Evict \/ OtherOpenings \/ Close PROVE UNCHANGED Contract
  BY <1>4 DEF Evict, OtherOpenings, Close, Contract, bundle
<1> QED BY <1>1, <1>2, <1>3, <1>4 DEF Next, OpeningStep

\* A write transaction under the current owner is a write of the contract,
\* one under a lost generation does nothing to the bundle.
LEMMA WriteFenced ==
    ASSUME NEW c \in Calls, Write(c) \/ Recover(c)
    PROVE  [Fenced!Next]_Contract
BY DEF Write, Recover, Fenced!Next, Fenced!Write, Contract

\* A writer's acquisition advances the owner it has inspected, a reader's
\* adopts it; a takeover by another process advances it.
LEMMA AcquireFenced ==
    ASSUME (\E i \in Ids : AcquireFence(i)) \/ Takeover \/ OtherWrites
    PROVE  [Fenced!Next]_Contract
BY DEF AcquireFence, Failed, Takeover, OtherWrites, Fenced!Next, Fenced!Acquire,
       Fenced!Write, Contract

\* The runtime implements the ownership contract: every write of the bundle,
\* by this process or by one that took over, is made under the generation
\* current at that moment (_verify_owner inside each write transaction).
THEOREM RuntimeIsFenced == Spec => BundleIsFenced
<1>1. ASSUME [Next]_vars PROVE [Fenced!Next]_Contract
  <2>1. CASE UNCHANGED vars
    BY <2>1 DEF vars, bundle, Contract
  <2>2. CASE Next
    BY <2>2, OthersLeaveBundle, WriteFenced, AcquireFenced
  <2> QED BY <1>1, <2>1, <2>2
<1> QED BY <1>1, InitFenced, PTL DEF Spec, BundleIsFenced, Fenced!Spec, Contract

\* The contract is enough for a reader: along the log the generations never
\* go back, so no write of a process that lost the bundle lies behind one of
\* its successor.
THEOREM LogIsOrdered == Spec => []Fenced!Ordered
<1>1. Fenced!Init => Fenced!Ordered
  BY DEF Fenced!Init, Fenced!Ordered
<1>2. ASSUME Fenced!Ordered, [Fenced!Next]_Contract PROVE Fenced!Ordered'
  <2> USE <1>2 DEF Fenced!Ordered
  <2>1. CASE UNCHANGED Contract
    BY <2>1 DEF Contract
  <2>2. CASE Fenced!Acquire
    BY <2>2 DEF Fenced!Acquire
  <2>3. CASE Fenced!Write
    <3>1. log' \in Seq(Nat) /\ owner' = owner /\ Len(log') = Len(log) + 1
      BY <2>3 DEF Fenced!Write
    <3>2. \A i \in 1..Len(log') : log'[i] = IF i <= Len(log) THEN log[i] ELSE owner
      BY <2>3 DEF Fenced!Write
    <3>3. \A i \in 1..Len(log') : log'[i] <= owner'
      BY <3>1, <3>2
    <3>4. ASSUME NEW i \in 1..Len(log'), NEW j \in 1..Len(log'), i < j
          PROVE  log'[i] <= log'[j]
      <4>1. i \in 1..Len(log)
        BY <3>1, <3>4
      <4>2. CASE j \in 1..Len(log)
        BY <4>1, <4>2, <3>2, <3>4
      <4>3. CASE j \notin 1..Len(log)
        BY <4>1, <4>3, <3>2, <3>4
      <4> QED BY <4>2, <4>3
    <3>5. owner' \in Nat
      BY <3>1
    <3> QED BY <3>1, <3>3, <3>4, <3>5
  <2> QED BY <2>1, <2>2, <2>3 DEF Fenced!Next
<1>3. Fenced!Spec => []Fenced!Ordered
  BY <1>1, <1>2, PTL DEF Fenced!Spec, Contract
<1> QED BY <1>3, RuntimeIsFenced, PTL DEF BundleIsFenced

-----------------------------------------------------------------------------
(* The leases.  A step of a call changes that call and the counters of the  *)
(* entries it leaves or takes; the proofs go through what a step may do to  *)
(* an entry, to a counter and to a call.                                    *)

Ind(b) == IF b THEN 1 ELSE 0

Claiming == {"rebinding", "leasing", "validated"}
Serving == Claiming \cup {"live"}
Holding == Serving \cup {"waitrebind"}

Entries == [Ids -> EntryRec]

\* What an entry is, its counters apart.
Facts(r, s) ==
    /\ r.st = s.st /\ r.session = s.session /\ r.seen = s.seen /\ r.fence = s.fence
    /\ r.poisoned = s.poisoned /\ r.shut = s.shut
Counters(r, s) ==
    r.pending = s.pending /\ r.usages = s.usages /\ r.waiters = s.waiters

\* The single updates of the counters and of the session.
MoreClaim(es, e) == [es EXCEPT ![e].pending = @ + 1]
MoreUse(es, e) == [es EXCEPT ![e].usages = @ + 1]
LessUse(es, e) == [es EXCEPT ![e].usages = @ - 1]
MoreWait(es, e) == [es EXCEPT ![e].waiters = @ + 1]
LessWait(es, e) == [es EXCEPT ![e].waiters = @ - 1]
Bind(es, e, x) == [es EXCEPT ![e].session = x, ![e].pending = @ + 1]

\* A pending lease more on entry e.
LEMMA PendingMore ==
    ASSUME NEW es \in Entries, NEW e \in Ids,
           NEW fs, fs = MoreClaim(es, e)
    PROVE  /\ fs \in Entries
           /\ \A i \in Ids :
                /\ Facts(fs[i], es[i]) /\ fs[i].pending = es[i].pending + Ind(i = e)
                /\ fs[i].usages = es[i].usages /\ fs[i].waiters = es[i].waiters
BY DEF Entries, EntryRec, Facts, Ind, MoreClaim

\* A pending lease less on entry e.
LEMMA PendingLess ==
    ASSUME NEW es \in Entries, NEW e \in Ids, es[e].pending > 0,
           NEW fs, fs = Unclaim(es, e)
    PROVE  /\ fs \in Entries
           /\ \A i \in Ids :
                /\ Facts(fs[i], es[i]) /\ es[i].pending = fs[i].pending + Ind(i = e)
                /\ fs[i].usages = es[i].usages /\ fs[i].waiters = es[i].waiters
BY DEF Entries, EntryRec, Facts, Ind, Unclaim

\* A live lease more on entry e.
LEMMA UsageMore ==
    ASSUME NEW es \in Entries, NEW e \in Ids,
           NEW fs, fs = MoreUse(es, e)
    PROVE  /\ fs \in Entries
           /\ \A i \in Ids :
                /\ Facts(fs[i], es[i]) /\ fs[i].usages = es[i].usages + Ind(i = e)
                /\ fs[i].pending = es[i].pending /\ fs[i].waiters = es[i].waiters
BY DEF Entries, EntryRec, Facts, Ind, MoreUse

\* A live lease less on entry e.
LEMMA UsageLess ==
    ASSUME NEW es \in Entries, NEW e \in Ids, es[e].usages > 0,
           NEW fs, fs = LessUse(es, e)
    PROVE  /\ fs \in Entries
           /\ \A i \in Ids :
                /\ Facts(fs[i], es[i]) /\ es[i].usages = fs[i].usages + Ind(i = e)
                /\ fs[i].pending = es[i].pending /\ fs[i].waiters = es[i].waiters
BY DEF Entries, EntryRec, Facts, Ind, LessUse

\* A waiting start more on entry e.
LEMMA WaiterMore ==
    ASSUME NEW es \in Entries, NEW e \in Ids,
           NEW fs, fs = MoreWait(es, e)
    PROVE  /\ fs \in Entries
           /\ \A i \in Ids :
                /\ Facts(fs[i], es[i]) /\ fs[i].waiters = es[i].waiters + Ind(i = e)
                /\ fs[i].pending = es[i].pending /\ fs[i].usages = es[i].usages
BY DEF Entries, EntryRec, Facts, Ind, MoreWait

\* A waiting start less on entry e.
LEMMA WaiterLess ==
    ASSUME NEW es \in Entries, NEW e \in Ids, es[e].waiters > 0,
           NEW fs, fs = LessWait(es, e)
    PROVE  /\ fs \in Entries
           /\ \A i \in Ids :
                /\ Facts(fs[i], es[i]) /\ es[i].waiters = fs[i].waiters + Ind(i = e)
                /\ fs[i].pending = es[i].pending /\ fs[i].usages = es[i].usages
BY DEF Entries, EntryRec, Facts, Ind, LessWait

\* A rebind of entry e to session x, and a pending lease more on it.
LEMMA Bound ==
    ASSUME NEW es \in Entries, NEW e \in Ids, NEW x \in Sessions,
           NEW fs, fs = Bind(es, e, x)
    PROVE  /\ fs \in Entries
           /\ \A i \in Ids :
                /\ fs[i].st = es[i].st /\ fs[i].seen = es[i].seen
                /\ fs[i].fence = es[i].fence /\ fs[i].poisoned = es[i].poisoned
                /\ fs[i].shut = es[i].shut
                /\ fs[i].session = IF i = e THEN x ELSE es[i].session
                /\ fs[i].pending = es[i].pending + Ind(i = e)
                /\ fs[i].usages = es[i].usages /\ fs[i].waiters = es[i].waiters
BY DEF Entries, EntryRec, Facts, Ind, Bind

\* An entry stays one when a field is set to a value of its type.
LEMMA EntryFields ==
    \A r \in EntryRec :
        /\ \A x \in {"unused", "opening", "fenced", "open", "failed"} :
             [r EXCEPT !.st = x] \in EntryRec
        /\ \A x \in Sessions \cup {NONE} : [r EXCEPT !.session = x] \in EntryRec
        /\ \A x \in {"read", "write"} : [r EXCEPT !.auth = x] \in EntryRec
        /\ \A x \in Nat : [r EXCEPT !.seen = x] \in EntryRec
        /\ \A x \in Nat \cup {NONE} : [r EXCEPT !.fence = x] \in EntryRec
        /\ \A x \in Nat : [r EXCEPT !.usages = x] \in EntryRec
        /\ \A x \in BOOLEAN : [r EXCEPT !.poisoned = x] \in EntryRec
        /\ \A x \in {"no", "asked", "done"} : [r EXCEPT !.shut = x] \in EntryRec
        /\ \A x \in BOOLEAN : [r EXCEPT !.recovered = x] \in EntryRec
BY DEF EntryRec

\* Discard poisons the entry and has it closed, and touches no counter.
LEMMA Discarded ==
    ASSUME NEW es \in Entries, NEW e \in Ids, NEW fs, fs = Discard(es, e)
    PROVE  /\ fs \in Entries
           /\ \A i \in Ids : Counters(fs[i], es[i]) /\ (i # e => Facts(fs[i], es[i]))
           /\ fs[e].st = es[e].st /\ fs[e].session = es[e].session
           /\ fs[e].seen = es[e].seen /\ fs[e].fence = es[e].fence
           /\ fs[e].poisoned = TRUE
<1> DEFINE x == IF es[e].shut = "no" THEN "asked" ELSE es[e].shut
           r == [es[e] EXCEPT !.poisoned = TRUE, !.shut = x]
<1>1. es[e] \in EntryRec
  BY DEF Entries
<1>2. x \in {"no", "asked", "done"}
  BY <1>1 DEF EntryRec
<1>3. fs = [es EXCEPT ![e] = r]
  BY DEF Discard, Entries
<1>4. r \in EntryRec
  BY <1>1, <1>2, EntryFields
<1>5. /\ Counters(r, es[e]) /\ r.st = es[e].st /\ r.session = es[e].session
      /\ r.seen = es[e].seen /\ r.fence = es[e].fence /\ r.poisoned = TRUE
  BY <1>1 DEF EntryRec, Counters
<1> HIDE DEF r
<1>6. fs \in Entries /\ fs[e] = r /\ \A i \in Ids : i # e => fs[i] = es[i]
  BY <1>3, <1>4 DEF Entries
<1> QED BY <1>5, <1>6 DEF Facts, Counters

\* The opening of a fresh entry for call c.
LEMMA NewlyOpening ==
    ASSUME TypeOK, NEW es \in Entries, NEW i \in Ids, NEW c \in Calls,
           NEW fs, fs = NewOpening(es, i, c)
    PROVE  /\ fs \in Entries
           /\ \A j \in Ids : Counters(fs[j], es[j]) /\ (j # i => Facts(fs[j], es[j]))
           /\ fs[i].st = "opening" /\ fs[i].seen = call[c].seen
           /\ fs[i].fence = es[i].fence /\ fs[i].poisoned = es[i].poisoned
           /\ fs[i].shut = es[i].shut
<1> DEFINE r == [es[i] EXCEPT !.st = "opening", !.session = Session[c],
                              !.auth = Needs(c), !.seen = call[c].seen]
<1>1. /\ es[i] \in EntryRec /\ Session[c] \in Sessions /\ call[c].seen \in Nat
      /\ Needs(c) \in {"read", "write"}
  BY DEF Entries, Sessions, Needs, TypeOK, CallRec
<1>2. fs = [es EXCEPT ![i] = r]
  BY DEF NewOpening, Entries
<1>3. r \in EntryRec
  BY <1>1, EntryFields
<1>4. /\ Counters(r, es[i]) /\ r.st = "opening" /\ r.seen = call[c].seen
      /\ r.fence = es[i].fence /\ r.poisoned = es[i].poisoned /\ r.shut = es[i].shut
  BY <1>1 DEF EntryRec, Counters
<1> HIDE DEF r
<1>5. fs \in Entries /\ fs[i] = r /\ \A j \in Ids : j # i => fs[j] = es[j]
  BY <1>2, <1>3 DEF Entries
<1> QED BY <1>4, <1>5 DEF Facts, Counters

-----------------------------------------------------------------------------
(* The inductive invariant.                                                *)

\* The cached entry is an open one, and a call that holds an entry holds an
\* open one.
CachedOpen == cached # NONE => entry[cached].st = "open"
Handles ==
    \A c \in Calls :
        /\ call[c].pc \in Holding => call[c].e \in Ids /\ entry[call[c].e].st = "open"
        /\ call[c].pc = "waitopen" => call[c].e \in Ids

\* The counters, also once the runtime is closed and forgets its live leases.
Counts ==
    \A e \in Ids :
        /\ entry[e].pending = Cardinality(In(Claiming, e))
        /\ ~closed => entry[e].usages = Cardinality(In({"live"}, e))
        /\ entry[e].waiters = Cardinality(In({"waitrebind"}, e))

\* From the rebind on, a call works on the session it asked for.
Serves ==
    \A c \in Calls : call[c].pc \in Serving => entry[call[c].e].session = Session[c]

ShutPoisoned == \A i \in Ids : entry[i].shut # "no" => entry[i].poisoned

\* No generation anybody has seen or holds is ahead of the owner row.
FenceOld ==
    /\ \A c \in Calls : call[c].seen <= owner
    /\ \A i \in Ids : /\ entry[i].seen <= owner
                      /\ entry[i].fence # NONE => entry[i].fence <= owner

Inv ==
    /\ TypeOK
    /\ CachedOpen
    /\ Handles
    /\ Counts
    /\ Serves
    /\ ShutPoisoned
    /\ FenceOld
    /\ LiveLeaseIsOpen

-----------------------------------------------------------------------------
(* What a step may do.                                                     *)

\* Nobody live is left on the entry, or it may go from under its users.
Gone(i) ==
    closed' \/ entry[i].fence # owner \/ spent'.cancels > 0 \/ entry'[i].usages = 0

EntryChange(i) ==
    /\ entry[i].st = "open" => entry'[i].st = "open" /\ entry'[i].fence = entry[i].fence
    /\ \/ entry'[i].session = entry[i].session
       \/ entry[i].st = "unused"
       \/ i = cached /\ ~closed /\ ~Busy(i)
    /\ entry[i].poisoned => entry'[i].poisoned
    /\ entry'[i].shut # "no" => entry[i].shut # "no" \/ entry'[i].poisoned
    /\ entry[i].shut = "no" /\ entry'[i].shut # "no" => Gone(i)
    /\ entry'[i].seen <= owner' /\ (entry'[i].fence # NONE => entry'[i].fence <= owner')

\* The counters of entry i follow call c.
Counted(c, i) ==
    /\ entry'[i].pending + Ind(call[c].pc \in Claiming /\ call[c].e = i)
         = entry[i].pending + Ind(call'[c].pc \in Claiming /\ call'[c].e = i)
    /\ ~closed => entry'[i].usages + Ind(call[c].pc = "live" /\ call[c].e = i)
         = entry[i].usages + Ind(call'[c].pc = "live" /\ call'[c].e = i)
    /\ entry'[i].waiters + Ind(call[c].pc = "waitrebind" /\ call[c].e = i)
         = entry[i].waiters + Ind(call'[c].pc = "waitrebind" /\ call'[c].e = i)

CallChange(c) ==
    /\ call' \in [Calls -> CallRec]
    /\ \A d \in Calls : d # c => call'[d] = call[d]
    /\ call'[c].seen <= owner'
    /\ call'[c].pc \in Holding =>
         \/ cached # NONE /\ call'[c].e = cached
         \/ call[c].pc \in Holding /\ call'[c].e = call[c].e
    /\ call'[c].pc = "waitopen" => call'[c].e \in Ids
    /\ call'[c].pc \in Serving => entry'[call'[c].e].session = Session[c]
    /\ call'[c].pc = "live" =>
         \/ call[c].pc = "live" /\ call'[c].e = call[c].e
         \/ entry'[call'[c].e].shut = "no"

CacheChange ==
    /\ cached' \in Ids \cup {NONE}
    /\ cached' # NONE => cached' = cached \/ entry'[cached'].st = "open"

\* The step of call c.
Taken(c) ==
    /\ owner' = owner /\ closed' = closed
    /\ entry' \in Entries
    /\ \A i \in Ids : EntryChange(i) /\ Counted(c, i)
    /\ CallChange(c)
    /\ CacheChange

\* A step of no call.
Background ==
    /\ call' = call /\ owner' >= owner /\ (closed => closed')
    /\ entry' \in Entries
    /\ \A i \in Ids : EntryChange(i) /\ Counters(entry'[i], entry[i])
    /\ CacheChange

\* The counters of what calls hold are not zero.
LEMMA HeldCounts ==
    ASSUME Inv, NEW c \in Calls
    PROVE  /\ call[c].pc \in Claiming => entry[call[c].e].pending > 0
           /\ call[c].pc = "live" /\ ~closed => entry[call[c].e].usages > 0
           /\ call[c].pc = "waitrebind" => entry[call[c].e].waiters > 0
<1>1. ASSUME NEW S, S \subseteq Calls, c \in S PROVE Cardinality(S) \in Nat \ {0}
  <2>1. IsFiniteSet(S) /\ S # {}
    BY <1>1, RuntimeAssumption, FS_Subset
  <2> QED BY <2>1, FS_EmptySet, FS_CardinalityType
<1>2. call[c].pc \in Holding => call[c].e \in Ids
  BY DEF Inv, Handles
<1>3. ASSUME NEW pcs, call[c].pc \in pcs PROVE Cardinality(In(pcs, call[c].e)) \in Nat \ {0}
  <2>1. In(pcs, call[c].e) \subseteq Calls /\ c \in In(pcs, call[c].e)
    BY <1>3 DEF In
  <2> QED BY <1>1, <2>1
<1> QED BY <1>2, <1>3 DEF Inv, Counts, Holding, Serving, Claiming

\* A step that leaves an entry's facts alone may do so.
LEMMA FactsKept ==
    ASSUME Inv, NEW i \in Ids, Facts(entry'[i], entry[i]), owner' \in Nat, owner' >= owner
    PROVE  EntryChange(i)
<1>1. entry[i] \in EntryRec /\ owner \in Nat /\ NONE \notin Nat
  BY RuntimeAssumption DEF Inv, TypeOK
<1>2. entry[i].seen \in Nat /\ entry[i].fence \in Nat \cup {NONE}
  BY <1>1 DEF EntryRec
<1>3. entry[i].seen <= owner /\ (entry[i].fence # NONE => entry[i].fence <= owner)
  BY DEF Inv, FenceOld
<1> QED BY <1>1, <1>2, <1>3 DEF Facts, EntryChange

\* What leaving the set of waiters does, if the call is in it.
LEMMA LeftForm ==
    ASSUME Inv, NEW c \in Calls
    PROVE  /\ Left(c) \in Entries
           /\ \A i \in Ids :
                /\ Facts(Left(c)[i], entry[i])
                /\ Left(c)[i].pending = entry[i].pending
                /\ Left(c)[i].usages = entry[i].usages
                /\ entry[i].waiters =
                     Left(c)[i].waiters + Ind(call[c].pc = "waitrebind" /\ call[c].e = i)
<1>1. entry \in Entries
  BY DEF Inv, TypeOK, Entries
<1>2. CASE call[c].pc = "waitrebind"
  <2>1. call[c].e \in Ids /\ entry[call[c].e].waiters > 0
    BY <1>2, HeldCounts DEF Inv, Handles, Holding
  <2>2. Left(c) = LessWait(entry, call[c].e)
    BY <1>2 DEF Left, LessWait
  <2> QED BY <1>1, <1>2, <2>1, <2>2, WaiterLess DEF Ind
<1>3. CASE call[c].pc # "waitrebind"
  <2>1. Left(c) = entry
    BY <1>3 DEF Left
  <2>2. \A i \in Ids : entry[i].waiters \in Nat
    BY <1>1 DEF Entries, EntryRec
  <2> QED BY <1>1, <1>3, <2>1, <2>2 DEF Ind, Facts
<1> QED BY <1>2, <1>3

\* The calls after an answer, and after a move to another point.
LEMMA CallForms ==
    ASSUME Inv, NEW c \in Calls
    PROVE  /\ \A out \in {"ok", "busy", "rebind_busy", "failed", "fence_lost",
                          "unavailable", "unsafe", "cancelled"} :
                call' = Answered(c, out) =>
                  /\ call' \in [Calls -> CallRec]
                  /\ \A d \in Calls : d # c => call'[d] = call[d]
                  /\ call'[c].pc = "done" /\ call'[c].seen = call[c].seen
           /\ \A pc \in {"inspected", "waitrebind", "rebinding", "waitopen", "leasing"},
                 e \in Ids \cup {NONE} :
                call' = At(c, pc, e) =>
                  /\ call' \in [Calls -> CallRec]
                  /\ \A d \in Calls : d # c => call'[d] = call[d]
                  /\ call'[c].pc = pc /\ call'[c].seen = call[c].seen /\ call'[c].e = e
<1>0. call \in [Calls -> CallRec] /\ call[c] \in CallRec
  BY DEF Inv, TypeOK
<1>1. ASSUME NEW out \in {"ok", "busy", "rebind_busy", "failed", "fence_lost",
                          "unavailable", "unsafe", "cancelled"},
             call' = Answered(c, out)
      PROVE  /\ call' \in [Calls -> CallRec]
             /\ \A d \in Calls : d # c => call'[d] = call[d]
             /\ call'[c].pc = "done" /\ call'[c].seen = call[c].seen
  <2> DEFINE r == [call[c] EXCEPT !.pc = "done", !.out = out]
  <2>1. call' = [call EXCEPT ![c] = r]
    BY <1>0, <1>1 DEF Answered
  <2>2. r \in CallRec /\ r.pc = "done" /\ r.seen = call[c].seen
    BY <1>0 DEF CallRec
  <2> HIDE DEF r
  <2> QED BY <1>0, <2>1, <2>2
<1>2. ASSUME NEW pc \in {"inspected", "waitrebind", "rebinding", "waitopen", "leasing"},
             NEW e \in Ids \cup {NONE}, call' = At(c, pc, e)
      PROVE  /\ call' \in [Calls -> CallRec]
             /\ \A d \in Calls : d # c => call'[d] = call[d]
             /\ call'[c].pc = pc /\ call'[c].seen = call[c].seen /\ call'[c].e = e
  <2> DEFINE r == [call[c] EXCEPT !.pc = pc, !.e = e]
  <2>1. call' = [call EXCEPT ![c] = r]
    BY <1>0, <1>2 DEF At
  <2>2. r \in CallRec /\ r.pc = pc /\ r.seen = call[c].seen /\ r.e = e
    BY <1>0 DEF CallRec
  <2> HIDE DEF r
  <2> QED BY <1>0, <2>1, <2>2
<1> QED BY <1>1, <1>2

\* What every step starts from.
LEMMA Basics ==
    ASSUME Inv
    PROVE  /\ entry \in Entries /\ owner \in Nat /\ NONE \notin Nat
           /\ cached \in Ids \cup {NONE} /\ opening \in Ids \cup {NONE} /\ NONE \notin Ids
           /\ \A i \in Ids : /\ entry[i].pending \in Nat /\ entry[i].usages \in Nat
                             /\ entry[i].waiters \in Nat
           /\ \A c \in Calls : /\ call[c] \in CallRec /\ call[c].seen <= owner
                               /\ call[c].seen \in Nat
<1>1. /\ entry \in Entries /\ owner \in Nat /\ NONE \notin Nat
      /\ cached \in Ids \cup {NONE} /\ opening \in Ids \cup {NONE}
      /\ \A c \in Calls : call[c] \in CallRec
  BY RuntimeAssumption DEF Inv, TypeOK, Entries
<1>2. NONE \notin Ids
  BY <1>1 DEF Ids
<1>3. \A i \in Ids : entry[i] \in EntryRec
  BY <1>1 DEF Entries
<1>4. \A i \in Ids : /\ entry[i].pending \in Nat /\ entry[i].usages \in Nat
                     /\ entry[i].waiters \in Nat
  BY <1>3 DEF EntryRec
<1>5. \A c \in Calls : call[c].seen <= owner /\ call[c].seen \in Nat
  BY <1>1 DEF Inv, FenceOld, CallRec
<1> QED BY <1>1, <1>2, <1>4, <1>5

\* A call that is answered gives up what it held, and its counters follow.
LEMMA AnswerTaken ==
    ASSUME Inv, NEW c \in Calls,
           NEW out \in {"ok", "busy", "rebind_busy", "failed", "fence_lost",
                        "unavailable", "unsafe", "cancelled"},
           call' = Answered(c, out), owner' = owner, closed' = closed,
           entry' \in Entries, CacheChange, \A i \in Ids : EntryChange(i),
           \A i \in Ids :
             /\ entry[i].pending = entry'[i].pending
                                   + Ind(call[c].pc \in Claiming /\ call[c].e = i)
             /\ ~closed => entry[i].usages = entry'[i].usages
                                   + Ind(call[c].pc = "live" /\ call[c].e = i)
             /\ entry[i].waiters = entry'[i].waiters
                                   + Ind(call[c].pc = "waitrebind" /\ call[c].e = i)
    PROVE  Taken(c)
<1>1. /\ call' \in [Calls -> CallRec] /\ \A d \in Calls : d # c => call'[d] = call[d]
      /\ call'[c].pc = "done" /\ call'[c].seen = call[c].seen
  BY CallForms
<1>2. CallChange(c)
  BY <1>1, Basics DEF CallChange, Holding, Serving, Claiming
<1>3. \A i \in Ids : entry'[i].pending \in Nat /\ entry'[i].usages \in Nat
                     /\ entry'[i].waiters \in Nat
  <2>1. \A i \in Ids : entry'[i] \in EntryRec
    BY DEF Entries
  <2> QED BY <2>1 DEF EntryRec
<1>4. \A i \in Ids : Counted(c, i)
  BY <1>1, <1>3 DEF Counted, Claiming, Ind
<1> QED BY <1>2, <1>4 DEF Taken

\* A call that is refused out of the loop leaves the waiters, if it was one.
LEMMA RefusedTaken ==
    ASSUME Inv, NEW c \in Calls,
           NEW out \in {"busy", "rebind_busy", "unavailable"},
           call' = Answered(c, out), entry' = Left(c), owner' = owner,
           closed' = closed, cached' = cached, call[c].pc \in {"inspected", "waitrebind"}
    PROVE  Taken(c)
<1>1. entry' \in Entries /\ CacheChange
  BY LeftForm, Basics DEF CacheChange
<1>2. \A i \in Ids : EntryChange(i)
  BY LeftForm, FactsKept, Basics
<1>3. call[c].pc \notin Claiming /\ call[c].pc # "live"
  BY DEF Claiming
<1>4. \A i \in Ids :
             /\ entry[i].pending = entry'[i].pending
                                   + Ind(call[c].pc \in Claiming /\ call[c].e = i)
             /\ ~closed => entry[i].usages = entry'[i].usages
                                   + Ind(call[c].pc = "live" /\ call[c].e = i)
             /\ entry[i].waiters = entry'[i].waiters
                                   + Ind(call[c].pc = "waitrebind" /\ call[c].e = i)
  BY <1>3, LeftForm, Basics DEF Ind
<1> QED BY <1>1, <1>2, <1>4, AnswerTaken

\* The calls that run the loop of _entry_for.
LEMMA LookingAt ==
    ASSUME NEW c \in Calls, Looking(c)
    PROVE  call[c].pc \in {"inspected", "waitrebind"}
BY DEF Looking, Woken

\* Inspection, the next request of a client, the loop's refusals, and the
\* deadline of a waiting start.
LEMMA RefusalSteps ==
    ASSUME Inv, NEW c \in Calls,
           Inspect(c) \/ Again(c) \/ Stale(c) \/ YieldToStart(c) \/ RebindTimeout(c)
    PROVE  Taken(c)
<1>1. CASE Stale(c) \/ YieldToStart(c) \/ RebindTimeout(c)
  <2>1. call[c].pc \in {"inspected", "waitrebind"}
    BY <1>1, LookingAt DEF Stale, YieldToStart, RebindTimeout
  <2>2. /\ entry' = Left(c) /\ owner' = owner /\ closed' = closed /\ cached' = cached
        /\ call' = Answered(c, "unavailable") \/ call' = Answered(c, "rebind_busy")
    BY <1>1 DEF Stale, YieldToStart, RebindTimeout, bundle, cache
  <2> QED BY <2>1, <2>2, RefusedTaken
<1>2. CASE Inspect(c) \/ Again(c)
  <2>1. /\ entry' = entry /\ owner' = owner /\ closed' = closed /\ cached' = cached
        /\ call[c].pc \in {"idle", "done"}
    BY <1>2 DEF Inspect, Again, bundle, cache
  <2>2. entry' \in Entries /\ CacheChange /\ \A i \in Ids : EntryChange(i)
    BY <2>1, Basics, FactsKept DEF CacheChange, Facts
  <2>3. /\ call' \in [Calls -> CallRec] /\ \A d \in Calls : d # c => call'[d] = call[d]
        /\ call'[c].pc \in {"idle", "inspected", "done"} /\ call'[c].seen <= owner
    <3>1. CASE Inspect(c) /\ closed
      BY <3>1, CallForms, Basics DEF Inspect
    <3>2. CASE Inspect(c) /\ ~closed
      <4> DEFINE r == [call[c] EXCEPT !.pc = "inspected", !.seen = owner]
      <4>0. call \in [Calls -> CallRec] /\ call[c] \in CallRec /\ owner \in Nat
        BY DEF Inv, TypeOK
      <4>1. call' = [call EXCEPT ![c] = r]
        BY <3>2, <4>0 DEF Inspect
      <4>2. r \in CallRec /\ r.pc = "inspected" /\ r.seen = owner
        BY <4>0 DEF CallRec
      <4> HIDE DEF r
      <4> QED BY <4>0, <4>1, <4>2
    <3>3. CASE Again(c)
      <4>1. Idle \in CallRec /\ Idle.pc = "idle" /\ Idle.seen = 0
        BY DEF Idle, CallRec
      <4> QED BY <3>3, <4>1, Basics DEF Again, Inv, TypeOK
    <3> QED BY <1>2, <3>1, <3>2, <3>3
  <2>4. CallChange(c)
    BY <2>1, <2>3 DEF CallChange, Holding, Serving, Claiming
  <2>5. \A i \in Ids : Counted(c, i)
    BY <2>1, <2>3, Basics DEF Counted, Claiming, Ind
  <2> QED BY <2>1, <2>2, <2>4, <2>5 DEF Taken
<1> QED BY <1>1, <1>2

\* A lease of the cached entry is claimed for the session it is bound to.
LEMMA ReuseStep ==
    ASSUME Inv, NEW c \in Calls, Reuse(c)
    PROVE  Taken(c)
<1>1. /\ call[c].pc \in {"inspected", "waitrebind"} /\ cached \in Ids /\ cached # NONE
      /\ entry[cached].session = Session[c] /\ call' = At(c, "leasing", cached)
      /\ owner' = owner /\ closed' = closed /\ cached' = cached
  BY LookingAt, Basics DEF Reuse, SameRoute, bundle, cache
<1>2. entry' = MoreClaim(Left(c), cached)
  BY DEF Reuse, MoreClaim
<1>3. /\ entry' \in Entries
      /\ \A i \in Ids :
           /\ Facts(entry'[i], Left(c)[i])
           /\ entry'[i].pending = Left(c)[i].pending + Ind(i = cached)
           /\ entry'[i].usages = Left(c)[i].usages /\ entry'[i].waiters = Left(c)[i].waiters
  BY <1>1, <1>2, PendingMore, LeftForm
<1>4. \A i \in Ids : Facts(entry'[i], entry[i])
  BY <1>3, LeftForm DEF Facts
<1>5. \A i \in Ids : EntryChange(i)
  BY <1>1, <1>4, FactsKept, Basics
<1>6. /\ call' \in [Calls -> CallRec] /\ \A d \in Calls : d # c => call'[d] = call[d]
      /\ call'[c].pc = "leasing" /\ call'[c].seen = call[c].seen /\ call'[c].e = cached
  BY <1>1, CallForms
<1>7. CallChange(c)
  BY <1>1, <1>4, <1>6, Basics DEF CallChange, Facts
<1>8. \A i \in Ids : Counted(c, i)
  BY <1>1, <1>3, <1>6, LeftForm, Basics DEF Counted, Claiming, Ind
<1> QED BY <1>1, <1>3, <1>5, <1>7, <1>8, Basics DEF Taken, CacheChange

\* An entry nobody uses is bound to the session of the call.
LEMMA RebindStep ==
    ASSUME Inv, NEW c \in Calls, Rebind(c)
    PROVE  Taken(c)
<1>1. /\ call[c].pc \in {"inspected", "waitrebind"} /\ cached \in Ids /\ cached # NONE
      /\ ~Busy(cached) /\ ~closed /\ call' = At(c, "rebinding", cached)
      /\ owner' = owner /\ closed' = closed /\ cached' = cached
  BY LookingAt, Basics DEF Rebind, bundle, cache
<1>2. entry' = Bind(Left(c), cached, Session[c]) /\ Session[c] \in Sessions
  BY DEF Rebind, Bind, Sessions
<1>3. /\ entry' \in Entries
      /\ \A i \in Ids :
           /\ entry'[i].st = Left(c)[i].st /\ entry'[i].seen = Left(c)[i].seen
           /\ entry'[i].fence = Left(c)[i].fence
           /\ entry'[i].poisoned = Left(c)[i].poisoned
           /\ entry'[i].shut = Left(c)[i].shut
           /\ entry'[i].session = IF i = cached THEN Session[c] ELSE Left(c)[i].session
           /\ entry'[i].pending = Left(c)[i].pending + Ind(i = cached)
           /\ entry'[i].usages = Left(c)[i].usages /\ entry'[i].waiters = Left(c)[i].waiters
  BY <1>1, <1>2, Bound, LeftForm
<1>4. ASSUME NEW i \in Ids PROVE EntryChange(i)
  <2>1. Facts(Left(c)[i], entry[i])
    BY LeftForm
  <2>2. /\ entry'[i].st = entry[i].st /\ entry'[i].seen = entry[i].seen
        /\ entry'[i].fence = entry[i].fence
        /\ entry'[i].poisoned = entry[i].poisoned /\ entry'[i].shut = entry[i].shut
        /\ entry'[i].session = entry[i].session \/ i = cached
    BY <1>3, <2>1 DEF Facts
  <2> QED BY <1>1, <2>2 DEF EntryChange, Inv, FenceOld
<1>5. /\ call' \in [Calls -> CallRec] /\ \A d \in Calls : d # c => call'[d] = call[d]
      /\ call'[c].pc = "rebinding" /\ call'[c].seen = call[c].seen /\ call'[c].e = cached
  BY <1>1, CallForms
<1>6. CallChange(c)
  BY <1>1, <1>3, <1>5, Basics DEF CallChange
<1>7. \A i \in Ids : Counted(c, i)
  BY <1>1, <1>3, <1>5, LeftForm, Basics DEF Counted, Claiming, Ind
<1> QED BY <1>1, <1>3, <1>4, <1>6, <1>7, Basics DEF Taken, CacheChange

\* The entry is in use: the call waits or is refused.
LEMMA InUseStep ==
    ASSUME Inv, NEW c \in Calls, InUse(c)
    PROVE  Taken(c)
<1>1. /\ call[c].pc \in {"inspected", "waitrebind"} /\ cached \in Ids /\ cached # NONE
      /\ owner' = owner /\ closed' = closed /\ cached' = cached
  BY LookingAt, Basics DEF InUse, bundle, cache
<1>2. CASE ~(Kind[c] = "start" /\ Authorized(cached, c))
  <2>1. entry' = Left(c) /\ call' = Answered(c, "busy")
    BY <1>2 DEF InUse
  <2> QED BY <1>1, <2>1, RefusedTaken
<1>3. CASE Kind[c] = "start" /\ Authorized(cached, c)
  <2>1. entry' = MoreWait(Left(c), cached) /\ call' = At(c, "waitrebind", cached)
    BY <1>3 DEF InUse, MoreWait
  <2>2. /\ entry' \in Entries
        /\ \A i \in Ids :
             /\ Facts(entry'[i], Left(c)[i])
             /\ entry'[i].waiters = Left(c)[i].waiters + Ind(i = cached)
             /\ entry'[i].usages = Left(c)[i].usages
             /\ entry'[i].pending = Left(c)[i].pending
    BY <1>1, <2>1, WaiterMore, LeftForm
  <2>3. \A i \in Ids : Facts(entry'[i], entry[i])
    BY <2>2, LeftForm DEF Facts
  <2>4. \A i \in Ids : EntryChange(i)
    BY <1>1, <2>3, FactsKept, Basics
  <2>5. /\ call' \in [Calls -> CallRec] /\ \A d \in Calls : d # c => call'[d] = call[d]
        /\ call'[c].pc = "waitrebind" /\ call'[c].seen = call[c].seen
        /\ call'[c].e = cached
    BY <1>1, <2>1, CallForms
  <2>6. CallChange(c)
    BY <1>1, <2>5, Basics DEF CallChange, Serving, Claiming
  <2>7. \A i \in Ids : Left(c)[i].waiters \in Nat
    <3>1. \A i \in Ids : Left(c)[i] \in EntryRec
      BY LeftForm DEF Entries
    <3> QED BY <3>1 DEF EntryRec
  <2>8. \A i \in Ids : Counted(c, i)
    BY <1>1, <2>2, <2>5, <2>7, LeftForm, Basics DEF Counted, Claiming, Ind
  <2> QED BY <1>1, <2>2, <2>4, <2>6, <2>8, Basics DEF Taken, CacheChange
<1> QED BY <1>2, <1>3

\* The entries es are this state's with c out of the waiters and, it may be,
\* entries that nobody uses poisoned.
LeftBehind(c, es) ==
    /\ es \in Entries
    /\ \A j \in Ids :
         /\ es[j].pending = entry[j].pending /\ es[j].usages = entry[j].usages
         /\ entry[j].waiters =
              es[j].waiters + Ind(call[c].pc = "waitrebind" /\ call[c].e = j)
         /\ es[j].st = entry[j].st /\ es[j].session = entry[j].session
         /\ es[j].seen = entry[j].seen /\ es[j].fence = entry[j].fence
         /\ \/ es[j].poisoned = entry[j].poisoned /\ es[j].shut = entry[j].shut
            \/ es[j].poisoned = TRUE /\ entry[j].usages = 0

\* Entries left behind are a possible change.
LEMMA LeftBehindChange ==
    ASSUME Inv, NEW c \in Calls, NEW i \in Ids, LeftBehind(c, entry'), owner' = owner
    PROVE  EntryChange(i)
<1>1. entry[i] \in EntryRec /\ NONE \notin Nat
  BY Basics DEF Entries
<1>2. /\ entry[i].seen <= owner /\ (entry[i].fence # NONE => entry[i].fence <= owner)
      /\ entry[i].shut # "no" => entry[i].poisoned
  BY DEF Inv, FenceOld, ShutPoisoned
<1> QED BY <1>2 DEF EntryChange, LeftBehind, Gone

\* Leaving the waiters, and discarding the idle cached entry after it.
LEMMA BehindForms ==
    ASSUME Inv, NEW c \in Calls
    PROVE  /\ LeftBehind(c, Left(c))
           /\ cached # NONE /\ ~Busy(cached) => LeftBehind(c, Discard(Left(c), cached))
           /\ cached # NONE /\ ~Busy(cached) =>
                LeftBehind(c, [Left(c) EXCEPT ![cached].poisoned = TRUE])
<1>1. LeftBehind(c, Left(c))
  BY LeftForm DEF LeftBehind, Facts
<1>2. cached # NONE => cached \in Ids
  BY Basics
<1>3. cached # NONE /\ ~Busy(cached) => entry[cached].usages = 0
  BY <1>2, Basics DEF Busy
<1>4. ASSUME cached # NONE, ~Busy(cached) PROVE LeftBehind(c, Discard(Left(c), cached))
  <2> DEFINE es == Left(c)
             fs == Discard(es, cached)
  <2>1. es \in Entries /\ LeftBehind(c, es)
    BY <1>1 DEF LeftBehind
  <2> HIDE DEF es
  <2>2. /\ fs \in Entries
        /\ \A i \in Ids : Counters(fs[i], es[i]) /\ (i # cached => Facts(fs[i], es[i]))
        /\ fs[cached].st = es[cached].st /\ fs[cached].session = es[cached].session
        /\ fs[cached].seen = es[cached].seen /\ fs[cached].fence = es[cached].fence
        /\ fs[cached].poisoned = TRUE
    BY <1>2, <1>4, <2>1, Discarded
  <2> HIDE DEF fs
  <2>3. LeftBehind(c, fs)
    BY <1>3, <1>4, <2>1, <2>2 DEF LeftBehind, Facts, Counters
  <2> QED BY <2>3 DEF fs, es
<1>5. ASSUME cached # NONE, ~Busy(cached)
      PROVE  LeftBehind(c, [Left(c) EXCEPT ![cached].poisoned = TRUE])
  <2> DEFINE es == Left(c)
             fs == [es EXCEPT ![cached].poisoned = TRUE]
             r == [es[cached] EXCEPT !.poisoned = TRUE]
  <2>1. es \in Entries /\ LeftBehind(c, es)
    BY <1>1 DEF LeftBehind
  <2> HIDE DEF es
  <2>2. es[cached] \in EntryRec /\ fs = [es EXCEPT ![cached] = r]
    BY <1>2, <1>5, <2>1 DEF Entries
  <2>3. r \in EntryRec
    BY <2>2, EntryFields
  <2>4. /\ Counters(r, es[cached]) /\ r.st = es[cached].st
        /\ r.session = es[cached].session /\ r.seen = es[cached].seen
        /\ r.fence = es[cached].fence /\ r.poisoned = TRUE
    BY <2>2 DEF EntryRec, Counters
  <2> HIDE DEF r
  <2>5. fs \in Entries /\ fs[cached] = r /\ \A i \in Ids : i # cached => fs[i] = es[i]
    BY <1>2, <1>5, <2>1, <2>2, <2>3 DEF Entries
  <2> HIDE DEF fs
  <2>6. LeftBehind(c, fs)
    BY <1>3, <1>5, <2>1, <2>4, <2>5 DEF LeftBehind, Counters
  <2> QED BY <2>6 DEF fs, es
<1> QED BY <1>1, <1>4, <1>5

\* The opening of a fresh entry is started for the call.
LEMMA OpeningTaken ==
    ASSUME Inv, NEW c \in Calls, NEW i \in Fresh, NEW es, LeftBehind(c, es),
           call[c].pc \in {"inspected", "waitrebind"},
           entry' = NewOpening(es, i, c), call' = At(c, "waitopen", i),
           owner' = owner, closed' = closed, cached' = cached \/ cached' = NONE
    PROVE  Taken(c)
<1>1. i \in Ids /\ entry[i].st = "unused" /\ es \in Entries
  BY DEF Fresh, LeftBehind
<1>2. /\ entry' \in Entries
      /\ \A j \in Ids : Counters(entry'[j], es[j]) /\ (j # i => Facts(entry'[j], es[j]))
      /\ entry'[i].st = "opening" /\ entry'[i].seen = call[c].seen
      /\ entry'[i].fence = es[i].fence /\ entry'[i].poisoned = es[i].poisoned
      /\ entry'[i].shut = es[i].shut
  BY <1>1, NewlyOpening DEF Inv
<1>3. ASSUME NEW j \in Ids PROVE EntryChange(j)
  <2>1. /\ entry[j].seen <= owner /\ (entry[j].fence # NONE => entry[j].fence <= owner)
        /\ entry[j].shut # "no" => entry[j].poisoned
    BY DEF Inv, FenceOld, ShutPoisoned
  <2>2. call[c].seen <= owner
    BY Basics
  <2>3. CASE j = i
    BY <1>1, <1>2, <2>1, <2>2, <2>3 DEF EntryChange, LeftBehind, Gone, Counters
  <2>4. CASE j # i
    BY <1>1, <1>2, <2>1, <2>4 DEF EntryChange, LeftBehind, Gone, Counters, Facts
  <2> QED BY <2>3, <2>4
<1>4. /\ call' \in [Calls -> CallRec] /\ \A d \in Calls : d # c => call'[d] = call[d]
      /\ call'[c].pc = "waitopen" /\ call'[c].seen = call[c].seen /\ call'[c].e = i
  BY <1>1, CallForms
<1>5. CallChange(c)
  BY <1>1, <1>4, Basics DEF CallChange, Holding, Serving, Claiming
<1>6. ASSUME NEW j \in Ids PROVE Counted(c, j)
  <2>1. es[j].waiters \in Nat
    BY <1>1 DEF Entries, EntryRec
  <2> QED BY <1>2, <1>4, <2>1, Basics DEF Counted, Claiming, Ind, LeftBehind, Counters
<1>7. CacheChange
  BY Basics DEF CacheChange
<1> QED BY <1>2, <1>3, <1>5, <1>6, <1>7 DEF Taken

\* The cached entry is replaced, an entry is opened, or the call is refused
\* because the opening limit is reached.
LEMMA OpenSteps ==
    ASSUME Inv, NEW c \in Calls, Replace(c) \/ ReplaceRefused(c) \/ Open(c)
    PROVE  Taken(c)
<1>0. call[c].pc \in {"inspected", "waitrebind"} /\ owner' = owner /\ closed' = closed
  BY LookingAt DEF Replace, ReplaceRefused, Open, bundle
<1>1. CASE Replace(c)
  <2>1. PICK i \in Fresh : /\ entry' = NewOpening(Discard(Left(c), cached), i, c)
                           /\ call' = At(c, "waitopen", i)
    BY <1>1 DEF Replace
  <2>2. cached # NONE /\ ~Busy(cached) /\ cached' = NONE
    BY <1>1 DEF Replace
  <2>3. LeftBehind(c, Discard(Left(c), cached))
    BY <2>2, BehindForms
  <2> QED BY <1>0, <2>1, <2>2, <2>3, OpeningTaken
<1>2. CASE ReplaceRefused(c)
  <2>1. /\ entry' = [Left(c) EXCEPT ![cached].poisoned = TRUE]
        /\ cached # NONE /\ ~Busy(cached) /\ cached' = NONE /\ call' = Answered(c, "busy")
    BY <1>2 DEF ReplaceRefused
  <2>2. LeftBehind(c, entry')
    BY <2>1, BehindForms
  <2>3. entry' \in Entries /\ CacheChange /\ \A i \in Ids : EntryChange(i)
    BY <1>0, <2>1, <2>2, LeftBehindChange DEF CacheChange, LeftBehind
  <2>4. \A i \in Ids :
             /\ entry[i].pending = entry'[i].pending
                                   + Ind(call[c].pc \in Claiming /\ call[c].e = i)
             /\ ~closed => entry[i].usages = entry'[i].usages
                                   + Ind(call[c].pc = "live" /\ call[c].e = i)
             /\ entry[i].waiters = entry'[i].waiters
                                   + Ind(call[c].pc = "waitrebind" /\ call[c].e = i)
    BY <1>0, <2>2, Basics DEF LeftBehind, Ind, Claiming
  <2> QED BY <1>0, <2>1, <2>3, <2>4, AnswerTaken
<1>3. CASE Open(c) /\ full
  <2>1. call' = Answered(c, "busy") /\ entry' = Left(c) /\ cached' = cached
    BY <1>3 DEF Open
  <2> QED BY <1>0, <2>1, RefusedTaken
<1>4. CASE Open(c) /\ ~full
  <2>1. PICK i \in Fresh : entry' = NewOpening(Left(c), i, c) /\ call' = At(c, "waitopen", i)
    BY <1>4 DEF Open
  <2>2. LeftBehind(c, Left(c)) /\ cached' = cached
    BY <1>4, BehindForms DEF Open
  <2> QED BY <1>0, <2>1, <2>2, OpeningTaken
<1> QED BY <1>1, <1>2, <1>3, <1>4

\* A call joins the opening that runs, and wakes when it has ended.
LEMMA WaitSteps ==
    ASSUME Inv, NEW c \in Calls, Join(c) \/ Opened(c)
    PROVE  Taken(c)
<1>0. owner' = owner /\ closed' = closed /\ cached' = cached
  BY DEF Join, Opened, bundle, cache
<1>1. CASE Join(c) /\ ~Authorized(opening, c)
  <2>1. /\ call' = Answered(c, "busy") /\ entry' = Left(c)
        /\ call[c].pc \in {"inspected", "waitrebind"}
    BY <1>1, LookingAt DEF Join
  <2> QED BY <1>0, <2>1, RefusedTaken
<1>2. CASE Opened(c) /\ entry[call[c].e].st # "open"
  <2>1. call' = Answered(c, "failed") /\ entry' = entry /\ call[c].pc = "waitopen"
    BY <1>2 DEF Opened
  <2>2. entry' \in Entries /\ CacheChange /\ \A i \in Ids : EntryChange(i)
    BY <1>0, <2>1, Basics, FactsKept DEF CacheChange, Facts
  <2> QED BY <1>0, <2>1, <2>2, AnswerTaken, Basics DEF Ind, Claiming
<1>3. CASE (Join(c) /\ Authorized(opening, c)) \/ (Opened(c) /\ entry[call[c].e].st = "open")
  <2>1. PICK e \in Ids \cup {NONE} :
          \/ call' = At(c, "waitopen", e) /\ e \in Ids
          \/ call' = At(c, "inspected", e)
    BY <1>3, Basics DEF Join, Opened
  <2>2. /\ LeftBehind(c, entry')
        /\ call[c].pc \in {"inspected", "waitrebind", "waitopen"}
    <3>1. CASE Join(c)
      BY <3>1, BehindForms, LookingAt DEF Join
    <3>2. CASE Opened(c)
      <4>1. call[c].pc = "waitopen" /\ entry' = entry /\ Left(c) = entry
        BY <3>2 DEF Opened, Left
      <4> QED BY <4>1, BehindForms
    <3> QED BY <1>3, <3>1, <3>2
  <2>3. /\ call' \in [Calls -> CallRec] /\ \A d \in Calls : d # c => call'[d] = call[d]
        /\ call'[c].pc \in {"waitopen", "inspected"} /\ call'[c].seen = call[c].seen
        /\ call'[c].pc = "waitopen" => call'[c].e \in Ids
    BY <2>1, CallForms
  <2>4. CallChange(c)
    BY <1>0, <2>3, Basics DEF CallChange, Holding, Serving, Claiming
  <2>5. entry' \in Entries /\ CacheChange /\ \A i \in Ids : EntryChange(i)
    BY <1>0, <2>2, LeftBehindChange, Basics DEF CacheChange, LeftBehind
  <2>6. \A i \in Ids : entry'[i].waiters \in Nat
    BY <2>5 DEF Entries, EntryRec
  <2>7. \A i \in Ids : Counted(c, i)
    BY <2>2, <2>3, <2>6, Basics DEF Counted, Claiming, Ind, LeftBehind
  <2> QED BY <1>0, <2>4, <2>5, <2>7 DEF Taken
<1> QED BY <1>1, <1>2, <1>3 DEF Join, Opened

\* A call that moves on with the entry it has, or notes an outcome.
LEMMA MoveForms ==
    ASSUME Inv, NEW c \in Calls
    PROVE  /\ \A pc \in {"leasing", "validated", "live"} :
                call' = [call EXCEPT ![c].pc = pc] =>
                  /\ call' \in [Calls -> CallRec]
                  /\ \A d \in Calls : d # c => call'[d] = call[d]
                  /\ call'[c].pc = pc /\ call'[c].seen = call[c].seen
                  /\ call'[c].e = call[c].e
           /\ call' = [call EXCEPT ![c].out = "unsafe"] =>
                  /\ call' \in [Calls -> CallRec]
                  /\ \A d \in Calls : d # c => call'[d] = call[d]
                  /\ call'[c].pc = call[c].pc /\ call'[c].seen = call[c].seen
                  /\ call'[c].e = call[c].e
<1>0. call \in [Calls -> CallRec] /\ call[c] \in CallRec
  BY DEF Inv, TypeOK
<1>1. ASSUME NEW pc \in {"leasing", "validated", "live"}, call' = [call EXCEPT ![c].pc = pc]
      PROVE  /\ call' \in [Calls -> CallRec]
             /\ \A d \in Calls : d # c => call'[d] = call[d]
             /\ call'[c].pc = pc /\ call'[c].seen = call[c].seen /\ call'[c].e = call[c].e
  <2> DEFINE r == [call[c] EXCEPT !.pc = pc]
  <2>1. call' = [call EXCEPT ![c] = r]
    BY <1>0, <1>1
  <2>2. r \in CallRec /\ r.pc = pc /\ r.seen = call[c].seen /\ r.e = call[c].e
    BY <1>0 DEF CallRec
  <2> HIDE DEF r
  <2> QED BY <1>0, <2>1, <2>2
<1>2. ASSUME call' = [call EXCEPT ![c].out = "unsafe"]
      PROVE  /\ call' \in [Calls -> CallRec]
             /\ \A d \in Calls : d # c => call'[d] = call[d]
             /\ call'[c].pc = call[c].pc /\ call'[c].seen = call[c].seen
             /\ call'[c].e = call[c].e
  <2> DEFINE r == [call[c] EXCEPT !.out = "unsafe"]
  <2>1. call' = [call EXCEPT ![c] = r]
    BY <1>0, <1>2
  <2>2. r \in CallRec /\ r.pc = call[c].pc /\ r.seen = call[c].seen /\ r.e = call[c].e
    BY <1>0 DEF CallRec
  <2> HIDE DEF r
  <2> QED BY <1>0, <2>1, <2>2
<1> QED BY <1>1, <1>2

\* A claim that is given up, with the entry left alone.
LEMMA ClaimDropped ==
    ASSUME Inv, NEW c \in Calls, call[c].pc \in Claiming,
           NEW out \in {"fence_lost", "unavailable", "cancelled"}, call' = Answered(c, out),
           entry' = Unclaim(entry, call[c].e),
           owner' = owner, closed' = closed, cached' = cached
    PROVE  Taken(c)
<1>1. call[c].e \in Ids /\ entry[call[c].e].pending > 0
  BY HeldCounts DEF Inv, Handles, Holding, Serving
<1>2. /\ entry' \in Entries
      /\ \A i \in Ids :
           /\ Facts(entry'[i], entry[i])
           /\ entry[i].pending = entry'[i].pending + Ind(i = call[c].e)
           /\ entry'[i].usages = entry[i].usages /\ entry'[i].waiters = entry[i].waiters
  BY <1>1, Basics, PendingLess
<1>3. CacheChange /\ \A i \in Ids : EntryChange(i)
  BY <1>2, Basics, FactsKept DEF CacheChange
<1> QED BY <1>2, <1>3, AnswerTaken, Basics DEF Claiming, Ind

\* A rebind that fails takes the entry out of the cache and has it closed.
LEMMA RebindDropped ==
    ASSUME Inv, NEW c \in Calls, call[c].pc = "rebinding", Gone(call[c].e), DropRebind(c),
           NEW out \in {"fence_lost", "cancelled"}, call' = Answered(c, out),
           owner' = owner, closed' = closed
    PROVE  Taken(c)
<1> DEFINE e == call[c].e
           es == Unclaim(entry, e)
<1>0. e = call[c].e
  OBVIOUS
<1>1. e \in Ids /\ entry[e].pending > 0
  BY HeldCounts DEF Inv, Handles, Holding, Serving, Claiming
<1>2. /\ es \in Entries
      /\ \A i \in Ids :
           /\ Facts(es[i], entry[i])
           /\ entry[i].pending = es[i].pending + Ind(i = e)
           /\ es[i].usages = entry[i].usages /\ es[i].waiters = entry[i].waiters
  BY <1>1, Basics, PendingLess
<1>3. entry' = Discard(es, e) /\ (cached' = cached \/ cached' = NONE)
  BY DEF DropRebind
<1> HIDE DEF es, e
<1>31. es \in Entries /\ e \in Ids
  BY <1>1, <1>2
<1>32. entry' = Discard(es, e)
  BY <1>3
<1>4. /\ entry' \in Entries
      /\ \A i \in Ids : Counters(entry'[i], es[i]) /\ (i # e => Facts(entry'[i], es[i]))
      /\ entry'[e].st = es[e].st /\ entry'[e].session = es[e].session
      /\ entry'[e].seen = es[e].seen /\ entry'[e].fence = es[e].fence
      /\ entry'[e].poisoned = TRUE
  BY <1>31, <1>32, Discarded
<1>5. ASSUME NEW i \in Ids PROVE EntryChange(i)
  <2>1. CASE i # e
    <3>1. Facts(entry'[i], entry[i])
      BY <1>2, <1>4, <2>1 DEF Facts
    <3> QED BY <3>1, Basics, FactsKept
  <2>2. CASE i = e
    <3>1. /\ entry'[e].st = entry[e].st /\ entry'[e].session = entry[e].session
          /\ entry'[e].seen = entry[e].seen /\ entry'[e].fence = entry[e].fence
          /\ entry'[e].poisoned = TRUE
      BY <1>1, <1>2, <1>4 DEF Facts
    <3>2. entry[e].seen <= owner /\ (entry[e].fence # NONE => entry[e].fence <= owner)
      BY <1>1 DEF Inv, FenceOld
    <3> QED BY <1>0, <2>2, <3>1, <3>2 DEF EntryChange
  <2> QED BY <2>1, <2>2
<1>6. CacheChange
  BY <1>3, Basics DEF CacheChange
<1>7. \A i \in Ids :
             /\ entry[i].pending = entry'[i].pending
                                   + Ind(call[c].pc \in Claiming /\ call[c].e = i)
             /\ ~closed => entry[i].usages = entry'[i].usages
                                   + Ind(call[c].pc = "live" /\ call[c].e = i)
             /\ entry[i].waiters = entry'[i].waiters
                                   + Ind(call[c].pc = "waitrebind" /\ call[c].e = i)
  BY <1>0, <1>2, <1>4, Basics DEF Counters, Ind, Claiming
<1> QED BY <1>4, <1>5, <1>6, <1>7, AnswerTaken

\* A live lease is released, with the entry left alone.
LEMMA LeaseReleased ==
    ASSUME Inv, NEW c \in Calls, call[c].pc = "live", Released(c),
           NEW out \in {"ok", "busy", "rebind_busy", "failed", "fence_lost",
                        "unavailable", "unsafe", "cancelled"}, call' = Answered(c, out),
           owner' = owner, closed' = closed, cached' = cached
    PROVE  Taken(c)
<1>1. /\ entry' \in Entries
      /\ \A i \in Ids :
           /\ Facts(entry'[i], entry[i])
           /\ ~closed => entry[i].usages = entry'[i].usages + Ind(i = call[c].e)
           /\ entry'[i].pending = entry[i].pending /\ entry'[i].waiters = entry[i].waiters
  <2>1. CASE closed
    BY <2>1, Basics DEF Released, Facts
  <2>2. CASE ~closed
    <3>1. call[c].e \in Ids /\ entry[call[c].e].usages > 0
      BY <2>2, HeldCounts DEF Inv, Handles, Holding, Serving
    <3>2. entry' = LessUse(entry, call[c].e)
      BY <2>2 DEF Released, LessUse
    <3> QED BY <3>1, <3>2, Basics, UsageLess
  <2> QED BY <2>1, <2>2
<1>2. CacheChange /\ \A i \in Ids : EntryChange(i)
  BY <1>1, Basics, FactsKept DEF CacheChange
<1> QED BY <1>1, <1>2, AnswerTaken, Basics DEF Claiming, Ind

\* The fence is validated, after a rebind and for the lease.
LEMMA ValidateSteps ==
    ASSUME Inv, NEW c \in Calls, ValidateRebind(c) \/ Validate(c)
    PROVE  Taken(c)
<1>0. owner' = owner /\ closed' = closed /\ call[c].pc \in {"rebinding", "leasing"}
  BY DEF ValidateRebind, Validate, bundle, cache
<1>1. CASE ValidateRebind(c) /\ entry[call[c].e].fence # owner
  BY <1>0, <1>1, RebindDropped DEF ValidateRebind, Gone
<1>2. CASE Validate(c) /\ (closed \/ entry[call[c].e].fence # owner)
  BY <1>0, <1>2, ClaimDropped DEF Validate, cache, Claiming
<1>3. CASE \/ ValidateRebind(c) /\ entry[call[c].e].fence = owner
           \/ Validate(c) /\ ~(closed \/ entry[call[c].e].fence # owner)
  <2>1. /\ entry' = entry /\ cached' = cached
        /\ \/ call' = [call EXCEPT ![c].pc = "leasing"]
           \/ call' = [call EXCEPT ![c].pc = "validated"]
    BY <1>3 DEF ValidateRebind, Validate, cache
  <2>2. /\ call' \in [Calls -> CallRec] /\ \A d \in Calls : d # c => call'[d] = call[d]
        /\ call'[c].pc \in {"leasing", "validated"} /\ call'[c].seen = call[c].seen
        /\ call'[c].e = call[c].e
    BY <2>1, MoveForms
  <2>3. CallChange(c)
    BY <1>0, <2>1, <2>2, Basics DEF CallChange, Holding, Serving, Claiming, Inv, Serves
  <2>4. \A i \in Ids : EntryChange(i)
    BY <1>0, <2>1, Basics, FactsKept DEF Facts
  <2>5. \A i \in Ids : Counted(c, i)
    BY <1>0, <2>1, <2>2, Basics DEF Counted, Claiming, Ind
  <2> QED BY <1>0, <2>1, <2>3, <2>4, <2>5, Basics DEF Taken, CacheChange
<1> QED BY <1>1, <1>2, <1>3 DEF ValidateRebind, Validate

\* The lease becomes live, on an entry that nobody has poisoned.
LEMMA AdmitStep ==
    ASSUME Inv, NEW c \in Calls, Admit(c)
    PROVE  Taken(c)
<1> DEFINE e == call[c].e
           es == Unclaim(entry, e)
<1>0. /\ call[c].pc = "validated" /\ owner' = owner /\ closed' = closed /\ cached' = cached
  BY DEF Admit, bundle, cache
<1>1. CASE entry[e].poisoned \/ closed
  BY <1>0, <1>1, ClaimDropped DEF Admit, Claiming
<1>2. CASE ~(entry[e].poisoned \/ closed)
  <2>1. e \in Ids /\ entry[e].pending > 0 /\ entry[e].session = Session[c]
    BY <1>0, HeldCounts DEF Inv, Handles, Serves, Holding, Serving, Claiming
  <2>2. /\ es \in Entries
        /\ \A i \in Ids :
             /\ Facts(es[i], entry[i])
             /\ entry[i].pending = es[i].pending + Ind(i = e)
             /\ es[i].usages = entry[i].usages /\ es[i].waiters = entry[i].waiters
    BY <2>1, Basics, PendingLess
  <2>3. entry' = MoreUse(es, e) /\ call' = [call EXCEPT ![c].pc = "live"]
    BY <1>2 DEF Admit, MoreUse
  <2> HIDE DEF es
  <2>4. /\ entry' \in Entries
        /\ \A i \in Ids :
             /\ Facts(entry'[i], es[i]) /\ entry'[i].usages = es[i].usages + Ind(i = e)
             /\ entry'[i].pending = es[i].pending /\ entry'[i].waiters = es[i].waiters
    BY <2>1, <2>2, <2>3, UsageMore
  <2>5. \A i \in Ids : Facts(entry'[i], entry[i])
    BY <2>2, <2>4 DEF Facts
  <2>6. \A i \in Ids : EntryChange(i)
    BY <1>0, <2>5, Basics, FactsKept
  <2>7. /\ call' \in [Calls -> CallRec] /\ \A d \in Calls : d # c => call'[d] = call[d]
        /\ call'[c].pc = "live" /\ call'[c].seen = call[c].seen /\ call'[c].e = e
    BY <2>3, MoveForms
  <2>8. entry[e].shut = "no"
    BY <1>2, <2>1 DEF Inv, ShutPoisoned
  <2>9. CallChange(c)
    <3>1. entry'[e].shut = "no" /\ entry'[e].session = Session[c]
      BY <2>1, <2>5, <2>8 DEF Facts
    <3> QED BY <1>0, <2>7, <3>1, Basics DEF CallChange, Holding, Serving, Claiming
  <2>10. \A i \in Ids : es[i].pending \in Nat
    BY <2>2 DEF Entries, EntryRec
  <2>11. \A i \in Ids : Counted(c, i)
    BY <1>0, <2>2, <2>4, <2>7, <2>10, Basics DEF Counted, Claiming, Ind
  <2> QED BY <1>0, <2>4, <2>6, <2>9, <2>11, Basics DEF Taken, CacheChange
<1> QED BY <1>1, <1>2

\* What a live lease writes touches no counter.
LEMMA WriteSteps ==
    ASSUME Inv, NEW c \in Calls, Write(c) \/ Recover(c)
    PROVE  Taken(c)
<1> DEFINE e == call[c].e
<1>0. /\ call[c].pc = "live" /\ owner' = owner /\ closed' = closed /\ cached' = cached
      /\ e \in Ids
  BY DEF Write, Recover, bundle, cache, Inv, Handles, Holding, Serving
<1>1. /\ entry' \in Entries
      /\ \A i \in Ids : Facts(entry'[i], entry[i]) /\ Counters(entry'[i], entry[i])
  <2>1. CASE entry' = entry
    BY <2>1, Basics DEF Facts, Counters
  <2>2. CASE entry' = [entry EXCEPT ![e].recovered = TRUE]
    <3> DEFINE r == [entry[e] EXCEPT !.recovered = TRUE]
    <3>1. entry[e] \in EntryRec /\ entry' = [entry EXCEPT ![e] = r]
      BY <1>0, <2>2, Basics DEF Entries
    <3>2. r \in EntryRec
      BY <3>1, EntryFields
    <3>3. Facts(r, entry[e]) /\ Counters(r, entry[e])
      BY <3>1 DEF EntryRec, Facts, Counters
    <3> HIDE DEF r
    <3>4. entry' \in Entries /\ entry'[e] = r /\ \A i \in Ids : i # e => entry'[i] = entry[i]
      BY <1>0, <3>1, <3>2, Basics DEF Entries
    <3> QED BY <3>3, <3>4 DEF Facts, Counters
  <2> QED BY <2>1, <2>2 DEF Write, Recover
<1>2. /\ call' \in [Calls -> CallRec] /\ \A d \in Calls : d # c => call'[d] = call[d]
      /\ call'[c].pc = call[c].pc /\ call'[c].seen = call[c].seen
      /\ call'[c].e = call[c].e
  <2>1. call' = call \/ call' = [call EXCEPT ![c].out = "unsafe"]
    BY DEF Write, Recover
  <2>2. call \in [Calls -> CallRec]
    BY DEF Inv, TypeOK
  <2> QED BY <2>1, <2>2, MoveForms
<1>3. CallChange(c)
  <2>1. entry[e].session = Session[c]
    BY <1>0 DEF Inv, Serves, Serving
  <2> QED BY <1>0, <1>1, <1>2, <2>1, Basics
         DEF CallChange, Holding, Serving, Claiming, Facts
<1>4. \A i \in Ids : EntryChange(i)
  BY <1>0, <1>1, Basics, FactsKept
<1>5. \A i \in Ids : Counted(c, i)
  BY <1>0, <1>1, <1>2, Basics DEF Counted, Claiming, Ind, Counters
<1> QED BY <1>0, <1>1, <1>3, <1>4, <1>5, Basics DEF Taken, CacheChange

\* The last lease of an idle entry is released and the entry evicted.
LEMMA ReleaseSteps ==
    ASSUME Inv, NEW c \in Calls, Release(c) \/ ReleaseEvicts(c)
    PROVE  Taken(c)
<1> DEFINE e == call[c].e
           out == IF call[c].out = "none" THEN "ok" ELSE call[c].out
<1>0. /\ call[c].pc = "live" /\ owner' = owner /\ closed' = closed /\ e \in Ids
      /\ call' = Answered(c, out) /\ e = call[c].e
  BY DEF Release, ReleaseEvicts, bundle, cache, Inv, Handles, Holding, Serving
<1>1. out \in {"ok", "busy", "rebind_busy", "failed", "fence_lost",
               "unavailable", "unsafe", "cancelled"}
  BY Basics DEF CallRec
<1> HIDE DEF out
<1>2. CASE Release(c)
  <2>1. Released(c) /\ cached' = cached
    BY <1>2 DEF Release, cache
  <2> QED BY <1>0, <1>1, <2>1, LeaseReleased
<1>3. CASE ReleaseEvicts(c)
  <2> DEFINE es == [entry EXCEPT ![e].usages = 0]
             r == [entry[e] EXCEPT !.usages = 0]
  <2>1. /\ entry' = Discard(es, e) /\ cached' = NONE /\ ~closed /\ entry[e].usages = 1
    BY <1>3 DEF ReleaseEvicts
  <2>2. entry[e] \in EntryRec /\ es = [entry EXCEPT ![e] = r]
    BY <1>0, Basics DEF Entries
  <2>3. r \in EntryRec
    BY <2>2, EntryFields
  <2>4. /\ Facts(r, entry[e]) /\ r.usages = 0 /\ r.pending = entry[e].pending
        /\ r.waiters = entry[e].waiters
    BY <2>2 DEF EntryRec, Facts
  <2> HIDE DEF r
  <2>5. es \in Entries /\ es[e] = r /\ \A i \in Ids : i # e => es[i] = entry[i]
    BY <1>0, <2>2, <2>3, Basics DEF Entries
  <2> HIDE DEF es, e
  <2>51. es \in Entries /\ e \in Ids
    BY <1>0, <2>5
  <2>52. entry' = Discard(es, e)
    BY <2>1
  <2>6. /\ entry' \in Entries
        /\ \A i \in Ids : Counters(entry'[i], es[i]) /\ (i # e => Facts(entry'[i], es[i]))
        /\ entry'[e].st = es[e].st /\ entry'[e].session = es[e].session
        /\ entry'[e].seen = es[e].seen /\ entry'[e].fence = es[e].fence
        /\ entry'[e].poisoned = TRUE
    BY <2>51, <2>52, Discarded
  <2>7. ASSUME NEW i \in Ids PROVE EntryChange(i)
    <3>1. CASE i # e
      <4>1. Facts(entry'[i], entry[i])
        BY <2>5, <2>6, <3>1 DEF Facts
      <4> QED BY <1>0, <4>1, Basics, FactsKept
    <3>2. CASE i = e
      <4>1. /\ entry'[e].st = entry[e].st /\ entry'[e].session = entry[e].session
            /\ entry'[e].seen = entry[e].seen /\ entry'[e].fence = entry[e].fence
            /\ entry'[e].poisoned = TRUE /\ entry'[e].usages = 0
        BY <1>0, <2>4, <2>5, <2>6 DEF Facts, Counters
      <4>2. entry[e].seen <= owner /\ (entry[e].fence # NONE => entry[e].fence <= owner)
        BY <1>0 DEF Inv, FenceOld
      <4> QED BY <1>0, <3>2, <4>1, <4>2 DEF EntryChange, Gone
    <3> QED BY <3>1, <3>2
  <2>8. CacheChange
    BY <2>1 DEF CacheChange
  <2>9. ASSUME NEW i \in Ids
        PROVE /\ entry[i].pending = entry'[i].pending
                                   + Ind(call[c].pc \in Claiming /\ call[c].e = i)
              /\ ~closed => entry[i].usages = entry'[i].usages
                                   + Ind(call[c].pc = "live" /\ call[c].e = i)
              /\ entry[i].waiters = entry'[i].waiters
                                   + Ind(call[c].pc = "waitrebind" /\ call[c].e = i)
    BY <1>0, <2>1, <2>4, <2>5, <2>6, Basics DEF Counters, Ind, Claiming
  <2> QED BY <1>0, <1>1, <2>6, <2>7, <2>8, <2>9, AnswerTaken
<1> QED BY <1>2, <1>3

\* A call cancelled at an await gives up what it held there.
LEMMA CancelStep ==
    ASSUME Inv, NEW c \in Calls, Cancel(c)
    PROVE  Taken(c)
<1>0. owner' = owner /\ closed' = closed /\ call' = Answered(c, "cancelled")
  BY DEF Cancel, bundle
<1>1. spent'.cancels > 0
  <2>1. spent \in [cancels : Nat, evictions : Nat, takeovers : Nat, foreign : Nat]
    BY DEF Inv, TypeOK
  <2>2. spent' = [spent EXCEPT !.cancels = @ + 1]
    BY DEF Cancel
  <2> QED BY <2>1, <2>2
<1>2. CASE call[c].pc = "rebinding"
  <2>1. DropRebind(c)
    BY <1>2 DEF Cancel
  <2> QED BY <1>0, <1>1, <1>2, <2>1, RebindDropped DEF Gone
<1>3. CASE call[c].pc \in {"leasing", "validated"}
  <2>1. entry' = Unclaim(entry, call[c].e) /\ cached' = cached
    BY <1>3 DEF Cancel
  <2> QED BY <1>0, <1>3, <2>1, ClaimDropped DEF Claiming
<1>4. CASE call[c].pc = "live"
  <2>1. Released(c) /\ cached' = cached
    BY <1>4 DEF Cancel
  <2> QED BY <1>0, <1>4, <2>1, LeaseReleased
<1>5. CASE call[c].pc \in {"waitrebind", "inspected", "waitopen"}
  <2>1. LeftBehind(c, entry') /\ cached' = cached
    <3>1. entry' = Left(c) /\ cached' = cached
      BY <1>5 DEF Cancel, Left
    <3> QED BY <3>1, BehindForms
  <2>2. entry' \in Entries /\ CacheChange /\ \A i \in Ids : EntryChange(i)
    BY <1>0, <2>1, LeftBehindChange, Basics DEF CacheChange, LeftBehind
  <2>3. \A i \in Ids :
             /\ entry[i].pending = entry'[i].pending
                                   + Ind(call[c].pc \in Claiming /\ call[c].e = i)
             /\ ~closed => entry[i].usages = entry'[i].usages
                                   + Ind(call[c].pc = "live" /\ call[c].e = i)
             /\ entry[i].waiters = entry'[i].waiters
                                   + Ind(call[c].pc = "waitrebind" /\ call[c].e = i)
    BY <1>5, <2>1, Basics DEF LeftBehind, Ind, Claiming
  <2> QED BY <1>0, <2>2, <2>3, AnswerTaken
<1>6. call[c].pc \in {"rebinding", "leasing", "validated", "live", "waitrebind",
                      "inspected", "waitopen"}
  BY Basics DEF Cancel, CallRec
<1> QED BY <1>2, <1>3, <1>4, <1>5, <1>6

\* The entries after one that is not open yet, or no longer, changes its state.
LEMMA OneChanged ==
    ASSUME Inv, NEW i \in Ids, NEW r \in EntryRec, entry' = [entry EXCEPT ![i] = r],
           owner' \in Nat, owner' >= owner, Counters(r, entry[i]),
           entry'[i] = r => EntryChange(i)
    PROVE  /\ entry' \in Entries
           /\ \A j \in Ids : EntryChange(j) /\ Counters(entry'[j], entry[j])
<1>1. entry' \in Entries /\ entry'[i] = r /\ \A j \in Ids : j # i => entry'[j] = entry[j]
  BY Basics DEF Entries
<1>2. \A j \in Ids : j # i => EntryChange(j) /\ Counters(entry'[j], entry[j])
  BY <1>1, FactsKept DEF Facts, Counters
<1> QED BY <1>1, <1>2

\* The entries after the cached one leaves the cache and is closed.
LEMMA CachedDiscarded ==
    ASSUME Inv, cached # NONE, entry' = Discard(entry, cached), owner' = owner,
           closed' \/ ~Busy(cached)
    PROVE  /\ entry' \in Entries
           /\ \A j \in Ids : EntryChange(j) /\ Counters(entry'[j], entry[j])
<1>1. cached \in Ids /\ entry \in Entries
  BY Basics
<1>2. /\ entry' \in Entries
      /\ \A i \in Ids : /\ Counters(entry'[i], entry[i])
                        /\ i # cached => Facts(entry'[i], entry[i])
      /\ entry'[cached].st = entry[cached].st
      /\ entry'[cached].session = entry[cached].session
      /\ entry'[cached].seen = entry[cached].seen
      /\ entry'[cached].fence = entry[cached].fence
      /\ entry'[cached].poisoned = TRUE
  BY <1>1, Discarded
<1>3. \A i \in Ids : i # cached => EntryChange(i)
  BY <1>2, Basics, FactsKept
<1>4. EntryChange(cached)
  <2>1. /\ entry[cached].seen <= owner
        /\ entry[cached].fence # NONE => entry[cached].fence <= owner
    BY <1>1 DEF Inv, FenceOld
  <2>2. Gone(cached)
    BY <1>1, <1>2, Basics DEF Gone, Busy, Counters
  <2> QED BY <1>2, <2>1, <2>2 DEF EntryChange
<1> QED BY <1>2, <1>3, <1>4

\* The steps of the opening task.
LEMMA OpeningSteps ==
    ASSUME Inv, NEW i \in Ids, OpeningStep(i)
    PROVE  Background
<1>0. entry[i] \in EntryRec /\ call' = call /\ closed' = closed
  BY Basics DEF OpeningStep, AcquireFence, OpenLedger, Entries
<1>1. /\ entry[i].seen <= owner /\ (entry[i].fence # NONE => entry[i].fence <= owner)
      /\ entry[i].shut # "no" => entry[i].poisoned
      /\ owner \in Nat /\ NONE \notin Nat
  BY Basics DEF Inv, FenceOld, ShutPoisoned
<1>2. CASE AcquireFence(i) /\ owner' = owner /\ entry' = [entry EXCEPT ![i].st = "failed"]
  <2> DEFINE r == [entry[i] EXCEPT !.st = "failed"]
  <2>1. entry' = [entry EXCEPT ![i] = r] /\ entry[i].st # "open" /\ cached' = cached
    BY <1>2, Basics DEF Entries, AcquireFence
  <2>2. /\ r \in EntryRec /\ Counters(r, entry[i])
        /\ r.session = entry[i].session /\ r.seen = entry[i].seen
        /\ r.fence = entry[i].fence /\ r.poisoned = entry[i].poisoned
        /\ r.shut = entry[i].shut
    BY <1>0 DEF EntryRec, Counters
  <2> HIDE DEF r
  <2>3. entry'[i] = r => EntryChange(i)
    BY <1>1, <1>2, <2>1, <2>2 DEF EntryChange
  <2>4. owner' \in Nat /\ owner' >= owner
    BY <1>1, <1>2
  <2>5. entry' \in Entries /\ \A j \in Ids : EntryChange(j) /\ Counters(entry'[j], entry[j])
    BY <2>1, <2>2, <2>3, <2>4, OneChanged
  <2> QED BY <1>0, <2>1, <2>4, <2>5, Basics DEF Background, CacheChange
<1>3. CASE AcquireFence(i) /\ ~(entry[i].auth = "write" /\ owner # entry[i].seen)
  <2> DEFINE f == IF entry[i].auth = "write" THEN owner + 1 ELSE entry[i].seen
             r == [entry[i] EXCEPT !.st = "fenced", !.fence = f]
  <2>1. /\ entry' = [entry EXCEPT ![i].st = "fenced", ![i].fence = f]
        /\ owner' = IF entry[i].auth = "write" THEN f ELSE owner
        /\ entry[i].st # "open" /\ cached' = cached
    BY <1>3 DEF AcquireFence
  <2>2. entry' = [entry EXCEPT ![i] = r]
    BY <2>1, Basics DEF Entries
  <2>3. f \in Nat /\ f <= owner' /\ owner' \in Nat /\ owner' >= owner
    BY <1>0, <1>1, <2>1 DEF EntryRec
  <2> HIDE DEF f
  <2>4. r \in EntryRec
    BY <1>0, <2>3, EntryFields
  <2>5. /\ Counters(r, entry[i]) /\ r.session = entry[i].session /\ r.seen = entry[i].seen
        /\ r.fence = f /\ r.poisoned = entry[i].poisoned /\ r.shut = entry[i].shut
        /\ entry[i].seen \in Nat
    BY <1>0 DEF EntryRec, Counters
  <2> HIDE DEF r
  <2>6. entry'[i] = r => EntryChange(i)
    BY <1>1, <2>1, <2>3, <2>5 DEF EntryChange
  <2>7. entry' \in Entries /\ \A j \in Ids : EntryChange(j) /\ Counters(entry'[j], entry[j])
    BY <2>2, <2>3, <2>4, <2>5, <2>6, OneChanged
  <2> QED BY <1>0, <2>1, <2>3, <2>7, Basics DEF Background, CacheChange
<1>4. CASE OpenLedger(i)
  <2>1. PICK x \in {"open", "failed"} :
          /\ entry' = [entry EXCEPT ![i].st = x]
          /\ cached' = cached \/ (x = "open" /\ cached' = i)
    BY <1>4 DEF OpenLedger, Failed
  <2> DEFINE r == [entry[i] EXCEPT !.st = x]
  <2>2. entry' = [entry EXCEPT ![i] = r] /\ entry[i].st # "open" /\ owner' = owner
    BY <1>4, <2>1, Basics DEF Entries, OpenLedger, bundle
  <2>3. /\ r \in EntryRec /\ Counters(r, entry[i]) /\ r.st = x
        /\ r.session = entry[i].session /\ r.seen = entry[i].seen
        /\ r.fence = entry[i].fence /\ r.poisoned = entry[i].poisoned
        /\ r.shut = entry[i].shut
    BY <1>0 DEF EntryRec, Counters
  <2> HIDE DEF r
  <2>4. entry'[i] = r => EntryChange(i)
    BY <1>1, <2>2, <2>3 DEF EntryChange
  <2>51. owner' \in Nat /\ owner' >= owner
    BY <1>1, <2>2
  <2>5. entry' \in Entries /\ \A j \in Ids : EntryChange(j) /\ Counters(entry'[j], entry[j])
    BY <2>2, <2>3, <2>4, <2>51, OneChanged
  <2>6. CacheChange
    BY <2>1, <2>2, <2>3, Basics DEF CacheChange, Entries
  <2> QED BY <1>0, <1>1, <2>2, <2>5, <2>6 DEF Background
<1> QED BY <1>2, <1>3, <1>4 DEF OpeningStep, AcquireFence, Failed

\* Closing, eviction, the other tasks and processes, and the end of the runtime.
LEMMA BackgroundSteps ==
    ASSUME Inv,
           \/ \E i \in Ids : CloseEntry(i)
           \/ Evict \/ OtherOpenings \/ Takeover \/ OtherWrites \/ Close
           \/ UNCHANGED vars
    PROVE  Background
<1>0. owner \in Nat /\ entry \in Entries
  BY Basics
<1>1. ASSUME NEW i \in Ids, CloseEntry(i) PROVE Background
  <2> DEFINE r == [entry[i] EXCEPT !.shut = "done"]
  <2>1. /\ entry[i] \in EntryRec /\ entry' = [entry EXCEPT ![i] = r]
        /\ entry[i].shut = "asked" /\ owner' = owner /\ closed' = closed
        /\ cached' = cached /\ call' = call
    BY <1>0, <1>1 DEF Entries, CloseEntry, bundle, cache
  <2>2. /\ r \in EntryRec /\ Counters(r, entry[i]) /\ r.st = entry[i].st
        /\ r.session = entry[i].session /\ r.seen = entry[i].seen
        /\ r.fence = entry[i].fence /\ r.poisoned = entry[i].poisoned
    BY <2>1 DEF Counters, EntryRec
  <2> HIDE DEF r
  <2>3. entry'[i] = r => EntryChange(i)
    BY <2>1, <2>2 DEF EntryChange, Inv, FenceOld
  <2>4. owner' \in Nat /\ owner' >= owner
    BY <1>0, <2>1
  <2>5. entry' \in Entries /\ \A j \in Ids : EntryChange(j) /\ Counters(entry'[j], entry[j])
    BY <2>1, <2>2, <2>3, <2>4, OneChanged
  <2> QED BY <2>1, <2>4, <2>5, Basics DEF Background, CacheChange
<1>2. CASE Evict
  <2>1. /\ cached # NONE /\ ~Busy(cached) /\ entry' = Discard(entry, cached)
        /\ owner' = owner /\ closed' = closed /\ call' = call /\ cached' = NONE
    BY <1>2 DEF Evict, bundle
  <2>2. entry' \in Entries /\ \A j \in Ids : EntryChange(j) /\ Counters(entry'[j], entry[j])
    BY <2>1, CachedDiscarded
  <2> QED BY <1>0, <2>1, <2>2 DEF Background, CacheChange
<1>3. CASE Close
  <2>1. /\ owner' = owner /\ closed' = TRUE /\ call' = call /\ cached' = NONE
        /\ entry' = IF cached = NONE THEN entry ELSE Discard(entry, cached)
    BY <1>3 DEF Close, bundle
  <2>2. entry' \in Entries /\ \A j \in Ids : EntryChange(j) /\ Counters(entry'[j], entry[j])
    <3>1. CASE cached = NONE
      BY <1>0, <2>1, <3>1, FactsKept DEF Facts, Counters
    <3>2. CASE cached # NONE
      BY <2>1, <3>2, CachedDiscarded
    <3> QED BY <3>1, <3>2
  <2> QED BY <1>0, <2>1, <2>2 DEF Background, CacheChange
<1>4. CASE OtherOpenings \/ Takeover \/ OtherWrites \/ UNCHANGED vars
  <2>1. /\ owner' \in Nat /\ owner' >= owner /\ entry' = entry /\ closed' = closed
        /\ call' = call /\ cached' = cached
    BY <1>0, <1>4 DEF OtherOpenings, Takeover, OtherWrites, bundle, cache, vars
  <2>2. \A j \in Ids : EntryChange(j) /\ Counters(entry'[j], entry[j])
    BY <2>1, FactsKept DEF Facts, Counters
  <2> QED BY <1>0, <2>1, <2>2, Basics DEF Background, CacheChange
<1> QED BY <1>1, <1>2, <1>3, <1>4

\* Every step is the step of one call or changes no call.
LEMMA Steps ==
    ASSUME Inv, [Next]_vars
    PROVE  (\E c \in Calls : Taken(c)) \/ Background
<1>1. ASSUME NEW c \in Calls,
             Step(c) \/ Again(c) \/ Write(c) \/ Recover(c) \/ RebindTimeout(c) \/ Cancel(c)
      PROVE  Taken(c)
  BY <1>1, RefusalSteps, ReuseStep, RebindStep, InUseStep, OpenSteps, WaitSteps,
     ValidateSteps, AdmitStep, WriteSteps, ReleaseSteps, CancelStep DEF Step
<1> QED BY <1>1, OpeningSteps, BackgroundSteps DEF Next

-----------------------------------------------------------------------------
(* The invariant is kept.                                                  *)

RestTypes ==
    /\ owner \in Nat /\ log \in Seq(Nat) /\ fence \in Nat \cup {NONE}
    /\ opening \in Ids \cup {NONE}
    /\ closed \in BOOLEAN /\ full \in BOOLEAN
    /\ spent \in [cancels : Nat, evictions : Nat, takeovers : Nat, foreign : Nat]

\* The owner row, the log, the fence and the bounds keep their types.
LEMMA RestStep ==
    ASSUME Inv, [Next]_vars
    PROVE  RestTypes'
<1>0. RestTypes /\ entry \in Entries
  BY DEF Inv, TypeOK, RestTypes, Entries
<1>1. /\ \A i \in Ids : entry[i].fence \in Nat \cup {NONE} /\ entry[i].seen \in Nat
      /\ \A i \in Ids : entry[i].auth \in {"read", "write"}
  BY <1>0 DEF Entries, EntryRec
<1>2. \A c \in Calls : call[c].pc = "live" => call[c].e \in Ids
  BY DEF Inv, Handles, Holding, Serving
<1>3. ASSUME NEW c \in Calls,
             Step(c) \/ Again(c) \/ RebindTimeout(c) \/ Cancel(c)
      PROVE  RestTypes'
  <2>1. owner' = owner /\ log' = log /\ fence' = fence /\ closed' = closed /\ full' = full
    BY <1>3 DEF Step, Again, RebindTimeout, Cancel, Inspect, Stale, Reuse, YieldToStart,
                Rebind, InUse, Replace, ReplaceRefused, Open, Join, Opened,
                ValidateRebind, Validate, Admit, Release, ReleaseEvicts, bundle, cache
  <2>2. opening' \in Ids \cup {NONE}
    BY <1>0, <1>3 DEF RestTypes, Step, Again, RebindTimeout, Cancel, Inspect, Stale, Reuse,
                YieldToStart, Rebind, InUse, Replace, ReplaceRefused, Open, Join, Opened,
                ValidateRebind, Validate, Admit, Release, ReleaseEvicts, cache, Fresh
  <2>3. \/ spent' = spent
        \/ spent' = [spent EXCEPT !.cancels = @ + 1]
        \/ spent' = [spent EXCEPT !.evictions = @ + 1]
    BY <1>3 DEF Step, Again, RebindTimeout, Cancel, Inspect, Stale, Reuse, YieldToStart,
                Rebind, InUse, Replace, ReplaceRefused, Open, Join, Opened,
                ValidateRebind, Validate, Admit, Release, ReleaseEvicts
  <2>4. spent' \in [cancels : Nat, evictions : Nat, takeovers : Nat, foreign : Nat]
    BY <1>0, <2>3 DEF RestTypes
  <2> QED BY <1>0, <2>1, <2>2, <2>4 DEF RestTypes
<1>4. ASSUME NEW c \in Calls, Write(c) \/ Recover(c) PROVE RestTypes'
  <2>1. /\ owner' = owner /\ fence' = fence /\ opening' = opening /\ closed' = closed
        /\ full' = full /\ spent' = spent
        /\ log' = log \/ log' = Append(log, owner)
    BY <1>4 DEF Write, Recover, cache
  <2>2. log \in Seq(Nat) /\ owner \in Nat
    BY <1>0 DEF RestTypes
  <2>3. log' \in Seq(Nat)
    BY <2>1, <2>2
  <2> QED BY <1>0, <2>1, <2>3 DEF RestTypes
<1>5. ASSUME NEW i \in Ids, OpeningStep(i) \/ CloseEntry(i) PROVE RestTypes'
  <2>1. log' = log /\ closed' = closed /\ full' = full /\ spent' = spent
    BY <1>5 DEF OpeningStep, AcquireFence, OpenLedger, CloseEntry, bundle, cache
  <2>2. /\ owner' \in Nat /\ fence' \in Nat \cup {NONE}
        /\ opening' \in Ids \cup {NONE}
    BY <1>0, <1>1, <1>5
       DEF RestTypes, OpeningStep, AcquireFence, OpenLedger, CloseEntry, Failed, Forget,
           bundle, cache
  <2> QED BY <1>0, <2>1, <2>2 DEF RestTypes
<1>6. CASE Evict \/ OtherOpenings \/ Takeover \/ OtherWrites \/ Close \/ UNCHANGED vars
  <2>1. /\ owner' \in Nat /\ fence' = fence /\ opening' \in Ids \cup {NONE}
    BY <1>0, <1>6
       DEF RestTypes, Evict, OtherOpenings, Takeover, OtherWrites, Close, bundle, cache, vars
  <2>11. log' = log \/ log' = Append(log, owner)
    BY <1>6 DEF Evict, OtherOpenings, Takeover, OtherWrites, Close, bundle, vars
  <2>12. log \in Seq(Nat) /\ owner \in Nat
    BY <1>0 DEF RestTypes
  <2>13. log' \in Seq(Nat)
    BY <2>11, <2>12
  <2>14. closed' = closed \/ closed' = TRUE
    BY <1>6 DEF Evict, OtherOpenings, Takeover, OtherWrites, Close, cache, vars
  <2>15. full' = full \/ full' = ~full
    BY <1>6 DEF Evict, OtherOpenings, Takeover, OtherWrites, Close, vars
  <2>16. closed' \in BOOLEAN /\ full' \in BOOLEAN
    BY <1>0, <2>14, <2>15, Zenon DEF RestTypes
  <2>2. \/ spent' = spent
        \/ spent' = [spent EXCEPT !.evictions = @ + 1]
        \/ spent' = [spent EXCEPT !.takeovers = @ + 1, !.foreign = owner + 1]
    BY <1>6 DEF Evict, OtherOpenings, Takeover, OtherWrites, Close, vars
  <2>3. spent' \in [cancels : Nat, evictions : Nat, takeovers : Nat, foreign : Nat]
    <3> DEFINE T == [cancels : Nat, evictions : Nat, takeovers : Nat, foreign : Nat]
    <3>1. spent \in T /\ owner + 1 \in Nat
      BY <1>0 DEF RestTypes
    <3>2. CASE spent' = [spent EXCEPT !.takeovers = @ + 1, !.foreign = owner + 1]
      <4>1. \A s \in T : \A x \in Nat :
              [s EXCEPT !.takeovers = x] \in T /\ [s EXCEPT !.foreign = x] \in T
        OBVIOUS
      <4>2. spent.takeovers + 1 \in Nat
        BY <3>1
      <4> DEFINE t == [spent EXCEPT !.takeovers = spent.takeovers + 1]
      <4>3. spent' = [t EXCEPT !.foreign = owner + 1] /\ t \in T
        BY <3>1, <3>2, <4>1, <4>2
      <4> HIDE DEF T, t
      <4>4. spent' \in T
        BY <3>1, <4>1, <4>3
      <4> QED BY <4>4 DEF T
    <3> QED BY <2>2, <3>1, <3>2
  <2> QED BY <1>0, <2>1, <2>13, <2>16, <2>3 DEF RestTypes
<1> QED BY <1>3, <1>4, <1>5, <1>6 DEF Next

\* Sets that differ in one element at most.
LEMMA CardinalitySwap ==
    ASSUME NEW S, NEW T, NEW x, IsFiniteSet(S), S \ {x} = T \ {x}
    PROVE  /\ Cardinality(S) \in Nat /\ Cardinality(T) \in Nat
           /\ Cardinality(T) + Ind(x \in S) = Cardinality(S) + Ind(x \in T)
<1>1. CASE x \in S /\ x \notin T
  <2>1. T = S \ {x}
    BY <1>1
  <2>2. Cardinality(T) = Cardinality(S) - 1 /\ Cardinality(S) \in Nat
    BY <1>1, <2>1, FS_RemoveElement, FS_CardinalityType
  <2>3. Cardinality(T) \in Nat
    BY <2>1, FS_RemoveElement, FS_CardinalityType
  <2> QED BY <1>1, <2>2, <2>3 DEF Ind
<1>2. CASE x \notin S /\ x \in T
  <2>1. T = S \cup {x}
    BY <1>2
  <2> QED BY <1>2, <2>1, FS_AddElement, FS_CardinalityType DEF Ind
<1>3. CASE x \in S <=> x \in T
  <2>1. S = T
    BY <1>3
  <2> QED BY <2>1, FS_CardinalityType DEF Ind
<1> QED BY <1>1, <1>2, <1>3

\* The counters follow the calls.
LEMMA CountsStep ==
    ASSUME Inv, (\E c \in Calls : Taken(c)) \/ Background
    PROVE  Counts'
<1>0. \A e \in Ids : /\ entry[e].pending \in Nat /\ entry[e].usages \in Nat
                     /\ entry[e].waiters \in Nat
  BY Basics
<1>1. CASE Background
  <2>1. call' = call /\ (closed => closed') /\ \A i \in Ids : Counters(entry'[i], entry[i])
    BY <1>1 DEF Background
  <2>2. \A pcs : \A e \in Ids : In(pcs, e)' = In(pcs, e)
    BY <2>1 DEF In
  <2> QED BY <2>1, <2>2 DEF Inv, Counts, Counters
<1>2. ASSUME NEW c \in Calls, Taken(c) PROVE Counts'
  <2>1. /\ \A d \in Calls : d # c => call'[d] = call[d]
        /\ \A i \in Ids : Counted(c, i)
        /\ closed' = closed /\ entry' \in Entries
    BY <1>2 DEF Taken, CallChange
  <2>2. ASSUME NEW pcs, NEW e \in Ids
        PROVE  /\ Cardinality(In(pcs, e)) \in Nat /\ Cardinality(In(pcs, e)') \in Nat
               /\ Cardinality(In(pcs, e)') + Ind(call[c].pc \in pcs /\ call[c].e = e)
                    = Cardinality(In(pcs, e)) + Ind(call'[c].pc \in pcs /\ call'[c].e = e)
    <3> DEFINE S == In(pcs, e)
               T == {d \in Calls : call'[d].pc \in pcs /\ call'[d].e = e}
    <3>1. IsFiniteSet(S)
      BY RuntimeAssumption, FS_Subset DEF In
    <3>2. S \ {c} = T \ {c}
      BY <2>1 DEF In
    <3>3. /\ (c \in S) <=> (call[c].pc \in pcs /\ call[c].e = e)
          /\ (c \in T) <=> (call'[c].pc \in pcs /\ call'[c].e = e)
      BY DEF In
    <3>4. In(pcs, e)' = T
      BY DEF In
    <3> HIDE DEF S, T
    <3>5. /\ Cardinality(S) \in Nat /\ Cardinality(T) \in Nat
          /\ Cardinality(T) + Ind(c \in S) = Cardinality(S) + Ind(c \in T)
      BY <3>1, <3>2, CardinalitySwap
    <3> QED BY <3>3, <3>4, <3>5 DEF S, Ind
  <2>3. ASSUME NEW e \in Ids
        PROVE  /\ entry'[e].pending = Cardinality(In(Claiming, e)')
               /\ ~closed => entry'[e].usages = Cardinality(In({"live"}, e)')
               /\ entry'[e].waiters = Cardinality(In({"waitrebind"}, e)')
    <3>1. /\ entry[e].pending = Cardinality(In(Claiming, e))
          /\ ~closed => entry[e].usages = Cardinality(In({"live"}, e))
          /\ entry[e].waiters = Cardinality(In({"waitrebind"}, e))
      BY DEF Inv, Counts
    <3>2. /\ entry'[e].pending \in Nat /\ entry'[e].usages \in Nat
          /\ entry'[e].waiters \in Nat
      BY <2>1 DEF Entries, EntryRec
    <3>3. Counted(c, e)
      BY <2>1
    <3>4. entry'[e].pending = Cardinality(In(Claiming, e)')
      BY <2>2, <3>1, <3>2, <3>3 DEF Counted, Ind
    <3>5. ~closed => entry'[e].usages = Cardinality(In({"live"}, e)')
      <4>1. /\ (call[c].pc \in {"live"}) <=> (call[c].pc = "live")
            /\ (call'[c].pc \in {"live"}) <=> (call'[c].pc = "live")
        OBVIOUS
      <4> QED BY <2>2, <3>1, <3>2, <3>3, <4>1 DEF Counted, Ind
    <3>6. entry'[e].waiters = Cardinality(In({"waitrebind"}, e)')
      <4>1. /\ (call[c].pc \in {"waitrebind"}) <=> (call[c].pc = "waitrebind")
            /\ (call'[c].pc \in {"waitrebind"}) <=> (call'[c].pc = "waitrebind")
        OBVIOUS
      <4> QED BY <2>2, <3>1, <3>2, <3>3, <4>1 DEF Counted, Ind
    <3> QED BY <3>4, <3>5, <3>6
  <2> QED BY <2>1, <2>3 DEF Counts
<1> QED BY <1>1, <1>2

\* What both kinds of step have in common.
LEMMA CommonForm ==
    ASSUME Inv, (\E c \in Calls : Taken(c)) \/ Background, owner' \in Nat
    PROVE  /\ owner' >= owner /\ (closed => closed') /\ entry' \in Entries
           /\ \A i \in Ids : EntryChange(i)
           /\ CacheChange /\ call' \in [Calls -> CallRec]
           /\ \A d \in Calls : call'[d] = call[d] \/ CallChange(d)
<1>1. CASE Background
  BY <1>1 DEF Background, Inv, TypeOK
<1>2. ASSUME NEW c \in Calls, Taken(c)
      PROVE  /\ owner' >= owner /\ (closed => closed') /\ entry' \in Entries
             /\ \A i \in Ids : EntryChange(i)
             /\ CacheChange /\ call' \in [Calls -> CallRec]
             /\ \A d \in Calls : call'[d] = call[d] \/ CallChange(d)
  BY <1>2, Basics DEF Taken, CallChange
<1> QED BY <1>1, <1>2

\* A cancelled call is never forgotten.
LEMMA CancelsGrow ==
    ASSUME Inv, [Next]_vars, spent'.cancels = 0
    PROVE  spent.cancels = 0
<1>0. spent \in [cancels : Nat, evictions : Nat, takeovers : Nat, foreign : Nat]
  BY DEF Inv, TypeOK
<1>1. \/ spent' = spent
      \/ spent' = [spent EXCEPT !.cancels = @ + 1]
      \/ spent' = [spent EXCEPT !.evictions = @ + 1]
      \/ spent' = [spent EXCEPT !.takeovers = @ + 1, !.foreign = owner + 1]
  BY DEF Next, Step, Again, RebindTimeout, Cancel, Inspect, Stale, Reuse, YieldToStart,
         Rebind, InUse, Replace, ReplaceRefused, Open, Join, Opened, ValidateRebind,
         Validate, Admit, Release, ReleaseEvicts, Write, Recover, OpeningStep,
         AcquireFence, OpenLedger, CloseEntry, Evict, OtherOpenings, Takeover,
         OtherWrites, Close, vars
<1>2. CASE spent' = [spent EXCEPT !.takeovers = @ + 1, !.foreign = owner + 1]
  <2>1. spent'.cancels = spent.cancels
    BY <1>0, <1>2
  <2> QED BY <2>1
<1>3. CASE spent' = [spent EXCEPT !.cancels = @ + 1]
  BY <1>0, <1>3
<1>4. CASE spent' = spent \/ spent' = [spent EXCEPT !.evictions = @ + 1]
  BY <1>0, <1>4
<1> QED BY <1>1, <1>2, <1>3, <1>4

\* Every step keeps the invariant.
LEMMA InvStep ==
    ASSUME Inv, [Next]_vars
    PROVE  Inv'
<1>1. (\E c \in Calls : Taken(c)) \/ Background
  BY Steps
<1>2. RestTypes'
  BY RestStep
<1>3. owner' \in Nat /\ owner \in Nat /\ NONE \notin Nat /\ NONE \notin Ids
  BY <1>2, Basics DEF RestTypes
<1>4. /\ owner' >= owner /\ (closed => closed') /\ entry' \in Entries
      /\ \A i \in Ids : EntryChange(i)
      /\ CacheChange /\ call' \in [Calls -> CallRec]
      /\ \A d \in Calls : call'[d] = call[d] \/ CallChange(d)
  BY <1>1, <1>3, CommonForm
<1>5. Counts'
  BY <1>1, CountsStep
<1>6. TypeOK'
  BY <1>2, <1>4 DEF TypeOK, RestTypes, Entries, CacheChange
<1>7. \A i \in Ids : entry[i].st = "open" =>
        entry'[i].st = "open" /\ entry'[i].fence = entry[i].fence
  BY <1>4 DEF EntryChange
<1>8. CachedOpen'
  <2>1. cached \in Ids \cup {NONE} /\ (cached # NONE => entry[cached].st = "open")
    BY Basics DEF Inv, CachedOpen
  <2> QED BY <1>4, <1>7, <2>1 DEF CachedOpen, CacheChange
<1>9. Handles'
  <2>1. ASSUME NEW c \in Calls
        PROVE  /\ call'[c].pc \in Holding => call'[c].e \in Ids /\ entry'[call'[c].e].st = "open"
               /\ call'[c].pc = "waitopen" => call'[c].e \in Ids
    <3>1. /\ call[c].pc \in Holding => call[c].e \in Ids /\ entry[call[c].e].st = "open"
          /\ call[c].pc = "waitopen" => call[c].e \in Ids
          /\ cached \in Ids \cup {NONE} /\ (cached # NONE => entry[cached].st = "open")
      BY Basics DEF Inv, Handles, CachedOpen
    <3>2. CASE call'[c] = call[c]
      BY <1>7, <3>1, <3>2
    <3>3. CASE CallChange(c)
      BY <1>7, <3>1, <3>3 DEF CallChange
    <3> QED BY <1>4, <3>2, <3>3
  <2> QED BY <2>1 DEF Handles
<1>10. Serves'
  <2>1. ASSUME NEW c \in Calls, call'[c].pc \in Serving
        PROVE  entry'[call'[c].e].session = Session[c]
    <3>1. CASE CallChange(c)
      BY <2>1, <3>1 DEF CallChange
    <3>2. CASE call'[c] = call[c]
      <4> DEFINE e == call[c].e
      <4>1. e \in Ids /\ entry[e].st = "open" /\ entry[e].session = Session[c]
        BY <2>1, <3>2 DEF Inv, Handles, Serves, Holding
      <4>2. ~closed => Busy(e)
        <5>1. call[c].pc \in Claiming \/ call[c].pc = "live"
          BY <2>1, <3>2 DEF Serving
        <5> QED BY <5>1, HeldCounts DEF Busy
      <4>3. EntryChange(e)
        BY <1>4, <4>1
      <4>4. entry'[e].session = entry[e].session
        BY <4>1, <4>2, <4>3 DEF EntryChange
      <4> QED BY <3>2, <4>1, <4>4
    <3> QED BY <1>4, <3>1, <3>2
  <2> QED BY <2>1 DEF Serves
<1>11. ShutPoisoned'
  <2>1. ASSUME NEW i \in Ids, entry'[i].shut # "no" PROVE entry'[i].poisoned
    <3>1. EntryChange(i) /\ (entry[i].shut # "no" => entry[i].poisoned)
      BY <1>4 DEF Inv, ShutPoisoned
    <3> QED BY <2>1, <3>1 DEF EntryChange
  <2> QED BY <2>1 DEF ShutPoisoned
<1>12. FenceOld'
  <2>1. \A i \in Ids : /\ entry'[i].seen <= owner'
                       /\ entry'[i].fence # NONE => entry'[i].fence <= owner'
    BY <1>4 DEF EntryChange
  <2>2. ASSUME NEW c \in Calls PROVE call'[c].seen <= owner'
    BY <1>3, <1>4, Basics DEF CallChange
  <2> QED BY <2>1, <2>2 DEF FenceOld
<1>13. LiveLeaseIsOpen'
  <2>1. ASSUME spent'.cancels = 0, NEW c \in Calls, call'[c].pc = "live", ~closed'
        PROVE  entry'[call'[c].e].shut = "no" \/ entry'[call'[c].e].fence # owner'
    <3>1. CASE entry'[call'[c].e].shut = "no"
      BY <3>1
    <3>2. CASE entry'[call'[c].e].shut # "no"
      <4>0. call[c].pc = "live" /\ call'[c].e = call[c].e
        BY <1>4, <2>1, <3>2 DEF CallChange
      <4>2. PICK e \in Ids : entry[e].st = "open" /\ e = call[c].e
        BY <4>0 DEF Inv, Handles, Holding, Serving
      <4>1. call[c].pc = "live" /\ call'[c].e = e /\ call[c].e = e
        BY <4>0, <4>2
      <4>3. entry'[e].fence = entry[e].fence /\ EntryChange(e)
        BY <1>4, <1>7, <4>2
      <4>4. entry[e].fence # owner
        <5>1. CASE entry[e].shut = "no"
          <6>1. Gone(e)
            BY <3>2, <4>1, <4>3, <5>1 DEF EntryChange
          <6>2. entry'[e].usages # 0
            <7>1. In({"live"}, e)' # {} /\ In({"live"}, e)' \subseteq Calls
              BY <2>1, <4>1 DEF In
            <7>2. IsFiniteSet(In({"live"}, e)')
              BY <7>1, RuntimeAssumption, FS_Subset
            <7>3. Cardinality(In({"live"}, e)') # 0
              BY <7>1, <7>2, FS_EmptySet
            <7> QED BY <1>5, <2>1, <4>2, <7>3 DEF Counts
          <6> QED BY <2>1, <6>1, <6>2 DEF Gone
        <5>2. CASE entry[e].shut # "no"
          <6>1. spent.cancels = 0
            BY <2>1, CancelsGrow
          <6> QED BY <1>4, <2>1, <4>1, <5>2, <6>1 DEF Inv, LiveLeaseIsOpen
        <5> QED BY <5>1, <5>2
      <4>5. entry[e].fence = NONE \/ (entry[e].fence \in Nat /\ entry[e].fence <= owner)
        <5>1. entry[e] \in EntryRec
          BY <4>2, Basics DEF Entries
        <5>2. entry[e].fence \in Nat \cup {NONE}
          BY <5>1 DEF EntryRec
        <5> QED BY <4>2, <5>2 DEF Inv, FenceOld
      <4> QED BY <1>3, <1>4, <4>1, <4>3, <4>4, <4>5
    <3> QED BY <3>1, <3>2
  <2> QED BY <2>1 DEF LiveLeaseIsOpen
<1> QED BY <1>5, <1>6, <1>8, <1>9, <1>10, <1>11, <1>12, <1>13 DEF Inv

\* The initial state, with no entry, no lease and no call.
LEMMA InvInit ==
    ASSUME Init
    PROVE  Inv
<1>0. NONE \notin Nat /\ {MaxEntries, MaxWrites, MaxCancels, MaxEvictions, MaxTakeovers} \subseteq Nat
  BY RuntimeAssumption
<1>1. Unused \in EntryRec /\ Idle \in CallRec
  BY DEF Unused, Idle, EntryRec, CallRec
<1>2. /\ \A i \in Ids : entry[i] = Unused
      /\ \A c \in Calls : call[c] = Idle
      /\ cached = NONE /\ opening = NONE /\ closed = FALSE /\ full = FALSE
      /\ owner = 0 /\ log = <<>> /\ fence = NONE
      /\ entry \in [Ids -> EntryRec] /\ call \in [Calls -> CallRec]
      /\ spent \in [cancels : Nat, evictions : Nat, takeovers : Nat, foreign : Nat]
  BY <1>1 DEF Init
<1>3. TypeOK
  <2>0. <<>> \in Seq(Nat) /\ 0 \in Nat
    OBVIOUS
  <2>1. log \in Seq(Nat) /\ owner \in Nat
    BY <1>2, <2>0, Zenon
  <2>2. closed \in BOOLEAN /\ full \in BOOLEAN
    BY <1>2, Zenon
  <2> QED BY <1>2, <2>1, <2>2 DEF TypeOK
<1>4. Counts
  <2>1. ASSUME NEW pcs, "idle" \notin pcs, NEW e \in Ids PROVE Cardinality(In(pcs, e)) = 0
    <3>1. In(pcs, e) = {}
      BY <1>2, <2>1 DEF In, Idle
    <3> QED BY <3>1, FS_EmptySet
  <2>2. /\ "idle" \notin Claiming /\ "idle" \notin {"live"} /\ "idle" \notin {"waitrebind"}
    BY DEF Claiming
  <2>3. Unused.pending = 0 /\ Unused.usages = 0 /\ Unused.waiters = 0
    BY DEF Unused
  <2> QED BY <1>2, <2>1, <2>2, <2>3 DEF Counts
<1>5. CachedOpen /\ Handles /\ Serves /\ LiveLeaseIsOpen
  BY <1>2 DEF CachedOpen, Handles, Serves, LiveLeaseIsOpen, Idle, Holding, Serving, Claiming
<1>6. ShutPoisoned
  BY <1>2 DEF ShutPoisoned, Unused
<1>7. FenceOld
  BY <1>2 DEF FenceOld, Unused, Idle
<1> QED BY <1>3, <1>4, <1>5, <1>6, <1>7 DEF Inv

\* The invariant holds in every state of every behaviour.
THEOREM Invariance == Spec => []Inv
<1>1. Init => Inv
  BY InvInit
<1>2. Inv /\ [Next]_vars => Inv'
  BY InvStep
<1> QED BY <1>1, <1>2, PTL DEF Spec

\* The state of LocalBundleRuntime, its calls and the owner row keep their
\* shape whatever is opened, leased, cancelled or taken over.
THEOREM Types == Spec => []TypeOK
<1>1. Inv => TypeOK
  BY DEF Inv
<1> QED BY <1>1, Invariance, PTL

\* However many calls lease, wait, fail or are cancelled, pending, usages and
\* rebind_waiters of an entry count exactly the calls that stand behind them
\* until the runtime is closed: nothing _entry_for, _lease or release does
\* leaves a claim behind or gives one up twice.
THEOREM CountersAreExact == Spec => []CountsExact
<1>1. Inv => CountsExact
  BY DEF Inv, Counts, CountsExact, Claiming
<1> QED BY <1>1, Invariance, PTL

\* No rebind, replacement or opening of another caller changes the session of
\* an entry under a call that has been given it (_entry_for rebinds only an
\* entry without usages and pending leases).
THEOREM SessionIsStable == Spec => []LeaseServesItsSession
<1>1. Inv => LeaseServesItsSession
  BY DEF Inv, Serves, LeaseServesItsSession, Serving, Claiming
<1> QED BY <1>1, Invariance, PTL

\* As long as no call is cancelled, the entry of a live lease is closed only
\* with the runtime, or after its generation is lost (_close_entry).
THEOREM LeaseStaysOpen == Spec => []LiveLeaseIsOpen
<1>1. Inv => LiveLeaseIsOpen
  BY DEF Inv
<1> QED BY <1>1, Invariance, PTL
=============================================================================
