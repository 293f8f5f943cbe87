------------------------------ MODULE JobPump ------------------------------
(***************************************************************************)
(* startJobPump: a pool of loops that claim items one at a time, run them  *)
(* concurrently and sleep when a claim finds nothing.  A wake (a Postgres  *)
(* NOTIFY) ends the sleep; it can land at any await of a loop.             *)
(*                                                                         *)
(* An action is the synchronous code between two awaits.  The queue behind *)
(* options.claim is external: a claim reads a snapshot (the instant that   *)
(* decides what it returns) and its promise settles later.  JobQueue holds *)
(* what a claim does to the rows; its ClaimChainFree is SingleFile here.   *)
(***************************************************************************)
EXTENDS Naturals, Sequences

CONSTANTS
    Loop,           \* the pool, options.concurrency loops
    Item,           \* the items ever enqueued
    Conflict,       \* items that must not run together (symmetric)
    None,
    MaxSpurious,    \* bound: wakes that no enqueue caused (re-subscription)
    MaxErrors       \* bound: claims that throw

\* "Job pump concurrency must be a positive integer."
ASSUME LoopAssumption == Loop # {}
ASSUME ItemAssumption ==
    /\ None \notin Item
    /\ Conflict \subseteq Item \X Item
ASSUME BoundAssumption == MaxSpurious \in Nat /\ MaxErrors \in Nat

VARIABLES
    pc,             \* the await a loop is suspended at
    seen,           \* versionBeforeClaim
    got,            \* what the loop's claim returns, or the item it runs
    threw,          \* the loop's last claim threw
    wakeVersion,
    claimChain,     \* the loops whose claims are chained, head first
    stopped,
    enqueued,       \* items ever inserted
    queue,          \* items waiting in the table
    signalled,      \* queued items whose NOTIFY has been delivered
    spurious, errors

loopVars == <<pc, seen, got, threw>>
queueVars == <<enqueued, queue, signalled>>
vars == <<pc, seen, got, threw, wakeVersion, claimChain, stopped, enqueued,
          queue, signalled, spurious, errors>>

InFlight == {"claiming", "settling"}

-----------------------------------------------------------------------------
(***************************************************************************)
(* The loop                                                                *)
(***************************************************************************)
\* while (!stopped): note the wake version and chain one claim.
LoopHead(l) ==
    /\ pc[l] = "top"
    /\ ~stopped
    /\ pc' = [pc EXCEPT ![l] = "chained"]
    /\ seen' = [seen EXCEPT ![l] = wakeVersion]
    /\ claimChain' = Append(claimChain, l)
    /\ UNCHANGED <<got, threw, wakeVersion, stopped, queueVars, spurious, errors>>

LoopEnds(l) ==
    /\ pc[l] = "top"
    /\ stopped
    /\ pc' = [pc EXCEPT ![l] = "done"]
    /\ UNCHANGED <<seen, got, threw, wakeVersion, claimChain, stopped, queueVars,
                   spurious, errors>>

\* claimChain.then(() => stopped ? null : options.claim()): the previous claim
\* has settled, so this one starts, unless the pump has stopped meanwhile.
FirstInChain(l) == claimChain # <<>> /\ Head(claimChain) = l

StartClaim(l) ==
    /\ pc[l] = "chained"
    /\ FirstInChain(l)
    /\ IF stopped
       THEN /\ pc' = [pc EXCEPT ![l] = "claimed"]
            /\ got' = [got EXCEPT ![l] = None]
            /\ threw' = [threw EXCEPT ![l] = FALSE]
            /\ claimChain' = Tail(claimChain)
       ELSE /\ pc' = [pc EXCEPT ![l] = "claiming"]
            /\ UNCHANGED <<got, threw, claimChain>>
    /\ UNCHANGED <<seen, wakeVersion, stopped, queueVars, spurious, errors>>

\* External: the claim's statement takes effect.  An item that conflicts with
\* a running one is passed over.
Busy == {got[l] : l \in {k \in Loop : pc[k] \in {"settling", "claimed", "running"}}}
Claimable == {i \in queue : \A r \in Busy : <<i, r>> \notin Conflict}

TakeSnapshot(l) ==
    /\ pc[l] = "claiming"
    /\ \/ /\ Claimable = {}
          /\ got' = [got EXCEPT ![l] = None]
          /\ UNCHANGED queueVars
       \/ \E i \in Claimable :
             /\ got' = [got EXCEPT ![l] = i]
             /\ queue' = queue \ {i}
             /\ signalled' = signalled \ {i}
             /\ UNCHANGED enqueued
    /\ pc' = [pc EXCEPT ![l] = "settling"]
    /\ threw' = [threw EXCEPT ![l] = FALSE]
    /\ UNCHANGED <<seen, wakeVersion, claimChain, stopped, spurious, errors>>

\* The claim settles and frees the chain for the next one.
ClaimReturns(l) ==
    /\ pc[l] = "settling"
    /\ pc' = [pc EXCEPT ![l] = "claimed"]
    /\ claimChain' = Tail(claimChain)
    /\ UNCHANGED <<seen, got, threw, wakeVersion, stopped, queueVars, spurious,
                   errors>>

\* The claim rejects: the chain swallows the error, the loop reports it and
\* goes on with no item.
ClaimThrows_chainNotReleased(l) ==
    /\ pc[l] = "claiming"
    /\ errors < MaxErrors
    /\ errors' = errors + 1
    /\ pc' = [pc EXCEPT ![l] = "claimed"]
    /\ got' = [got EXCEPT ![l] = None]
    /\ threw' = [threw EXCEPT ![l] = TRUE]
    /\ UNCHANGED <<seen, claimChain, wakeVersion, stopped, queueVars, spurious>>

ClaimThrows(l) ==
    /\ pc[l] = "claiming"
    /\ errors < MaxErrors
    /\ errors' = errors + 1
    /\ pc' = [pc EXCEPT ![l] = "claimed"]
    /\ got' = [got EXCEPT ![l] = None]
    /\ threw' = [threw EXCEPT ![l] = TRUE]
    /\ claimChain' = Tail(claimChain)
    /\ UNCHANGED <<seen, wakeVersion, stopped, queueVars, spurious>>

\* The loop resumes with the claim's result: run it, finish, claim again
\* because a wake landed meanwhile, or sleep.
AfterClaim_ignoresWake(l) ==
    /\ pc[l] = "claimed"
    /\ pc' = [pc EXCEPT ![l] =
                IF got[l] # None THEN "running"
                ELSE IF stopped THEN "done" ELSE "asleep"]
    /\ UNCHANGED <<seen, got, threw, wakeVersion, claimChain, stopped, queueVars,
                   spurious, errors>>

AfterClaim(l) ==
    /\ pc[l] = "claimed"
    /\ pc' = [pc EXCEPT ![l] =
                IF got[l] # None THEN "running"
                ELSE IF stopped THEN "done"
                ELSE IF wakeVersion # seen[l] THEN "top" ELSE "asleep"]
    /\ UNCHANGED <<seen, got, threw, wakeVersion, claimChain, stopped, queueVars,
                   spurious, errors>>

\* options.run resolves or rejects; either way the loop claims again at once.
RunEnds(l) ==
    /\ pc[l] = "running"
    /\ pc' = [pc EXCEPT ![l] = "top"]
    /\ got' = [got EXCEPT ![l] = None]
    /\ UNCHANGED <<seen, threw, wakeVersion, claimChain, stopped, queueVars,
                   spurious, errors>>

\* Mutant: the timer only backs off after an error; otherwise a loop waits for
\* a wake.
IdleTimer_backoffOnly(l) ==
    /\ pc[l] = "asleep" /\ threw[l]
    /\ pc' = [pc EXCEPT ![l] = "top"]
    /\ UNCHANGED <<seen, got, threw, wakeVersion, claimChain, stopped, queueVars,
                   spurious, errors>>

\* sleep(idleDelayMs) elapses.
IdleTimer(l) ==
    /\ pc[l] = "asleep"
    /\ pc' = [pc EXCEPT ![l] = "top"]
    /\ UNCHANGED <<seen, got, threw, wakeVersion, claimChain, stopped, queueVars,
                   spurious, errors>>

-----------------------------------------------------------------------------
(***************************************************************************)
(* Wakes, enqueues and stop                                                *)
(***************************************************************************)
Roused == [l \in Loop |-> IF pc[l] = "asleep" THEN "top" ELSE pc[l]]

\* wake(): bump the version, swap the gate and open the old one.
WakeLoops ==
    IF stopped
    THEN UNCHANGED <<pc, wakeVersion>>
    ELSE wakeVersion' = wakeVersion + 1 /\ pc' = Roused

\* External: another process inserts a row.
Enqueue(i) ==
    /\ i \notin enqueued
    /\ enqueued' = enqueued \cup {i}
    /\ queue' = queue \cup {i}
    /\ UNCHANGED <<loopVars, wakeVersion, claimChain, stopped, signalled,
                   spurious, errors>>

\* The listener calls wake() for a NOTIFY.  It covers every row committed by
\* then, and is never certain: the connection may be down.
Notify ==
    /\ queue # signalled
    /\ signalled' = queue
    /\ WakeLoops
    /\ UNCHANGED <<seen, got, threw, claimChain, stopped, enqueued, queue,
                   spurious, errors>>

\* A wake with nothing new: the listener re-subscribed, or the row is gone.
Resubscribe ==
    /\ spurious < MaxSpurious
    /\ spurious' = spurious + 1
    /\ signalled' = queue
    /\ WakeLoops
    /\ UNCHANGED <<seen, got, threw, claimChain, stopped, enqueued, queue, errors>>

stop ==
    /\ ~stopped
    /\ stopped' = TRUE
    /\ pc' = Roused
    /\ UNCHANGED <<seen, got, threw, wakeVersion, claimChain, queueVars, spurious,
                   errors>>

-----------------------------------------------------------------------------
Init ==
    /\ pc = [l \in Loop |-> "top"]
    /\ seen = [l \in Loop |-> 0]
    /\ got = [l \in Loop |-> None]
    /\ threw = [l \in Loop |-> FALSE]
    /\ wakeVersion = 0
    /\ claimChain = <<>>
    /\ stopped = FALSE
    /\ enqueued = {} /\ queue = {} /\ signalled = {}
    /\ spurious = 0 /\ errors = 0

LoopStep(l) ==
    \/ LoopHead(l) \/ LoopEnds(l) \/ StartClaim(l) \/ TakeSnapshot(l)
    \/ ClaimReturns(l) \/ AfterClaim(l) \/ RunEnds(l) \/ IdleTimer(l)

Next ==
    \/ \E l \in Loop : LoopStep(l) \/ ClaimThrows(l)
    \/ \E i \in Item : Enqueue(i)
    \/ Notify \/ Resubscribe \/ stop

Spec == Init /\ [][Next]_vars

\* The event loop resumes every settled await, a claim's statement ends, a run
\* ends (its heartbeat aborts it otherwise) and the idle timer fires.  Nothing
\* is assumed of NOTIFY, of errors or of stop.
FairSpec == Spec /\ \A l \in Loop : WF_vars(LoopStep(l))

-----------------------------------------------------------------------------
(***************************************************************************)
(* Properties                                                              *)
(***************************************************************************)
TypeOK ==
    /\ pc \in [Loop -> {"top", "chained", "claiming", "settling", "claimed",
                        "running", "asleep", "done"}]
    /\ seen \in [Loop -> Nat]
    /\ got \in [Loop -> Item \cup {None}]
    /\ threw \in [Loop -> BOOLEAN]
    /\ wakeVersion \in Nat
    /\ claimChain \in Seq(Loop)
    /\ stopped \in BOOLEAN
    /\ enqueued \subseteq Item
    /\ queue \subseteq enqueued
    /\ signalled \subseteq queue
    /\ spurious \in Nat /\ errors \in Nat

\* "Claims are strictly serialized across the pool" (startJobPump): although
\* loops chain their claims at any time, two are never in flight together.
SingleFile ==
    \A k, l \in Loop : pc[k] \in InFlight /\ pc[l] \in InFlight => k = l

\* "A wake that lands while a claim is in flight still forces one more claim
\* before that loop may idle" (JobPump.wake): a sleeping loop began its last
\* claim after the last wake.
WakeForcesClaim == \A l \in Loop : pc[l] = "asleep" => seen[l] = wakeVersion

\* The pool never goes to sleep as a whole over work it has been told of: with
\* every loop asleep after a claim that worked, no signalled item is waiting,
\* whatever conflicts held items back and whoever finished last.
NoSignalledWorkSlept ==
    (\A l \in Loop : pc[l] = "asleep" /\ ~threw[l]) => signalled = {}

\* stop() "blocks new claims": a claim chained before the stop does not start
\* after it.
NoClaimAfterStop ==
    [][stopped => \A l \in Loop : pc'[l] = "claiming" => pc[l] = "claiming"]_vars

\* Polling alone drains the queue: every item is claimed even if its NOTIFY is
\* lost and some claims throw, unless the pump is stopped.
EveryItemClaimed ==
    \A i \in Item : (i \in queue) ~> (i \notin queue \/ stopped)

\* stop() resolves: every loop ends after its in-flight run.
StopResolves == stopped ~> (\A l \in Loop : pc[l] = "done")
=============================================================================
