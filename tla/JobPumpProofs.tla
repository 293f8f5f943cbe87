--------------------------- MODULE JobPumpProofs ---------------------------
(***************************************************************************)
(* Proofs about JobPump for any number of loops and items, any conflict    *)
(* relation and any number of errors and wakes.                            *)
(*                                                                         *)
(* The argument for NoSignalledWorkSlept: while signalled work waits, some *)
(* loop is bound to take another snapshot (Covers).  A snapshot can come   *)
(* back empty over waiting work only because of a busy item, and the loop  *)
(* holding that item covers; a wake makes every loop cover at once.        *)
(***************************************************************************)
EXTENDS JobPump, SequenceTheorems, TLAPS

\* The loop in flight is the head of the chain.
HeadInFlight == \A l \in Loop : pc[l] \in InFlight => FirstInChain(l)

\* Loops end only because of stop, and none sleeps after it.
StopSeen ==
    /\ \A l \in Loop : pc[l] = "done" => stopped
    /\ \A l \in Loop : pc[l] = "asleep" => ~stopped

VersionsNoted == \A l \in Loop : seen[l] <= wakeVersion

\* Loop l will take a snapshot from here, without any further wake or timer.
Covers(l) ==
    \/ pc[l] \in {"top", "chained", "claiming", "running"}
    \/ /\ pc[l] \in {"settling", "claimed"}
       /\ got[l] # None \/ seen[l] # wakeVersion

Covered ==
    ~stopped /\ signalled # {} => \E l \in Loop : Covers(l) \/ threw[l]

PumpInv ==
    /\ TypeOK
    /\ HeadInFlight
    /\ WakeForcesClaim
    /\ StopSeen
    /\ VersionsNoted
    /\ Covered

\* Init establishes the invariant.
LEMMA InitInv == Init => PumpInv
<1> SUFFICES ASSUME Init PROVE PumpInv
    OBVIOUS
<1>1. TypeOK
  <2>1. claimChain \in Seq(Loop)
    BY EmptySeq DEF Init
  <2>2. threw \in [Loop -> BOOLEAN] /\ stopped \in BOOLEAN
    BY Zenon DEF Init
  <2> QED
    BY <2>1, <2>2 DEF Init, TypeOK
<1>2. HeadInFlight /\ WakeForcesClaim /\ StopSeen /\ VersionsNoted /\ Covered
  BY DEF Init, HeadInFlight, InFlight, WakeForcesClaim, StopSeen, VersionsNoted, Covered
<1> QED
  BY <1>1, <1>2 DEF PumpInv

\* The loop that settles its claim is the head of a chain that is not empty.
LEMMA ReleaseChain ==
  ASSUME TypeOK, HeadInFlight, NEW l \in Loop, pc[l] \in InFlight \/ FirstInChain(l)
  PROVE  /\ claimChain # <<>>
         /\ Head(claimChain) = l
         /\ Tail(claimChain) \in Seq(Loop)
<1>1. FirstInChain(l)
  BY DEF HeadInFlight
<1>2. claimChain # <<>> /\ Head(claimChain) = l /\ claimChain \in Seq(Loop)
  BY <1>1 DEF FirstInChain, TypeOK
<1>3. Tail(claimChain) \in Seq(Loop)
  BY <1>2, HeadTailProperties
<1> QED
  BY <1>2, <1>3

\* Every step of the pump keeps the variables in their types.
LEMMA TypeStep == TypeOK /\ HeadInFlight /\ [Next]_vars => TypeOK'
<1> SUFFICES ASSUME TypeOK, HeadInFlight, [Next]_vars PROVE TypeOK'
    OBVIOUS
<1>1. ASSUME NEW l \in Loop, LoopHead(l) PROVE TypeOK'
  <2>1. Append(claimChain, l) \in Seq(Loop)
    BY <1>1 DEF TypeOK
  <2> QED
    BY <1>1, <2>1 DEF LoopHead, queueVars, TypeOK
<1>2. ASSUME NEW l \in Loop, LoopEnds(l) PROVE TypeOK'
  BY <1>2 DEF LoopEnds, queueVars, TypeOK
<1>3. ASSUME NEW l \in Loop, StartClaim(l) PROVE TypeOK'
  <2>1. CASE stopped
    <3>1. Tail(claimChain) \in Seq(Loop)
      BY <1>3, ReleaseChain DEF StartClaim
    <3>2. threw' \in [Loop -> BOOLEAN]
      BY <1>3, <2>1, Zenon DEF StartClaim, TypeOK
    <3> QED
      BY <1>3, <2>1, <3>1, <3>2 DEF StartClaim, queueVars, TypeOK
  <2>2. CASE ~stopped
    BY <1>3, <2>2 DEF StartClaim, queueVars, TypeOK
  <2> QED BY <2>1, <2>2
<1>4. ASSUME NEW l \in Loop, TakeSnapshot(l) PROVE TypeOK'
  <2>1. threw' \in [Loop -> BOOLEAN]
    BY <1>4, Zenon DEF TakeSnapshot, TypeOK
  <2> QED
    BY <1>4, <2>1 DEF TakeSnapshot, Claimable, queueVars, TypeOK
<1>5. ASSUME NEW l \in Loop, ClaimReturns(l) PROVE TypeOK'
  <2>1. Tail(claimChain) \in Seq(Loop)
    BY <1>5, ReleaseChain DEF ClaimReturns, InFlight
  <2> QED
    BY <1>5, <2>1 DEF ClaimReturns, queueVars, TypeOK
<1>6. ASSUME NEW l \in Loop, AfterClaim(l) PROVE TypeOK'
  BY <1>6 DEF AfterClaim, queueVars, TypeOK
<1>7. ASSUME NEW l \in Loop, RunEnds(l) \/ IdleTimer(l) PROVE TypeOK'
  BY <1>7 DEF RunEnds, IdleTimer, queueVars, TypeOK
<1>8. ASSUME NEW l \in Loop, ClaimThrows(l) PROVE TypeOK'
  <2>1. Tail(claimChain) \in Seq(Loop)
    BY <1>8, ReleaseChain DEF ClaimThrows, InFlight
  <2>2. threw' \in [Loop -> BOOLEAN]
    BY <1>8, Zenon DEF ClaimThrows, TypeOK
  <2> QED
    BY <1>8, <2>1, <2>2 DEF ClaimThrows, queueVars, TypeOK
<1>9. ASSUME NEW i \in Item, Enqueue(i) PROVE TypeOK'
  BY <1>9 DEF Enqueue, loopVars, TypeOK
<1>10. CASE Notify \/ Resubscribe
  <2>1. pc' \in [Loop -> {"top", "chained", "claiming", "settling", "claimed",
                          "running", "asleep", "done"}] /\ wakeVersion' \in Nat
    BY <1>10 DEF Notify, Resubscribe, WakeLoops, Roused, TypeOK
  <2> QED
    BY <1>10, <2>1 DEF Notify, Resubscribe, TypeOK
<1>11. CASE stop
  <2>1. stopped' \in BOOLEAN
    BY <1>11, Zenon DEF stop
  <2> QED
    BY <1>11, <2>1 DEF stop, Roused, queueVars, TypeOK
<1>12. CASE UNCHANGED vars
  BY <1>12 DEF vars, TypeOK
<1> QED
  BY <1>1, <1>2, <1>3, <1>4, <1>5, <1>6, <1>7, <1>8, <1>9, <1>10, <1>11, <1>12
     DEF Next, LoopStep

\* The chain stays single file: a loop enters its claim only as the head, and
\* leaves the chain only as the loop that was in flight.
LEMMA HeadStep == TypeOK /\ HeadInFlight /\ [Next]_vars => HeadInFlight'
<1> SUFFICES ASSUME TypeOK, HeadInFlight, [Next]_vars,
                    NEW k \in Loop, pc'[k] \in InFlight
             PROVE  FirstInChain(k)'
    BY DEF HeadInFlight
<1> USE DEF InFlight
<1>a. pc \in [Loop -> {"top", "chained", "claiming", "settling", "claimed",
                       "running", "asleep", "done"}]
  BY DEF TypeOK
<1>1. ASSUME NEW l \in Loop, LoopHead(l) PROVE FirstInChain(k)'
  <2>1. pc[k] \in InFlight
    BY <1>1, <1>a DEF LoopHead
  <2>2. claimChain # <<>> /\ Head(claimChain) = k /\ claimChain \in Seq(Loop)
    BY <2>1, ReleaseChain DEF TypeOK
  <2>3. Append(claimChain, l) # <<>> /\ Head(Append(claimChain, l)) = k
    BY <2>2
  <2> QED
    BY <1>1, <2>3 DEF LoopHead, FirstInChain
<1>2. ASSUME NEW l \in Loop, StartClaim(l) PROVE FirstInChain(k)'
  <2>1. CASE stopped
    <3>1. pc[k] \in InFlight /\ k # l
      BY <1>2, <2>1, <1>a DEF StartClaim
    <3>2. Head(claimChain) = k /\ Head(claimChain) = l
      BY <1>2, <3>1, ReleaseChain DEF StartClaim
    <3> QED
      BY <3>1, <3>2
  <2>2. CASE ~stopped
    BY <1>2, <2>2, <1>a DEF StartClaim, FirstInChain, HeadInFlight
  <2> QED
    BY <2>1, <2>2
<1>3. ASSUME NEW l \in Loop, ClaimReturns(l) \/ ClaimThrows(l) PROVE FirstInChain(k)'
  <2>1. pc[k] \in InFlight /\ k # l /\ pc[l] \in InFlight
    BY <1>3, <1>a DEF ClaimReturns, ClaimThrows
  <2>2. Head(claimChain) = k /\ Head(claimChain) = l
    BY <2>1, ReleaseChain
  <2> QED
    BY <2>1, <2>2
<1>4. ASSUME NEW l \in Loop,
             LoopEnds(l) \/ TakeSnapshot(l) \/ AfterClaim(l) \/ RunEnds(l) \/ IdleTimer(l)
      PROVE  FirstInChain(k)'
  <2>1. pc[k] \in InFlight /\ claimChain' = claimChain
    BY <1>4, <1>a DEF LoopEnds, TakeSnapshot, AfterClaim, RunEnds, IdleTimer
  <2> QED
    BY <2>1 DEF HeadInFlight, FirstInChain
<1>5. CASE \/ \E i \in Item : Enqueue(i)
           \/ Notify \/ Resubscribe \/ stop \/ UNCHANGED vars
  <2>1. pc[k] \in InFlight /\ claimChain' = claimChain
    BY <1>5, <1>a DEF Enqueue, Notify, Resubscribe, stop, WakeLoops, Roused, loopVars, vars
  <2> QED
    BY <2>1 DEF HeadInFlight, FirstInChain
<1> QED
  BY <1>1, <1>2, <1>3, <1>4, <1>5 DEF Next, LoopStep

SleepInv == WakeForcesClaim /\ StopSeen /\ VersionsNoted

\* No loop falls asleep over a wake or a stop it has not seen.
LEMMA SleepStep == TypeOK /\ SleepInv /\ [Next]_vars => SleepInv'
<1> SUFFICES ASSUME TypeOK, SleepInv, [Next]_vars PROVE SleepInv'
    OBVIOUS
<1> USE DEF SleepInv, WakeForcesClaim, StopSeen, VersionsNoted
<1>a. /\ pc \in [Loop -> {"top", "chained", "claiming", "settling", "claimed",
                          "running", "asleep", "done"}]
      /\ seen \in [Loop -> Nat] /\ wakeVersion \in Nat
  BY DEF TypeOK
<1>1. ASSUME NEW l \in Loop, LoopStep(l) \/ ClaimThrows(l) PROVE SleepInv'
  <2>1. CASE LoopHead(l)
    BY <2>1, <1>a DEF LoopHead
  <2>2. CASE AfterClaim(l)
    BY <2>2, <1>a DEF AfterClaim
  <2>3. CASE StartClaim(l)
    BY <2>3, <1>a DEF StartClaim
  <2>4. CASE \/ LoopEnds(l) \/ TakeSnapshot(l) \/ ClaimReturns(l)
             \/ RunEnds(l) \/ IdleTimer(l) \/ ClaimThrows(l)
    BY <2>4, <1>a
       DEF LoopEnds, TakeSnapshot, ClaimReturns, RunEnds, IdleTimer, ClaimThrows
  <2> QED
    BY <1>1, <2>1, <2>2, <2>3, <2>4 DEF LoopStep
<1>2. CASE Notify \/ Resubscribe
  BY <1>2, <1>a DEF Notify, Resubscribe, WakeLoops, Roused
<1>3. CASE stop
  BY <1>3, <1>a DEF stop, Roused
<1>4. CASE (\E i \in Item : Enqueue(i)) \/ UNCHANGED vars
  BY <1>4, <1>a DEF Enqueue, loopVars, vars
<1> QED
  BY <1>1, <1>2, <1>3, <1>4 DEF Next

\* A step of another loop leaves a covering loop covering.
LEMMA OthersKeepCovering ==
  ASSUME TypeOK, NEW l \in Loop, LoopStep(l) \/ ClaimThrows(l),
         NEW k \in Loop, k # l, Covers(k) \/ threw[k]
  PROVE  (Covers(k) \/ threw[k])'
<1>1. /\ pc'[k] = pc[k] /\ got'[k] = got[k] /\ seen'[k] = seen[k]
      /\ threw'[k] = threw[k] /\ wakeVersion' = wakeVersion
  BY DEF TypeOK, LoopStep, LoopHead, LoopEnds, StartClaim, TakeSnapshot,
         ClaimReturns, AfterClaim, RunEnds, IdleTimer, ClaimThrows
<1> QED
  BY <1>1 DEF Covers

\* A snapshot that comes back empty over waiting work met a busy item, whose
\* loop covers.
LEMMA EmptySnapshotCovered ==
  ASSUME TypeOK, NEW l \in Loop, pc[l] = "claiming", queue # {}, Claimable = {}
  PROVE  \E k \in Loop : k # l /\ Covers(k)
<1>1. PICK i \in queue : \E r \in Busy : <<i, r>> \in Conflict
  BY DEF Claimable
<1>2. PICK k \in Loop : /\ pc[k] \in {"settling", "claimed", "running"}
                        /\ <<i, got[k]>> \in Conflict
  BY <1>1 DEF Busy
<1>3. got[k] # None
  BY <1>2, ItemAssumption
<1> QED
  BY <1>2, <1>3 DEF Covers

\* Work the pump has been told of is never left without a covering loop.
LEMMA CoveredStep ==
  TypeOK /\ SleepInv /\ Covered /\ [Next]_vars => Covered'
<1> SUFFICES ASSUME TypeOK, SleepInv, Covered, [Next]_vars,
                    ~stopped', signalled' # {}
             PROVE  \E k \in Loop : (Covers(k) \/ threw[k])'
    BY DEF Covered
<1>a. /\ pc \in [Loop -> {"top", "chained", "claiming", "settling", "claimed",
                          "running", "asleep", "done"}]
      /\ seen \in [Loop -> Nat] /\ wakeVersion \in Nat
      /\ got \in [Loop -> Item \cup {None}]
  BY DEF TypeOK
<1>1. ASSUME NEW l \in Loop, LoopStep(l) \/ ClaimThrows(l)
      PROVE  \E k \in Loop : (Covers(k) \/ threw[k])'
  <2>1. ~stopped /\ signalled # {}
    BY <1>1 DEF LoopStep, LoopHead, LoopEnds, StartClaim, TakeSnapshot, queueVars,
                ClaimReturns, AfterClaim, RunEnds, IdleTimer, ClaimThrows
  <2>2. PICK k \in Loop : Covers(k) \/ threw[k]
    BY <2>1 DEF Covered
  <2>3. CASE k # l
    BY <1>1, <2>2, <2>3, OthersKeepCovering
  <2>4. CASE k = l
    <3>1. CASE LoopHead(l) \/ RunEnds(l) \/ IdleTimer(l)
      <4>1. pc'[l] \in {"chained", "top"}
        BY <3>1, <1>a DEF LoopHead, RunEnds, IdleTimer
      <4> QED
        BY <4>1 DEF Covers
    <3>2. CASE StartClaim(l)
      <4>1. pc'[l] = "claiming"
        BY <3>2, <2>1, <1>a DEF StartClaim
      <4> QED
        BY <4>1 DEF Covers
    <3>3. CASE TakeSnapshot(l)
      <4>1. CASE got'[l] # None
        <5>1. pc'[l] = "settling"
          BY <3>3, <1>a DEF TakeSnapshot
        <5> QED
          BY <4>1, <5>1 DEF Covers
      <4>2. CASE got'[l] = None
        <5>1. Claimable = {} /\ pc[l] = "claiming"
          BY <3>3, <4>2, <1>a, ItemAssumption DEF TakeSnapshot, Claimable, TypeOK
        <5>2. queue # {}
          BY <2>1 DEF TypeOK
        <5>3. PICK j \in Loop : j # l /\ Covers(j)
          BY <5>1, <5>2, EmptySnapshotCovered
        <5> QED
          BY <5>3, <1>1, OthersKeepCovering
      <4> QED
        BY <4>1, <4>2
    <3>4. CASE ClaimReturns(l)
      <4>1. /\ pc[l] = "settling" /\ pc'[l] = "claimed" /\ got' = got /\ seen' = seen
            /\ threw' = threw /\ wakeVersion' = wakeVersion
        BY <3>4, <1>a DEF ClaimReturns
      <4> QED
        BY <4>1, <2>2, <2>4 DEF Covers
    <3>5. CASE AfterClaim(l)
      <4>1. /\ pc[l] = "claimed" /\ got' = got /\ seen' = seen
            /\ threw' = threw /\ wakeVersion' = wakeVersion
        BY <3>5 DEF AfterClaim
      <4>2. CASE threw[l]
        BY <4>1, <4>2
      <4>3. CASE Covers(l)
        <5>1. got[l] # None \/ seen[l] # wakeVersion
          BY <4>1, <4>3 DEF Covers
        <5>2. pc'[l] \in {"running", "top"}
          BY <3>5, <5>1, <2>1, <1>a DEF AfterClaim
        <5> QED
          BY <5>2 DEF Covers
      <4> QED
        BY <2>2, <2>4, <4>2, <4>3
    <3>6. CASE ClaimThrows(l)
      <4>1. threw'[l] = TRUE
        BY <3>6 DEF ClaimThrows, TypeOK
      <4> QED
        BY <4>1
    <3> QED
      BY <1>1, <2>1, <3>1, <3>2, <3>3, <3>4, <3>5, <3>6 DEF LoopStep, LoopEnds
  <2> QED
    BY <2>3, <2>4
<1>2. CASE Notify \/ Resubscribe
  <2>1. PICK k \in Loop : TRUE
    BY LoopAssumption
  <2>2. ~stopped
    BY <1>2 DEF Notify, Resubscribe
  <2>3. pc'[k] # "asleep" /\ pc'[k] # "done"
    BY <1>2, <2>2, <1>a DEF Notify, Resubscribe, WakeLoops, Roused, SleepInv, StopSeen
  <2>4. seen'[k] # wakeVersion'
    BY <1>2, <2>2, <1>a DEF Notify, Resubscribe, WakeLoops, SleepInv, VersionsNoted
  <2>5. pc'[k] \in {"top", "chained", "claiming", "settling", "claimed", "running"}
    BY <1>2, <2>2, <2>3, <1>a DEF Notify, Resubscribe, WakeLoops, Roused
  <2> QED
    BY <2>4, <2>5 DEF Covers
<1>3. CASE stop
  BY <1>3 DEF stop
<1>4. CASE (\E i \in Item : Enqueue(i)) \/ UNCHANGED vars
  <2>1. /\ ~stopped /\ signalled # {}
        /\ UNCHANGED <<pc, seen, got, threw, wakeVersion>>
    BY <1>4 DEF Enqueue, loopVars, vars
  <2>2. PICK k \in Loop : Covers(k) \/ threw[k]
    BY <2>1 DEF Covered
  <2> QED
    BY <2>1, <2>2 DEF Covers
<1> QED
  BY <1>1, <1>2, <1>3, <1>4 DEF Next

\* The inductive invariant holds of every behaviour.
THEOREM PumpInvariant == Spec => []PumpInv
<1>1. PumpInv /\ [Next]_vars => PumpInv'
  BY TypeStep, HeadStep, SleepStep, CoveredStep DEF PumpInv, SleepInv
<1> QED
  BY InitInv, <1>1, PTL DEF Spec

\* For any pool, no two claims are ever in flight together.
THEOREM SingleFileCorrect == Spec => []SingleFile
<1>1. PumpInv => SingleFile
  <2> SUFFICES ASSUME PumpInv, NEW k \in Loop, NEW l \in Loop,
                      pc[k] \in InFlight, pc[l] \in InFlight
               PROVE  k = l
      BY DEF SingleFile
  <2> QED
    BY DEF PumpInv, HeadInFlight, FirstInChain
<1> QED
  BY PumpInvariant, <1>1, PTL

\* For any pool, a loop that sleeps claimed after the last wake.
THEOREM WakeForcesClaimCorrect == Spec => []WakeForcesClaim
<1>1. PumpInv => WakeForcesClaim
  BY DEF PumpInv
<1> QED
  BY PumpInvariant, <1>1, PTL

\* For any pool and any conflicts between items, the whole pool never sleeps
\* over work it was told of.
THEOREM NoSignalledWorkSleptCorrect == Spec => []NoSignalledWorkSlept
<1>1. PumpInv => NoSignalledWorkSlept
  <2> SUFFICES ASSUME PumpInv, \A l \in Loop : pc[l] = "asleep" /\ ~threw[l]
               PROVE  signalled = {}
      BY DEF NoSignalledWorkSlept
  <2>1. ~stopped
    BY LoopAssumption DEF PumpInv, StopSeen
  <2>2. \A l \in Loop : ~Covers(l) /\ ~threw[l]
    BY DEF Covers
  <2> QED
    BY <2>1, <2>2 DEF PumpInv, Covered
<1> QED
  BY PumpInvariant, <1>1, PTL

\* For any pool, no claim starts once stop() has been called.
THEOREM NoClaimAfterStopCorrect == Spec => NoClaimAfterStop
<1>1. PumpInv /\ [Next]_vars =>
        [stopped => \A l \in Loop : pc'[l] = "claiming" => pc[l] = "claiming"]_vars
  <2> SUFFICES ASSUME PumpInv, [Next]_vars, stopped,
                      NEW k \in Loop, pc'[k] = "claiming"
               PROVE  pc[k] = "claiming"
      OBVIOUS
  <2>a. pc \in [Loop -> {"top", "chained", "claiming", "settling", "claimed",
                         "running", "asleep", "done"}]
    BY DEF PumpInv, TypeOK
  <2>1. ASSUME NEW l \in Loop, LoopStep(l) \/ ClaimThrows(l) PROVE pc[k] = "claiming"
    BY <2>1, <2>a DEF LoopStep, LoopHead, LoopEnds, StartClaim, TakeSnapshot,
                      ClaimReturns, AfterClaim, RunEnds, IdleTimer, ClaimThrows
  <2>2. CASE \/ \E i \in Item : Enqueue(i)
             \/ Notify \/ Resubscribe \/ stop \/ UNCHANGED vars
    BY <2>2, <2>a DEF Enqueue, Notify, Resubscribe, stop, WakeLoops, Roused, loopVars, vars
  <2> QED
    BY <2>1, <2>2 DEF Next
<1> QED
  BY PumpInvariant, <1>1, PTL DEF Spec, NoClaimAfterStop
=============================================================================
