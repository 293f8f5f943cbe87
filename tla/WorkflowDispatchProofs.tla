----------------------- MODULE WorkflowDispatchProofs -----------------------
(***************************************************************************)
(* Proofs about WorkflowDispatch for any Deployments, runs, processes and  *)
(* bounds: boot recovery leaves no run behind, runs are failed only on     *)
(* Deployments that stay refused, and a sweep spares what it must.         *)
(***************************************************************************)
EXTENDS WorkflowDispatch, TLAPS

InstPlace == {"off", "waiting", "recovering", "filtering", "serving", "stopping", "gone"}
SweepShape ==
    [at : {"idle", "next", "fail", "retention", "cancel"}, todo : SUBSET Host,
     listed : SUBSET Run, host : Host \cup {NoHost}, keptRead : BOOLEAN, kept : SUBSET Host,
     steady : SUBSET Host]
Claimable == {"running", "draining", "stopped", "failed"}
JobShape ==
    [at : {"claimed", "removing"}, prior : Claimable] \cup {NoArchiveJob, QueuedArchiveJob}

\* The types of the state.
Shape ==
    /\ hostStatus \in [Host -> Claimable \cup {"archiving", "archived"}]
    /\ archiveJob \in [Host -> JobShape]
    /\ supported \subseteq Host /\ reach \subseteq Host /\ removed \subseteq Host
    /\ reverted \subseteq Host /\ reopened \subseteq Host /\ anonymous \subseteq Instance
    /\ runs \in [Run -> {"new", "active", "completed", "failed", "cancelled"}]
    /\ delivery \in [Run -> Unclaimed \cup Instance]
    /\ letters \subseteq Run /\ skipped \subseteq Run
    /\ owner \in Instance \cup {NoInstance}
    /\ inst \in [Instance -> InstPlace]
    /\ boot \in [Instance -> SUBSET Run]
    /\ rows \in [Instance -> {"none", "ready", "stopped"}]
    /\ sweep \in SweepShape

\* A Deployment is archiving only while a handler holds its claim.
ClaimHeld ==
    \A h \in Host : hostStatus[h] = "archiving" => archiveJob[h].at \in {"claimed", "removing"}

\* Only the lock's owner recovers, and only then has it candidates.
OwnerRecovers ==
    \A i \in Instance :
        /\ inst[i] \in {"recovering", "filtering"} => owner = i
        /\ boot[i] # {} => inst[i] = "filtering"

\* A Deployment whose refusal is final, or that an archive had and that came back.
Doomed(h) == Refused(h) \/ h \in CameBack

\* What boot recovery owes a delivery: this run is active, on a Deployment that can be
\* activated, and no dead letter kept it out of the latest listing.
Owed(r) == Active(r) /\ r \notin skipped /\ ~Doomed(RunOn[r])

\* A delivery the next owner need not recover: queued, waiting for an event, or quarantined.
AtRest == {"queued", "asleep", "held"}

\* While the owner filters, an owed run is at rest or a candidate; once it serves, its
\* delivery is at rest or the owner's own.
Recovered ==
    \A i \in Instance, r \in Run : owner = i /\ Owed(r) =>
        /\ inst[i] = "filtering" => r \in boot[i] \/ delivery[r] \in AtRest
        /\ inst[i] = "serving" => delivery[r] \in AtRest \cup {i}

\* The verdict "fail", and every failed run, is on a doomed Deployment.
FailsDoomed ==
    /\ \A r \in Run : runs[r] = "failed" => Doomed(RunOn[r])
    /\ sweep.at = "fail" => sweep.host \in Host /\ Doomed(sweep.host)

\* What a sweep has read: the Deployments steadily reachable since its listing are among
\* those retention keeps, so the one it is about to cancel is not, and its runs are Eve's own.
CancelsIdle ==
    /\ sweep.steady \subseteq reach
    /\ sweep.keptRead => sweep.steady \subseteq sweep.kept
    /\ sweep.at \in {"retention", "cancel"} => EveOwnedOnly(sweep.host)
    /\ sweep.at = "cancel" => sweep.host \notin sweep.steady

DispatchInv == Shape /\ ClaimHeld /\ OwnerRecovers /\ Recovered /\ FailsDoomed /\ CancelsIdle

-----------------------------------------------------------------------------
LEMMA InitHolds == DispatchInit => DispatchInv
BY DispatchAssumption
   DEF DispatchInit, DispatchInv, Shape, ClaimHeld, OwnerRecovers, Recovered, FailsDoomed,
       CancelsIdle, NoArchiveJob, NoSweep, JobShape, SweepShape, InstPlace, Unclaimed, Owed, Active,
       Claimable

\* The types are kept.
LEMMA ShapeNext == Shape /\ [DispatchNext]_dispatchVars => Shape'
<1> SUFFICES ASSUME Shape, [DispatchNext]_dispatchVars PROVE Shape'
  OBVIOUS
<1> USE DispatchAssumption DEF dispatchVars, hostVars, history, runStateVars, processVars,
           Shape, Unclaimed, InstPlace, Claimable
<1>1. ASSUME NEW h \in Host, Superseded(h) PROVE Shape'
  BY <1>1 DEF Superseded, SweepShape
<1>2. ASSUME NEW h \in Host, Promoted(h) PROVE Shape'
  BY <1>2 DEF Promoted, Turn
<1>3. ASSUME NEW h \in Host, WindowSlides(h) PROVE Shape'
  BY <1>3 DEF WindowSlides, Turn
<1>4. ASSUME NEW h \in Host, NEW s \in {"running", "stopped", "failed"}, StatusMoves(h, s)
      PROVE Shape'
  BY <1>4 DEF StatusMoves, Turn
<1>5. ASSUME NEW h \in Host, ArchiveEnqueued(h) PROVE Shape'
  BY <1>5 DEF ArchiveEnqueued, Turn, NoArchiveJob, QueuedArchiveJob, JobShape
<1>6. ASSUME NEW h \in Host, ArchiveRechecks(h) PROVE Shape'
  BY <1>6 DEF ArchiveRechecks, NoArchiveJob, QueuedArchiveJob, JobShape
<1>7. ASSUME NEW h \in Host, ArchiveCompletes(h) PROVE Shape'
  BY <1>7 DEF ArchiveCompletes, NoArchiveJob, JobShape
<1>8. ASSUME NEW h \in Host, ArchiveReverts(h) PROVE Shape'
  BY <1>8 DEF ArchiveReverts, Turn, NoArchiveJob, QueuedArchiveJob, JobShape
<1>9. ASSUME NEW h \in Host, ResolveLetters(h) PROVE Shape'
  BY <1>9 DEF ResolveLetters, Turn
<1>10. ASSUME NEW i \in Instance, DispatcherStarts(i) PROVE Shape'
  BY <1>10 DEF DispatcherStarts
<1>11. ASSUME NEW i \in Instance, AcquiresOwnership(i) PROVE Shape'
  BY <1>11 DEF AcquiresOwnership
<1>12. ASSUME NEW i \in Instance, BootLists(i) PROVE Shape'
  BY <1>12 DEF BootLists, Active
<1>13. ASSUME NEW i \in Instance, FilterBootRecoveryRuns(i) PROVE Shape'
  BY <1>13 DEF FilterBootRecoveryRuns, BootEnds, Reenqueued
<1>14. ASSUME NEW i \in Instance, LossNoticed(i) PROVE Shape'
  BY <1>14 DEF LossNoticed, Dropped
<1>15. ASSUME NEW i \in Instance, FinalHeartbeat(i) PROVE Shape'
  BY <1>15 DEF FinalHeartbeat, Turn, RecordHeartbeat
<1>16. ASSUME NEW i \in Instance, PreflightFails(i) PROVE Shape'
  BY <1>16 DEF PreflightFails, BootEnds, Reenqueued, Turn
<1>17. ASSUME NEW i \in Instance, DispatcherStops(i) PROVE Shape'
  BY <1>17 DEF DispatcherStops, Turn, Dropped
<1>18. ASSUME NEW i \in Instance, OwnershipLost(i) PROVE Shape'
  BY <1>18 DEF OwnershipLost, Turn
<1>19. ASSUME NEW i \in Instance, DispatcherCrashes(i) PROVE Shape'
  BY <1>19 DEF DispatcherCrashes, Turn, Dropped
<1>20. ASSUME NEW i \in Instance, Heartbeat(i) PROVE Shape'
  BY <1>20 DEF Heartbeat, RecordHeartbeat
<1>21. ASSUME HeartbeatAges PROVE Shape'
  BY <1>21 DEF HeartbeatAges, Turn
<1>22. ASSUME DeadSessionEnds PROVE Shape'
  BY <1>22 DEF DeadSessionEnds
<1>23. ASSUME NEW r \in Run, RunStarts(r) PROVE Shape'
  BY <1>23 DEF RunStarts
<1>24. ASSUME NEW r \in Run, RunWakes(r) PROVE Shape'
  BY <1>24 DEF RunWakes, Turn
<1>25. ASSUME NEW i \in Instance, NEW r \in Run, DispatcherClaims(i, r) PROVE Shape'
  BY <1>25 DEF DispatcherClaims
<1>26. ASSUME NEW r \in Run, ActivationRefused(r) PROVE Shape'
  BY <1>26 DEF ActivationRefused, DeadLetters
<1>27. ASSUME NEW r \in Run, ActivationUnavailable(r) PROVE Shape'
  BY <1>27 DEF ActivationUnavailable, DeadLetters, Turn
<1>28. ASSUME NEW r \in Run, StepDelivered(r) PROVE Shape'
  BY <1>28 DEF StepDelivered
<1>29. ASSUME SweepLists PROVE Shape'
  <2>1. sweep' = [at |-> "next", todo |-> {RunOn[r] : r \in {x \in Run : Active(x)}},
                  listed |-> {r \in Run : Active(r)}, host |-> NoHost, keptRead |-> FALSE,
                  kept |-> {}, steady |-> reach]
    BY <1>29 DEF SweepLists, NoSweep
  <2>2. sweep' \in SweepShape
    BY <2>1 DEF SweepShape
  <2> QED
    BY <1>29, <2>2 DEF SweepLists
<1>30. ASSUME NEW h \in Host, SweepReads(h) PROVE Shape'
  BY <1>30 DEF SweepReads, SweepShape
<1>31. ASSUME RetentionFor PROVE Shape'
  BY <1>31 DEF RetentionFor, SweepShape
<1>32. ASSUME SweepSettles PROVE Shape'
  BY <1>32 DEF SweepSettles, Active, SweepShape
<1>33. ASSUME SweepEnds PROVE Shape'
  BY <1>33 DEF SweepEnds, SweepShape, NoSweep
<1>34. ASSUME SweepSkips PROVE Shape'
  BY <1>34 DEF SweepSkips, Turn, SweepShape
<1>35. ASSUME NEW h \in Host, ArchiveJobClaims(h) PROVE Shape'
  BY <1>35 DEF ArchiveJobClaims, NoArchiveJob, JobShape
<1>36. ASSUME NEW h \in Host, DrainPosted(h) PROVE Shape'
  BY <1>36 DEF DrainPosted, Turn
<1>37. ASSUME NEW i \in Instance, IdentityUnread(i) PROVE Shape'
  BY <1>37 DEF IdentityUnread, Turn
<1>99. CASE UNCHANGED dispatchVars
  BY <1>99
<1> QED
  BY <1>99, <1>1, <1>2, <1>3, <1>4, <1>5, <1>6, <1>7, <1>8, <1>9, <1>10, <1>11, <1>12, <1>13,
     <1>14, <1>15, <1>16, <1>17, <1>18, <1>19, <1>20, <1>21, <1>22, <1>23, <1>24, <1>25,
     <1>26, <1>27, <1>28, <1>29, <1>30, <1>31, <1>32, <1>33, <1>34, <1>35, <1>36, <1>37
    DEF DispatchNext, HostStep, ProcessStep, ProcessFaults, RunStep, SweepStep

\* The archive claim and the status move together.
LEMMA ClaimHeldNext == Shape /\ ClaimHeld /\ [DispatchNext]_dispatchVars => ClaimHeld'
<1> SUFFICES ASSUME Shape, ClaimHeld, [DispatchNext]_dispatchVars PROVE ClaimHeld'
  OBVIOUS
<1> USE DispatchAssumption DEF dispatchVars, hostVars, history, runStateVars, processVars,
           Shape, ClaimHeld
<1>1. ASSUME NEW h \in Host, Superseded(h) PROVE ClaimHeld'
  BY <1>1 DEF Superseded
<1>2. ASSUME NEW h \in Host, Promoted(h) PROVE ClaimHeld'
  BY <1>2 DEF Promoted, Turn
<1>3. ASSUME NEW h \in Host, WindowSlides(h) PROVE ClaimHeld'
  BY <1>3 DEF WindowSlides, Turn
<1>4. ASSUME NEW h \in Host, NEW s \in {"running", "stopped", "failed"}, StatusMoves(h, s)
      PROVE ClaimHeld'
  BY <1>4 DEF StatusMoves, Turn
<1>5. ASSUME NEW h \in Host, ArchiveEnqueued(h) PROVE ClaimHeld'
  BY <1>5 DEF ArchiveEnqueued, Turn, NoArchiveJob, QueuedArchiveJob
<1>6. ASSUME NEW h \in Host, ArchiveRechecks(h) PROVE ClaimHeld'
  BY <1>6 DEF ArchiveRechecks, NoArchiveJob, QueuedArchiveJob, JobShape
<1>7. ASSUME NEW h \in Host, ArchiveCompletes(h) PROVE ClaimHeld'
  BY <1>7 DEF ArchiveCompletes, NoArchiveJob
<1>8. ASSUME NEW h \in Host, ArchiveReverts(h) PROVE ClaimHeld'
  BY <1>8 DEF ArchiveReverts, NoArchiveJob, QueuedArchiveJob, JobShape, Claimable
<1>9. ASSUME NEW h \in Host, ResolveLetters(h) PROVE ClaimHeld'
  BY <1>9 DEF ResolveLetters, Turn
<1>10. ASSUME NEW i \in Instance, DispatcherStarts(i) PROVE ClaimHeld'
  BY <1>10 DEF DispatcherStarts
<1>11. ASSUME NEW i \in Instance, AcquiresOwnership(i) PROVE ClaimHeld'
  BY <1>11 DEF AcquiresOwnership
<1>12. ASSUME NEW i \in Instance, BootLists(i) PROVE ClaimHeld'
  BY <1>12 DEF BootLists
<1>13. ASSUME NEW i \in Instance, FilterBootRecoveryRuns(i) PROVE ClaimHeld'
  BY <1>13 DEF FilterBootRecoveryRuns, BootEnds, Reenqueued
<1>14. ASSUME NEW i \in Instance, LossNoticed(i) PROVE ClaimHeld'
  BY <1>14 DEF LossNoticed, Dropped
<1>15. ASSUME NEW i \in Instance, FinalHeartbeat(i) PROVE ClaimHeld'
  BY <1>15 DEF FinalHeartbeat, Turn, RecordHeartbeat
<1>16. ASSUME NEW i \in Instance, PreflightFails(i) PROVE ClaimHeld'
  BY <1>16 DEF PreflightFails, BootEnds, Reenqueued, Turn
<1>17. ASSUME NEW i \in Instance, DispatcherStops(i) PROVE ClaimHeld'
  BY <1>17 DEF DispatcherStops, Turn, Dropped
<1>18. ASSUME NEW i \in Instance, OwnershipLost(i) PROVE ClaimHeld'
  BY <1>18 DEF OwnershipLost, Turn
<1>19. ASSUME NEW i \in Instance, DispatcherCrashes(i) PROVE ClaimHeld'
  BY <1>19 DEF DispatcherCrashes, Turn, Dropped
<1>20. ASSUME NEW i \in Instance, Heartbeat(i) PROVE ClaimHeld'
  BY <1>20 DEF Heartbeat, RecordHeartbeat
<1>21. ASSUME HeartbeatAges PROVE ClaimHeld'
  BY <1>21 DEF HeartbeatAges, Turn
<1>22. ASSUME DeadSessionEnds PROVE ClaimHeld'
  BY <1>22 DEF DeadSessionEnds
<1>23. ASSUME NEW r \in Run, RunStarts(r) PROVE ClaimHeld'
  BY <1>23 DEF RunStarts
<1>24. ASSUME NEW r \in Run, RunWakes(r) PROVE ClaimHeld'
  BY <1>24 DEF RunWakes, Turn
<1>25. ASSUME NEW i \in Instance, NEW r \in Run, DispatcherClaims(i, r) PROVE ClaimHeld'
  BY <1>25 DEF DispatcherClaims
<1>26. ASSUME NEW r \in Run, ActivationRefused(r) PROVE ClaimHeld'
  BY <1>26 DEF ActivationRefused, DeadLetters
<1>27. ASSUME NEW r \in Run, ActivationUnavailable(r) PROVE ClaimHeld'
  BY <1>27 DEF ActivationUnavailable, DeadLetters, Turn
<1>28. ASSUME NEW r \in Run, StepDelivered(r) PROVE ClaimHeld'
  BY <1>28 DEF StepDelivered
<1>29. ASSUME SweepLists PROVE ClaimHeld'
  BY <1>29 DEF SweepLists, NoSweep
<1>30. ASSUME NEW h \in Host, SweepReads(h) PROVE ClaimHeld'
  BY <1>30 DEF SweepReads
<1>31. ASSUME RetentionFor PROVE ClaimHeld'
  BY <1>31 DEF RetentionFor
<1>32. ASSUME SweepSettles PROVE ClaimHeld'
  BY <1>32 DEF SweepSettles
<1>33. ASSUME SweepEnds PROVE ClaimHeld'
  BY <1>33 DEF SweepEnds
<1>34. ASSUME SweepSkips PROVE ClaimHeld'
  BY <1>34 DEF SweepSkips, Turn
<1>35. ASSUME NEW h \in Host, ArchiveJobClaims(h) PROVE ClaimHeld'
  BY <1>35 DEF ArchiveJobClaims, NoArchiveJob
<1>36. ASSUME NEW h \in Host, DrainPosted(h) PROVE ClaimHeld'
  BY <1>36 DEF DrainPosted, Turn
<1>37. ASSUME NEW i \in Instance, IdentityUnread(i) PROVE ClaimHeld'
  BY <1>37 DEF IdentityUnread, Turn
<1>99. CASE UNCHANGED dispatchVars
  BY <1>99
<1> QED
  BY <1>99, <1>1, <1>2, <1>3, <1>4, <1>5, <1>6, <1>7, <1>8, <1>9, <1>10, <1>11, <1>12, <1>13,
     <1>14, <1>15, <1>16, <1>17, <1>18, <1>19, <1>20, <1>21, <1>22, <1>23, <1>24, <1>25,
     <1>26, <1>27, <1>28, <1>29, <1>30, <1>31, <1>32, <1>33, <1>34, <1>35, <1>36, <1>37
    DEF DispatchNext, HostStep, ProcessStep, ProcessFaults, RunStep, SweepStep

LEMMA OwnerRecoversNext ==
    Shape /\ OwnerRecovers /\ [DispatchNext]_dispatchVars => OwnerRecovers'
<1> SUFFICES ASSUME Shape, OwnerRecovers, [DispatchNext]_dispatchVars PROVE OwnerRecovers'
  OBVIOUS
<1> USE DispatchAssumption DEF dispatchVars, hostVars, history, runStateVars, processVars,
           Shape, OwnerRecovers, InstPlace
<1>1. ASSUME NEW h \in Host, Superseded(h) PROVE OwnerRecovers'
  BY <1>1 DEF Superseded
<1>2. ASSUME NEW h \in Host, Promoted(h) PROVE OwnerRecovers'
  BY <1>2 DEF Promoted, Turn
<1>3. ASSUME NEW h \in Host, WindowSlides(h) PROVE OwnerRecovers'
  BY <1>3 DEF WindowSlides, Turn
<1>4. ASSUME NEW h \in Host, NEW s \in {"running", "stopped", "failed"}, StatusMoves(h, s)
      PROVE OwnerRecovers'
  BY <1>4 DEF StatusMoves, Turn
<1>5. ASSUME NEW h \in Host, ArchiveEnqueued(h) PROVE OwnerRecovers'
  BY <1>5 DEF ArchiveEnqueued, Turn, NoArchiveJob, QueuedArchiveJob
<1>6. ASSUME NEW h \in Host, ArchiveRechecks(h) PROVE OwnerRecovers'
  BY <1>6 DEF ArchiveRechecks
<1>7. ASSUME NEW h \in Host, ArchiveCompletes(h) PROVE OwnerRecovers'
  BY <1>7 DEF ArchiveCompletes, NoArchiveJob
<1>8. ASSUME NEW h \in Host, ArchiveReverts(h) PROVE OwnerRecovers'
  BY <1>8 DEF ArchiveReverts, Turn, NoArchiveJob
<1>9. ASSUME NEW h \in Host, ResolveLetters(h) PROVE OwnerRecovers'
  BY <1>9 DEF ResolveLetters, Turn
<1>10. ASSUME NEW i \in Instance, DispatcherStarts(i) PROVE OwnerRecovers'
  BY <1>10 DEF DispatcherStarts
<1>11. ASSUME NEW i \in Instance, AcquiresOwnership(i) PROVE OwnerRecovers'
  BY <1>11 DEF AcquiresOwnership
<1>12. ASSUME NEW i \in Instance, BootLists(i) PROVE OwnerRecovers'
  BY <1>12 DEF BootLists
<1>13. ASSUME NEW i \in Instance, FilterBootRecoveryRuns(i) PROVE OwnerRecovers'
  BY <1>13 DEF FilterBootRecoveryRuns, BootEnds, Reenqueued
<1>14. ASSUME NEW i \in Instance, LossNoticed(i) PROVE OwnerRecovers'
  BY <1>14 DEF LossNoticed, Dropped
<1>15. ASSUME NEW i \in Instance, FinalHeartbeat(i) PROVE OwnerRecovers'
  BY <1>15 DEF FinalHeartbeat, Turn, RecordHeartbeat
<1>16. ASSUME NEW i \in Instance, PreflightFails(i) PROVE OwnerRecovers'
  BY <1>16 DEF PreflightFails, BootEnds, Reenqueued, Turn
<1>17. ASSUME NEW i \in Instance, DispatcherStops(i) PROVE OwnerRecovers'
  BY <1>17 DEF DispatcherStops, Turn, Dropped
<1>18. ASSUME NEW i \in Instance, OwnershipLost(i) PROVE OwnerRecovers'
  BY <1>18 DEF OwnershipLost, Turn
<1>19. ASSUME NEW i \in Instance, DispatcherCrashes(i) PROVE OwnerRecovers'
  BY <1>19 DEF DispatcherCrashes, Turn, Dropped
<1>20. ASSUME NEW i \in Instance, Heartbeat(i) PROVE OwnerRecovers'
  BY <1>20 DEF Heartbeat, RecordHeartbeat
<1>21. ASSUME HeartbeatAges PROVE OwnerRecovers'
  BY <1>21 DEF HeartbeatAges, Turn
<1>22. ASSUME DeadSessionEnds PROVE OwnerRecovers'
  BY <1>22 DEF DeadSessionEnds
<1>23. ASSUME NEW r \in Run, RunStarts(r) PROVE OwnerRecovers'
  BY <1>23 DEF RunStarts
<1>24. ASSUME NEW r \in Run, RunWakes(r) PROVE OwnerRecovers'
  BY <1>24 DEF RunWakes, Turn
<1>25. ASSUME NEW i \in Instance, NEW r \in Run, DispatcherClaims(i, r) PROVE OwnerRecovers'
  BY <1>25 DEF DispatcherClaims
<1>26. ASSUME NEW r \in Run, ActivationRefused(r) PROVE OwnerRecovers'
  BY <1>26 DEF ActivationRefused, DeadLetters
<1>27. ASSUME NEW r \in Run, ActivationUnavailable(r) PROVE OwnerRecovers'
  BY <1>27 DEF ActivationUnavailable, DeadLetters, Turn
<1>28. ASSUME NEW r \in Run, StepDelivered(r) PROVE OwnerRecovers'
  BY <1>28 DEF StepDelivered
<1>29. ASSUME SweepLists PROVE OwnerRecovers'
  BY <1>29 DEF SweepLists, NoSweep
<1>30. ASSUME NEW h \in Host, SweepReads(h) PROVE OwnerRecovers'
  BY <1>30 DEF SweepReads
<1>31. ASSUME RetentionFor PROVE OwnerRecovers'
  BY <1>31 DEF RetentionFor
<1>32. ASSUME SweepSettles PROVE OwnerRecovers'
  BY <1>32 DEF SweepSettles
<1>33. ASSUME SweepEnds PROVE OwnerRecovers'
  BY <1>33 DEF SweepEnds
<1>34. ASSUME SweepSkips PROVE OwnerRecovers'
  BY <1>34 DEF SweepSkips, Turn
<1>35. ASSUME NEW h \in Host, ArchiveJobClaims(h) PROVE OwnerRecovers'
  BY <1>35 DEF ArchiveJobClaims, NoArchiveJob
<1>36. ASSUME NEW h \in Host, DrainPosted(h) PROVE OwnerRecovers'
  BY <1>36 DEF DrainPosted, Turn
<1>37. ASSUME NEW i \in Instance, IdentityUnread(i) PROVE OwnerRecovers'
  BY <1>37 DEF IdentityUnread, Turn
<1>99. CASE UNCHANGED dispatchVars
  BY <1>99
<1> QED
  BY <1>99, <1>1, <1>2, <1>3, <1>4, <1>5, <1>6, <1>7, <1>8, <1>9, <1>10, <1>11, <1>12, <1>13,
     <1>14, <1>15, <1>16, <1>17, <1>18, <1>19, <1>20, <1>21, <1>22, <1>23, <1>24, <1>25,
     <1>26, <1>27, <1>28, <1>29, <1>30, <1>31, <1>32, <1>33, <1>34, <1>35, <1>36, <1>37
    DEF DispatchNext, HostStep, ProcessStep, ProcessFaults, RunStep, SweepStep

\* A refusal is final, except that a claim may be handed back and a drain may be written over
\* it: then the Deployment is among those that came back.
DoomStays == \A d \in Host : Doomed(d) => Doomed(d)'

LEMMA DoomKept == Shape /\ [DispatchNext]_dispatchVars => DoomStays
<1> SUFFICES ASSUME Shape, [DispatchNext]_dispatchVars PROVE DoomStays
  OBVIOUS
<1> USE DispatchAssumption DEF dispatchVars, hostVars, history, runStateVars, processVars,
           Shape, Doomed, CameBack, Refused, DoomStays
<1>1. ASSUME NEW h \in Host, Superseded(h) PROVE DoomStays
  BY <1>1 DEF Superseded
<1>2. ASSUME NEW h \in Host, Promoted(h) PROVE DoomStays
  BY <1>2 DEF Promoted, Turn
<1>3. ASSUME NEW h \in Host, WindowSlides(h) PROVE DoomStays
  BY <1>3 DEF WindowSlides, Turn
<1>4. ASSUME NEW h \in Host, NEW s \in {"running", "stopped", "failed"}, StatusMoves(h, s)
      PROVE DoomStays
  BY <1>4 DEF StatusMoves, Turn
<1>5. ASSUME NEW h \in Host, ArchiveEnqueued(h) PROVE DoomStays
  BY <1>5 DEF ArchiveEnqueued, Turn, NoArchiveJob, QueuedArchiveJob
<1>6. ASSUME NEW h \in Host, ArchiveRechecks(h) PROVE DoomStays
  BY <1>6 DEF ArchiveRechecks
<1>7. ASSUME NEW h \in Host, ArchiveCompletes(h) PROVE DoomStays
  BY <1>7 DEF ArchiveCompletes, NoArchiveJob
<1>8. ASSUME NEW h \in Host, ArchiveReverts(h) PROVE DoomStays
  BY <1>8 DEF ArchiveReverts, Turn, NoArchiveJob
<1>9. ASSUME NEW h \in Host, ResolveLetters(h) PROVE DoomStays
  BY <1>9 DEF ResolveLetters, Turn
<1>10. ASSUME NEW i \in Instance, DispatcherStarts(i) PROVE DoomStays
  BY <1>10 DEF DispatcherStarts
<1>11. ASSUME NEW i \in Instance, AcquiresOwnership(i) PROVE DoomStays
  BY <1>11 DEF AcquiresOwnership
<1>12. ASSUME NEW i \in Instance, BootLists(i) PROVE DoomStays
  BY <1>12 DEF BootLists
<1>13. ASSUME NEW i \in Instance, FilterBootRecoveryRuns(i) PROVE DoomStays
  BY <1>13 DEF FilterBootRecoveryRuns, BootEnds, Reenqueued
<1>14. ASSUME NEW i \in Instance, LossNoticed(i) PROVE DoomStays
  BY <1>14 DEF LossNoticed, Dropped
<1>15. ASSUME NEW i \in Instance, FinalHeartbeat(i) PROVE DoomStays
  BY <1>15 DEF FinalHeartbeat, Turn, RecordHeartbeat
<1>16. ASSUME NEW i \in Instance, PreflightFails(i) PROVE DoomStays
  BY <1>16 DEF PreflightFails, BootEnds, Reenqueued, Turn
<1>17. ASSUME NEW i \in Instance, DispatcherStops(i) PROVE DoomStays
  BY <1>17 DEF DispatcherStops, Turn, Dropped
<1>18. ASSUME NEW i \in Instance, OwnershipLost(i) PROVE DoomStays
  BY <1>18 DEF OwnershipLost, Turn
<1>19. ASSUME NEW i \in Instance, DispatcherCrashes(i) PROVE DoomStays
  BY <1>19 DEF DispatcherCrashes, Turn, Dropped
<1>20. ASSUME NEW i \in Instance, Heartbeat(i) PROVE DoomStays
  BY <1>20 DEF Heartbeat, RecordHeartbeat
<1>21. ASSUME HeartbeatAges PROVE DoomStays
  BY <1>21 DEF HeartbeatAges, Turn
<1>22. ASSUME DeadSessionEnds PROVE DoomStays
  BY <1>22 DEF DeadSessionEnds
<1>23. ASSUME NEW r \in Run, RunStarts(r) PROVE DoomStays
  BY <1>23 DEF RunStarts
<1>24. ASSUME NEW r \in Run, RunWakes(r) PROVE DoomStays
  BY <1>24 DEF RunWakes, Turn
<1>25. ASSUME NEW i \in Instance, NEW r \in Run, DispatcherClaims(i, r) PROVE DoomStays
  BY <1>25 DEF DispatcherClaims
<1>26. ASSUME NEW r \in Run, ActivationRefused(r) PROVE DoomStays
  BY <1>26 DEF ActivationRefused, DeadLetters
<1>27. ASSUME NEW r \in Run, ActivationUnavailable(r) PROVE DoomStays
  BY <1>27 DEF ActivationUnavailable, DeadLetters, Turn
<1>28. ASSUME NEW r \in Run, StepDelivered(r) PROVE DoomStays
  BY <1>28 DEF StepDelivered, ActivationTerminal
<1>29. ASSUME SweepLists PROVE DoomStays
  BY <1>29 DEF SweepLists, NoSweep
<1>30. ASSUME NEW h \in Host, SweepReads(h) PROVE DoomStays
  BY <1>30 DEF SweepReads
<1>31. ASSUME RetentionFor PROVE DoomStays
  BY <1>31 DEF RetentionFor
<1>32. ASSUME SweepSettles PROVE DoomStays
  BY <1>32 DEF SweepSettles
<1>33. ASSUME SweepEnds PROVE DoomStays
  BY <1>33 DEF SweepEnds
<1>34. ASSUME SweepSkips PROVE DoomStays
  BY <1>34 DEF SweepSkips, Turn
<1>35. ASSUME NEW h \in Host, ArchiveJobClaims(h) PROVE DoomStays
  BY <1>35 DEF ArchiveJobClaims, NoArchiveJob
<1>36. ASSUME NEW h \in Host, DrainPosted(h) PROVE DoomStays
  BY <1>36 DEF DrainPosted, Turn
<1>37. ASSUME NEW i \in Instance, IdentityUnread(i) PROVE DoomStays
  BY <1>37 DEF IdentityUnread, Turn
<1>99. CASE UNCHANGED dispatchVars
  BY <1>99
<1> QED
  BY <1>99, <1>1, <1>2, <1>3, <1>4, <1>5, <1>6, <1>7, <1>8, <1>9, <1>10, <1>11, <1>12, <1>13,
     <1>14, <1>15, <1>16, <1>17, <1>18, <1>19, <1>20, <1>21, <1>22, <1>23, <1>24, <1>25,
     <1>26, <1>27, <1>28, <1>29, <1>30, <1>31, <1>32, <1>33, <1>34, <1>35, <1>36, <1>37
    DEF DispatchNext, HostStep, ProcessStep, ProcessFaults, RunStep, SweepStep

\* Who is owed a delivery has one, or is a candidate: a run becomes owed when it starts
\* (queued) or is listed, and other processes' deliveries were recovered at the listing.
LEMMA RecoveredNext ==
    Shape /\ OwnerRecovers /\ Recovered /\ [DispatchNext]_dispatchVars => Recovered'
<1> SUFFICES ASSUME Shape, OwnerRecovers, Recovered, [DispatchNext]_dispatchVars
      PROVE Recovered'
  OBVIOUS
<1>0. \A r \in Run : Doomed(RunOn[r]) => Doomed(RunOn[r])'
  BY DoomKept, DispatchAssumption DEF DoomStays
<1> USE DispatchAssumption DEF dispatchVars, hostVars, history, runStateVars, processVars,
           Shape, OwnerRecovers, Recovered, Owed, Active, AtRest, Unclaimed, InstPlace
<1>1. ASSUME NEW h \in Host, Superseded(h) PROVE Recovered'
  BY <1>1, <1>0 DEF Superseded
<1>2. ASSUME NEW h \in Host, Promoted(h) PROVE Recovered'
  BY <1>2, <1>0 DEF Promoted, Turn
<1>3. ASSUME NEW h \in Host, WindowSlides(h) PROVE Recovered'
  BY <1>3, <1>0 DEF WindowSlides, Turn
<1>4. ASSUME NEW h \in Host, NEW s \in {"running", "stopped", "failed"}, StatusMoves(h, s)
      PROVE Recovered'
  BY <1>4, <1>0 DEF StatusMoves, Turn
<1>5. ASSUME NEW h \in Host, ArchiveEnqueued(h) PROVE Recovered'
  BY <1>5, <1>0 DEF ArchiveEnqueued, Turn, NoArchiveJob, QueuedArchiveJob
<1>6. ASSUME NEW h \in Host, ArchiveRechecks(h) PROVE Recovered'
  BY <1>6, <1>0 DEF ArchiveRechecks
<1>7. ASSUME NEW h \in Host, ArchiveCompletes(h) PROVE Recovered'
  BY <1>7, <1>0 DEF ArchiveCompletes, NoArchiveJob
<1>8. ASSUME NEW h \in Host, ArchiveReverts(h) PROVE Recovered'
  BY <1>8, <1>0 DEF ArchiveReverts, Turn, NoArchiveJob
<1>9. ASSUME NEW h \in Host, ResolveLetters(h) PROVE Recovered'
  BY <1>9, <1>0 DEF ResolveLetters, Turn
<1>10. ASSUME NEW i \in Instance, DispatcherStarts(i) PROVE Recovered'
  BY <1>10, <1>0 DEF DispatcherStarts
<1>11. ASSUME NEW i \in Instance, AcquiresOwnership(i) PROVE Recovered'
  BY <1>11, <1>0 DEF AcquiresOwnership
<1>12. ASSUME NEW i \in Instance, BootLists(i) PROVE Recovered'
  BY <1>12, <1>0 DEF BootLists
<1>13. ASSUME NEW i \in Instance, FilterBootRecoveryRuns(i) PROVE Recovered'
  BY <1>13, <1>0 DEF FilterBootRecoveryRuns, BootEnds, Reenqueued, Doomed
<1>14. ASSUME NEW i \in Instance, LossNoticed(i) PROVE Recovered'
  BY <1>14, <1>0 DEF LossNoticed, Dropped
<1>15. ASSUME NEW i \in Instance, FinalHeartbeat(i) PROVE Recovered'
  BY <1>15, <1>0 DEF FinalHeartbeat, Turn, RecordHeartbeat
<1>16. ASSUME NEW i \in Instance, PreflightFails(i) PROVE Recovered'
  BY <1>16, <1>0 DEF PreflightFails, BootEnds, Reenqueued, Turn
<1>17. ASSUME NEW i \in Instance, DispatcherStops(i) PROVE Recovered'
  BY <1>17, <1>0 DEF DispatcherStops, Turn, Dropped
<1>18. ASSUME NEW i \in Instance, OwnershipLost(i) PROVE Recovered'
  BY <1>18, <1>0 DEF OwnershipLost, Turn
<1>19. ASSUME NEW i \in Instance, DispatcherCrashes(i) PROVE Recovered'
  BY <1>19, <1>0 DEF DispatcherCrashes, Turn, Dropped
<1>20. ASSUME NEW i \in Instance, Heartbeat(i) PROVE Recovered'
  BY <1>20, <1>0 DEF Heartbeat, RecordHeartbeat
<1>21. ASSUME HeartbeatAges PROVE Recovered'
  BY <1>21, <1>0 DEF HeartbeatAges, Turn
<1>22. ASSUME DeadSessionEnds PROVE Recovered'
  BY <1>22, <1>0 DEF DeadSessionEnds
<1>23. ASSUME NEW r \in Run, RunStarts(r) PROVE Recovered'
  BY <1>23, <1>0 DEF RunStarts
<1>24. ASSUME NEW r \in Run, RunWakes(r) PROVE Recovered'
  BY <1>24, <1>0 DEF RunWakes, Turn
<1>25. ASSUME NEW i \in Instance, NEW r \in Run, DispatcherClaims(i, r) PROVE Recovered'
  BY <1>25, <1>0 DEF DispatcherClaims
<1>26. ASSUME NEW r \in Run, ActivationRefused(r) PROVE Recovered'
  BY <1>26, <1>0 DEF ActivationRefused, DeadLetters
<1>27. ASSUME NEW r \in Run, ActivationUnavailable(r) PROVE Recovered'
  BY <1>27, <1>0 DEF ActivationUnavailable, DeadLetters, Turn
<1>28. ASSUME NEW r \in Run, StepDelivered(r) PROVE Recovered'
  BY <1>28, <1>0 DEF StepDelivered
<1>29. ASSUME SweepLists PROVE Recovered'
  BY <1>29, <1>0 DEF SweepLists, NoSweep
<1>30. ASSUME NEW h \in Host, SweepReads(h) PROVE Recovered'
  BY <1>30, <1>0 DEF SweepReads
<1>31. ASSUME RetentionFor PROVE Recovered'
  BY <1>31, <1>0 DEF RetentionFor
<1>32. ASSUME SweepSettles PROVE Recovered'
  BY <1>32, <1>0 DEF SweepSettles
<1>33. ASSUME SweepEnds PROVE Recovered'
  BY <1>33, <1>0 DEF SweepEnds
<1>34. ASSUME SweepSkips PROVE Recovered'
  BY <1>34, <1>0 DEF SweepSkips, Turn
<1>35. ASSUME NEW h \in Host, ArchiveJobClaims(h) PROVE Recovered'
  BY <1>35, <1>0 DEF ArchiveJobClaims, NoArchiveJob
<1>36. ASSUME NEW h \in Host, DrainPosted(h) PROVE Recovered'
  BY <1>36, <1>0 DEF DrainPosted, Turn
<1>37. ASSUME NEW i \in Instance, IdentityUnread(i) PROVE Recovered'
  BY <1>37, <1>0 DEF IdentityUnread, Turn
<1>99. CASE UNCHANGED dispatchVars
  BY <1>99, <1>0, DoomKept DEF DoomStays
<1> QED
  BY <1>99, <1>1, <1>2, <1>3, <1>4, <1>5, <1>6, <1>7, <1>8, <1>9, <1>10, <1>11, <1>12, <1>13,
     <1>14, <1>15, <1>16, <1>17, <1>18, <1>19, <1>20, <1>21, <1>22, <1>23, <1>24, <1>25,
     <1>26, <1>27, <1>28, <1>29, <1>30, <1>31, <1>32, <1>33, <1>34, <1>35, <1>36, <1>37
    DEF DispatchNext, HostStep, ProcessStep, ProcessFaults, RunStep, SweepStep

\* Only the verdict "fail" fails runs, and it is read off a refused Deployment.
LEMMA FailsDoomedNext == Shape /\ FailsDoomed /\ [DispatchNext]_dispatchVars => FailsDoomed'
<1> SUFFICES ASSUME Shape, FailsDoomed, [DispatchNext]_dispatchVars PROVE FailsDoomed'
  OBVIOUS
<1>0. \A r \in Run : Doomed(RunOn[r]) => Doomed(RunOn[r])'
  BY DoomKept, DispatchAssumption DEF DoomStays
<1> USE DispatchAssumption DEF dispatchVars, hostVars, history, runStateVars, processVars,
           Shape, FailsDoomed, DoomStays
<1>1. ASSUME NEW h \in Host, Superseded(h) PROVE FailsDoomed'
  BY <1>1, <1>0, DoomKept DEF Superseded, SweepShape
<1>2. ASSUME NEW h \in Host, Promoted(h) PROVE FailsDoomed'
  BY <1>2, <1>0, DoomKept DEF Promoted, Turn
<1>3. ASSUME NEW h \in Host, WindowSlides(h) PROVE FailsDoomed'
  BY <1>3, <1>0, DoomKept DEF WindowSlides, Turn
<1>4. ASSUME NEW h \in Host, NEW s \in {"running", "stopped", "failed"}, StatusMoves(h, s)
      PROVE FailsDoomed'
  BY <1>4, <1>0, DoomKept DEF StatusMoves, Turn
<1>5. ASSUME NEW h \in Host, ArchiveEnqueued(h) PROVE FailsDoomed'
  BY <1>5, <1>0, DoomKept DEF ArchiveEnqueued, Turn, NoArchiveJob, QueuedArchiveJob
<1>6. ASSUME NEW h \in Host, ArchiveRechecks(h) PROVE FailsDoomed'
  BY <1>6, <1>0, DoomKept DEF ArchiveRechecks
<1>7. ASSUME NEW h \in Host, ArchiveCompletes(h) PROVE FailsDoomed'
  BY <1>7, <1>0, DoomKept DEF ArchiveCompletes, NoArchiveJob
<1>8. ASSUME NEW h \in Host, ArchiveReverts(h) PROVE FailsDoomed'
  BY <1>8, <1>0, DoomKept DEF ArchiveReverts, Turn, NoArchiveJob
<1>9. ASSUME NEW h \in Host, ResolveLetters(h) PROVE FailsDoomed'
  BY <1>9, <1>0, DoomKept DEF ResolveLetters, Turn
<1>10. ASSUME NEW i \in Instance, DispatcherStarts(i) PROVE FailsDoomed'
  BY <1>10, <1>0, DoomKept DEF DispatcherStarts
<1>11. ASSUME NEW i \in Instance, AcquiresOwnership(i) PROVE FailsDoomed'
  BY <1>11, <1>0, DoomKept DEF AcquiresOwnership
<1>12. ASSUME NEW i \in Instance, BootLists(i) PROVE FailsDoomed'
  BY <1>12, <1>0, DoomKept DEF BootLists
<1>13. ASSUME NEW i \in Instance, FilterBootRecoveryRuns(i) PROVE FailsDoomed'
  BY <1>13, <1>0, DoomKept DEF FilterBootRecoveryRuns, BootEnds, Reenqueued
<1>14. ASSUME NEW i \in Instance, LossNoticed(i) PROVE FailsDoomed'
  BY <1>14, <1>0, DoomKept DEF LossNoticed, Dropped
<1>15. ASSUME NEW i \in Instance, FinalHeartbeat(i) PROVE FailsDoomed'
  BY <1>15, <1>0, DoomKept DEF FinalHeartbeat, Turn, RecordHeartbeat
<1>16. ASSUME NEW i \in Instance, PreflightFails(i) PROVE FailsDoomed'
  BY <1>16, <1>0, DoomKept DEF PreflightFails, BootEnds, Reenqueued, Turn
<1>17. ASSUME NEW i \in Instance, DispatcherStops(i) PROVE FailsDoomed'
  BY <1>17, <1>0, DoomKept DEF DispatcherStops, Turn, Dropped
<1>18. ASSUME NEW i \in Instance, OwnershipLost(i) PROVE FailsDoomed'
  BY <1>18, <1>0, DoomKept DEF OwnershipLost, Turn
<1>19. ASSUME NEW i \in Instance, DispatcherCrashes(i) PROVE FailsDoomed'
  BY <1>19, <1>0, DoomKept DEF DispatcherCrashes, Turn, Dropped
<1>20. ASSUME NEW i \in Instance, Heartbeat(i) PROVE FailsDoomed'
  BY <1>20, <1>0, DoomKept DEF Heartbeat, RecordHeartbeat
<1>21. ASSUME HeartbeatAges PROVE FailsDoomed'
  BY <1>21, <1>0, DoomKept DEF HeartbeatAges, Turn
<1>22. ASSUME DeadSessionEnds PROVE FailsDoomed'
  BY <1>22, <1>0, DoomKept DEF DeadSessionEnds
<1>23. ASSUME NEW r \in Run, RunStarts(r) PROVE FailsDoomed'
  BY <1>23, <1>0, DoomKept DEF RunStarts
<1>24. ASSUME NEW r \in Run, RunWakes(r) PROVE FailsDoomed'
  BY <1>24, <1>0, DoomKept DEF RunWakes, Turn
<1>25. ASSUME NEW i \in Instance, NEW r \in Run, DispatcherClaims(i, r) PROVE FailsDoomed'
  BY <1>25, <1>0, DoomKept DEF DispatcherClaims
<1>26. ASSUME NEW r \in Run, ActivationRefused(r) PROVE FailsDoomed'
  BY <1>26, <1>0, DoomKept DEF ActivationRefused, DeadLetters
<1>27. ASSUME NEW r \in Run, ActivationUnavailable(r) PROVE FailsDoomed'
  BY <1>27, <1>0, DoomKept DEF ActivationUnavailable, DeadLetters, Turn
<1>28. ASSUME NEW r \in Run, StepDelivered(r) PROVE FailsDoomed'
  BY <1>28, <1>0, DoomKept DEF StepDelivered
<1>29. ASSUME SweepLists PROVE FailsDoomed'
  BY <1>29, <1>0, DoomKept DEF SweepLists, NoSweep
<1>30. ASSUME NEW h \in Host, SweepReads(h) PROVE FailsDoomed'
  BY <1>30, <1>0, DoomKept DEF SweepReads, Doomed, SweepShape
<1>31. ASSUME RetentionFor PROVE FailsDoomed'
  BY <1>31, <1>0, DoomKept DEF RetentionFor, SweepShape
<1>32. ASSUME SweepSettles PROVE FailsDoomed'
  BY <1>32, <1>0, DoomKept DEF SweepSettles, Active, SweepShape
<1>33. ASSUME SweepEnds PROVE FailsDoomed'
  BY <1>33, <1>0, DoomKept DEF SweepEnds, SweepShape, NoSweep
<1>34. ASSUME SweepSkips PROVE FailsDoomed'
  BY <1>34, <1>0, DoomKept DEF SweepSkips, SweepShape
<1>35. ASSUME NEW h \in Host, ArchiveJobClaims(h) PROVE FailsDoomed'
  BY <1>35, <1>0, DoomKept DEF ArchiveJobClaims, NoArchiveJob
<1>36. ASSUME NEW h \in Host, DrainPosted(h) PROVE FailsDoomed'
  BY <1>36, <1>0, DoomKept DEF DrainPosted, Turn
<1>37. ASSUME NEW i \in Instance, IdentityUnread(i) PROVE FailsDoomed'
  BY <1>37, <1>0, DoomKept DEF IdentityUnread, Turn
<1>99. CASE UNCHANGED dispatchVars
  BY <1>99, <1>0, DoomKept DEF DoomStays
<1> QED
  BY <1>99, <1>1, <1>2, <1>3, <1>4, <1>5, <1>6, <1>7, <1>8, <1>9, <1>10, <1>11, <1>12, <1>13,
     <1>14, <1>15, <1>16, <1>17, <1>18, <1>19, <1>20, <1>21, <1>22, <1>23, <1>24, <1>25,
     <1>26, <1>27, <1>28, <1>29, <1>30, <1>31, <1>32, <1>33, <1>34, <1>35, <1>36, <1>37
    DEF DispatchNext, HostStep, ProcessStep, ProcessFaults, RunStep, SweepStep

\* The sweep's own reads, and the promotions beside it, keep what it may cancel idle.
LEMMA CancelsIdleNext == Shape /\ CancelsIdle /\ [DispatchNext]_dispatchVars => CancelsIdle'
<1> SUFFICES ASSUME Shape, CancelsIdle, [DispatchNext]_dispatchVars PROVE CancelsIdle'
  OBVIOUS
<1> USE DispatchAssumption DEF dispatchVars, hostVars, history, runStateVars, processVars,
           Shape, CancelsIdle, EveOwnedOnly
<1>1. ASSUME NEW h \in Host, Superseded(h) PROVE CancelsIdle'
  BY <1>1 DEF Superseded, SweepShape
<1>2. ASSUME NEW h \in Host, Promoted(h) PROVE CancelsIdle'
  BY <1>2 DEF Promoted, Turn
<1>3. ASSUME NEW h \in Host, WindowSlides(h) PROVE CancelsIdle'
  BY <1>3 DEF WindowSlides, Turn
<1>4. ASSUME NEW h \in Host, NEW s \in {"running", "stopped", "failed"}, StatusMoves(h, s)
      PROVE CancelsIdle'
  BY <1>4 DEF StatusMoves, Turn
<1>5. ASSUME NEW h \in Host, ArchiveEnqueued(h) PROVE CancelsIdle'
  BY <1>5 DEF ArchiveEnqueued, Turn, NoArchiveJob, QueuedArchiveJob
<1>6. ASSUME NEW h \in Host, ArchiveRechecks(h) PROVE CancelsIdle'
  BY <1>6 DEF ArchiveRechecks
<1>7. ASSUME NEW h \in Host, ArchiveCompletes(h) PROVE CancelsIdle'
  BY <1>7 DEF ArchiveCompletes, NoArchiveJob
<1>8. ASSUME NEW h \in Host, ArchiveReverts(h) PROVE CancelsIdle'
  BY <1>8 DEF ArchiveReverts, Turn, NoArchiveJob
<1>9. ASSUME NEW h \in Host, ResolveLetters(h) PROVE CancelsIdle'
  BY <1>9 DEF ResolveLetters, Turn
<1>10. ASSUME NEW i \in Instance, DispatcherStarts(i) PROVE CancelsIdle'
  BY <1>10 DEF DispatcherStarts
<1>11. ASSUME NEW i \in Instance, AcquiresOwnership(i) PROVE CancelsIdle'
  BY <1>11 DEF AcquiresOwnership
<1>12. ASSUME NEW i \in Instance, BootLists(i) PROVE CancelsIdle'
  BY <1>12 DEF BootLists
<1>13. ASSUME NEW i \in Instance, FilterBootRecoveryRuns(i) PROVE CancelsIdle'
  BY <1>13 DEF FilterBootRecoveryRuns, BootEnds, Reenqueued
<1>14. ASSUME NEW i \in Instance, LossNoticed(i) PROVE CancelsIdle'
  BY <1>14 DEF LossNoticed, Dropped
<1>15. ASSUME NEW i \in Instance, FinalHeartbeat(i) PROVE CancelsIdle'
  BY <1>15 DEF FinalHeartbeat, Turn, RecordHeartbeat
<1>16. ASSUME NEW i \in Instance, PreflightFails(i) PROVE CancelsIdle'
  BY <1>16 DEF PreflightFails, BootEnds, Reenqueued, Turn
<1>17. ASSUME NEW i \in Instance, DispatcherStops(i) PROVE CancelsIdle'
  BY <1>17 DEF DispatcherStops, Turn, Dropped
<1>18. ASSUME NEW i \in Instance, OwnershipLost(i) PROVE CancelsIdle'
  BY <1>18 DEF OwnershipLost, Turn
<1>19. ASSUME NEW i \in Instance, DispatcherCrashes(i) PROVE CancelsIdle'
  BY <1>19 DEF DispatcherCrashes, Turn, Dropped
<1>20. ASSUME NEW i \in Instance, Heartbeat(i) PROVE CancelsIdle'
  BY <1>20 DEF Heartbeat, RecordHeartbeat
<1>21. ASSUME HeartbeatAges PROVE CancelsIdle'
  BY <1>21 DEF HeartbeatAges, Turn
<1>22. ASSUME DeadSessionEnds PROVE CancelsIdle'
  BY <1>22 DEF DeadSessionEnds
<1>23. ASSUME NEW r \in Run, RunStarts(r) PROVE CancelsIdle'
  BY <1>23 DEF RunStarts
<1>24. ASSUME NEW r \in Run, RunWakes(r) PROVE CancelsIdle'
  BY <1>24 DEF RunWakes, Turn
<1>25. ASSUME NEW i \in Instance, NEW r \in Run, DispatcherClaims(i, r) PROVE CancelsIdle'
  BY <1>25 DEF DispatcherClaims
<1>26. ASSUME NEW r \in Run, ActivationRefused(r) PROVE CancelsIdle'
  BY <1>26 DEF ActivationRefused, DeadLetters
<1>27. ASSUME NEW r \in Run, ActivationUnavailable(r) PROVE CancelsIdle'
  BY <1>27 DEF ActivationUnavailable, DeadLetters, Turn
<1>28. ASSUME NEW r \in Run, StepDelivered(r) PROVE CancelsIdle'
  BY <1>28 DEF StepDelivered
<1>29. ASSUME SweepLists PROVE CancelsIdle'
  BY <1>29 DEF SweepLists, SweepShape, NoSweep
<1>30. ASSUME NEW h \in Host, SweepReads(h) PROVE CancelsIdle'
  BY <1>30 DEF SweepReads, SweepShape
<1>31. ASSUME RetentionFor PROVE CancelsIdle'
  BY <1>31 DEF RetentionFor, SweepShape
<1>32. ASSUME SweepSettles PROVE CancelsIdle'
  BY <1>32 DEF SweepSettles, SweepShape
<1>33. ASSUME SweepEnds PROVE CancelsIdle'
  BY <1>33 DEF SweepEnds, SweepShape, NoSweep
<1>34. ASSUME SweepSkips PROVE CancelsIdle'
  BY <1>34 DEF SweepSkips, SweepShape
<1>35. ASSUME NEW h \in Host, ArchiveJobClaims(h) PROVE CancelsIdle'
  BY <1>35 DEF ArchiveJobClaims, NoArchiveJob
<1>36. ASSUME NEW h \in Host, DrainPosted(h) PROVE CancelsIdle'
  BY <1>36 DEF DrainPosted, Turn
<1>37. ASSUME NEW i \in Instance, IdentityUnread(i) PROVE CancelsIdle'
  BY <1>37 DEF IdentityUnread, Turn
<1>99. CASE UNCHANGED dispatchVars
  BY <1>99
<1> QED
  BY <1>99, <1>1, <1>2, <1>3, <1>4, <1>5, <1>6, <1>7, <1>8, <1>9, <1>10, <1>11, <1>12, <1>13,
     <1>14, <1>15, <1>16, <1>17, <1>18, <1>19, <1>20, <1>21, <1>22, <1>23, <1>24, <1>25,
     <1>26, <1>27, <1>28, <1>29, <1>30, <1>31, <1>32, <1>33, <1>34, <1>35, <1>36, <1>37
    DEF DispatchNext, HostStep, ProcessStep, ProcessFaults, RunStep, SweepStep

LEMMA InvNext == DispatchInv /\ [DispatchNext]_dispatchVars => DispatchInv'
BY ShapeNext, ClaimHeldNext, OwnerRecoversNext, RecoveredNext, FailsDoomedNext, CancelsIdleNext
   DEF DispatchInv

-----------------------------------------------------------------------------
(***************************************************************************)
(* Theorems                                                                *)
(***************************************************************************)
\* The inductive invariant holds throughout.
THEOREM DispatchInvariant == DispatchSpec => []DispatchInv
BY InitHolds, InvNext, PTL DEF DispatchSpec

\* The tables, processes and deliveries keep their types; a Deployment is archiving only
\* while a handler holds the claim, and only the lock's owner recovers.
THEOREM DispatchTypeCorrect == DispatchSpec => []DispatchTypeOK
<1>1. DispatchInv => DispatchTypeOK
  BY DEF DispatchInv, Shape, ClaimHeld, OwnerRecovers, DispatchTypeOK, InstPlace,
     Claimable
<1> QED
  BY <1>1, DispatchInvariant, PTL

\* While an owner serves, boot recovery has left no run behind whose delivery an earlier
\* process took with it, however many processes came and went before (BootLists,
\* FilterBootRecoveryRuns, PreflightFails), but for a run a dead letter quarantined and one of
\* a Deployment an archive had and that came back, by a claim handed back or by a drain.
THEOREM NoRunStrandedCorrect == DispatchSpec => []NoRunStranded
<1>1. DispatchInv => NoRunStranded
  BY DispatchAssumption
     DEF DispatchInv, Shape, Recovered, Owed, Doomed, CameBack, AtRest, NoRunStranded, Unclaimed
<1> QED
  BY <1>1, DispatchInvariant, PTL

\* Runs are failed for good only on Deployments that cannot be activated, or that an archive
\* had and that came back: the claim was handed back (ArchiveReverts), or a drain was written
\* over it (DrainPosted).
THEOREM FailedRunsCorrect == DispatchSpec => []FailedRunsWereDoomed
<1>1. DispatchInv => FailedRunsWereDoomed
  BY DEF DispatchInv, FailsDoomed, Doomed, CameBack, FailedRunsWereDoomed
<1> QED
  BY <1>1, DispatchInvariant, PTL

\* Whatever else changes a run, only a sweep's settlement cancels one.
Spares ==
    \A r \in Run : runs[r] = "active" /\ runs'[r] = "cancelled" =>
        /\ r \notin Authored \cap sweep.listed
        /\ RunOn[r] \notin sweep.steady

LEMMA SparesNext == DispatchInv /\ [DispatchNext]_dispatchVars => Spares
<1> SUFFICES ASSUME DispatchInv, [DispatchNext]_dispatchVars PROVE Spares
  OBVIOUS
<1> USE DispatchAssumption DEF dispatchVars, hostVars, history, runStateVars, processVars,
           DispatchInv, Shape, Spares
<1>1. ASSUME NEW h \in Host, Superseded(h) PROVE Spares
  BY <1>1 DEF Superseded
<1>2. ASSUME NEW h \in Host, Promoted(h) PROVE Spares
  BY <1>2 DEF Promoted, Turn
<1>3. ASSUME NEW h \in Host, WindowSlides(h) PROVE Spares
  BY <1>3 DEF WindowSlides, Turn
<1>4. ASSUME NEW h \in Host, NEW s \in {"running", "stopped", "failed"}, StatusMoves(h, s)
      PROVE Spares
  BY <1>4 DEF StatusMoves, Turn
<1>5. ASSUME NEW h \in Host, ArchiveEnqueued(h) PROVE Spares
  BY <1>5 DEF ArchiveEnqueued, Turn, NoArchiveJob, QueuedArchiveJob
<1>6. ASSUME NEW h \in Host, ArchiveRechecks(h) PROVE Spares
  BY <1>6 DEF ArchiveRechecks
<1>7. ASSUME NEW h \in Host, ArchiveCompletes(h) PROVE Spares
  BY <1>7 DEF ArchiveCompletes, NoArchiveJob
<1>8. ASSUME NEW h \in Host, ArchiveReverts(h) PROVE Spares
  BY <1>8 DEF ArchiveReverts, Turn, NoArchiveJob
<1>9. ASSUME NEW h \in Host, ResolveLetters(h) PROVE Spares
  BY <1>9 DEF ResolveLetters, Turn
<1>10. ASSUME NEW i \in Instance, DispatcherStarts(i) PROVE Spares
  BY <1>10 DEF DispatcherStarts
<1>11. ASSUME NEW i \in Instance, AcquiresOwnership(i) PROVE Spares
  BY <1>11 DEF AcquiresOwnership
<1>12. ASSUME NEW i \in Instance, BootLists(i) PROVE Spares
  BY <1>12 DEF BootLists
<1>13. ASSUME NEW i \in Instance, FilterBootRecoveryRuns(i) PROVE Spares
  BY <1>13 DEF FilterBootRecoveryRuns, BootEnds, Reenqueued
<1>14. ASSUME NEW i \in Instance, LossNoticed(i) PROVE Spares
  BY <1>14 DEF LossNoticed, Dropped
<1>15. ASSUME NEW i \in Instance, FinalHeartbeat(i) PROVE Spares
  BY <1>15 DEF FinalHeartbeat, Turn, RecordHeartbeat
<1>16. ASSUME NEW i \in Instance, PreflightFails(i) PROVE Spares
  BY <1>16 DEF PreflightFails, BootEnds, Reenqueued, Turn
<1>17. ASSUME NEW i \in Instance, DispatcherStops(i) PROVE Spares
  BY <1>17 DEF DispatcherStops, Turn, Dropped
<1>18. ASSUME NEW i \in Instance, OwnershipLost(i) PROVE Spares
  BY <1>18 DEF OwnershipLost, Turn
<1>19. ASSUME NEW i \in Instance, DispatcherCrashes(i) PROVE Spares
  BY <1>19 DEF DispatcherCrashes, Turn, Dropped
<1>20. ASSUME NEW i \in Instance, Heartbeat(i) PROVE Spares
  BY <1>20 DEF Heartbeat, RecordHeartbeat
<1>21. ASSUME HeartbeatAges PROVE Spares
  BY <1>21 DEF HeartbeatAges, Turn
<1>22. ASSUME DeadSessionEnds PROVE Spares
  BY <1>22 DEF DeadSessionEnds
<1>23. ASSUME NEW r \in Run, RunStarts(r) PROVE Spares
  BY <1>23 DEF RunStarts
<1>24. ASSUME NEW r \in Run, RunWakes(r) PROVE Spares
  BY <1>24 DEF RunWakes, Turn
<1>25. ASSUME NEW i \in Instance, NEW r \in Run, DispatcherClaims(i, r) PROVE Spares
  BY <1>25 DEF DispatcherClaims
<1>26. ASSUME NEW r \in Run, ActivationRefused(r) PROVE Spares
  BY <1>26 DEF ActivationRefused, DeadLetters
<1>27. ASSUME NEW r \in Run, ActivationUnavailable(r) PROVE Spares
  BY <1>27 DEF ActivationUnavailable, DeadLetters, Turn
<1>28. ASSUME NEW r \in Run, StepDelivered(r) PROVE Spares
  BY <1>28 DEF StepDelivered
<1>29. ASSUME SweepLists PROVE Spares
  BY <1>29 DEF SweepLists, NoSweep
<1>30. ASSUME NEW h \in Host, SweepReads(h) PROVE Spares
  BY <1>30 DEF SweepReads
<1>31. ASSUME RetentionFor PROVE Spares
  BY <1>31 DEF RetentionFor
<1>32. ASSUME SweepSettles PROVE Spares
  BY <1>32 DEF SweepSettles, CancelsIdle, EveOwnedOnly, RunsOf, Active
<1>33. ASSUME SweepEnds PROVE Spares
  BY <1>33 DEF SweepEnds
<1>34. ASSUME SweepSkips PROVE Spares
  BY <1>34 DEF SweepSkips, Turn
<1>35. ASSUME NEW h \in Host, ArchiveJobClaims(h) PROVE Spares
  BY <1>35 DEF ArchiveJobClaims, NoArchiveJob
<1>36. ASSUME NEW h \in Host, DrainPosted(h) PROVE Spares
  BY <1>36 DEF DrainPosted, Turn
<1>37. ASSUME NEW i \in Instance, IdentityUnread(i) PROVE Spares
  BY <1>37 DEF IdentityUnread, Turn
<1>99. CASE UNCHANGED dispatchVars
  BY <1>99
<1> QED
  BY <1>99, <1>1, <1>2, <1>3, <1>4, <1>5, <1>6, <1>7, <1>8, <1>9, <1>10, <1>11, <1>12, <1>13,
     <1>14, <1>15, <1>16, <1>17, <1>18, <1>19, <1>20, <1>21, <1>22, <1>23, <1>24, <1>25,
     <1>26, <1>27, <1>28, <1>29, <1>30, <1>31, <1>32, <1>33, <1>34, <1>35, <1>36, <1>37
    DEF DispatchNext, HostStep, ProcessStep, ProcessFaults, RunStep, SweepStep

\* No sweep cancels a workflow the project wrote and the sweep has seen, nor any run of a
\* Deployment that was reachable from the sweep's listing on (reconcileAbandonedWorkflowRuns).
THEOREM CancelSparesCorrect == DispatchSpec => CancelSpares
<1>1. DispatchInv /\ [DispatchNext]_dispatchVars => [Spares]_dispatchVars
  BY SparesNext
<1> QED
  BY <1>1, DispatchInvariant, PTL DEF DispatchSpec, CancelSpares, Spares


=============================================================================
