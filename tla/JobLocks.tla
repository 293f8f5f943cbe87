------------------------------ MODULE JobLocks ------------------------------
(***************************************************************************)
(* What the job queue promises to the handlers: a running job holds a lock *)
(* on what it touches, granted in one indivisible step and only when no    *)
(* holder excludes it and the cap on heavy holders leaves room.  Locks are *)
(* given back in any number at a time (settled, recovered, deleted).       *)
(***************************************************************************)
EXTENDS Naturals, FiniteSets

CONSTANTS Job, Scope, Excludes(_, _), Heavy(_), Cap

VARIABLE locks      \* the pairs <<job, scope>> held

HeavyLocks == {h \in locks : Heavy(h[2])}

Grant(j, s) ==
    /\ \A h \in locks : h[1] # j /\ ~Excludes(s, h[2])
    /\ Heavy(s) => Cardinality(HeavyLocks) < Cap
    /\ locks' = locks \cup {<<j, s>>}

Release == locks' \subseteq locks

LocksInit == locks = {}

LocksNext ==
    \/ \E j \in Job, s \in Scope : Grant(j, s)
    \/ Release

LocksSpec == LocksInit /\ [][LocksNext]_locks
=============================================================================
