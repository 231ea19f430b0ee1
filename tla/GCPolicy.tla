------------------------------ MODULE GCPolicy ------------------------------
(***************************************************************************)
(* The container eviction policy of the kubelet garbage collector          *)
(* (kuberuntime containerGC.evictContainers), as pure operators over a     *)
(* snapshot of container records.                                          *)
(*                                                                         *)
(* A container record has at least the fields                              *)
(*   pod, name   the eviction unit key (pod UID, container name)           *)
(*   attempt     the restart attempt of that container                     *)
(*   state       "RUNNING" or "EXITED"                                     *)
(*   created     creation timestamp (a natural number)                     *)
(*   old         TRUE iff now - created >= MinAge                          *)
(* A policy is a record [maxPerPod |-> Int, maxContainers |-> Int]; a      *)
(* negative value means "no limit".                                        *)
(*                                                                         *)
(* Step 4c of the policy removes "the oldest" kept entries with ties       *)
(* broken arbitrarily, so the evaluation returns the SET of possible       *)
(* kept sets; it is a singleton whenever no tie matters.                   *)
(***************************************************************************)
EXTENDS Integers, FiniteSets, SequencesExt, FiniteSetsExt

RUNNING == "RUNNING"
EXITED  == "EXITED"

\* The eviction unit a container belongs to.
UnitKey(c) == <<c.pod, c.name>>

\* a is newer than b: later creation, ties broken by the higher attempt.
Newer(a, b) ==
    \/ a.created > b.created
    \/ a.created = b.created /\ a.attempt > b.attempt

\* Step 1: non-running containers that are older than MinAge.  Young
\* containers are filtered out before any cap logic and are not counted.
Evictable(cs) == {c \in cs : c.state # RUNNING /\ c.old}

Units(cs) == {UnitKey(c) : c \in cs}

UnitOf(cs, u) == {c \in cs : UnitKey(c) = u}

\* Faulty variant: the unit sorted the wrong way, keeping the oldest.
OldestN(unit, n) ==
    LET sorted == SetToSortSeq(unit, LAMBDA a, b : Newer(b, a))
    IN  {sorted[i] : i \in 1..IF n < Len(sorted) THEN n ELSE Len(sorted)}

\* The n newest entries of a unit (the whole unit when it has fewer).
NewestN(unit, n) ==
    LET sorted == SetToSortSeq(unit, Newer)
    IN  {sorted[i] : i \in 1..IF n < Len(sorted) THEN n ELSE Len(sorted)}

\* Faulty variant: an off-by-one that keeps n - 1 entries per unit.
TrimUnitsOffByOne(cs, n) == UNION {NewestN(UnitOf(cs, u), n - 1) : u \in Units(cs)}

\* Re-trim every unit of cs to its n newest entries.
TrimUnits(cs, n) == UNION {NewestN(UnitOf(cs, u), n) : u \in Units(cs)}

\* Step 3: per-unit cap, skipped when MaxPerPodContainer < 0.
PerPodCap(cands, policy) ==
    IF policy.maxPerPod < 0 THEN cands ELSE TrimUnits(cands, policy.maxPerPod)

\* The ways of choosing the n oldest entries of cs (ties arbitrary).
OldestChoices(cs, n) ==
    {S \in kSubset(n, cs) : \A x \in S, y \in cs \ S : x.created <= y.created}

\* Faulty variant: step 4c removes one entry too few.
GlobalCapOffByOne(kept, policy) ==
    LET M == policy.maxContainers
    IN  IF M < 0 \/ Cardinality(kept) <= M
        THEN {kept}
        ELSE LET perUnit == IF M \div Cardinality(Units(kept)) > 1
                            THEN M \div Cardinality(Units(kept)) ELSE 1
                 fair    == TrimUnits(kept, perUnit)
             IN  IF Cardinality(fair) <= M
                 THEN {fair}
                 ELSE {fair \ S : S \in OldestChoices(fair, Cardinality(fair) - M - 1)}

\* Faulty variant: the fairness round trims every unit to one entry
\* instead of MaxContainers / U.
GlobalCapNoFairShare(kept, policy) ==
    LET M == policy.maxContainers
    IN  IF M < 0 \/ Cardinality(kept) <= M
        THEN {kept}
        ELSE LET fair == TrimUnits(kept, 1)
             IN  IF Cardinality(fair) <= M
                 THEN {fair}
                 ELSE {fair \ S : S \in OldestChoices(fair, Cardinality(fair) - M)}

\* Step 4: global cap with the fairness round (4b) and the final
\* oldest-first flattening (4c).  Returns the set of possible kept sets.
GlobalCap(kept, policy) ==
    LET M == policy.maxContainers
    IN  IF M < 0 \/ Cardinality(kept) <= M
        THEN {kept}
        ELSE LET perUnit == IF M \div Cardinality(Units(kept)) > 1
                            THEN M \div Cardinality(Units(kept)) ELSE 1
                 fair    == TrimUnits(kept, perUnit)
             IN  IF Cardinality(fair) <= M
                 THEN {fair}
                 ELSE {fair \ S : S \in OldestChoices(fair, Cardinality(fair) - M)}

\* evictContainers: the possible sets of containers kept among the
\* evictable ones, and the possible deletion sets.
KeptChoices(cs, policy) == GlobalCap(PerPodCap(Evictable(cs), policy), policy)

DeletionChoices(cs, policy) == {Evictable(cs) \ K : K \in KeptChoices(cs, policy)}

-----------------------------------------------------------------------------
(* Sandbox and pod-log-directory policies (evictSandboxes,                 *)
(* evictPodLogsDirectories).                                               *)

READY     == "READY"
NOT_READY == "NOT_READY"

\* A sandbox record has fields pod, attempt, state, old; a container
\* references its sandbox through the fields pod and sb (the sandbox
\* attempt).
HasContainers(s, cs) == \E c \in cs : c.pod = s.pod /\ c.sb = s.attempt

SandboxEvictable(s, cs) ==
    /\ s.state # READY
    /\ ~HasContainers(s, cs)
    /\ s.old

SandboxesToEvict(sbs, cs) == {s \in sbs : SandboxEvictable(s, cs)}

\* Faulty variant: the allSourcesReady gate is missing.
LogDirsToRemoveUngated(dirs, known, allSourcesReady) == dirs \ known

\* Directories (named by pod UID) removed by one log GC pass.
LogDirsToRemove(dirs, known, allSourcesReady) ==
    IF allSourcesReady THEN dirs \ known ELSE {}

=============================================================================
