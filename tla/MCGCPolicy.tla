----------------------------- MODULE MCGCPolicy -----------------------------
(***************************************************************************)
(* Exhaustive check of the container eviction policy of GCPolicy over     *)
(* every snapshot of three eviction units (two of pod p1, one of pod p2)   *)
(* holding up to 3, 2 and 2 containers, with creation times in 0..2, and  *)
(* every policy with MaxPerPodContainer in -1..2 and MaxContainers in      *)
(* -1..4.  The state is the (snapshot, policy) pair; it never changes.     *)
(***************************************************************************)
EXTENDS GCPolicy

\* Creation times; Now - MinAge separates old from young containers.
Times  == 0..2
Now    == 2
MinAge == 1

\* Nondecreasing creation times for attempts 0..k-1 (a restart is created
\* no earlier than the attempt it replaces).
TimeLines(k) ==
    {t \in [0..k-1 -> Times] : \A i \in 0..k-2 : t[i] <= t[i+1]}

\* Every content of unit (p, n) with at most max containers; only the
\* latest attempt may still be running.
UnitSnapshots(p, n, max) ==
    UNION {
      { {[pod |-> p, name |-> n, attempt |-> i,
          state |-> IF i = k-1 /\ run THEN RUNNING ELSE EXITED,
          created |-> t[i], old |-> Now - t[i] >= MinAge] : i \in 0..k-1}
        : t \in TimeLines(k), run \in BOOLEAN }
      : k \in 0..max }

Snapshots ==
    {a \cup b \cup c : a \in UnitSnapshots("p1", "a", 3),
                       b \in UnitSnapshots("p1", "b", 2),
                       c \in UnitSnapshots("p2", "a", 2)}

Policies == [maxPerPod : -1..2, maxContainers : -1..4]

-----------------------------------------------------------------------------
(* The table of TestContainerGC (kuberuntime_gc_test.go).  Every numeric  *)
(* timestamp of the table is far older than MinAge; RECENT stands for     *)
(* time.Now(), which is younger.  Container i of a case has idx i.         *)

RECENT == 1000

TC(idx, pod, name, attempt, created, state) ==
    [idx |-> idx, pod |-> pod, name |-> name, attempt |-> attempt,
     state |-> state, created |-> created, old |-> created # RECENT]

\* k exited containers of one unit, attempts k-1..0 created at time
\* attempt, listed newest first from index first.
TUnit(first, pod, name, k) ==
    {TC(first + (k - 1 - a), pod, name, a, a, EXITED) : a \in 0..k-1}

DefaultGCPolicy == [maxPerPod |-> 2, maxContainers |-> 6]

TestCases == <<
  [cs |-> {TC(0, "foo", "bar", 0, 0, EXITED)},
   policy |-> [maxPerPod |-> 1, maxContainers |-> 0], remain |-> {}],
  [cs |-> TUnit(0, "foo", "bar", 5),
   policy |-> [maxPerPod |-> -1, maxContainers |-> 4], remain |-> {0, 1, 2, 3}],
  [cs |-> TUnit(0, "foo", "bar", 3),
   policy |-> [maxPerPod |-> -1, maxContainers |-> -1], remain |-> {0, 1, 2}],
  [cs |-> {TC(i, "foo", "bar", 2 - i, RECENT, EXITED) : i \in 0..2},
   policy |-> DefaultGCPolicy, remain |-> {0, 1, 2}],
  [cs |-> TUnit(0, "foo", "bar", 3),
   policy |-> DefaultGCPolicy, remain |-> {0, 1}],
  [cs |-> {TC(0, "foo", "bar", 2, 2, EXITED), TC(1, "foo", "bar", 1, 1, EXITED),
           TC(2, "foo", "bar", 0, 0, RUNNING)},
   policy |-> DefaultGCPolicy, remain |-> {0, 1, 2}],
  [cs |-> TUnit(0, "foo", "bar", 2),
   policy |-> DefaultGCPolicy, remain |-> {0, 1}],
  [cs |-> TUnit(0, "foo", "bar", 3) \cup TUnit(3, "foo1", "baz", 3)
                                   \cup TUnit(6, "foo2", "bar", 3),
   policy |-> DefaultGCPolicy, remain |-> {0, 1, 3, 4, 6, 7}],
  [cs |-> UNION {TUnit(2 * i, <<"foo", i>>, <<"bar", i>>, 2) : i \in 0..4},
   policy |-> DefaultGCPolicy, remain |-> {0, 2, 4, 6, 8}],
  [cs |-> {TC(0, "foo", "bar", 2, 2, EXITED), TC(1, "foo", "bar", 1, 1, EXITED),
           TC(2, "foo1", "bar1", 2, 2, EXITED), TC(3, "foo1", "bar1", 1, 1, EXITED),
           TC(4, "foo2", "bar2", 1, 1, EXITED), TC(5, "foo3", "bar3", 0, 0, EXITED),
           TC(6, "foo4", "bar4", 1, 1, EXITED), TC(7, "foo5", "bar5", 0, 0, EXITED),
           TC(8, "foo6", "bar6", 2, 2, EXITED), TC(9, "foo7", "bar7", 1, 1, EXITED)},
   policy |-> DefaultGCPolicy, remain |-> {0, 2, 4, 6, 8, 9}],
  [cs |-> {TC(0, "foo", "bar", 1, 1, EXITED), TC(1, "foo", "bar", 0, 0, EXITED),
           TC(2, "deleted", "bar1", 2, RECENT, EXITED),
           TC(3, "deleted", "bar1", 1, 1, EXITED),
           TC(4, "deleted", "bar1", 0, 0, EXITED)},
   policy |-> DefaultGCPolicy, remain |-> {0, 1, 2}]
>>

\* The last case, "containers for deleted pods should be removed".
DeletedPodCase == Len(TestCases)

-----------------------------------------------------------------------------
(* The tables of TestSandboxGC and TestPodLogDirectoryGC.  Sandbox i of a  *)
(* case has idx i; a sandbox is old unless the case says it was created   *)
(* now with a MinAge of one hour.                                          *)

TS(idx, pod, attempt, state, old) ==
    [idx |-> idx, pod |-> pod, attempt |-> attempt, state |-> state, old |-> old]

TCt(pod, sb) == [pod |-> pod, name |-> "bar", sb |-> sb, state |-> EXITED]

SandboxTestCases == <<
  [sbs |-> {TS(0, "1234", 0, NOT_READY, TRUE)}, cs |-> {}, remain |-> {}],
  [sbs |-> {TS(0, "1234", 0, READY, TRUE)}, cs |-> {}, remain |-> {0}],
  [sbs |-> {TS(0, "1234", 0, NOT_READY, TRUE)}, cs |-> {TCt("1234", 0)},
   remain |-> {0}],
  [sbs |-> {TS(0, "1234", 0, NOT_READY, FALSE), TS(1, "5678", 0, NOT_READY, TRUE)},
   cs |-> {}, remain |-> {0}],
  [sbs |-> {TS(0, "1234", 1, READY, TRUE), TS(1, "5678", 1, NOT_READY, TRUE),
            TS(2, "5678", 0, NOT_READY, TRUE)},
   cs |-> {TCt("5678", 1)}, remain |-> {0, 1}]
>>

\* The log directories on disk, the pods the pod getter knows, and the
\* directories the test expects removed.
LogTestFiles   == {"123", "456", "789", "012"}
LogTestPods    == {"123", "456"}
LogTestRemoved == {"789", "012"}

-----------------------------------------------------------------------------
\* tcase = 0 for an enumerated snapshot, i for the i-th test case.
VARIABLES snapshot, policy, tcase

vars == <<snapshot, policy, tcase>>

InitCase(i) ==
    /\ snapshot = TestCases[i].cs
    /\ policy = TestCases[i].policy
    /\ tcase = i

Init ==
    \/ snapshot \in Snapshots /\ policy \in Policies /\ tcase = 0
    \/ \E i \in 1..DeletedPodCase - 1 : InitCase(i)

Next == UNCHANGED vars

Spec == Init /\ [][Next]_vars

\* Only the deleted-pod test case.
DeletedPodSpec == InitCase(DeletedPodCase) /\ [][Next]_vars

TypeOK ==
    /\ tcase \in 0..DeletedPodCase
    /\ policy \in Policies \cup {TestCases[i].policy : i \in 1..DeletedPodCase}
    /\ \A K \in KeptChoices(snapshot, policy) : K \subseteq Evictable(snapshot)

-----------------------------------------------------------------------------
(* Properties of every outcome of one evictContainers pass.                *)

\* Both caps hold after a pass: no unit keeps more than MaxPerPodContainer
\* evictable containers, and no more than MaxContainers are kept overall
\* (evictContainers steps 3, 4b and 4c together).
CapsRespected ==
    \A K \in KeptChoices(snapshot, policy) :
        /\ policy.maxPerPod >= 0 =>
              \A u \in Units(K) : Cardinality(UnitOf(K, u)) <= policy.maxPerPod
        /\ policy.maxContainers >= 0 => Cardinality(K) <= policy.maxContainers

\* Fairness of the global cap: when MaxContainers is at least the number of
\* units with an evictable container (and the per-unit cap is not 0),
\* every such unit keeps at least one container, whatever step 4c does.
FairRetention ==
    LET U == Units(Evictable(snapshot))
    IN  /\ policy.maxPerPod # 0
        /\ policy.maxContainers < 0 \/ policy.maxContainers >= Cardinality(U)
        => \A K \in KeptChoices(snapshot, policy) : Units(K) = U

\* Within a unit the kept containers are always the newest (by creation
\* time, ties by attempt): no pass deletes a container while keeping an
\* older one of the same unit, although step 4c sorts globally by
\* creation time alone and breaks ties arbitrarily.
NewestRetained ==
    \A K \in KeptChoices(snapshot, policy) :
        \A x \in Evictable(snapshot) \ K, y \in K :
            UnitKey(x) = UnitKey(y) => ~Newer(x, y)

\* A test case of TestContainerGC ends with exactly the containers its
\* "remain" column lists, whichever way step 4c breaks ties.
TestOutcome ==
    tcase # 0 =>
        \A D \in DeletionChoices(snapshot, policy) :
            {c.idx : c \in snapshot \ D} = TestCases[tcase].remain

\* Every case of TestSandboxGC keeps exactly the sandboxes its "remain"
\* column lists after one evictSandboxes (checked in the states of the
\* test cases, which run the three test functions).
SandboxTestOutcome ==
    tcase # 0 => \A i \in DOMAIN SandboxTestCases :
        LET t == SandboxTestCases[i]
        IN  {s.idx : s \in t.sbs \ SandboxesToEvict(t.sbs, t.cs)} = t.remain

\* TestPodLogDirectoryGC: with all sources ready exactly the directories of
\* unknown pods are removed; with sources not ready none is.
LogDirTestOutcome ==
    tcase # 0 =>
    /\ LogDirsToRemove(LogTestFiles, LogTestPods, TRUE) = LogTestRemoved
    /\ LogDirsToRemove(LogTestFiles, LogTestPods, FALSE) = {}

\* The three test functions of kuberuntime_gc_test.go pass together: the
\* container, sandbox and log directory cases all end as their tables say.
GCTestsPass ==
    /\ TestOutcome
    /\ SandboxTestOutcome
    /\ LogDirTestOutcome

=============================================================================
