----------------------------- MODULE Daemon_proofs -----------------------------
(***************************************************************************)
(* Theorems about the supervisor and its reloads, for any configurations,  *)
(* any number of profiles, reload workers and requests, and whatever the   *)
(* loops and the aborts do.                                                *)
(***************************************************************************)
EXTENDS Daemon, FiniteSetTheorems, WellFoundedInduction, TLAPS

\* A list of runners that is not empty has a first one.
LEMMA FirstIsIn ==
    ASSUME NEW rs, rs \subseteq Nat, rs # {}
    PROVE  Next1(rs) \in rs
  <1>1. \A x, y \in Nat : x < y => <<x, y>> \in OpToRel(<, Nat)
    BY DEF OpToRel
  <1>2. PICK R : IsWellFoundedOn(R, Nat) /\ \A x, y \in Nat : x < y => <<x, y>> \in R
    BY <1>1, NatLessThanWellFounded, Zenon
  <1>3. \E x \in rs : \A y \in rs : ~(<<y, x>> \in R)
    <2>1. IsWellFoundedOn(R, Nat)
      BY <1>2
    <2>2. \A RR, S : IsWellFoundedOn(RR, S) =>
            \A T : T \subseteq S /\ T # {} => \E x \in T : \A y \in T : ~(<<y, x>> \in RR)
      BY WFMin
    <2>3. \A T : T \subseteq Nat /\ T # {} => \E x \in T : \A y \in T : ~(<<y, x>> \in R)
      BY <2>1, <2>2
    <2>4. QED
      BY <2>3
  <1>4. PICK x \in rs : \A y \in rs : ~(<<y, x>> \in R)
    BY <1>3
  <1>5. ASSUME NEW y \in rs
        PROVE  x <= y
    <2>1. ~(y < x)
      <3>1. ~(<<y, x>> \in R)
        BY <1>4
      <3>2. y \in Nat /\ x \in Nat
        OBVIOUS
      <3>3. QED
        BY <1>2, <3>1, <3>2, Zenon
    <2>2. QED
      BY <2>1
  <1>6. QED
    BY <1>5 DEF Next1

LEMMA FirstRunner ==
    ASSUME NEW rs, rs \subseteq Runners, rs # {}
    PROVE  Next1(rs) \in rs
  <1>1. rs \subseteq Nat
    BY BoundAssumption DEF Runners
  <1>2. QED
    BY <1>1, FirstIsIn

-----------------------------------------------------------------------------
(* The invariant of the types and the lock.                                *)

Holding == {"plan", "abort", "join", "build", "release"}

\* The worker between Acquire and Release holds the lock, and what it is about to
\* retire or to build is known.
LockInv ==
    /\ \A w \in Workers : wpc[w] \in Holding <=> holder = w
    /\ \A w \in Workers : wpc[w] \in {"abort", "join"} => plan.retiring \in Runners
    /\ \A w \in Workers : wpc[w] = "build" => plan.target \in Names

\* A runner that some list holds has been built.
Known == {r \in Runners : loop[r] # "none"}
KnownInv == runners \cup todo \cup plan.previous \cup plan.latest \subseteq Known

TypeInv == DaemonTypeOK /\ LockInv /\ KnownInv

LEMMA NamesOf ==
    ASSUME NEW c \in Configs
    PROVE  DOMAIN c \subseteq Names
  BY DEF Names

LEMMA InitTypes == Init => TypeInv
  <1> SUFFICES ASSUME Init
               PROVE  TypeInv
    OBVIOUS
  <1>1. FileTypeOK /\ MainTypeOK
    <2>1. requests \in 0 .. RequestBound
      BY BoundAssumption DEF Init
    <2>2. FileTypeOK
      BY <2>1, ConfigAssumption DEF Init, FileTypeOK
    <2>3. MainTypeOK
      BY ConfigAssumption DEF Init, MainTypeOK
    <2>4. QED
      BY <2>2, <2>3
  <1>2. ThreadsTypeOK
    BY DEF Init, ThreadsTypeOK
  <1>3. WorkerTypeOK /\ FreeTypeOK
    BY ConfigAssumption DEF Init, WorkerTypeOK, FreeTypeOK
  <1>4. PlanTypeOK
    BY DEF Init, NoPlan, PlanTypeOK
  <1>5. LockInv
    BY FreeAssumption DEF Init, LockInv, Holding
  <1>6. KnownInv
    BY DEF Init, NoPlan, KnownInv
  <1>7. QED
    BY <1>1, <1>2, <1>3, <1>4, <1>5, <1>6 DEF TypeInv, DaemonTypeOK

LEMMA ThreadTypes ==
    ASSUME TypeInv, NEW r \in Runners, LoopBegins(r) \/ LoopEnds(r)
    PROVE  TypeInv'
  <1> USE DEF TypeInv, DaemonTypeOK, LoopBegins, LoopEnds, file, worker, main, history
  <1>1. FileTypeOK'
    BY DEF FileTypeOK
  <1>2. ThreadsTypeOK'
    BY DEF ThreadsTypeOK
  <1>3. WorkerTypeOK' /\ FreeTypeOK'
    BY DEF WorkerTypeOK, FreeTypeOK
  <1>4. PlanTypeOK'
    BY DEF PlanTypeOK
  <1>5. MainTypeOK'
    BY DEF MainTypeOK
  <1>6. LockInv'
    BY DEF LockInv
  <1>7. KnownInv'
    BY DEF KnownInv, Known, ThreadsTypeOK
  <1>8. QED
    BY <1>1, <1>2, <1>3, <1>4, <1>5, <1>6, <1>7

LEMMA RequestTypes ==
    ASSUME TypeInv, EditFile \/ AskReload \/ RequestStop \/ StopNext
    PROVE  TypeInv'
  <1> USE DEF TypeInv, DaemonTypeOK, Told, file, threads, worker, main, history
  <1>1. FileTypeOK'
    <2>1. CASE EditFile
      <3>1. requests' \in 0 .. RequestBound
        BY <2>1, BoundAssumption DEF EditFile, Bounded, FileTypeOK
      <3>2. QED
        BY <2>1, <3>1 DEF EditFile, FileTypeOK
    <2>2. CASE AskReload
      BY <2>2, BoundAssumption DEF AskReload, Bounded, FileTypeOK
    <2>3. CASE RequestStop \/ StopNext
      BY <2>3 DEF RequestStop, StopNext, FileTypeOK
    <2>4. QED
      BY <2>1, <2>2, <2>3
  <1> USE DEF EditFile, AskReload, RequestStop, StopNext
  <1>2. ThreadsTypeOK'
    BY DEF ThreadsTypeOK
  <1>3. WorkerTypeOK' /\ FreeTypeOK'
    BY DEF WorkerTypeOK, FreeTypeOK
  <1>4. PlanTypeOK'
    BY DEF PlanTypeOK
  <1>5. MainTypeOK'
    BY DEF MainTypeOK
  <1>6. LockInv'
    BY DEF LockInv
  <1>7. KnownInv'
    BY DEF KnownInv, Known
  <1>8. QED
    BY <1>1, <1>2, <1>3, <1>4, <1>5, <1>6, <1>7

LEMMA PlanStepTypes ==
    ASSUME TypeInv, NEW w \in Workers, NEW r, NEW n,
           (r \in Runners /\ (Keep(w, r) \/ Retire(w, r))) \/ (n \in Names /\ Add(w, n))
    PROVE  TypeInv'
  <1> USE DEF TypeInv, DaemonTypeOK, Move, Planning, file, threads, main, history
  <1>1. FileTypeOK' /\ ThreadsTypeOK' /\ MainTypeOK'
    BY DEF Keep, Retire, Add, FileTypeOK, ThreadsTypeOK, MainTypeOK
  <1>2. WorkerTypeOK' /\ wpc[w] = "plan" /\ holder' = holder /\ reconciling' = reconciling
    BY DEF Keep, Retire, Add, WorkerTypeOK
  <1>3. FreeTypeOK'
    BY <1>2, FreeAssumption DEF FreeTypeOK, LockInv, Holding
  <1>4. PlanTypeOK'
    <2>1. CASE r \in Runners /\ Keep(w, r)
      BY <2>1 DEF Keep, PlanTypeOK
    <2>2. CASE r \in Runners /\ Retire(w, r)
      BY <2>2 DEF Retire, PlanTypeOK
    <2>3. CASE n \in Names /\ Add(w, n)
      BY <2>3 DEF Add, PlanTypeOK
    <2>4. QED
      BY <2>1, <2>2, <2>3
  <1>5. LockInv'
    <2>1. CASE r \in Runners /\ Keep(w, r)
      BY <2>1 DEF Keep, PlanTypeOK, WorkerTypeOK, LockInv, Holding
    <2>2. CASE r \in Runners /\ Retire(w, r)
      BY <2>2 DEF Retire, PlanTypeOK, WorkerTypeOK, LockInv, Holding
    <2>3. CASE n \in Names /\ Add(w, n)
      BY <2>3 DEF Add, PlanTypeOK, WorkerTypeOK, LockInv, Holding
    <2>4. QED
      BY <2>1, <2>2, <2>3
  <1>6. KnownInv'
    <2>1. /\ plan'.previous \subseteq plan.previous
          /\ plan'.latest \subseteq plan.latest \cup plan.previous
      <3>1. CASE r \in Runners /\ Keep(w, r)
        BY <3>1 DEF Keep, PlanTypeOK
      <3>2. CASE r \in Runners /\ Retire(w, r)
        BY <3>2 DEF Retire, PlanTypeOK
      <3>3. CASE n \in Names /\ Add(w, n)
        BY <3>3 DEF Add, PlanTypeOK
      <3>4. QED
        BY <3>1, <3>2, <3>3
    <2>2. loop' = loop /\ runners' = runners /\ todo' = todo
      BY DEF Keep, Retire, Add
    <2>3. QED
      BY <2>1, <2>2 DEF KnownInv, Known
  <1>7. QED
    BY <1>1, <1>2, <1>3, <1>4, <1>5, <1>6

LEMMA LockStepTypes ==
    ASSUME TypeInv, NEW w \in Workers,
           StartWorker(w) \/ Load(w) \/ Acquire(w) \/ Ignored(w) \/ Release(w)
    PROVE  TypeInv'
  <1> USE DEF TypeInv, DaemonTypeOK, Move, file, threads, main, history
  <1>1. FileTypeOK'
    <2>1. CASE StartWorker(w)
      <3>1. requests' \in 0 .. RequestBound
        BY <2>1, BoundAssumption DEF StartWorker, Bounded, FileTypeOK
      <3>2. marker' \in BOOLEAN /\ disk' = disk
        BY <2>1 DEF StartWorker, FileTypeOK
      <3>3. QED
        BY <3>1, <3>2 DEF FileTypeOK
    <2>2. CASE Load(w) \/ Acquire(w) \/ Ignored(w) \/ Release(w)
      BY <2>2 DEF Load, Acquire, Ignored, Release, FileTypeOK
    <2>3. QED
      BY <2>1, <2>2
  <1>2. ThreadsTypeOK' /\ MainTypeOK'
    BY DEF StartWorker, Load, Acquire, Ignored, Release, ThreadsTypeOK, MainTypeOK
  <1>3. WorkerTypeOK'
    <2>1. CASE StartWorker(w) \/ Ignored(w)
      BY <2>1 DEF StartWorker, Ignored, WorkerTypeOK
    <2>2. CASE Load(w)
      BY <2>2 DEF Load, WorkerTypeOK, FileTypeOK
    <2>3. CASE Acquire(w)
      BY <2>3 DEF Acquire, WorkerTypeOK
    <2>4. CASE Release(w)
      BY <2>4 DEF Release, Reconciled, WorkerTypeOK
    <2>5. QED
      BY <2>1, <2>2, <2>3, <2>4
  <1>4. PlanTypeOK'
    <2>1. CASE Acquire(w)
      <3>1. DOMAIN read[w] \subseteq Names
        BY NamesOf DEF WorkerTypeOK
      <3>2. QED
        BY <2>1, <3>1 DEF Acquire, NoPlan, PlanTypeOK, MainTypeOK
    <2>2. CASE StartWorker(w) \/ Load(w) \/ Ignored(w)
      BY <2>2 DEF StartWorker, Load, Ignored, PlanTypeOK
    <2>3. CASE Release(w)
      BY <2>3 DEF Release, NoPlan, PlanTypeOK
    <2>4. QED
      BY <2>1, <2>2, <2>3
  <1>5. FreeTypeOK'
    BY FreeAssumption
    DEF StartWorker, Load, Acquire, Ignored, Release, Reconciled, FreeTypeOK
  <1>6. LockInv'
    <2>1. CASE StartWorker(w) \/ Ignored(w)
      BY <2>1 DEF StartWorker, Ignored, WorkerTypeOK, LockInv, Holding
    <2>2. CASE Load(w)
      BY <2>2 DEF Load, WorkerTypeOK, LockInv, Holding
    <2>3. CASE Acquire(w)
      BY <2>3, FreeAssumption DEF Acquire, LockFree, WorkerTypeOK, LockInv, Holding
    <2>4. CASE Release(w)
      BY <2>4, FreeAssumption DEF Release, WorkerTypeOK, LockInv, Holding
    <2>5. QED
      BY <2>1, <2>2, <2>3, <2>4
  <1>7. KnownInv'
    <2>1. /\ plan'.previous \subseteq plan.previous \cup runners
          /\ plan'.latest \subseteq plan.latest
      <3>1. CASE Acquire(w) \/ Release(w)
        <4>1. plan'.previous \in {{}, runners} /\ plan'.latest = {}
          <5>1. CASE Acquire(w)
            BY <5>1 DEF Acquire, NoPlan
          <5>2. CASE Release(w)
            BY <5>2 DEF Release, NoPlan
          <5>3. QED
            BY <3>1, <5>1, <5>2
        <4>2. QED
          BY <4>1
      <3>2. CASE StartWorker(w) \/ Load(w) \/ Ignored(w)
        BY <3>2 DEF StartWorker, Load, Ignored
      <3>3. QED
        BY <3>1, <3>2
    <2>2. loop' = loop /\ runners' = runners /\ todo' = todo
      BY DEF StartWorker, Load, Acquire, Ignored, Release
    <2>3. QED
      BY <2>1, <2>2 DEF KnownInv, Known
  <1>8. QED
    BY <1>1, <1>2, <1>3, <1>4, <1>5, <1>6, <1>7

LEMMA RetireStepTypes ==
    ASSUME TypeInv, NEW w \in Workers, Abort(w) \/ Join(w) \/ Build(w) \/ Rebind(w)
    PROVE  TypeInv'
  <1> USE DEF TypeInv, DaemonTypeOK, Move, file, threads, main, history
  <1>1. FileTypeOK'
    BY DEF Abort, Join, Build, Rebind, FileTypeOK
  <1>2. ThreadsTypeOK'
    <2>1. CASE Abort(w)
      BY <2>1 DEF Abort, Told, ThreadsTypeOK
    <2>2. CASE Join(w) \/ Rebind(w)
      BY <2>2 DEF Join, Rebind, ThreadsTypeOK
    <2>3. CASE Build(w)
      <3>1. PICK r \in Runners :
                /\ Construct(r, plan.target, read[w])
                /\ loop' = [loop EXCEPT ![r] = "started"]
        BY <2>3 DEF Build
      <3>2. plan.target \in Names
        BY <2>3 DEF Build, LockInv
      <3>3. told' = told /\ deaf' = deaf
        BY <2>3 DEF Build
      <3>4. QED
        BY <3>1, <3>2, <3>3 DEF Construct, ThreadsTypeOK
    <2>4. QED
      BY <2>1, <2>2, <2>3
  <1>3. WorkerTypeOK'
    <2>1. CASE Abort(w) \/ Join(w)
      BY <2>1 DEF Abort, Join, Retired, WorkerTypeOK
    <2>2. CASE Build(w) \/ Rebind(w)
      BY <2>2 DEF Build, Rebind, WorkerTypeOK
    <2>3. QED
      BY <2>1, <2>2
  <1>4. PlanTypeOK'
    <2>1. CASE Abort(w) \/ Join(w) \/ Rebind(w)
      BY <2>1 DEF Abort, Join, Rebind, PlanTypeOK
    <2>2. CASE Build(w)
      <3>1. PICK r \in Runners :
                plan' = [plan EXCEPT !.latest = @ \cup {r}, !.names = @ \ {plan.target},
                                     !.target = ""]
        BY <2>2 DEF Build
      <3>2. QED
        BY <3>1 DEF PlanTypeOK
    <2>3. QED
      BY <2>1, <2>2
  <1>5. MainTypeOK'
    <2>1. CASE Abort(w) \/ Join(w) \/ Build(w)
      BY <2>1 DEF Abort, Join, Build, MainTypeOK
    <2>2. CASE Rebind(w)
      BY <2>2 DEF Rebind, MainTypeOK, PlanTypeOK, WorkerTypeOK
    <2>3. QED
      BY <2>1, <2>2
  <1>6. wpc[w] \in Holding /\ holder' = holder /\ reconciling' = reconciling
    BY DEF Abort, Join, Build, Rebind, Holding
  <1>7. FreeTypeOK'
    BY <1>6, FreeAssumption DEF FreeTypeOK, LockInv
  <1>8. LockInv'
    <2>1. CASE Abort(w) \/ Join(w)
      <3>1. wpc'[w] = "build" => plan.target # ""
        BY <2>1 DEF Abort, Join, Retired, WorkerTypeOK
      <3>2. wpc'[w] \in Holding /\ wpc' = [wpc EXCEPT ![w] = wpc'[w]] /\ plan' = plan
        BY <2>1 DEF Abort, Join, Retired, WorkerTypeOK, Holding
      <3>3. wpc'[w] = "build" => plan.target \in Names
        BY <3>1 DEF PlanTypeOK
      <3>4. wpc'[w] = "join" => wpc[w] = "abort"
        BY <2>1 DEF Abort, Join, Retired, WorkerTypeOK
      <3>5. plan.retiring \in Runners
        BY <2>1 DEF Abort, Join, LockInv
      <3>6. ASSUME NEW v \in Workers
            PROVE  /\ wpc'[v] \in Holding <=> holder' = v
                   /\ wpc'[v] = "build" => plan'.target \in Names
        <4>1. holder = w
          BY <1>6 DEF LockInv
        <4>2. CASE v = w
          BY <1>6, <3>2, <3>3, <4>1, <4>2
        <4>3. CASE v # w
          <5>1. wpc'[v] = wpc[v]
            BY <3>2, <4>3 DEF WorkerTypeOK
          <5>2. QED
            BY <1>6, <3>2, <5>1 DEF LockInv
        <4>4. QED
          BY <4>2, <4>3
      <3>7. QED
        BY <3>2, <3>5, <3>6 DEF LockInv
    <2>2. CASE Build(w)
      <3>1. /\ plan'.retiring = plan.retiring
            /\ wpc' = [wpc EXCEPT ![w] = "plan"]
        BY <2>2 DEF Build, PlanTypeOK
      <3>2. QED
        BY <1>6, <3>1 DEF LockInv, WorkerTypeOK, Holding
    <2>3. CASE Rebind(w)
      BY <1>6, <2>3 DEF Rebind, LockInv, WorkerTypeOK, Holding
    <2>4. QED
      BY <2>1, <2>2, <2>3
  <1>9. KnownInv'
    <2>1. CASE Abort(w) \/ Join(w)
      BY <2>1 DEF Abort, Join, Told, KnownInv, Known
    <2>2. CASE Build(w)
      <3>1. PICK r \in Runners :
                /\ loop' = [loop EXCEPT ![r] = "started"]
                /\ plan' = [plan EXCEPT !.latest = @ \cup {r}, !.names = @ \ {plan.target},
                                        !.target = ""]
        BY <2>2 DEF Build
      <3>2. plan'.previous = plan.previous /\ plan'.latest = plan.latest \cup {r}
        BY <3>1 DEF PlanTypeOK
      <3>3. Known' = Known \cup {r}
        BY <3>1 DEF Known, ThreadsTypeOK
      <3>4. QED
        BY <2>2, <3>2, <3>3 DEF Build, KnownInv
    <2>3. CASE Rebind(w)
      BY <2>3 DEF Rebind, KnownInv, Known
    <2>4. QED
      BY <2>1, <2>2, <2>3
  <1>10. QED
    BY <1>1, <1>2, <1>3, <1>4, <1>5, <1>7, <1>8, <1>9

LEMMA MainTypes ==
    ASSUME TypeInv, Main
    PROVE  TypeInv'
  <1> USE DEF TypeInv, DaemonTypeOK, MainMove, Quiescent, file, threads, worker, history
  <1>1. CASE \E n \in Names, r \in Runners : BuildRunner(n, r)
    <2>1. PICK n \in Names, r \in Runners : BuildRunner(n, r)
      BY <1>1
    <2>2. ThreadsTypeOK'
      BY <2>1 DEF BuildRunner, Construct, ThreadsTypeOK
    <2>3. FileTypeOK' /\ MainTypeOK'
      BY <2>1 DEF BuildRunner, FileTypeOK, MainTypeOK
    <2>4. WorkerTypeOK' /\ PlanTypeOK' /\ FreeTypeOK' /\ LockInv'
      BY <2>1 DEF BuildRunner, WorkerTypeOK, PlanTypeOK, FreeTypeOK, LockInv
    <2>5. KnownInv'
      <3>1. Known' = Known \cup {r}
        BY <2>1 DEF BuildRunner, Known, ThreadsTypeOK
      <3>2. QED
        BY <2>1, <3>1 DEF BuildRunner, KnownInv
    <2>6. QED
      BY <2>2, <2>3, <2>4, <2>5
  <1>2. ASSUME ~\E n \in Names, r \in Runners : BuildRunner(n, r)
        PROVE  TypeInv'
    <2> USE <1>2 DEF Main, Built, StartRunner, Started, While, Tick, Look, StopAtLast,
             AbortNext, Aborted, List, FinishNext, JoinNext, Finished, Cleanup, Told
    <2>1. FileTypeOK'
      BY DEF FileTypeOK
    <2>2. ThreadsTypeOK'
      <3>1. CASE StartRunner
        <4>1. Next1(todo) \in Runners
          BY <3>1, FirstRunner DEF MainTypeOK
        <4>2. /\ loop' = [loop EXCEPT ![Next1(todo)] = "started"]
              /\ who' = who /\ told' = told /\ deaf' = deaf
          BY <3>1
        <4>3. loop[Next1(todo)] # "none"
          BY <3>1, FirstRunner DEF MainTypeOK, KnownInv, Known
        <4>4. QED
          BY <4>1, <4>2, <4>3 DEF ThreadsTypeOK
      <3>2. CASE ~StartRunner
        BY <3>2 DEF ThreadsTypeOK
      <3>3. QED
        BY <3>1, <3>2
    <2>3. WorkerTypeOK' /\ FreeTypeOK'
      BY DEF WorkerTypeOK, FreeTypeOK
    <2>4. PlanTypeOK'
      BY DEF PlanTypeOK
    <2>5. MainTypeOK'
      BY DEF MainTypeOK
    <2>6. LockInv'
      BY DEF LockInv
    <2>7. KnownInv'
      <3>1. todo' \subseteq todo \cup runners /\ runners' = runners /\ plan' = plan
        OBVIOUS
      <3>2. Known \subseteq Known'
        BY DEF Known, ThreadsTypeOK
      <3>3. QED
        BY <3>1, <3>2 DEF KnownInv
    <2>8. QED
      BY <2>1, <2>2, <2>3, <2>4, <2>5, <2>6, <2>7
  <1>3. QED
    BY <1>1, <1>2

LEMMA StepTypes == TypeInv /\ [Next]_vars => TypeInv'
  <1> SUFFICES ASSUME TypeInv, [Next]_vars
               PROVE  TypeInv'
    OBVIOUS
  <1>1. CASE Threads
    BY <1>1, ThreadTypes DEF Threads
  <1>2. CASE EditFile \/ AskReload \/ RequestStop \/ StopNext
    BY <1>2, RequestTypes
  <1>3. ASSUME NEW w \in Workers, StartWorker(w) \/ Reconcile(w)
        PROVE  TypeInv'
    <2>1. CASE \E r \in Runners : Keep(w, r) \/ Retire(w, r)
      BY <2>1, PlanStepTypes
    <2>2. CASE \E n \in Names : Add(w, n)
      BY <2>2, PlanStepTypes
    <2>3. QED
      BY <1>3, <2>1, <2>2, LockStepTypes, RetireStepTypes DEF Reconcile
  <1>4. CASE Main
    BY <1>4, MainTypes
  <1>5. CASE UNCHANGED vars
    <2> USE <1>5 DEF vars, file, threads, worker, main, history
    <2>1. FileTypeOK' /\ ThreadsTypeOK' /\ WorkerTypeOK'
      BY DEF TypeInv, DaemonTypeOK, FileTypeOK, ThreadsTypeOK, WorkerTypeOK
    <2>2. PlanTypeOK' /\ MainTypeOK' /\ FreeTypeOK' /\ LockInv' /\ KnownInv'
      BY DEF TypeInv, DaemonTypeOK, PlanTypeOK, MainTypeOK, FreeTypeOK, LockInv, KnownInv, Known
    <2>3. QED
      BY <2>1, <2>2 DEF TypeInv, DaemonTypeOK
  <1>6. QED
    BY <1>1, <1>2, <1>3, <1>4, <1>5 DEF Next

\* Everything the supervisor and its reloads keep has its type, whatever is reloaded
\* beside whatever else, and the locals of a reload live as long as it holds the lock.
THEOREM DaemonTypes == Spec => []DaemonTypeOK
  <1>1. TypeInv => DaemonTypeOK
    BY DEF TypeInv
  <1>2. QED
    BY InitTypes, StepTypes, <1>1, PTL DEF Spec

-----------------------------------------------------------------------------
(* No loop is forgotten, and a clean stop reaches every one.               *)

\* A runner told to stop, or one that cleared that when it began.
Excused == {r \in Runners : told[r] = TRUE} \cup deaf

Planned == {"plan", "abort", "join", "build"}
Leaving == {"abort", "list", "finish", "join", "cleanup", "exited"}

\* Until the lists are swapped, a supervised runner the reload has not kept or has
\* yet to look at has been told.
ForgetInv ==
    /\ Known \subseteq Excused \cup runners \cup plan.latest
    /\ \A w \in Workers : wpc[w] \in Planned =>
          runners \subseteq plan.previous \cup plan.latest \cup Excused
                              \cup {r \in Runners : wpc[w] = "abort" /\ r = plan.retiring}
    /\ \A w \in Workers : wpc[w] = "release" => runners = plan.latest
    /\ mpc = "build" => \A w \in Workers : wpc[w] = "idle"

\* The main thread leaves behind nobody it has not told.
StopInv ==
    /\ mpc \in Leaving => shutdown = TRUE
    /\ clean = TRUE /\ shutdown = TRUE => holder = Free
    /\ clean = TRUE =>
          /\ mpc \in {"finish", "join"} => runners \subseteq todo \cup Excused
          /\ mpc = "join" => todo # {} /\ Next1(todo) \in Excused
          /\ mpc \in {"cleanup", "exited"} => runners \subseteq Excused

LEMMA ExcusedStay ==
    ASSUME TypeInv, [Next]_vars
    PROVE  Excused \subseteq Excused'
  <1> USE DEF TypeInv, DaemonTypeOK, ThreadsTypeOK, Excused, threads, history
  <1>1. CASE threads' = threads /\ deaf' = deaf
    BY <1>1
  <1>2. ASSUME NEW r, Told(r), deaf' = deaf
        PROVE  Excused \subseteq Excused'
    BY <1>2 DEF Told
  <1>3. ASSUME NEW r \in Runners, LoopBegins(r)
        PROVE  Excused \subseteq Excused'
    BY <1>3 DEF LoopBegins
  <1>4. CASE told' = told /\ deaf' = deaf
    BY <1>4
  <1>5. CASE Threads
    BY <1>3, <1>4, <1>5 DEF Threads, LoopEnds
  <1>6. CASE EditFile \/ AskReload \/ RequestStop \/ StopNext
    BY <1>1, <1>2, <1>6 DEF EditFile, AskReload, RequestStop, StopNext
  <1>7. ASSUME NEW w \in Workers, StartWorker(w) \/ Reconcile(w)
        PROVE  Excused \subseteq Excused'
    <2>1. CASE Abort(w)
      BY <1>2, <2>1 DEF Abort
    <2>2. CASE ~Abort(w)
      BY <1>4, <1>7, <2>2
      DEF StartWorker, Reconcile, Load, Acquire, Ignored, Keep, Retire, Add, Planning,
          Join, Build, Rebind, Release
    <2>3. QED
      BY <2>1, <2>2
  <1>8. CASE Main
    BY <1>2, <1>4, <1>8
    DEF Main, BuildRunner, Built, StartRunner, Started, While, Tick, Look, StopAtLast,
        AbortNext, Aborted, List, FinishNext, JoinNext, Finished, Cleanup, Quiescent
  <1>9. CASE UNCHANGED vars
    BY <1>1, <1>9 DEF vars
  <1>10. QED
    BY <1>5, <1>6, <1>7, <1>8, <1>9 DEF Next

LEMMA InitForget == Init => ForgetInv /\ StopInv
  BY DEF Init, ForgetInv, StopInv, Known, Planned, Leaving

\* A step that builds no runner and changes none of the lists.
LEMMA ForgetQuiet ==
    ASSUME TypeInv, ForgetInv, [Next]_vars, Known' = Known,
           UNCHANGED <<runners, wpc, plan>>, mpc' = "build" => mpc = "build"
    PROVE  ForgetInv'
  <1>1. Excused \subseteq Excused'
    BY ExcusedStay
  <1>2. QED
    BY <1>1 DEF ForgetInv

\* A step of a worker that moves only itself.
LEMMA ForgetWorker ==
    ASSUME TypeInv, ForgetInv, NEW w \in Workers, Reconcile(w)
    PROVE  ForgetInv'
  <1> USE DEF TypeInv, DaemonTypeOK, file, threads, main, history, Move, Planning
  <1>1. Excused \subseteq Excused' /\ TypeInv'
    <2>1. [Next]_vars
      BY DEF Next
    <2>2. QED
      BY <2>1, ExcusedStay, StepTypes
  <1>2. mpc # "build" /\ mpc' = mpc
    BY DEF Reconcile, Load, Acquire, Ignored, Keep, Retire, Add, Abort, Join, Build, Rebind,
           Release, ForgetInv
  <1>3. ASSUME NEW v \in Workers, v # w
        PROVE  wpc'[v] = wpc[v]
    BY <1>3 DEF Reconcile, Load, Acquire, Ignored, Keep, Retire, Add, Abort, Join, Build,
                Rebind, Release, WorkerTypeOK
  <1>4. ASSUME NEW v \in Workers, v # w, wpc[w] \in Holding \/ wpc'[w] \in Holding
        PROVE  wpc'[v] \notin Planned \cup {"release"}
    <2>1. wpc[v] \notin Holding
      BY <1>3, <1>4, <1>1, FreeAssumption DEF LockInv, Holding
    <2>2. QED
      BY <1>3, <1>4, <2>1 DEF Planned, Holding
  <1>5. ASSUME wpc[w] \in Holding \/ wpc'[w] \in Holding,
               Known' \subseteq Excused' \cup runners' \cup plan'.latest,
               wpc'[w] \in Planned =>
                  runners' \subseteq plan'.previous \cup plan'.latest \cup Excused'
                     \cup {r \in Runners : wpc'[w] = "abort" /\ r = plan'.retiring},
               wpc'[w] = "release" => runners' = plan'.latest
        PROVE  ForgetInv'
    BY <1>2, <1>4, <1>5 DEF ForgetInv
  <1>6. CASE Load(w) \/ Ignored(w)
    <2>1. UNCHANGED <<runners, plan, loop>> /\ wpc'[w] \notin Planned \cup {"release"}
      BY <1>6 DEF Load, Ignored, WorkerTypeOK, Planned
    <2>2. Known' = Known
      BY <2>1 DEF Known
    <2>3. QED
      BY <1>1, <1>2, <1>3, <2>1, <2>2 DEF ForgetInv
  <1>7. CASE Acquire(w)
    <2>1. plan'.previous = runners /\ plan.latest = {} /\ wpc'[w] = "plan"
      <3>1. plan'.previous = runners
        BY <1>7 DEF Acquire, NoPlan
      <3>2. plan = NoPlan
        BY <1>7 DEF Acquire, LockFree, FreeTypeOK
      <3>3. wpc'[w] = "plan"
        BY <1>7 DEF Acquire, WorkerTypeOK
      <3>4. QED
        BY <3>1, <3>2, <3>3 DEF NoPlan
    <2>2. UNCHANGED <<runners, loop>>
      BY <1>7 DEF Acquire
    <2>3. QED
      BY <1>1, <1>5, <2>1, <2>2 DEF ForgetInv, Known, Holding
  <1>8. ASSUME NEW r \in Runners, Keep(w, r) \/ Retire(w, r)
        PROVE  ForgetInv'
    <2>1. UNCHANGED <<runners, loop>> /\ wpc[w] = "plan"
      BY <1>8 DEF Keep, Retire
    <2>2. CASE Keep(w, r)
      <3>1. /\ plan'.previous = plan.previous \ {r} /\ plan'.latest = plan.latest \cup {r}
            /\ wpc'[w] = "plan"
        BY <2>2 DEF Keep, PlanTypeOK, WorkerTypeOK
      <3>2. QED
        BY <1>1, <1>5, <2>1, <3>1 DEF ForgetInv, Known, Planned, Holding
    <2>3. CASE Retire(w, r)
      <3>1. /\ plan'.previous = plan.previous \ {r} /\ plan'.latest = plan.latest
            /\ plan'.retiring = r /\ wpc'[w] = "abort"
        BY <2>3 DEF Retire, PlanTypeOK, WorkerTypeOK
      <3>2. QED
        BY <1>1, <1>5, <2>1, <3>1 DEF ForgetInv, Known, Planned, Holding
    <2>4. QED
      BY <1>8, <2>2, <2>3
  <1>9. ASSUME NEW n \in Names, Add(w, n)
        PROVE  ForgetInv'
    <2>1. UNCHANGED <<runners, loop>> /\ wpc[w] = "plan" /\ wpc'[w] = "build"
      BY <1>9 DEF Add, WorkerTypeOK
    <2>2. plan'.previous = plan.previous /\ plan'.latest = plan.latest
      BY <1>9 DEF Add, PlanTypeOK
    <2>3. QED
      BY <1>1, <1>5, <2>1, <2>2 DEF ForgetInv, Known, Planned, Holding
  <1>10. CASE Abort(w)
    <2>1. UNCHANGED <<runners, loop, plan>> /\ wpc[w] = "abort"
      BY <1>10 DEF Abort, Told
    <2>2. wpc'[w] \in {"plan", "join", "build"}
      BY <1>10 DEF Abort, Retired, WorkerTypeOK
    <2>3. plan.retiring \in Runners
      BY <2>1 DEF LockInv
    <2>4. plan.retiring \in Excused'
      BY <1>10, <2>3 DEF Abort, Told, Excused, ThreadsTypeOK
    <2>5. QED
      BY <1>1, <1>5, <2>1, <2>2, <2>4 DEF ForgetInv, Known, Planned, Holding
  <1>11. CASE Join(w)
    <2>1. UNCHANGED <<runners, loop, plan>> /\ wpc[w] = "join"
      BY <1>11 DEF Join
    <2>2. wpc'[w] \in {"plan", "build"}
      BY <1>11 DEF Join, Retired, WorkerTypeOK
    <2>3. QED
      BY <1>1, <1>5, <2>1, <2>2 DEF ForgetInv, Known, Planned, Holding
  <1>12. CASE Build(w)
    <2>1. PICK r \in Runners :
              /\ loop' = [loop EXCEPT ![r] = "started"]
              /\ plan' = [plan EXCEPT !.latest = @ \cup {r}, !.names = @ \ {plan.target},
                                      !.target = ""]
      BY <1>12 DEF Build
    <2>2. plan'.previous = plan.previous /\ plan'.latest = plan.latest \cup {r}
      BY <2>1 DEF PlanTypeOK
    <2>3. Known' = Known \cup {r}
      BY <2>1 DEF Known, ThreadsTypeOK
    <2>4. wpc[w] = "build" /\ wpc'[w] = "plan" /\ runners' = runners
      BY <1>12 DEF Build, WorkerTypeOK
    <2>5. QED
      BY <1>1, <1>5, <2>2, <2>3, <2>4 DEF ForgetInv, Planned, Holding
  <1>13. CASE Rebind(w)
    <2>1. UNCHANGED <<loop, plan>> /\ wpc[w] = "plan" /\ wpc'[w] = "release"
      BY <1>13 DEF Rebind, WorkerTypeOK
    <2>2. runners' = plan.latest /\ plan.previous = {}
      BY <1>13 DEF Rebind
    <2>3. QED
      BY <1>1, <1>5, <2>1, <2>2 DEF ForgetInv, Known, Planned, Holding
  <1>14. CASE Release(w)
    <2>1. UNCHANGED <<loop, runners>> /\ wpc[w] = "release" /\ wpc'[w] = "idle"
      BY <1>14 DEF Release, WorkerTypeOK
    <2>2. QED
      BY <1>1, <1>5, <2>1 DEF ForgetInv, Known, Planned, Holding
  <1>15. QED
    BY <1>6, <1>7, <1>8, <1>9, <1>10, <1>11, <1>12, <1>13, <1>14 DEF Reconcile

LEMMA StepForget == TypeInv /\ ForgetInv /\ [Next]_vars => ForgetInv'
  <1> SUFFICES ASSUME TypeInv, ForgetInv, [Next]_vars
               PROVE  ForgetInv'
    OBVIOUS
  <1>1. Excused \subseteq Excused'
    BY ExcusedStay
  <1> USE DEF TypeInv, DaemonTypeOK, file, threads, worker, main, history
  <1>2. CASE Threads
    <2>1. UNCHANGED <<runners, wpc, plan, mpc>>
      BY <1>2 DEF Threads, LoopBegins, LoopEnds
    <2>2. Known' = Known
      BY <1>2 DEF Threads, LoopBegins, LoopEnds, Known, ThreadsTypeOK
    <2>3. QED
      BY <2>1, <2>2, ForgetQuiet
  <1>3. CASE EditFile \/ AskReload \/ RequestStop \/ StopNext
    <2>1. UNCHANGED <<runners, wpc, plan, mpc, loop>>
      BY <1>3 DEF EditFile, AskReload, RequestStop, StopNext, Told
    <2>2. QED
      BY <2>1, ForgetQuiet DEF Known
  <1>4. ASSUME NEW w \in Workers, StartWorker(w)
        PROVE  ForgetInv'
    <2>1. UNCHANGED <<runners, plan, loop, mpc>> /\ mpc # "build"
      BY <1>4 DEF StartWorker
    <2>2. \A v \in Workers : wpc'[v] = wpc[v] \/ wpc'[v] = "load"
      BY <1>4 DEF StartWorker, WorkerTypeOK
    <2>3. Known' = Known
      BY <2>1 DEF Known
    <2>4. \A v \in Workers : wpc'[v] \in Planned \cup {"release"} => wpc'[v] = wpc[v]
      BY <2>2 DEF Planned
    <2>5. QED
      BY <1>1, <2>1, <2>3, <2>4 DEF ForgetInv
  <1>5. ASSUME NEW w \in Workers, Reconcile(w)
        PROVE  ForgetInv'
    BY <1>5, ForgetWorker
  <1>6. CASE Main
    <2>1. ASSUME NEW n \in Names, NEW r \in Runners, BuildRunner(n, r)
          PROVE  ForgetInv'
      <3>1. UNCHANGED <<wpc, plan>> /\ runners' = runners \cup {r} /\ mpc = "build"
        BY <2>1 DEF BuildRunner, MainMove
      <3>2. Known' = Known \cup {r}
        BY <2>1 DEF BuildRunner, Known, ThreadsTypeOK
      <3>3. QED
        BY <1>1, <3>1, <3>2 DEF ForgetInv, Planned
    <2>2. CASE StartRunner
      <3>1. UNCHANGED <<runners, wpc, plan>> /\ mpc' = "start"
        BY <2>2 DEF StartRunner, MainMove
      <3>2. loop[Next1(todo)] # "none"
        BY <2>2, FirstRunner DEF StartRunner, MainTypeOK, KnownInv, Known
      <3>3. Known' = Known
        BY <2>2, <3>2 DEF StartRunner, Known, ThreadsTypeOK
      <3>4. QED
        BY <3>1, <3>3, ForgetQuiet
    <2>3. CASE Built \/ Started \/ While \/ Tick \/ Look \/ StopAtLast \/ AbortNext
               \/ Aborted \/ List \/ FinishNext \/ JoinNext \/ Finished \/ Cleanup
      <3>1. UNCHANGED <<runners, wpc, plan, loop>>
        BY <2>3 DEF Built, Started, While, Tick, Look, StopAtLast, AbortNext, Aborted, List,
           FinishNext, JoinNext, Finished, Cleanup, Quiescent, Told
      <3>2. mpc' # "build"
        BY <2>3 DEF Built, Started, While, Tick, Look, StopAtLast, AbortNext, Aborted, List,
           FinishNext, JoinNext, Finished, Cleanup, MainMove
      <3>3. QED
        BY <3>1, <3>2, ForgetQuiet DEF Known
    <2>4. QED
      BY <1>6, <2>1, <2>2, <2>3 DEF Main
  <1>7. CASE UNCHANGED vars
    BY <1>7, ForgetQuiet DEF vars, Known
  <1>8. QED
    BY <1>2, <1>3, <1>4, <1>5, <1>6, <1>7 DEF Next

\* _reconcile, run: through every reload and stop, whatever raises and whenever a loop
\* begins, a loop nobody told to stop is one the daemon still knows, unless it cleared
\* what it was told when it began.
THEOREM NobodyForgotten == Spec => []NoLoopForgotten
  <1>1. TypeInv /\ ForgetInv => NoLoopForgotten
    <2> SUFFICES ASSUME TypeInv, ForgetInv, NEW r \in Loops, ~told[r]
                 PROVE  r \in runners \cup plan.latest \cup deaf
      BY DEF NoLoopForgotten
    <2>1. r \in Known /\ r \in Runners
      BY DEF Loops, Known
    <2>2. r \notin {q \in Runners : told[q] = TRUE}
      OBVIOUS
    <2>3. QED
      BY <2>1, <2>2 DEF ForgetInv, Excused
  <1>2. QED
    BY InitTypes, InitForget, StepTypes, StepForget, <1>1, PTL DEF Spec

\* A step that leaves the stop as it is: the main thread rests, the flag and the
\* supervised runners stay, and the lock is not taken.
LEMMA StopQuiet ==
    ASSUME TypeInv, StopInv, [Next]_vars, UNCHANGED <<main, shutdown, runners>>,
           clean' = TRUE => clean = TRUE, holder' \in {holder, Free}
    PROVE  StopInv'
  <1>1. Excused \subseteq Excused'
    BY ExcusedStay
  <1>2. QED
    BY <1>1 DEF StopInv, main

LEMMA StopWorker ==
    ASSUME TypeInv, StopInv, NEW w \in Workers, StartWorker(w) \/ Reconcile(w)
    PROVE  StopInv'
  <1> USE DEF TypeInv, DaemonTypeOK, file, history, Move, Planning
  <1>1. [Next]_vars
    BY DEF Next
  <1>2. UNCHANGED <<main, shutdown>>
    BY DEF StartWorker, Reconcile, Load, Acquire, Ignored, Keep, Retire, Add, Abort, Join,
           Build, Rebind, Release
  <1>3. CASE Acquire(w)
    <2>1. clean' = TRUE => clean = TRUE /\ shutdown = FALSE
      BY <1>3 DEF Acquire, MainTypeOK
    <2>2. runners' = runners
      BY <1>3 DEF Acquire
    <2>3. mpc \notin Leaving \/ clean' # TRUE
      BY <2>1 DEF StopInv
    <2>4. QED
      BY <1>2, <2>1, <2>3 DEF StopInv, Leaving, main
  <1>4. CASE Rebind(w)
    <2>1. clean' = clean /\ holder' = holder /\ wpc[w] = "plan"
      BY <1>4 DEF Rebind
    <2>2. holder # Free
      BY <2>1, FreeAssumption DEF LockInv, Holding
    <2>3. clean # TRUE \/ mpc \notin Leaving
      BY <2>2 DEF StopInv
    <2>4. QED
      BY <1>2, <2>1, <2>3 DEF StopInv, Leaving, main
  <1>5. CASE Abort(w)
    <2>1. holder' = holder /\ runners' = runners
      BY <1>5 DEF Abort
    <2>2. clean' = TRUE => clean = TRUE
      BY <1>5 DEF Abort, MainTypeOK
    <2>3. QED
      BY <1>1, <1>2, <2>1, <2>2, StopQuiet
  <1>6. CASE ~Acquire(w) /\ ~Rebind(w) /\ ~Abort(w)
    <2>1. runners' = runners /\ clean' = clean /\ holder' \in {holder, Free}
      BY <1>6 DEF StartWorker, Reconcile, Load, Ignored, Keep, Retire, Add, Join, Build,
                  Release
    <2>2. QED
      BY <1>1, <1>2, <2>1, StopQuiet
  <1>7. QED
    BY <1>3, <1>4, <1>5, <1>6

LEMMA StopMain ==
    ASSUME TypeInv, StopInv, Main
    PROVE  StopInv'
  <1> USE DEF TypeInv, DaemonTypeOK, file, threads, worker, history, MainMove, Quiescent
  <1>1. Excused \subseteq Excused'
    <2>1. [Next]_vars
      BY DEF Next
    <2>2. QED
      BY <2>1, ExcusedStay
  <1>2. CASE \E n \in Names, r \in Runners : BuildRunner(n, r)
    BY <1>2 DEF BuildRunner, StopInv, Leaving
  <1>3. CASE Built \/ StartRunner \/ Started \/ While \/ Tick \/ Look
    BY <1>3 DEF Built, StartRunner, Started, While, Tick, Look, StopInv, Leaving
  <1>4. CASE StopAtLast
    <2>1. /\ mpc' \in {"abort", "list"} /\ shutdown' = TRUE /\ holder' = holder
          /\ clean' = (clean /\ (shutdown \/ holder = Free))
      BY <1>4 DEF StopAtLast
    <2>2. clean' = TRUE => clean = TRUE /\ (shutdown = TRUE \/ holder = Free)
      BY <2>1 DEF MainTypeOK
    <2>3. QED
      BY <2>1, <2>2 DEF StopInv
  <1>5. CASE AbortNext
    <2>1. PICK raised \in BOOLEAN :
              /\ mpc' = IF raised THEN "exited" ELSE "abort"
              /\ clean' = (clean /\ ~raised)
      BY <1>5 DEF AbortNext
    <2>2. mpc = "abort" /\ shutdown' = shutdown /\ holder' = holder
      BY <1>5 DEF AbortNext
    <2>3. clean' = TRUE => clean = TRUE /\ mpc' = "abort"
      BY <2>1 DEF MainTypeOK
    <2>4. mpc' \in {"exited", "abort"}
      BY <2>1
    <2>5. QED
      BY <2>2, <2>3, <2>4 DEF StopInv, Leaving
  <1>6. CASE Aborted \/ List
    BY <1>6 DEF Aborted, List, StopInv, Leaving
  <1>7. CASE FinishNext
    <2>1. PICK raised \in BOOLEAN :
              /\ mpc' = IF raised THEN "exited" ELSE "join"
              /\ clean' = (clean /\ ~raised)
      BY <1>7 DEF FinishNext
    <2>2. /\ mpc = "finish" /\ todo # {}
          /\ UNCHANGED <<shutdown, holder, runners, todo>>
      BY <1>7 DEF FinishNext
    <2>3. Next1(todo) \in Runners
      BY <2>2, FirstRunner DEF MainTypeOK
    <2>4. Next1(todo) \in Excused'
      BY <1>7, <2>3 DEF FinishNext, Told, Excused, ThreadsTypeOK
    <2>5. clean' = TRUE => clean = TRUE /\ mpc' = "join"
      BY <2>1 DEF MainTypeOK
    <2>6. mpc' \in {"exited", "join"}
      BY <2>1
    <2>7. QED
      BY <1>1, <2>2, <2>4, <2>5, <2>6 DEF StopInv, Leaving
  <1>8. CASE JoinNext
    <2>1. /\ mpc = "join" /\ mpc' = "finish" /\ todo' = todo \ {Next1(todo)}
          /\ UNCHANGED <<shutdown, holder, runners, clean>>
      BY <1>8 DEF JoinNext
    <2>2. QED
      BY <1>1, <2>1 DEF StopInv, Leaving
  <1>9. CASE Finished
    <2>1. /\ mpc = "finish" /\ mpc' = "cleanup" /\ todo = {}
          /\ UNCHANGED <<shutdown, holder, runners, clean>>
      BY <1>9 DEF Finished
    <2>2. QED
      BY <1>1, <2>1 DEF StopInv, Leaving
  <1>10. CASE Cleanup
    <2>1. /\ mpc = "cleanup" /\ mpc' = "exited"
          /\ UNCHANGED <<shutdown, holder, runners, clean>>
      BY <1>10 DEF Cleanup
    <2>2. QED
      BY <1>1, <2>1 DEF StopInv, Leaving
  <1>11. QED
    BY <1>2, <1>3, <1>4, <1>5, <1>6, <1>7, <1>8, <1>9, <1>10 DEF Main

LEMMA StepStop == TypeInv /\ StopInv /\ [Next]_vars => StopInv'
  <1> SUFFICES ASSUME TypeInv, StopInv, [Next]_vars
               PROVE  StopInv'
    OBVIOUS
  <1> USE DEF file, threads, worker, history
  <1>1. CASE Threads
    <2>1. UNCHANGED <<main, shutdown, runners, clean, holder>>
      BY <1>1 DEF Threads, LoopBegins, LoopEnds
    <2>2. QED
      BY <2>1, StopQuiet
  <1>2. CASE EditFile \/ AskReload
    <2>1. UNCHANGED <<main, shutdown, runners, clean, holder>>
      BY <1>2 DEF EditFile, AskReload
    <2>2. QED
      BY <2>1, StopQuiet
  <1>3. CASE RequestStop
    <2>1. /\ UNCHANGED <<main, runners, holder, threads, deaf>> /\ shutdown' = TRUE
          /\ clean' = (clean /\ holder = Free)
      BY <1>3 DEF RequestStop
    <2>2. clean' = TRUE => clean = TRUE /\ holder = Free
      BY <2>1 DEF TypeInv, DaemonTypeOK, MainTypeOK
    <2>3. Excused' = Excused
      BY <2>1 DEF Excused
    <2>4. QED
      BY <2>1, <2>2, <2>3 DEF StopInv, main
  <1>4. CASE StopNext
    <2>1. UNCHANGED <<main, shutdown, runners, holder>>
      BY <1>4 DEF StopNext
    <2>2. clean' = TRUE => clean = TRUE
      BY <1>4 DEF StopNext, TypeInv, DaemonTypeOK, MainTypeOK
    <2>3. QED
      BY <2>1, <2>2, StopQuiet
  <1>5. ASSUME NEW w \in Workers, StartWorker(w) \/ Reconcile(w)
        PROVE  StopInv'
    BY <1>5, StopWorker
  <1>6. CASE Main
    BY <1>6, StopMain
  <1>7. CASE UNCHANGED vars
    <2>1. UNCHANGED <<main, shutdown, runners, clean, holder>>
      BY <1>7 DEF vars
    <2>2. QED
      BY <2>1, StopQuiet
  <1>8. QED
    BY <1>1, <1>2, <1>3, <1>4, <1>5, <1>6, <1>7 DEF Next

\* run, request_stop: a daemon that is gone has told every loop that still runs, as
\* long as no abort raised and no reload ran beside the shutdown.
THEOREM StopTellsAll == Spec => []StopReachesAll
  <1>1. TypeInv /\ ForgetInv /\ StopInv => StopReachesAll
    <2> SUFFICES ASSUME TypeInv, ForgetInv, StopInv, mpc = "exited", clean,
                        NEW r \in Loops
                 PROVE  told[r] \/ r \in deaf
      BY DEF StopReachesAll
    <2> USE DEF TypeInv, DaemonTypeOK
    <2>1. clean = TRUE
      BY DEF MainTypeOK
    <2>2. runners \subseteq Excused /\ shutdown = TRUE
      BY <2>1 DEF StopInv, Leaving
    <2>3. plan = NoPlan
      BY <2>1, <2>2 DEF StopInv, FreeTypeOK
    <2>4. plan.latest = {}
      BY <2>3 DEF NoPlan
    <2>5. r \in Known
      BY DEF Loops, Known
    <2>6. r \in Excused
      BY <2>2, <2>4, <2>5 DEF ForgetInv
    <2>7. QED
      BY <2>6 DEF Excused
  <1>2. QED
    BY InitTypes, InitForget, StepTypes, StepForget, StepStop, <1>1, PTL DEF Spec

-----------------------------------------------------------------------------
(* What is supervised is what the configuration says.                      *)

\* The runners rs serve each of the profiles ns of c, once, with c's setting.
Serves(f, rs, c, ns) ==
    /\ \A r \in rs : f[r].name \in ns /\ f[r].setting = c[f[r].name]
    /\ \A n \in ns : \E r \in rs : f[r].name = n
    /\ \A r, q \in rs : f[r].name = f[q].name => r = q

MatchInv ==
    /\ mpc = "build" =>
          /\ config = First
          /\ {NameOf(r) : r \in runners} \subseteq DOMAIN First
          /\ Serves(who, runners, First, {NameOf(r) : r \in runners})
    /\ mpc # "build" => Serves(who, runners, config, DOMAIN config)

\* In the middle of a reload: the runners kept or built serve the profiles that are
\* done, and each of the previous ones whose profile stays is still to be dealt with.
Halfway(f, p, c) ==
    /\ p.names \subseteq DOMAIN c
    /\ Serves(f, p.latest, c, DOMAIN c \ p.names)
    /\ \A r \in p.previous : f[r].name \in DOMAIN c => f[r].name \in p.names
    /\ \A r, q \in p.previous : f[r].name = f[q].name => r = q

\* The successor to build is of a profile nobody else serves.
Vacant(f, p) ==
    /\ p.target \in p.names
    /\ \A r \in p.previous : f[r].name # p.target

PlanInv ==
    \A w \in Workers :
        /\ wpc[w] \in Planned => Halfway(who, plan, read[w])
        /\ wpc[w] \in {"abort", "join"} => plan.target = "" \/ Vacant(who, plan)
        /\ wpc[w] = "build" => Vacant(who, plan)
        /\ wpc[w] = "abort" =>
              plan.retiring \in Known /\ ~Unchanged(plan.retiring, read[w])

LEMMA ServesSame ==
    ASSUME NEW f, NEW g, NEW rs, NEW c, NEW ns, \A r \in rs : g[r] = f[r],
           Serves(f, rs, c, ns)
    PROVE  Serves(g, rs, c, ns)
  BY DEF Serves

LEMMA HalfwaySame ==
    ASSUME NEW f, NEW g, NEW p, NEW c, \A r \in p.previous \cup p.latest : g[r] = f[r],
           Halfway(f, p, c)
    PROVE  Halfway(g, p, c)
  <1>1. Serves(g, p.latest, c, DOMAIN c \ p.names)
    BY ServesSame DEF Halfway
  <1>2. QED
    BY <1>1 DEF Halfway

\* One more runner, of a profile that had none.
LEMMA ServesMore ==
    ASSUME NEW f, NEW rs, NEW c, NEW ns, Serves(f, rs, c, ns), NEW r,
           f[r].name \notin ns, f[r].setting = c[f[r].name]
    PROVE  Serves(f, rs \cup {r}, c, ns \cup {f[r].name})
  BY DEF Serves

LEMMA ServesOnce ==
    ASSUME NEW f, NEW rs, NEW c, Serves(f, rs, c, DOMAIN c), rs \subseteq Runners
    PROVE  /\ {<<f[r].name, f[r].setting>> : r \in rs} = {<<n, c[n]>> : n \in DOMAIN c}
           /\ Cardinality(rs) = Cardinality(DOMAIN c)
  <1>1. {<<f[r].name, f[r].setting>> : r \in rs} = {<<n, c[n]>> : n \in DOMAIN c}
    BY DEF Serves
  <1>2. IsFiniteSet(rs)
    <2>1. IsFiniteSet(Runners)
      BY BoundAssumption, FS_Interval DEF Runners
    <2>2. QED
      BY <2>1, FS_Subset
  <1> DEFINE name == [r \in rs |-> f[r].name]
  <1>3. name \in Bijection(rs, DOMAIN c)
    <2>1. name \in [rs -> DOMAIN c]
      BY DEF Serves
    <2>2. \A r, q \in rs : name[r] = name[q] => r = q
      BY DEF Serves
    <2>3. \A n \in DOMAIN c : \E r \in rs : name[r] = n
      BY DEF Serves
    <2> HIDE DEF name
    <2>4. QED
      BY <2>1, <2>2, <2>3 DEF Bijection, Injection, Surjection, IsInjective
  <1>4. ExistsBijection(rs, DOMAIN c)
    BY <1>3, Zenon DEF ExistsBijection
  <1>5. Cardinality(DOMAIN c) = Cardinality(rs)
    BY <1>2, <1>4, FS_Bijection
  <1>6. QED
    BY <1>1, <1>5

LEMMA WhoStays ==
    ASSUME TypeInv, [Next]_vars
    PROVE  \A r \in Known : who'[r] = who[r]
  <1> USE DEF TypeInv, DaemonTypeOK, ThreadsTypeOK, Known, threads
  <1>1. ASSUME NEW q, NEW n, NEW c, Construct(q, n, c)
        PROVE  \A r \in Known : who'[r] = who[r]
    BY <1>1 DEF Construct
  <1>2. CASE who' = who
    BY <1>2
  <1>3. CASE Threads \/ EditFile \/ AskReload \/ RequestStop \/ StopNext
    BY <1>2, <1>3
    DEF Threads, LoopBegins, LoopEnds, EditFile, AskReload, RequestStop, StopNext, Told
  <1>4. ASSUME NEW w \in Workers, StartWorker(w) \/ Reconcile(w)
        PROVE  \A r \in Known : who'[r] = who[r]
    <2>1. CASE Build(w)
      BY <1>1, <2>1 DEF Build
    <2>2. CASE ~Build(w)
      BY <1>2, <1>4, <2>2
      DEF StartWorker, Reconcile, Load, Acquire, Ignored, Keep, Retire, Add, Planning,
          Abort, Told, Join, Rebind, Release
    <2>3. QED
      BY <2>1, <2>2
  <1>5. CASE Main
    <2>1. CASE \E n \in Names, r \in Runners : BuildRunner(n, r)
      BY <1>1, <2>1 DEF BuildRunner
    <2>2. CASE ~\E n \in Names, r \in Runners : BuildRunner(n, r)
      BY <1>2, <1>5, <2>2
      DEF Main, Built, StartRunner, Started, While, Tick, Look, StopAtLast, AbortNext,
          Aborted, List, FinishNext, JoinNext, Finished, Cleanup, Quiescent, Told
    <2>3. QED
      BY <2>1, <2>2
  <1>6. CASE UNCHANGED vars
    BY <1>2, <1>6 DEF vars
  <1>7. QED
    BY <1>3, <1>4, <1>5, <1>6 DEF Next

LEMMA InitMatch == Init => MatchInv /\ PlanInv
  BY DEF Init, MatchInv, PlanInv, Serves, NameOf, Planned

\* A step that changes no list keeps both.
LEMMA MatchSame ==
    ASSUME TypeInv, MatchInv, [Next]_vars, UNCHANGED <<runners, config>>,
           (mpc' = "build") <=> (mpc = "build")
    PROVE  MatchInv'
  <1>1. \A r \in runners : who'[r] = who[r]
    BY WhoStays DEF TypeInv, KnownInv
  <1>2. {NameOf(r) : r \in runners}' = {NameOf(r) : r \in runners}
    BY <1>1 DEF NameOf
  <1>3. ASSUME mpc = "build"
        PROVE  Serves(who', runners, First, {NameOf(r) : r \in runners})
    BY <1>1, <1>3, ServesSame DEF MatchInv
  <1>4. ASSUME mpc # "build"
        PROVE  Serves(who', runners, config, DOMAIN config)
    BY <1>1, <1>4, ServesSame DEF MatchInv
  <1>5. QED
    BY <1>2, <1>3, <1>4 DEF MatchInv

LEMMA HalfwayStays ==
    ASSUME TypeInv, [Next]_vars, NEW c, Halfway(who, plan, c)
    PROVE  Halfway(who', plan, c)
  <1>1. \A r \in plan.previous \cup plan.latest : who'[r] = who[r]
    BY WhoStays DEF TypeInv, KnownInv
  <1>2. QED
    BY <1>1, HalfwaySame

LEMMA VacantStays ==
    ASSUME TypeInv, [Next]_vars, Vacant(who, plan)
    PROVE  Vacant(who', plan)
  <1>1. \A r \in plan.previous : who'[r] = who[r]
    BY WhoStays DEF TypeInv, KnownInv
  <1>2. QED
    BY <1>1 DEF Vacant

LEMMA KnownGrows ==
    ASSUME TypeInv, [Next]_vars
    PROVE  Known \subseteq Known'
  <1> USE DEF TypeInv, DaemonTypeOK, ThreadsTypeOK, Known, threads
  <1>1. CASE loop' = loop
    BY <1>1
  <1>2. ASSUME NEW r, NEW x, x # "none", loop' = [loop EXCEPT ![r] = x]
        PROVE  Known \subseteq Known'
    BY <1>2
  <1>3. CASE Threads
    BY <1>3 DEF Threads, LoopBegins, LoopEnds
  <1>4. CASE EditFile \/ AskReload \/ RequestStop \/ StopNext
    BY <1>1, <1>4 DEF EditFile, AskReload, RequestStop, StopNext, Told
  <1>5. ASSUME NEW w \in Workers, StartWorker(w) \/ Reconcile(w)
        PROVE  Known \subseteq Known'
    <2>1. CASE Build(w)
      BY <2>1 DEF Build
    <2>2. CASE ~Build(w)
      BY <1>1, <1>5, <2>2
      DEF StartWorker, Reconcile, Load, Acquire, Ignored, Keep, Retire, Add, Planning,
          Abort, Told, Join, Rebind, Release
    <2>3. QED
      BY <2>1, <2>2
  <1>6. CASE Main
    <2>1. CASE StartRunner \/ \E n \in Names, r \in Runners : BuildRunner(n, r)
      BY <2>1 DEF StartRunner, BuildRunner
    <2>2. CASE ~StartRunner /\ ~\E n \in Names, r \in Runners : BuildRunner(n, r)
      BY <1>1, <1>6, <2>2
      DEF Main, Built, Started, While, Tick, Look, StopAtLast, AbortNext, Aborted, List,
          FinishNext, JoinNext, Finished, Cleanup, Quiescent, Told
    <2>3. QED
      BY <2>1, <2>2
  <1>7. CASE UNCHANGED vars
    BY <1>1, <1>7 DEF vars
  <1>8. QED
    BY <1>3, <1>4, <1>5, <1>6, <1>7 DEF Next

\* What PlanInv says of one worker.
PlanAt(w) ==
    /\ wpc[w] \in Planned => Halfway(who, plan, read[w])
    /\ wpc[w] \in {"abort", "join"} => plan.target = "" \/ Vacant(who, plan)
    /\ wpc[w] = "build" => Vacant(who, plan)
    /\ wpc[w] = "abort" =>
          plan.retiring \in Known /\ ~Unchanged(plan.retiring, read[w])

LEMMA PlanSame ==
    ASSUME TypeInv, PlanInv, [Next]_vars, NEW w \in Workers, plan' = plan,
           wpc'[w] = wpc[w], read'[w] = read[w]
    PROVE  PlanAt(w)'
  <1>1. wpc[w] \in Planned => Halfway(who', plan, read[w])
    BY HalfwayStays DEF PlanInv
  <1>2. Vacant(who, plan) => Vacant(who', plan)
    BY VacantStays
  <1>3. wpc[w] = "abort" => plan.retiring \in Known' /\ ~Unchanged(plan.retiring, read[w])'
    BY WhoStays, KnownGrows DEF PlanInv, Unchanged, NameOf
  <1>4. QED
    BY <1>1, <1>2, <1>3 DEF PlanInv, PlanAt

\* A worker outside of the plan has nothing to keep.
LEMMA PlanOut ==
    ASSUME NEW w, wpc'[w] \notin Planned
    PROVE  PlanAt(w)'
  BY DEF PlanAt, Planned

LEMMA PlanWorker ==
    ASSUME TypeInv, ForgetInv, MatchInv, PlanInv, NEW w \in Workers, Reconcile(w)
    PROVE  PlanAt(w)'
  <1> USE DEF TypeInv, DaemonTypeOK, Move, Planning, file, threads, main, history
  <1>1. [Next]_vars
    BY DEF Next
  <1>2. CASE Load(w) \/ Ignored(w) \/ Rebind(w) \/ Release(w)
    <2>1. wpc'[w] \in {"idle", "lock", "release"}
      BY <1>2 DEF Load, Ignored, Rebind, Release, WorkerTypeOK
    <2>2. QED
      BY <2>1, PlanOut DEF Planned
  <1>3. CASE Acquire(w)
    <2>1. plan' = [NoPlan EXCEPT !.previous = runners, !.names = DOMAIN read[w]]
      BY <1>3 DEF Acquire
    <2>2. plan'.previous = runners /\ plan'.names = DOMAIN read[w] /\ plan'.latest = {}
      BY <2>1 DEF NoPlan
    <2>3. UNCHANGED <<who, read>> /\ wpc'[w] = "plan"
      BY <1>3 DEF Acquire, WorkerTypeOK
    <2>4. mpc # "build"
      BY <1>3 DEF Acquire, ForgetInv
    <2>5. Serves(who, runners, config, DOMAIN config)
      BY <2>4 DEF MatchInv
    <2>6. Halfway(who', plan', read'[w])
      BY <2>2, <2>3, <2>5 DEF Halfway, Serves
    <2>7. QED
      BY <2>3, <2>6 DEF PlanAt
  <1>4. ASSUME NEW r \in Runners, Keep(w, r)
        PROVE  PlanAt(w)'
    <2>1. /\ plan'.previous = plan.previous \ {r} /\ plan'.latest = plan.latest \cup {r}
          /\ plan'.names = plan.names \ {NameOf(r)}
          /\ wpc[w] = "plan" /\ wpc'[w] = "plan" /\ UNCHANGED <<who, read>>
      BY <1>4 DEF Keep, PlanTypeOK, WorkerTypeOK
    <2>2. /\ r \in plan.previous /\ NameOf(r) \in plan.names
          /\ who[r].setting = read[w][NameOf(r)]
      BY <1>4 DEF Keep, Unchanged
    <2>3. Halfway(who, plan, read[w])
      BY <2>1 DEF PlanInv, Planned
    <2>4. Serves(who, plan.latest \cup {r}, read[w],
                 (DOMAIN read[w] \ plan.names) \cup {NameOf(r)})
      BY <2>2, <2>3, ServesMore DEF Halfway, NameOf
    <2>5. (DOMAIN read[w] \ plan.names) \cup {NameOf(r)}
             = DOMAIN read[w] \ (plan.names \ {NameOf(r)})
      BY <2>2, <2>3 DEF Halfway
    <2>6. \A q \in plan.previous \ {r} : NameOf(q) # NameOf(r)
      BY <2>2, <2>3 DEF Halfway, NameOf
    <2>7. Halfway(who, plan', read[w])
      BY <2>1, <2>3, <2>4, <2>5, <2>6 DEF Halfway, NameOf
    <2>8. QED
      BY <2>1, <2>7 DEF PlanAt
  <1>5. ASSUME NEW r \in Runners, Retire(w, r)
        PROVE  PlanAt(w)'
    <2>1. /\ plan'.previous = plan.previous \ {r} /\ plan'.latest = plan.latest
          /\ plan'.names = plan.names /\ plan'.retiring = r
          /\ plan'.target = IF NameOf(r) \in plan.names THEN NameOf(r) ELSE ""
          /\ wpc[w] = "plan" /\ wpc'[w] = "abort" /\ UNCHANGED <<who, loop, read>>
      BY <1>5 DEF Retire, PlanTypeOK, WorkerTypeOK
    <2>2. /\ r \in plan.previous
          /\ IF NameOf(r) \in plan.names THEN ~Unchanged(r, read[w]) ELSE plan.names = {}
      BY <1>5 DEF Retire
    <2>3. Halfway(who, plan, read[w])
      BY <2>1 DEF PlanInv, Planned
    <2>4. Halfway(who, plan', read[w])
      BY <2>1, <2>3 DEF Halfway
    <2>5. ~Unchanged(r, read[w])
      BY <2>2, <2>3 DEF Halfway, Unchanged, NameOf
    <2>6. ~Unchanged(r, read[w])'
      BY <2>1, <2>5 DEF Unchanged, NameOf
    <2>7. r \in Known'
      BY <2>1, <2>2 DEF KnownInv, Known
    <2>8. plan'.target = "" \/ Vacant(who, plan')
      <3>1. CASE NameOf(r) \in plan.names
        <4>1. \A q \in plan.previous \ {r} : NameOf(q) # NameOf(r)
          BY <2>2, <2>3 DEF Halfway, NameOf
        <4>2. QED
          BY <2>1, <3>1, <4>1 DEF Vacant, NameOf
      <3>2. CASE NameOf(r) \notin plan.names
        BY <2>1, <3>2
      <3>3. QED
        BY <3>1, <3>2
    <2>9. QED
      BY <2>1, <2>4, <2>6, <2>7, <2>8 DEF PlanAt
  <1>6. ASSUME NEW n \in Names, Add(w, n)
        PROVE  PlanAt(w)'
    <2>1. /\ plan'.previous = plan.previous /\ plan'.latest = plan.latest
          /\ plan'.names = plan.names /\ plan'.target = n
          /\ wpc[w] = "plan" /\ wpc'[w] = "build" /\ UNCHANGED <<who, read>>
      BY <1>6 DEF Add, PlanTypeOK, WorkerTypeOK
    <2>2. n \in plan.names /\ \A r \in plan.previous : NameOf(r) # n
      BY <1>6 DEF Add
    <2>3. Halfway(who, plan, read[w])
      BY <2>1 DEF PlanInv, Planned
    <2>4. Halfway(who, plan', read[w]) /\ Vacant(who, plan')
      BY <2>1, <2>2, <2>3 DEF Halfway, Vacant, NameOf
    <2>5. QED
      BY <2>1, <2>4 DEF PlanAt
  <1>7. CASE Abort(w) \/ Join(w)
    <2>1. /\ wpc[w] \in {"abort", "join"} /\ UNCHANGED <<who, plan, read>>
          /\ wpc'[w] \in {"join", Retired}
      BY <1>7 DEF Abort, Join, Told, Retired, WorkerTypeOK
    <2>2. Halfway(who, plan, read[w]) /\ (plan.target = "" \/ Vacant(who, plan))
      BY <2>1 DEF PlanInv, Planned
    <2>3. QED
      BY <2>1, <2>2 DEF PlanAt, Retired
  <1>8. CASE Build(w)
    <2>1. PICK r \in Runners :
              /\ Construct(r, plan.target, read[w])
              /\ plan' = [plan EXCEPT !.latest = @ \cup {r}, !.names = @ \ {plan.target},
                                      !.target = ""]
      BY <1>8 DEF Build
    <2>2. /\ plan'.previous = plan.previous /\ plan'.latest = plan.latest \cup {r}
          /\ plan'.names = plan.names \ {plan.target}
      BY <2>1 DEF PlanTypeOK
    <2>3. wpc[w] = "build" /\ wpc'[w] = "plan" /\ read' = read
      BY <1>8 DEF Build, WorkerTypeOK
    <2>4. Halfway(who', plan, read[w]) /\ Vacant(who', plan)
      <3>1. Halfway(who, plan, read[w]) /\ Vacant(who, plan)
        BY <2>3 DEF PlanInv, Planned
      <3>2. TypeInv
        OBVIOUS
      <3> HIDE DEF TypeInv
      <3>3. Halfway(who', plan, read[w])
        BY <1>1, <3>1, <3>2, HalfwayStays
      <3>4. Vacant(who', plan)
        BY <1>1, <3>1, <3>2, VacantStays
      <3>5. QED
        BY <3>3, <3>4
    <2>5. who'[r].name = plan.target /\ who'[r].setting = read[w][plan.target]
      BY <2>1 DEF Construct, ThreadsTypeOK
    <2>6. Serves(who', plan.latest \cup {r}, read[w],
                 (DOMAIN read[w] \ plan.names) \cup {plan.target})
      <3>1. Serves(who', plan.latest, read[w], DOMAIN read[w] \ plan.names)
        BY <2>4 DEF Halfway
      <3>2. plan.target \in plan.names
        BY <2>4 DEF Vacant
      <3>3. who'[r].name \notin DOMAIN read[w] \ plan.names
        BY <2>5, <3>2
      <3>4. who'[r].setting = read[w][who'[r].name]
        BY <2>5
      <3>5. Serves(who', plan.latest \cup {r}, read[w],
                   (DOMAIN read[w] \ plan.names) \cup {who'[r].name})
        BY <3>1, <3>3, <3>4, ServesMore
      <3>6. QED
        BY <2>5, <3>5
    <2>7. (DOMAIN read[w] \ plan.names) \cup {plan.target}
             = DOMAIN read[w] \ (plan.names \ {plan.target})
      BY <2>4 DEF Halfway, Vacant
    <2>8. Halfway(who', plan', read[w])
      BY <2>2, <2>4, <2>6, <2>7 DEF Halfway, Vacant
    <2>9. QED
      BY <2>3, <2>8 DEF PlanAt
  <1>9. QED
    BY <1>2, <1>3, <1>4, <1>5, <1>6, <1>7, <1>8 DEF Reconcile

LEMMA StepPlan == TypeInv /\ ForgetInv /\ MatchInv /\ PlanInv /\ [Next]_vars => PlanInv'
  <1> SUFFICES ASSUME TypeInv, ForgetInv, MatchInv, PlanInv, [Next]_vars,
                      NEW w \in Workers
               PROVE  PlanAt(w)'
    BY DEF PlanInv, PlanAt
  <1>1. CASE UNCHANGED <<wpc, plan, read>>
    BY <1>1, PlanSame
  <1>2. CASE Reconcile(w)
    BY <1>2, PlanWorker
  <1>3. CASE StartWorker(w)
    <2>1. wpc'[w] = "load"
      BY <1>3 DEF StartWorker, TypeInv, DaemonTypeOK, WorkerTypeOK
    <2>2. QED
      BY <2>1, PlanOut DEF Planned
  <1>4. ASSUME NEW v \in Workers, v # w, StartWorker(v) \/ Reconcile(v)
        PROVE  PlanAt(w)'
    <2> USE DEF TypeInv, DaemonTypeOK, Move, Planning
    <2>1. wpc'[w] = wpc[w] /\ read'[w] = read[w]
      BY <1>4
      DEF StartWorker, Reconcile, Load, Acquire, Ignored, Keep, Retire, Add, Abort, Join,
          Build, Rebind, Release, WorkerTypeOK
    <2>2. CASE wpc[w] \in Planned
      <3>1. holder = w
        BY <2>2 DEF LockInv, Holding, Planned
      <3>2. wpc[v] \notin Holding /\ holder # Free
        BY <1>4, <3>1, FreeAssumption DEF LockInv
      <3>3. plan' = plan
        BY <1>4, <3>2
        DEF StartWorker, Reconcile, Load, Acquire, LockFree, Ignored, Keep, Retire, Add, Abort,
            Join, Build, Rebind, Release, Holding
      <3> HIDE DEF TypeInv
      <3>4. QED
        BY <2>1, <3>3, PlanSame
    <2>3. CASE wpc[w] \notin Planned
      BY <2>1, <2>3, PlanOut
    <2>4. QED
      BY <2>2, <2>3
  <1>5. CASE Threads \/ EditFile \/ AskReload \/ RequestStop \/ StopNext \/ Main
    <2>1. UNCHANGED <<wpc, plan, read>>
      BY <1>5
      DEF Threads, LoopBegins, LoopEnds, EditFile, AskReload, RequestStop, StopNext, Main,
          BuildRunner, Built, StartRunner, Started, While, Tick, Look, StopAtLast, AbortNext,
          Aborted, List, FinishNext, JoinNext, Finished, Cleanup, Quiescent, worker
    <2>2. QED
      BY <1>1, <2>1
  <1>6. CASE UNCHANGED vars
    BY <1>1, <1>6 DEF vars, worker
  <1>7. QED
    BY <1>2, <1>3, <1>4, <1>5, <1>6 DEF Next

LEMMA StepMatch == TypeInv /\ ForgetInv /\ MatchInv /\ PlanInv /\ [Next]_vars => MatchInv'
  <1> SUFFICES ASSUME TypeInv, ForgetInv, MatchInv, PlanInv, [Next]_vars
               PROVE  MatchInv'
    OBVIOUS
  <1>1. CASE UNCHANGED <<runners, config, mpc>>
    BY <1>1, MatchSame
  <1>2. ASSUME NEW w \in Workers, StartWorker(w) \/ Reconcile(w)
        PROVE  MatchInv'
    <2>1. CASE Rebind(w)
      <3>1. /\ wpc[w] = "plan" /\ plan.names = {}
            /\ runners' = plan.latest /\ config' = read[w] /\ who' = who /\ mpc' = mpc
        BY <2>1 DEF Rebind, Move, threads, main
      <3>2. Serves(who, plan.latest, read[w], DOMAIN read[w])
        BY <3>1 DEF PlanInv, Planned, Halfway
      <3>3. mpc # "build"
        BY <3>1 DEF ForgetInv
      <3>4. QED
        BY <3>1, <3>2, <3>3 DEF MatchInv
    <2>2. CASE ~Rebind(w)
      <3>1. UNCHANGED <<runners, config, mpc>>
        BY <1>2, <2>2
        DEF StartWorker, Reconcile, Load, Acquire, Ignored, Keep, Retire, Add, Planning,
            Abort, Join, Build, Release, main
      <3>2. QED
        BY <1>1, <3>1
    <2>3. QED
      BY <2>1, <2>2
  <1>3. CASE Threads \/ EditFile \/ AskReload \/ RequestStop \/ StopNext
    <2>1. UNCHANGED <<runners, config, mpc>>
      BY <1>3
      DEF Threads, LoopBegins, LoopEnds, EditFile, AskReload, RequestStop, StopNext, main
    <2>2. QED
      BY <1>1, <2>1
  <1>4. CASE Main
    <2>1. ASSUME NEW n \in Names, NEW r \in Runners, BuildRunner(n, r)
          PROVE  MatchInv'
      <3>1. /\ mpc = "build" /\ mpc' = "build" /\ runners' = runners \cup {r}
            /\ n \in DOMAIN First \ {NameOf(q) : q \in runners}
            /\ Construct(r, n, First) /\ config' = config
        BY <2>1 DEF BuildRunner, MainMove
      <3>2. \A q \in runners : who'[q] = who[q]
        BY WhoStays DEF TypeInv, KnownInv
      <3>3. Serves(who', runners, First, {NameOf(q) : q \in runners})
        BY <3>1, <3>2, ServesSame DEF MatchInv
      <3>4. who'[r].name = n /\ who'[r].setting = First[n]
        BY <3>1 DEF Construct, TypeInv, DaemonTypeOK, ThreadsTypeOK
      <3>5. Serves(who', runners \cup {r}, First, {NameOf(q) : q \in runners} \cup {n})
        BY <3>1, <3>3, <3>4, ServesMore
      <3>6. {NameOf(q) : q \in runners}' = {NameOf(q) : q \in runners} \cup {n}
        BY <3>1, <3>2, <3>4 DEF NameOf
      <3>7. QED
        BY <3>1, <3>5, <3>6 DEF MatchInv
    <2>2. CASE Built
      <3>1. /\ mpc = "build" /\ mpc' = "start" /\ UNCHANGED <<runners, config, who>>
            /\ {NameOf(q) : q \in runners} = DOMAIN First
        BY <2>2 DEF Built, MainMove, Quiescent, threads
      <3>2. QED
        BY <3>1 DEF MatchInv
    <2>3. CASE StartRunner \/ Started \/ While \/ Tick \/ Look \/ StopAtLast \/ AbortNext
               \/ Aborted \/ List \/ FinishNext \/ JoinNext \/ Finished \/ Cleanup
      <3>1. UNCHANGED <<runners, config>>
        BY <2>3
        DEF StartRunner, Started, While, Tick, Look, StopAtLast, AbortNext, Aborted, List,
            FinishNext, JoinNext, Finished, Cleanup, Quiescent
      <3>2. mpc # "build" /\ mpc' # "build"
        BY <2>3
        DEF StartRunner, Started, While, Tick, Look, StopAtLast, AbortNext, Aborted, List,
            FinishNext, JoinNext, Finished, Cleanup, MainMove
      <3>3. QED
        BY <3>1, <3>2, MatchSame
    <2>4. QED
      BY <1>4, <2>1, <2>2, <2>3 DEF Main
  <1>5. CASE UNCHANGED vars
    BY <1>1, <1>5 DEF vars, main
  <1>6. QED
    BY <1>2, <1>3, <1>4, <1>5 DEF Next

ReloadInv == TypeInv /\ ForgetInv /\ MatchInv /\ PlanInv

LEMMA ReloadInvariant == Spec => []ReloadInv
  <1>1. Init => ReloadInv
    BY InitTypes, InitForget, InitMatch DEF ReloadInv
  <1>2. ReloadInv /\ [Next]_vars => ReloadInv'
    BY StepTypes, StepForget, StepPlan, StepMatch DEF ReloadInv
  <1>3. QED
    BY <1>1, <1>2, PTL DEF Spec

\* _reconcile, run: whenever no reload is in progress the supervised runners are those
\* of the configuration in force, with its settings, one for each profile.
THEOREM ConfigServed == Spec => []RunnersMatchConfig
  <1>1. ReloadInv => RunnersMatchConfig
    <2> SUFFICES ASSUME ReloadInv, mpc # "build"
                 PROVE  /\ {<<NameOf(r), who[r].setting>> : r \in runners}
                              = {<<n, config[n]>> : n \in DOMAIN config}
                        /\ Cardinality(runners) = Cardinality(DOMAIN config)
      BY DEF RunnersMatchConfig
    <2>1. Serves(who, runners, config, DOMAIN config)
      BY DEF ReloadInv, MatchInv
    <2>2. runners \subseteq Runners
      BY DEF ReloadInv, TypeInv, DaemonTypeOK, MainTypeOK
    <2>3. QED
      BY <2>1, <2>2, ServesOnce DEF NameOf
  <1>2. QED
    BY ReloadInvariant, <1>1, PTL

\* _reconcile: a reload stops a runner only if its profile is gone from the new
\* configuration or has another setting there.
THEOREM UnchangedLeftAlone == Spec => UnchangedUntouched
  <1> DEFINE Differs(w, r) == \/ NameOf(r) \notin DOMAIN read[w]
                              \/ who[r].setting # read[w][NameOf(r)]
  <1>1. ReloadInv => \A w \in Workers, r \in Runners :
                        wpc[w] = "abort" /\ plan.retiring = r => Differs(w, r)
    BY DEF ReloadInv, PlanInv, Unchanged
  <1>2. ReloadInv /\ [Next]_vars =>
           [\A w \in Workers, r \in Runners :
               wpc[w] = "abort" /\ plan.retiring = r /\ wpc'[w] # "abort"
                  => Differs(w, r)]_vars
    BY <1>1
  <1>3. QED
    BY ReloadInvariant, <1>2, PTL DEF Spec, UnchangedUntouched

=============================================================================
