------------------------ MODULE ProfileSession_proofs ------------------------
(***************************************************************************)
(* Theorems about ProfileSession, for every retry budget, every overflow   *)
(* bound and any number of stopping threads.                               *)
(***************************************************************************)
EXTENDS ProfileSession, TLAPS

-----------------------------------------------------------------------------
(* What the stopping threads can do to the loop.                           *)

\* What a step of a stopping thread may change of the loop's world: it can set
\* _stop and end the child, and touches nothing else the loop works on.
CallerEffect ==
    /\ cpc' \in [Callers -> CallerPcs]
    /\ waitsOn' \in [Callers -> {"none", "current", "past"}]
    /\ stop' \in BOOLEAN
    /\ shutdown' \in BOOLEAN
    /\ healthStop' \in BOOLEAN
    /\ stop => stop'
    /\ ssh' = ssh \/ (ssh = "running" /\ ssh' = "exited")
    /\ UNCHANGED <<pc, event, used, error, handle, lastDur, attempts, late>>

LEMMA CalledEffect ==
    ASSUME TypeOK, NEW c \in Callers, Called(c)
    PROVE  CallerEffect
  <1> USE DEF TypeOK, CallerPcs, CallerEffect, Goto, flags, session, history
  <1>1. CASE RaiseFlag(c)
    BY <1>1 DEF RaiseFlag
  <1>2. CASE HandleGone(c)
    BY <1>2 DEF HandleGone
  <1>3. CASE Look(c)
    BY <1>3 DEF Look, Returned
  <1>4. CASE Poll(c)
    BY <1>4 DEF Poll, PolledAlive, Returned
  <1>5. CASE Terminate(c)
    BY <1>5 DEF Terminate
  <1>6. CASE EnterWait(c)
    BY <1>6 DEF EnterWait
  <1>7. CASE LeaveWait(c)
    BY <1>7 DEF LeaveWait, Returned
  <1>8. CASE WaitTimesOut(c)
    BY <1>8 DEF WaitTimesOut
  <1>9. CASE Kill(c)
    BY <1>9 DEF Kill, Killed
  <1>10. CASE Join(c)
    BY <1>10 DEF Join
  <1>11. QED
    BY <1>1, <1>2, <1>3, <1>4, <1>5, <1>6, <1>7, <1>8, <1>9, <1>10 DEF Called

LEMMA CallEffect ==
    ASSUME TypeOK, NEW c \in Callers, Call(c)
    PROVE  CallerEffect
  <1> USE DEF TypeOK, CallerPcs, CallerEffect, Goto, flags, session, history
  <1>1. CASE RequestStop(c)
    BY <1>1 DEF RequestStop, StopHealth
  <1>2. CASE BeginFinish(c)
    BY <1>2 DEF BeginFinish, StopHealth
  <1>3. CASE BeginForcedReconnect(c)
    BY <1>3 DEF BeginForcedReconnect
  <1>4. CASE CheckAgain(c)
    BY <1>4 DEF CheckAgain
  <1>5. QED
    BY <1>1, <1>2, <1>3, <1>4 DEF Call

-----------------------------------------------------------------------------
(* Type correctness.                                                       *)

LEMMA LoopTypes ==
    ASSUME TypeOK, Loop
    PROVE  TypeOK'
  <1> USE BudgetAssumption
      DEF TypeOK, LoopPcs, Events, flags, session, callers, history
  <1>1. CASE LoopBegin
    BY <1>1 DEF LoopBegin
  <1>2. CASE LoopTop
    BY <1>2 DEF LoopTop, Yield
  <1>3. CASE LoopConsume
    BY <1>3 DEF LoopConsume, OwnStop, Resumption
  <1>4. CASE LoopSpawn
    BY <1>4 DEF LoopSpawn
  <1>5. CASE LoopSpawnFails
    BY <1>5 DEF LoopSpawnFails, Yield
  <1>6. CASE LoopPublish
    BY <1>6 DEF LoopPublish, Published
  <1>7. CASE LoopReap
    BY <1>7 DEF LoopReap
  <1>8. CASE LoopUnpublish
    BY <1>8 DEF LoopUnpublish, Yield
  <1>9. CASE LoopDisconnected
    BY <1>9 DEF LoopDisconnected, Yield
  <1>10. CASE LoopStopped
    BY <1>10 DEF LoopStopped, Spent
  <1>11. CASE LoopGiveUp
    BY <1>11 DEF LoopGiveUp, Spent, Yield
  <1>12. CASE LoopRetry
    BY <1>12 DEF LoopRetry, Spent, Yield
  <1>13. CASE LoopOverflow
    BY <1>13 DEF LoopOverflow, Spent
  <1>14. CASE LoopWake
    BY <1>14 DEF LoopWake
  <1>15. CASE LoopEnd
    BY <1>15 DEF LoopEnd, OwnStop
  <1>16. QED
    BY <1>1, <1>2, <1>3, <1>4, <1>5, <1>6, <1>7, <1>8, <1>9, <1>10,
       <1>11, <1>12, <1>13, <1>14, <1>15 DEF Loop

LEMMA InitTypes == Init => TypeOK
  <1> SUFFICES ASSUME Init
               PROVE  TypeOK
    OBVIOUS
  <1>1. cpc \in [Callers -> CallerPcs]
    BY DEF Init, CallerPcs
  <1>2. waitsOn \in [Callers -> {"none", "current", "past"}]
    BY DEF Init
  <1>3. QED
    BY <1>1, <1>2 DEF Init, TypeOK, LoopPcs, Events

LEMMA StepTypes ==
    ASSUME TypeOK, [Next]_vars
    PROVE  TypeOK'
  <1>1. CASE Loop
    BY <1>1, LoopTypes
  <1>2. CASE SshExit
    BY <1>2 DEF SshExit, TypeOK, flags, callers, history
  <1>3. ASSUME NEW c \in Callers, Call(c) \/ Called(c)
        PROVE  TypeOK'
    <2>1. CallerEffect
      BY <1>3, CallEffect, CalledEffect
    <2>2. QED
      BY <2>1 DEF CallerEffect, TypeOK
  <1>4. CASE UNCHANGED vars
    BY <1>4 DEF vars, TypeOK, flags, session, callers, history
  <1>5. QED
    BY <1>1, <1>2, <1>3, <1>4 DEF Next

\* Every variable of the session keeps its type.
THEOREM TypeCorrect == Spec => []TypeOK
  BY InitTypes, StepTypes, PTL DEF Spec

-----------------------------------------------------------------------------
(* The inductive invariant.                                                *)

\* The event yielded last says where in its code the generator can be.
EventInv ==
    /\ pc = "new" => event = "none"
    /\ pc = "top" => event \in {"none", "retrying"}
    /\ pc = "consume" => event # "none"
    /\ pc \in {"launch", "publish", "wait", "unpublish"} => event = "connecting"
    /\ pc = "settle" => event = "connected"
    /\ pc = "check" => event \in {"disconnected", "launch_failed"}
    /\ pc = "sleep" => event = "retrying"
    /\ event = "max_retries_reached" => Over
    /\ error => pc \in {"final", "done"} /\ event # "max_retries_reached"

\* self.process is set exactly while connect() waits for a child it published.
HandleInv ==
    /\ ssh = "running" => pc \in {"publish", "wait"}
    /\ handle <=> pc \in {"wait", "unpublish"}

\* The calls since the last stable session are the reconnects counted, plus
\* the one being made or just lost.
BudgetInv ==
    /\ MaxRetries > 0 => used <= MaxRetries
    /\ ~Over => used <= OverflowAt
    /\ pc = "new" => used = 0
    /\ attempts <= used + 1
    /\ Before \/ Trying => attempts <= used
    /\ LostStable => attempts = 0

\* A launch made after the stop leaves the loop on its way out.
LateInv ==
    /\ late \in {0, 1}
    /\ late = 1 => stop /\ pc # "new" /\ ~Trying

IInv == TypeOK /\ EventInv /\ HandleInv /\ BudgetInv /\ LateInv

\* The generator and its consumer keep the event in step with the program point.
LEMMA LoopEvents ==
    ASSUME IInv, Loop
    PROVE  EventInv'
  <1> USE BudgetAssumption
      DEF IInv, TypeOK, LoopPcs, Events, flags, session, callers, history,
          EventInv, Over
  <1>1. CASE LoopBegin
    BY <1>1 DEF LoopBegin
  <1>2. CASE LoopTop
    BY <1>2 DEF LoopTop, Yield, StopSeen
  <1>3. CASE LoopConsume
    BY <1>3 DEF LoopConsume, OwnStop, Resumption
  <1>4. CASE LoopSpawn
    BY <1>4 DEF LoopSpawn
  <1>5. CASE LoopSpawnFails
    BY <1>5 DEF LoopSpawnFails, Yield
  <1>6. CASE LoopPublish
    BY <1>6 DEF LoopPublish, Published
  <1>7. CASE LoopReap
    BY <1>7 DEF LoopReap
  <1>8. CASE LoopUnpublish
    BY <1>8 DEF LoopUnpublish, Yield
  <1>9. CASE LoopDisconnected
    BY <1>9 DEF LoopDisconnected, Yield
  <1>10. CASE LoopStopped
    BY <1>10 DEF LoopStopped, Spent, StopSeen
  <1>11. CASE LoopGiveUp
    BY <1>11 DEF LoopGiveUp, Spent, Yield, BudgetGone, StopSeen
  <1>12. CASE LoopRetry
    BY <1>12 DEF LoopRetry, Spent, Yield, BudgetGone, StopSeen
  <1>13. CASE LoopOverflow
    BY <1>13 DEF LoopOverflow, Spent, BudgetGone, StopSeen
  <1>14. CASE LoopWake
    BY <1>14 DEF LoopWake
  <1>15. CASE LoopEnd
    BY <1>15 DEF LoopEnd, OwnStop
  <1>16. QED
    BY <1>1, <1>2, <1>3, <1>4, <1>5, <1>6, <1>7, <1>8, <1>9, <1>10,
       <1>11, <1>12, <1>13, <1>14, <1>15 DEF Loop

\* connect() keeps handle and child together.
LEMMA LoopHandle ==
    ASSUME IInv, Loop
    PROVE  HandleInv'
  <1> USE BudgetAssumption
      DEF IInv, TypeOK, LoopPcs, Events, flags, session, callers, history,
          EventInv, HandleInv, Over
  <1>1. CASE LoopBegin
    BY <1>1 DEF LoopBegin
  <1>2. CASE LoopTop
    BY <1>2 DEF LoopTop, Yield, StopSeen
  <1>3. CASE LoopConsume
    BY <1>3 DEF LoopConsume, OwnStop, Resumption
  <1>4. CASE LoopSpawn
    BY <1>4 DEF LoopSpawn
  <1>5. CASE LoopSpawnFails
    BY <1>5 DEF LoopSpawnFails, Yield
  <1>6. CASE LoopPublish
    BY <1>6 DEF LoopPublish, Published
  <1>7. CASE LoopReap
    BY <1>7 DEF LoopReap
  <1>8. CASE LoopUnpublish
    BY <1>8 DEF LoopUnpublish, Yield
  <1>9. CASE LoopDisconnected
    BY <1>9 DEF LoopDisconnected, Yield
  <1>10. CASE LoopStopped
    BY <1>10 DEF LoopStopped, Spent, StopSeen
  <1>11. CASE LoopGiveUp
    BY <1>11 DEF LoopGiveUp, Spent, Yield, BudgetGone, StopSeen
  <1>12. CASE LoopRetry
    BY <1>12 DEF LoopRetry, Spent, Yield, BudgetGone, StopSeen
  <1>13. CASE LoopOverflow
    BY <1>13 DEF LoopOverflow, Spent, BudgetGone, StopSeen
  <1>14. CASE LoopWake
    BY <1>14 DEF LoopWake
  <1>15. CASE LoopEnd
    BY <1>15 DEF LoopEnd, OwnStop
  <1>16. QED
    BY <1>1, <1>2, <1>3, <1>4, <1>5, <1>6, <1>7, <1>8, <1>9, <1>10,
       <1>11, <1>12, <1>13, <1>14, <1>15 DEF Loop

\* Only a stable session gives reconnects back.
LEMMA LoopBudget ==
    ASSUME IInv, Loop
    PROVE  BudgetInv'
  <1> USE BudgetAssumption
      DEF IInv, TypeOK, LoopPcs, Events, flags, session, callers, history,
          EventInv, BudgetInv, Before, Trying, Up, Over, Lost, LostStable
  <1>1. CASE LoopBegin
    BY <1>1 DEF LoopBegin
  <1>2. CASE LoopTop
    BY <1>2 DEF LoopTop, Yield, StopSeen
  <1>3. CASE LoopConsume
    BY <1>3 DEF LoopConsume, OwnStop, Resumption
  <1>4. CASE LoopSpawn
    BY <1>4 DEF LoopSpawn
  <1>5. CASE LoopSpawnFails
    BY <1>5 DEF LoopSpawnFails, Yield
  <1>6. CASE LoopPublish
    BY <1>6 DEF LoopPublish, Published
  <1>7. CASE LoopReap
    BY <1>7 DEF LoopReap
  <1>8. CASE LoopUnpublish
    BY <1>8 DEF LoopUnpublish, Yield
  <1>9. CASE LoopDisconnected
    BY <1>9 DEF LoopDisconnected, Yield
  <1>10. CASE LoopStopped
    BY <1>10 DEF LoopStopped, Spent, StopSeen
  <1>11. CASE LoopGiveUp
    BY <1>11 DEF LoopGiveUp, Spent, Yield, BudgetGone, StopSeen
  <1>12. CASE LoopRetry
    BY <1>12 DEF LoopRetry, Spent, Yield, BudgetGone, StopSeen
  <1>13. CASE LoopOverflow
    BY <1>13 DEF LoopOverflow, Spent, BudgetGone, StopSeen
  <1>14. CASE LoopWake
    BY <1>14 DEF LoopWake
  <1>15. CASE LoopEnd
    BY <1>15 DEF LoopEnd, OwnStop
  <1>16. QED
    BY <1>1, <1>2, <1>3, <1>4, <1>5, <1>6, <1>7, <1>8, <1>9, <1>10,
       <1>11, <1>12, <1>13, <1>14, <1>15 DEF Loop

\* The flag is tested between two launches.
LEMMA LoopLate ==
    ASSUME IInv, Loop
    PROVE  LateInv'
  <1> USE BudgetAssumption
      DEF IInv, TypeOK, LoopPcs, Events, flags, session, callers, history,
          EventInv, LateInv, Trying
  <1>1. CASE LoopBegin
    BY <1>1 DEF LoopBegin
  <1>2. CASE LoopTop
    BY <1>2 DEF LoopTop, Yield, StopSeen
  <1>3. CASE LoopConsume
    BY <1>3 DEF LoopConsume, OwnStop, Resumption
  <1>4. CASE LoopSpawn
    BY <1>4 DEF LoopSpawn
  <1>5. CASE LoopSpawnFails
    BY <1>5 DEF LoopSpawnFails, Yield
  <1>6. CASE LoopPublish
    BY <1>6 DEF LoopPublish, Published
  <1>7. CASE LoopReap
    BY <1>7 DEF LoopReap
  <1>8. CASE LoopUnpublish
    BY <1>8 DEF LoopUnpublish, Yield
  <1>9. CASE LoopDisconnected
    BY <1>9 DEF LoopDisconnected, Yield
  <1>10. CASE LoopStopped
    BY <1>10 DEF LoopStopped, Spent, StopSeen
  <1>11. CASE LoopGiveUp
    BY <1>11 DEF LoopGiveUp, Spent, Yield, BudgetGone, StopSeen
  <1>12. CASE LoopRetry
    BY <1>12 DEF LoopRetry, Spent, Yield, BudgetGone, StopSeen
  <1>13. CASE LoopOverflow
    BY <1>13 DEF LoopOverflow, Spent, BudgetGone, StopSeen
  <1>14. CASE LoopWake
    BY <1>14 DEF LoopWake
  <1>15. CASE LoopEnd
    BY <1>15 DEF LoopEnd, OwnStop
  <1>16. QED
    BY <1>1, <1>2, <1>3, <1>4, <1>5, <1>6, <1>7, <1>8, <1>9, <1>10,
       <1>11, <1>12, <1>13, <1>14, <1>15 DEF Loop

LEMMA InitInv == Init => IInv
  <1>1. Init => TypeOK
    BY InitTypes
  <1>2. QED
    BY <1>1, BudgetAssumption
    DEF Init, IInv, EventInv, HandleInv, BudgetInv, LateInv,
        Before, Trying, Up, Over, Lost, LostStable

\* No step of any thread leaves the invariant.
LEMMA StepInv ==
    ASSUME IInv, [Next]_vars
    PROVE  IInv'
  <1>1. TypeOK'
    BY StepTypes DEF IInv
  <1>2. CASE Loop
    BY <1>1, <1>2, LoopEvents, LoopHandle, LoopBudget, LoopLate DEF IInv
  <1>3. CASE SshExit
    BY <1>1, <1>3
    DEF SshExit, IInv, EventInv, HandleInv, BudgetInv, LateInv, flags, callers,
        history, Before, Trying, Up, Over, Lost, LostStable
  <1>4. ASSUME NEW c \in Callers, Call(c) \/ Called(c)
        PROVE  IInv'
    <2>1. CallerEffect
      BY <1>4, CallEffect, CalledEffect DEF IInv
    <2>2. QED
      BY <1>1, <2>1
      DEF CallerEffect, IInv, EventInv, HandleInv, BudgetInv, LateInv,
          Before, Trying, Up, Over, Lost, LostStable
  <1>5. CASE UNCHANGED vars
    BY <1>1, <1>5
    DEF vars, IInv, EventInv, HandleInv, BudgetInv, LateInv, flags, session,
        callers, history, Before, Trying, Up, Over, Lost, LostStable
  <1>6. QED
    BY <1>2, <1>3, <1>4, <1>5 DEF Next

LEMMA Inductive == Spec => []IInv
  BY InitInv, StepInv, PTL DEF Spec

-----------------------------------------------------------------------------
(* What follows from it.                                                   *)

\* Between two stable sessions connect() is called at most max_retries + 1
\* times, whatever the sessions, failed launches and stops in between.
THEOREM BudgetIsKept == Spec => []BudgetKept
  <1>1. IInv => BudgetKept
    BY BudgetAssumption DEF IInv, TypeOK, BudgetInv, BudgetKept
  <1>2. QED
    BY <1>1, Inductive, PTL

\* At most one ssh launch follows a stop that reached a running loop.
THEOREM StopIsHeeded == Spec => []StopBoundsLaunches
  <1>1. IInv => StopBoundsLaunches
    BY DEF IInv, LateInv, StopBoundsLaunches
  <1>2. QED
    BY <1>1, Inductive, PTL

\* Outside the window between Popen and the assignment, every live ssh child is
\* one stop() can reach, and none survives its loop.
THEOREM ChildIsOwned == Spec => []SshOwned
  <1>1. IInv => SshOwned
    BY DEF IInv, HandleInv, SshOwned
  <1>2. QED
    BY <1>1, Inductive, PTL

-----------------------------------------------------------------------------
(* The session implements the abstract tunnel.                             *)

\* Every step of the loop is a step of the tunnel, or is hidden from it.
LEMMA LoopRefines ==
    ASSUME IInv, IInv', Loop
    PROVE  [Abstract!Next]_(Abstract!tunnel)
  <1> USE BudgetAssumption
      DEF IInv, TypeOK, LoopPcs, Events, EventInv, HandleInv, BudgetInv,
          flags, session, callers, history, Abstract!Next, Abstract!tunnel,
          Phase, Reconnects, Stopping, Outcome,
          Before, Trying, Up, Over, Lost, LostStable
  <1>1. CASE LoopBegin
    BY <1>1 DEF LoopBegin
  <1>2. CASE LoopTop
    BY <1>2 DEF LoopTop, Yield, StopSeen, Abstract!Try, Abstract!Stop, Abstract!Over
  <1>3. CASE LoopConsume
    BY <1>3 DEF LoopConsume, OwnStop, Resumption
  <1>4. CASE LoopSpawn
    BY <1>4 DEF LoopSpawn, Abstract!Settle
  <1>5. CASE LoopSpawnFails
    BY <1>5 DEF LoopSpawnFails, Yield, Abstract!Settle
  <1>6. CASE LoopPublish
    BY <1>6 DEF LoopPublish, Published
  <1>7. CASE LoopReap
    BY <1>7 DEF LoopReap, Abstract!Lose
  <1>8. CASE LoopUnpublish
    BY <1>8 DEF LoopUnpublish, Yield
  <1>9. CASE LoopDisconnected
    BY <1>9 DEF LoopDisconnected, Yield
  <1>10. CASE LoopStopped
    BY <1>10 DEF LoopStopped, Spent, StopSeen, Abstract!Stop, Abstract!Over
  <1>11. CASE LoopGiveUp
    BY <1>11 DEF LoopGiveUp, Spent, Yield, BudgetGone, StopSeen, Abstract!Exhaust, Abstract!Over
  <1>12. CASE LoopRetry
    BY <1>12 DEF LoopRetry, Spent, Yield, BudgetGone, StopSeen, Abstract!Reconnect
  <1>13. CASE LoopOverflow
    BY <1>13 DEF LoopOverflow, Spent, BudgetGone, StopSeen, Abstract!Crash, Abstract!Over
  <1>14. CASE LoopWake
    BY <1>14 DEF LoopWake
  <1>15. CASE LoopEnd
    BY <1>15 DEF LoopEnd, OwnStop, Abstract!Ask
  <1>16. QED
    BY <1>1, <1>2, <1>3, <1>4, <1>5, <1>6, <1>7, <1>8, <1>9, <1>10,
       <1>11, <1>12, <1>13, <1>14, <1>15 DEF Loop

\* A stopping thread asks the tunnel to stop, or changes nothing it knows of.
LEMMA CallerRefines ==
    ASSUME IInv, CallerEffect
    PROVE  [Abstract!Next]_(Abstract!tunnel)
  BY DEF IInv, TypeOK, CallerEffect, Abstract!Next, Abstract!tunnel, Abstract!Ask,
         Phase, Reconnects, Stopping, Outcome,
         Before, Trying, Up, Over, Lost, LostStable

LEMMA InitRefines == Init => Abstract!Init
  BY DEF Init, Abstract!Init, Phase, Reconnects, Stopping, Outcome,
         Before, Trying, Up, Over, Lost, LostStable

LEMMA StepRefines ==
    ASSUME IInv, IInv', [Next]_vars
    PROVE  [Abstract!Next]_(Abstract!tunnel)
  <1>1. CASE Loop
    BY <1>1, LoopRefines
  <1>2. CASE SshExit
    BY <1>2 DEF SshExit, flags, Abstract!tunnel, Phase, Reconnects, Stopping,
       Outcome, Before, Trying, Up, Over, Lost, LostStable
  <1>3. ASSUME NEW c \in Callers, Call(c) \/ Called(c)
        PROVE  [Abstract!Next]_(Abstract!tunnel)
    BY <1>3, CallEffect, CalledEffect, CallerRefines DEF IInv
  <1>4. CASE UNCHANGED vars
    BY <1>4 DEF vars, flags, session, Abstract!tunnel, Phase, Reconnects,
       Stopping, Outcome, Before, Trying, Up, Over, Lost, LostStable
  <1>5. QED
    BY <1>1, <1>2, <1>3, <1>4 DEF Next

\* The session with all its threads implements the abstract tunnel: it is given
\* up only on request, with the budget spent, or by the overflow, and an attempt
\* is never begun once the loop can see the stop.
THEOREM Refinement == Spec => ImplementsTunnel
  <1>1. IInv /\ IInv' /\ [Next]_vars => [Abstract!Next]_(Abstract!tunnel)
    BY StepRefines
  <1>2. QED
    BY <1>1, InitRefines, Inductive, PTL DEF Spec, ImplementsTunnel, Abstract!Spec

=============================================================================
