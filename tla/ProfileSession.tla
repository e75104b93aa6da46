---------------------------- MODULE ProfileSession ----------------------------
(***************************************************************************)
(* One profile of the daemon and every thread that touches its SSH         *)
(* session: the reconnect loop (ProfileRunner._run draining                *)
(* RetryRunner.run, which blocks in TunnelManager.connect), the threads    *)
(* that abort it (request_stop, ProfileRunner.finish) and the health       *)
(* thread that stops a zombie session (TunnelManager.stop).                *)
(*                                                                         *)
(* A step is one read or write of what those threads share: the flags      *)
(* RetryRunner._stop and TunnelDaemon._shutdown, the attribute             *)
(* TunnelManager.process, and the ssh child itself.  Durations appear only *)
(* as the answer to "did the session last stable_after seconds?", and a    *)
(* backoff sleep or a timeout as a wait that may end at any moment.        *)
(***************************************************************************)
EXTENDS Naturals

CONSTANTS
    MaxRetries,     \* [retry] max_retries; 0 asks for no limit
    OverflowAt,     \* the last n whose float backoff_factor ** n is finite
                    \* (1023 for the default factor 2.0)
    Watchers,       \* threads that run request_stop
    Finishers,      \* threads that run ProfileRunner.finish
    Monitors        \* threads that run manager.stop() for a zombie session

ASSUME BudgetAssumption == MaxRetries \in Nat /\ OverflowAt \in Nat

ASSUME ThreadAssumption ==
    /\ Watchers \cap Finishers = {}
    /\ Watchers \cap Monitors = {}
    /\ Finishers \cap Monitors = {}

Callers == Watchers \cup Finishers \cup Monitors

VARIABLES
    pc,         \* where the loop thread is
    event,      \* the RetryEvent it yielded last
    used,       \* retries_used
    error,      \* ProfileRunner.error is not None
    stop,       \* RetryRunner._stop
    shutdown,   \* TunnelDaemon._shutdown
    healthStop, \* ProfileRunner.health_stop, the health loop's stop event
    ssh,        \* the ssh child spawned last, as the OS sees it
    handle,     \* TunnelManager.process is not None
    lastDur,    \* TunnelManager._last_session_duration
    cpc,        \* where each caller of manager.stop() is
    waitsOn,    \* which child's wait() a caller is blocked in
    attempts,   \* history: connect() calls since the last stable session
    late        \* history: ssh launches while _stop was set

flags   == <<stop, shutdown, healthStop>>
session == <<ssh, handle, lastDur>>
callers == <<cpc, waitsOn>>
history == <<attempts, late>>
vars    == <<pc, event, used, error, flags, session, callers, history>>

LoopPcs == {"new", "top", "consume", "launch", "publish", "wait", "unpublish",
            "settle", "check", "sleep", "final", "done"}

\* RetryEvent types.  A disconnect after connect() raised carries an error and
\* no exit code; it is told apart as "launch_failed".
Events == {"none", "connecting", "connected", "disconnected", "launch_failed",
           "retrying", "max_retries_reached"}

CallerPcs == {"idle", "flag", "look", "poll", "terminate", "await", "waiting",
              "kill", "await_killed", "reaping", "join", "abandoned", "done",
              "raised"}

TypeOK ==
    /\ pc \in LoopPcs
    /\ event \in Events
    /\ used \in Nat
    /\ error \in BOOLEAN
    /\ stop \in BOOLEAN
    /\ shutdown \in BOOLEAN
    /\ healthStop \in BOOLEAN
    /\ ssh \in {"none", "running", "exited"}
    /\ handle \in BOOLEAN
    /\ lastDur \in {"none", "short", "stable"}
    /\ cpc \in [Callers -> CallerPcs]
    /\ waitsOn \in [Callers -> {"none", "current", "past"}]
    /\ attempts \in Nat
    /\ late \in Nat

Init ==
    /\ pc = "new"
    /\ event = "none"
    /\ used = 0
    /\ error = FALSE
    /\ stop = FALSE
    /\ shutdown = FALSE
    /\ healthStop = FALSE
    /\ ssh = "none"
    /\ handle = FALSE
    /\ lastDur = "none"
    /\ cpc = [c \in Callers |-> "idle"]
    /\ waitsOn = [c \in Callers |-> "none"]
    /\ attempts = 0
    /\ late = 0

-----------------------------------------------------------------------------
(* The reconnect loop.                                                     *)

Yield(e) == event' = e /\ pc' = "consume"

\* manager.stop() called by the loop thread itself, which nothing can race:
\* a published child is terminated and waited for.
OwnStop == ssh' = IF handle /\ ssh = "running" THEN "exited" ELSE ssh

\* The generator's first statements, run by the first next() of _run.
LoopBegin ==
    /\ pc = "new"
    /\ pc' = "top"
    /\ stop' = FALSE
    /\ used' = 0
    /\ UNCHANGED <<event, error, shutdown, healthStop, session, callers, history>>

StopIgnored == FALSE        \* Mutant of StopSeen
StopSeen == stop

LoopTop ==
    /\ pc = "top"
    /\ IF StopSeen
       THEN pc' = "final" /\ UNCHANGED event
       ELSE Yield("connecting")
    /\ UNCHANGED <<used, error, flags, session, callers, history>>

\* Where the generator resumes once _run has handled the event.
Resumption == {<<"connecting", "launch">>, <<"connected", "settle">>,
               <<"disconnected", "check">>, <<"launch_failed", "check">>,
               <<"retrying", "sleep">>, <<"max_retries_reached", "final">>}

\* The body of _run's for loop; what it records is the Accounting module's.
LoopConsume ==
    /\ pc = "consume"
    /\ \E r \in Resumption : event = r[1] /\ pc' = r[2]
    /\ IF shutdown THEN OwnStop ELSE UNCHANGED ssh
    /\ UNCHANGED <<event, used, error, flags, handle, lastDur, callers, history>>

\* Popen returned: the child exists, but self.process is not assigned yet.
LoopSpawn ==
    /\ pc = "launch"
    /\ pc' = "publish"
    /\ ssh' = "running"
    /\ attempts' = attempts + 1
    /\ late' = IF stop THEN late + 1 ELSE late
    /\ waitsOn' = [c \in Callers |->
                      IF waitsOn[c] = "current" THEN "past" ELSE waitsOn[c]]
    /\ UNCHANGED <<event, used, error, flags, handle, lastDur, cpc>>

\* Popen raised: there is no child, and the last session's duration stays.
LoopSpawnFails ==
    /\ pc = "launch"
    /\ Yield("launch_failed")
    /\ attempts' = attempts + 1
    /\ UNCHANGED <<used, error, flags, session, callers, late>>

NotPublished == UNCHANGED handle    \* Mutant of Published
Published == handle' = TRUE

LoopPublish ==
    /\ pc = "publish"
    /\ pc' = "wait"
    /\ Published
    /\ UNCHANGED <<event, used, error, flags, ssh, lastDur, callers, history>>

LoopReap ==
    /\ pc = "wait"
    /\ ssh = "exited"
    /\ pc' = "unpublish"
    /\ \E d \in {"short", "stable"} :
          /\ lastDur' = d
          /\ attempts' = IF d = "stable" THEN 0 ELSE attempts
    /\ UNCHANGED <<event, used, error, flags, ssh, handle, callers, late>>

LoopUnpublish ==
    /\ pc = "unpublish"
    /\ handle' = FALSE
    /\ Yield("connected")
    /\ UNCHANGED <<used, error, flags, ssh, lastDur, callers, history>>

LoopDisconnected ==
    /\ pc = "settle"
    /\ Yield("disconnected")
    /\ UNCHANGED <<used, error, flags, session, callers, history>>

\* A session of stable_after seconds gives the budget back; a launch that
\* failed never reaches that test, whatever the duration left behind says.
SpentAfterAny == IF lastDur = "stable" THEN 0 ELSE used         \* Mutant
Spent == IF event = "disconnected" /\ lastDur = "stable" THEN 0 ELSE used

BudgetGone == MaxRetries > 0 /\ Spent >= MaxRetries

LoopStopped ==
    /\ pc = "check"
    /\ StopSeen
    /\ used' = Spent
    /\ pc' = "final"
    /\ UNCHANGED <<event, error, flags, session, callers, history>>

LoopGiveUp ==
    /\ pc = "check"
    /\ ~StopSeen
    /\ BudgetGone
    /\ used' = Spent
    /\ Yield("max_retries_reached")
    /\ UNCHANGED <<error, flags, session, callers, history>>

LoopRetry ==
    /\ pc = "check"
    /\ ~StopSeen
    /\ ~BudgetGone
    /\ Spent + 1 <= OverflowAt
    /\ used' = Spent + 1
    /\ Yield("retrying")
    /\ UNCHANGED <<error, flags, session, callers, history>>

\* _backoff_delay raises OverflowError out of the generator; _run records it.
LoopOverflow ==
    /\ pc = "check"
    /\ ~StopSeen
    /\ ~BudgetGone
    /\ Spent + 1 > OverflowAt
    /\ used' = Spent + 1
    /\ error' = TRUE
    /\ pc' = "final"
    /\ UNCHANGED <<event, flags, session, callers, history>>

\* Mutant: the flag is used up by the sleep it interrupts.
LoopWakeClears ==
    /\ pc = "sleep"
    /\ pc' = "top"
    /\ stop' = FALSE
    /\ UNCHANGED <<event, used, error, shutdown, healthStop, session, callers, history>>

\* The delay ran out, or _stop was set while waiting for it.
LoopWake ==
    /\ pc = "sleep"
    /\ pc' = "top"
    /\ UNCHANGED <<event, used, error, flags, session, callers, history>>

\* The finally clause of _run.
LoopEnd ==
    /\ pc = "final"
    /\ stop' = TRUE
    /\ OwnStop
    /\ pc' = "done"
    /\ UNCHANGED <<event, used, error, shutdown, healthStop, handle, lastDur, callers, history>>

Loop ==
    \/ LoopBegin \/ LoopTop \/ LoopConsume
    \/ LoopSpawn \/ LoopSpawnFails \/ LoopPublish \/ LoopReap \/ LoopUnpublish
    \/ LoopDisconnected \/ LoopStopped \/ LoopGiveUp \/ LoopRetry
    \/ LoopOverflow \/ LoopWake \/ LoopEnd

\* The session ends: the server hung up, the network dropped, or a signal.
SshExit ==
    /\ ssh = "running"
    /\ ssh' = "exited"
    /\ UNCHANGED <<pc, event, used, error, flags, handle, lastDur, callers, history>>

-----------------------------------------------------------------------------
(* The threads that stop the session.                                      *)

Goto(c, from, to) == cpc[c] = from /\ cpc' = [cpc EXCEPT ![c] = to]

\* abort() sets health_stop first, unless start() has not created it yet.
StopHealth == healthStop' \in IF pc = "new" THEN {healthStop, TRUE} ELSE {TRUE}

\* request_stop: once _shutdown is set, a second request returns at once.
RequestStop(c) ==
    /\ c \in Watchers
    /\ ~shutdown
    /\ shutdown' = TRUE
    /\ StopHealth
    /\ Goto(c, "idle", "flag")
    /\ UNCHANGED <<pc, event, used, error, stop, session, waitsOn, history>>

\* finish() begins with abort(), with or without a shutdown: a reload retires
\* a runner the same way.
BeginFinish(c) ==
    /\ c \in Finishers
    /\ StopHealth
    /\ Goto(c, "idle", "flag")
    /\ UNCHANGED <<pc, event, used, error, stop, shutdown, session, waitsOn, history>>

\* A health check decided on a forced reconnect, on what it saw when it began.
BeginForcedReconnect(c) ==
    /\ c \in Monitors
    /\ Goto(c, "idle", "look")
    /\ UNCHANGED <<pc, event, used, error, flags, session, waitsOn, history>>

\* self.retry.stop()
RaiseFlag(c) ==
    /\ Goto(c, "flag", "look")
    /\ stop' = TRUE
    /\ UNCHANGED <<pc, event, used, error, shutdown, healthStop, session, waitsOn, history>>

Returned(c) == IF c \in Finishers THEN "join" ELSE "done"

\* manager.stop() reads self.process anew in every statement: one that finds
\* None after the first test raises AttributeError.
HandleGone(c) ==
    /\ cpc[c] \in {"poll", "terminate", "await", "kill", "await_killed"}
    /\ ~handle
    /\ cpc' = [cpc EXCEPT ![c] = "raised"]
    /\ UNCHANGED <<pc, event, used, error, flags, session, waitsOn, history>>

Look(c) ==
    /\ Goto(c, "look", IF handle THEN "poll" ELSE Returned(c))
    /\ UNCHANGED <<pc, event, used, error, flags, session, waitsOn, history>>

\* Popen.poll() is None: the child runs, or it is gone and the loop thread,
\* which waits for it, has not let go of the lock around waitpid() yet.
PolledAlive == IF ssh = "running" THEN {TRUE} ELSE IF pc = "wait" THEN BOOLEAN ELSE {FALSE}

Poll(c) ==
    /\ handle
    /\ \E alive \in PolledAlive :
          Goto(c, "poll", IF alive THEN "terminate" ELSE Returned(c))
    /\ UNCHANGED <<pc, event, used, error, flags, session, waitsOn, history>>

\* SIGTERM makes the exit likely, not certain: SshExit is what it leads to.
Terminate(c) ==
    /\ handle
    /\ Goto(c, "terminate", "await")
    /\ UNCHANGED <<pc, event, used, error, flags, session, waitsOn, history>>

\* self.process.wait(...) is entered on the child read at that moment.
EnterWait(c) ==
    /\ handle
    /\ \/ Goto(c, "await", "waiting")
       \/ Goto(c, "await_killed", "reaping")
    /\ waitsOn' = [waitsOn EXCEPT ![c] = "current"]
    /\ UNCHANGED <<pc, event, used, error, flags, session, history>>

LeaveWait(c) ==
    /\ cpc[c] \in {"waiting", "reaping"}
    /\ waitsOn[c] = "past" \/ ssh = "exited"
    /\ cpc' = [cpc EXCEPT ![c] = Returned(c)]
    /\ waitsOn' = [waitsOn EXCEPT ![c] = "none"]
    /\ UNCHANGED <<pc, event, used, error, flags, session, history>>

WaitTimesOut(c) ==
    /\ waitsOn[c] = "current" /\ ssh = "running"
    /\ Goto(c, "waiting", "kill")
    /\ waitsOn' = [waitsOn EXCEPT ![c] = "none"]
    /\ UNCHANGED <<pc, event, used, error, flags, session, history>>

SignalIgnored == UNCHANGED ssh      \* Mutant of Killed
Killed == ssh' = IF ssh = "running" THEN "exited" ELSE ssh

Kill(c) ==
    /\ handle
    /\ Goto(c, "kill", "await_killed")
    /\ Killed
    /\ UNCHANGED <<pc, event, used, error, flags, handle, lastDur, waitsOn, history>>

\* finish() joins the loop thread, but only for _PROFILE_JOIN_TIMEOUT seconds.
Join(c) ==
    /\ Goto(c, "join", IF pc = "done" THEN "done" ELSE "abandoned")
    /\ UNCHANGED <<pc, event, used, error, flags, session, waitsOn, history>>

\* The health loop survives whatever its callback did, and checks again unless
\* it was told to end.
CheckAgain(c) ==
    /\ c \in Monitors
    /\ ~healthStop
    /\ cpc[c] \in {"done", "raised"}
    /\ cpc' = [cpc EXCEPT ![c] = "idle"]
    /\ UNCHANGED <<pc, event, used, error, flags, session, waitsOn, history>>

Called(c) ==
    \/ RaiseFlag(c) \/ HandleGone(c) \/ Look(c) \/ Poll(c) \/ Terminate(c)
    \/ EnterWait(c) \/ LeaveWait(c) \/ WaitTimesOut(c) \/ Kill(c) \/ Join(c)

Call(c) == RequestStop(c) \/ BeginFinish(c) \/ BeginForcedReconnect(c) \/ CheckAgain(c)

Next == Loop \/ SshExit \/ \E c \in Callers : Call(c) \/ Called(c)

\* Threads that can run do run: the loop thread and every call in progress.
Fairness == WF_vars(Loop) /\ \A c \in Callers : WF_vars(Called(c))

Spec == Init /\ [][Next]_vars /\ Fairness

-----------------------------------------------------------------------------
(* What the session promises.                                              *)

Before == pc \in {"new", "top", "sleep"} \/ (pc = "consume" /\ event = "retrying")
Trying == pc = "launch" \/ (pc = "consume" /\ event = "connecting")
Up     == pc \in {"publish", "wait"}
Over   == pc \in {"final", "done"} \/ (pc = "consume" /\ event = "max_retries_reached")
Lost   == ~Before /\ ~Trying /\ ~Up /\ ~Over

\* The session lost last was a stable one, and the budget not yet given back.
LostStable ==
    /\ Lost /\ lastDur = "stable"
    /\ pc \in {"unpublish", "settle"} \/ event \in {"connected", "disconnected"}

Phase == IF Before THEN "down" ELSE IF Trying THEN "trying"
         ELSE IF Up THEN "up" ELSE IF Over THEN "over" ELSE "lost"

Reconnects == IF LostStable THEN 0 ELSE used

Stopping == stop /\ pc # "new"

Outcome == IF ~Over THEN "none" ELSE IF error THEN "crashed"
           ELSE IF event = "max_retries_reached" THEN "exhausted" ELSE "stopped"

Abstract == INSTANCE Tunnel WITH
    phase <- Phase, reconnects <- Reconnects, stopping <- Stopping, outcome <- Outcome

\* The threads, the handle and the events implement the abstract tunnel: no
\* interleaving of stop(), connect() and the retry loop starts an attempt
\* after a stop the loop could see, counts a reconnect twice, gives the budget
\* back for a launch that failed, or ends the loop for another reason.
ImplementsTunnel == Abstract!Spec

\* Retry budget (RetryRunner.run): between two stable sessions the loop calls
\* connect() once, and then at most max_retries times more.
BudgetKept == MaxRetries > 0 => attempts <= MaxRetries + 1

\* RetryRunner.stop: once the flag is set in a running loop, at most the one
\* attempt that was already past its test of the flag is still launched.
StopBoundsLaunches == late <= 1

\* TunnelManager.connect: an ssh child is alive only while the loop thread is
\* inside connect(), and then stop() finds it except between Popen and the
\* assignment of self.process; a loop that ended left no child behind.
SshOwned == ssh = "running" => pc = "publish" \/ (pc = "wait" /\ handle)

\* Every connection ends some day.
SessionsEnd == []<>(ssh # "running")

\* RetryRunner.stop: the running generator exits after the current connection
\* ends, whatever the loop is doing when the flag is set.
StopHonoured == SessionsEnd => ((stop /\ pc # "new") ~> (pc = "done"))

\* ProfileRunner.abort: a stop that finds the session published ends it and the
\* loop, also when ssh does not react to SIGTERM.
AbortEndsPublishedSession ==
    \A c \in Watchers \cup Finishers :
        (stop /\ pc = "wait" /\ cpc[c] = "look") ~> (pc = "done")

=============================================================================
