---------------------------- MODULE HealthMonitor ----------------------------
(***************************************************************************)
(* The health thread of one profile (HealthChecker.run_loop and check,     *)
(* with TunnelDaemon._on_health as the callback) beside the reconnect loop *)
(* of ProfileSession, whose threads it shares the ssh session with.        *)
(*                                                                         *)
(* A check is several reads at different moments: is the child alive, what *)
(* does a probe of the ports see.  Its verdict is counted later still, and *)
(* the session it then stops is the one of that moment.  The probe stands  *)
(* for both port checks: every port seen listening, one seen closed, or    *)
(* nothing learned (ProbeError, or an unexpected exception).  Which ports  *)
(* it looks at is a matter of the profile: with remote_check_enabled off,  *)
(* none of the -R rules', so that for a profile of nothing else the        *)
(* process alone decides.                                                  *)
(***************************************************************************)
EXTENDS ProfileSession

CONSTANTS
    monitor,        \* the health thread, as a caller of manager.stop()
    FailureLimit,   \* _HEALTH_FAILURE_THRESHOLD
    Profiles        \* the profiles the monitored one is among

ASSUME MonitorAssumption == Monitors = {monitor} /\ FailureLimit \in Nat \ {0}

\* Of a profile: the sides on which its rules listen, "remote" for -R, "local" for
\* -L and -D, and remote_check_enabled.
ASSUME ProfileAssumption ==
    Profiles \subseteq [rules : SUBSET {"remote", "local"}, remoteCheck : BOOLEAN]

VARIABLES
    profile,     \* the monitored profile
    established, \* the ssh child that runs has set up its forwards
    lost,        \* the sides on which a listener of that child is gone, or
                 \* never comes
    mpc,         \* where the health thread is
    seenAlive,   \* HealthStatus.process_alive
    probe,       \* what the port checks of this HealthStatus saw
    failures,    \* _health_failures of the profile, counted up to FailureLimit:
                 \* the code asks no more than whether it is reached
    sawDown,     \* history: at a read of this check the tunnel was down
    downChecks   \* history: checks with sawDown since the last healthy one

forwards   == <<established, lost>>
link       == <<profile, forwards>>
check      == <<seenAlive, probe>>
evidence   == <<sawDown, downChecks>>
monitoring == <<link, mpc, check, failures, evidence>>
healthVars == <<vars, monitoring>>

HealthTypeOK ==
    /\ TypeOK
    /\ profile \in Profiles
    /\ established \in BOOLEAN
    /\ lost \subseteq profile.rules
    /\ mpc \in {"first", "wait", "poll", "reread", "probe", "report", "stopping", "ended"}
    /\ seenAlive \in BOOLEAN
    /\ probe \in {"open", "closed", "unknown"}
    /\ failures \in 0 .. FailureLimit
    /\ sawDown \in BOOLEAN
    /\ downChecks \in 0 .. FailureLimit

HealthInit ==
    /\ Init
    /\ profile \in Profiles
    /\ established = FALSE
    /\ lost = {}
    /\ mpc = "first"
    /\ seenAlive = FALSE
    /\ probe = "unknown"
    /\ failures = 0
    /\ sawDown = FALSE
    /\ downChecks = 0

-----------------------------------------------------------------------------
(* The forwards of the session.                                            *)

\* The sides of its rules that a check of this profile looks at.
Checked == IF profile.remoteCheck THEN profile.rules ELSE profile.rules \ {"remote"}

Listening == IF ssh = "running" /\ established THEN profile.rules \ lost ELSE {}

\* What the daemon can call an up tunnel: there is a session, and every port it
\* looks at is listening.
Working == handle /\ ssh = "running" /\ Checked \subseteq Listening

Establish ==
    /\ ssh = "running" /\ ~established
    /\ established' = TRUE
    /\ UNCHANGED <<vars, profile, lost, mpc, check, failures, evidence>>

\* A zombie: ssh runs on, forwards of one side are gone or never come, and
\* nobody else listens on their ports.
Hang(side) ==
    /\ ssh = "running" /\ side \in profile.rules \ lost
    /\ lost' = lost \cup {side}
    /\ UNCHANGED <<vars, profile, established, mpc, check, failures, evidence>>

\* The loop and the threads that stop it; the forwards end with their child.
SessionStep ==
    /\ \/ Loop \/ SshExit
       \/ \E c \in Callers : RequestStop(c) \/ BeginFinish(c) \/ Called(c)
    /\ established' = (established /\ ssh' = "running")
    /\ lost' = IF ssh' = "running" THEN lost ELSE {}
    /\ UNCHANGED <<profile, mpc, check, failures, evidence>>

-----------------------------------------------------------------------------
(* One check.                                                              *)

\* is_running() reads self.process and finds no child, or goes on to poll it.
ReadHandle ==
    /\ mpc' = IF handle THEN "poll" ELSE "probe"
    /\ seenAlive' = FALSE
    /\ sawDown' = ~Working
    /\ UNCHANGED <<link, probe, failures, downChecks>>

\* The first check comes before any wait.
FirstCheck == mpc = "first" /\ ReadHandle /\ UNCHANGED vars

\* stop_event.wait() timed out: the loop goes round again.
NextCheck ==
    /\ mpc = "wait"
    /\ ~healthStop
    /\ CheckAgain(monitor) \/ (cpc[monitor] = "idle" /\ UNCHANGED vars)
    /\ ReadHandle

MonitorEnds ==
    /\ mpc = "wait"
    /\ healthStop
    /\ mpc' = "ended"
    /\ UNCHANGED <<vars, link, check, failures, evidence>>

\* The second read of self.process; None.poll() raises, and is caught.
PollChild ==
    /\ mpc = "poll"
    /\ mpc' = IF handle THEN "probe" ELSE "reread"
    /\ seenAlive' \in IF handle THEN PolledAlive ELSE {FALSE}
    /\ sawDown' = (sawDown \/ ~Working)
    /\ UNCHANGED <<vars, link, probe, failures, downChecks>>

\* _is_process_alive tries the handle once more: no handle, assume alive.
RereadHandle ==
    /\ mpc = "reread"
    /\ mpc' = "probe"
    /\ seenAlive' \in IF handle THEN PolledAlive ELSE {TRUE}
    /\ sawDown' = (sawDown \/ ~Working)
    /\ UNCHANGED <<vars, link, probe, failures, downChecks>>

\* Of no ports to look at, all are listening, and nothing can go wrong.
Probe(result) ==
    /\ mpc = "probe"
    /\ result \in IF Checked = {} THEN {"open"}
                  ELSE {IF Checked \subseteq Listening THEN "open" ELSE "closed", "unknown"}
    /\ probe' = result
    /\ mpc' = "report"
    /\ sawDown' = (sawDown \/ ~Working)
    /\ UNCHANGED <<vars, link, seenAlive, failures, downChecks>>

-----------------------------------------------------------------------------
(* _on_health.                                                             *)

AllHealthy == seenAlive /\ probe = "open"

AlwaysConclusive == TRUE        \* Mutant: an unknown port counts as closed
Conclusive == seenAlive => probe # "unknown"

\* The snapshot has been dealt with, and is dropped.
Dropped == seenAlive' = FALSE /\ probe' = "unknown" /\ sawDown' = FALSE

CountTo(limit, n) == IF n < limit THEN n + 1 ELSE limit

ReportHealthy ==
    /\ mpc = "report"
    /\ AllHealthy
    /\ mpc' = "wait"
    /\ failures' = 0
    /\ downChecks' = 0
    /\ Dropped
    /\ UNCHANGED <<vars, link>>

\* Mutant: what is not a failure is taken for a recovery.
ReportRecovered ==
    /\ mpc = "report"
    /\ ~AllHealthy /\ ~Conclusive
    /\ mpc' = "wait"
    /\ failures' = 0
    /\ Dropped
    /\ UNCHANGED <<vars, link, downChecks>>

\* Neither a failure nor a recovery.
ReportUnknown ==
    /\ mpc = "report"
    /\ ~AllHealthy /\ ~Conclusive
    /\ mpc' = "wait"
    /\ Dropped
    /\ UNCHANGED <<vars, link, failures, downChecks>>

\* Counted, whether the process is alive or not; a session is stopped only for
\* a live one.
ReportUnhealthy ==
    /\ mpc = "report"
    /\ ~AllHealthy /\ Conclusive
    /\ failures' = CountTo(FailureLimit, failures)
    /\ downChecks' = IF sawDown THEN CountTo(FailureLimit, downChecks) ELSE downChecks
    /\ IF failures' = FailureLimit /\ seenAlive
       THEN mpc' = "stopping" /\ BeginForcedReconnect(monitor)
       ELSE mpc' = "wait" /\ UNCHANGED vars
    /\ Dropped
    /\ UNCHANGED link

\* manager.stop() returned: the next forced reconnect needs a full run again.
\* If it raised, run_loop catches that and the counter stays at its limit.
StopReturns ==
    /\ mpc = "stopping"
    /\ cpc[monitor] \in {"done", "raised"}
    /\ mpc' = "wait"
    /\ IF cpc[monitor] = "done"
       THEN failures' = 0 /\ downChecks' = 0
       ELSE UNCHANGED <<failures, downChecks>>
    /\ UNCHANGED <<vars, link, check, sawDown>>

Monitor ==
    \/ FirstCheck \/ NextCheck \/ MonitorEnds \/ PollChild \/ RereadHandle
    \/ \E r \in {"open", "closed", "unknown"} : Probe(r)
    \/ ReportHealthy \/ ReportUnknown \/ ReportUnhealthy \/ StopReturns

HealthNext == SessionStep \/ Establish \/ (\E side \in profile.rules : Hang(side)) \/ Monitor

\* The threads run; and of probes repeated for ever on ports that are closed,
\* some do get through.
HealthFairness ==
    /\ WF_healthVars(Loop /\ SessionStep)
    /\ \A c \in Callers : WF_healthVars(Called(c) /\ SessionStep)
    /\ WF_healthVars(Monitor)
    /\ SF_healthVars(Probe("closed"))

HealthSpec == HealthInit /\ [][HealthNext]_healthVars /\ HealthFairness

-----------------------------------------------------------------------------
(* Properties.                                                             *)

\* _on_health: a tunnel is forced to reconnect only after FailureLimit checks
\* without a healthy one between them, in each of which it really was down, on a
\* port the check looks at, at the moment of one of the check's reads.  Probes
\* that fail, reads that race the reconnect loop, and ports the configuration
\* keeps out of the check never add up to the stop of a working tunnel.
CalmTunnelKept == mpc = "stopping" => downChecks = FailureLimit

\* What the monitor can see: of a zombie whose lost ports it does not look at
\* (those of -R rules under remote_check_enabled = false) it sees nothing, and it
\* never ends it.
Zombie == pc = "wait" /\ ssh = "running" /\ lost \cap Checked # {}
Ended == ssh # "running" \/ healthStop

\* _on_health: a published session whose checked forwards are gone is ended,
\* whatever inconclusive checks are interleaved, unless the monitor is told to end
\* or is itself at the unlimited wait that follows a kill.
ZombieRecovered == (Zombie /\ cpc[monitor] \notin {"await_killed", "reaping"}) ~> Ended
=============================================================================
