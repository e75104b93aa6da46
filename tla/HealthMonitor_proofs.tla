------------------------- MODULE HealthMonitor_proofs -------------------------
(***************************************************************************)
(* Theorems about the health monitor, for every failure limit, every retry *)
(* budget and any number of stopping threads.                              *)
(***************************************************************************)
EXTENDS HealthMonitor, ProfileSession_proofs

\* The monitor is one more thread of the session: its every step is one the
\* session allows, or leaves the session alone.
LEMMA MonitorKeepsSession ==
    ASSUME [HealthNext]_healthVars
    PROVE  [Next]_vars
  <1>m. monitor \in Callers
    BY MonitorAssumption DEF Callers
  <1>1. CASE SessionStep
    BY <1>1 DEF SessionStep, Next, Call
  <1>2. CASE Establish \/ \E side \in profile.rules : Hang(side)
    BY <1>2 DEF Establish, Hang
  <1>3. CASE Monitor
    <2>1. CASE NextCheck
      BY <2>1, <1>m DEF NextCheck, Next, Call
    <2>2. CASE ReportUnhealthy
      BY <2>2, <1>m DEF ReportUnhealthy, Next, Call
    <2>3. CASE Monitor /\ ~NextCheck /\ ~ReportUnhealthy
      BY <2>3 DEF Monitor, FirstCheck, MonitorEnds, PollChild, RereadHandle,
                  Probe, ReportHealthy, ReportUnknown, StopReturns
    <2>4. QED
      BY <1>3, <2>1, <2>2, <2>3
  <1>4. CASE UNCHANGED healthVars
    BY <1>4 DEF healthVars
  <1>5. QED
    BY <1>1, <1>2, <1>3, <1>4 DEF HealthNext

-----------------------------------------------------------------------------
(* The monitor's own types and its count.                                  *)

LEMMA InitHealth == HealthInit => HealthTypeOK
  <1> SUFFICES ASSUME HealthInit
               PROVE  HealthTypeOK
    OBVIOUS
  <1>1. TypeOK
    BY InitTypes DEF HealthInit
  <1>2. failures \in 0 .. FailureLimit /\ downChecks \in 0 .. FailureLimit
    BY MonitorAssumption DEF HealthInit
  <1>3. QED
    BY <1>1, <1>2 DEF HealthInit, HealthTypeOK

LEMMA HealthTypes ==
    ASSUME HealthTypeOK, [HealthNext]_healthVars
    PROVE  HealthTypeOK'
  <1>1. TypeOK'
    BY MonitorKeepsSession, StepTypes DEF HealthTypeOK
  <1> USE MonitorAssumption DEF HealthTypeOK, forwards, link, check, evidence
  <1>2. CASE SessionStep
    BY <1>1, <1>2 DEF SessionStep
  <1>3. CASE Establish \/ \E side \in profile.rules : Hang(side)
    BY <1>1, <1>3 DEF Establish, Hang
  <1>4. CASE Monitor
    <2>1. CASE FirstCheck \/ NextCheck
      BY <1>1, <2>1 DEF FirstCheck, NextCheck, ReadHandle
    <2>2. CASE MonitorEnds \/ PollChild \/ RereadHandle
      BY <1>1, <2>2 DEF MonitorEnds, PollChild, RereadHandle, PolledAlive
    <2>3. ASSUME NEW r \in {"open", "closed", "unknown"}, Probe(r)
          PROVE  HealthTypeOK'
      BY <1>1, <2>3 DEF Probe
    <2>4. CASE ReportHealthy \/ ReportUnknown
      <3>1. failures' \in 0 .. FailureLimit /\ downChecks' \in 0 .. FailureLimit
        BY <2>4 DEF ReportHealthy, ReportUnknown
      <3>2. UNCHANGED link /\ Dropped /\ mpc' = "wait"
        BY <2>4 DEF ReportHealthy, ReportUnknown
      <3>3. QED
        BY <1>1, <3>1, <3>2 DEF Dropped
    <2>5. CASE StopReturns
      BY <1>1, <2>5 DEF StopReturns
    <2>6. CASE ReportUnhealthy
      <3>1. failures' \in 0 .. FailureLimit /\ downChecks' \in 0 .. FailureLimit
        BY <2>6 DEF ReportUnhealthy, CountTo
      <3>2. UNCHANGED link /\ Dropped /\ mpc' \in {"stopping", "wait"}
        BY <2>6 DEF ReportUnhealthy
      <3>3. QED
        BY <1>1, <3>1, <3>2 DEF Dropped
    <2>7. QED
      BY <1>4, <2>1, <2>2, <2>3, <2>4, <2>5, <2>6 DEF Monitor
  <1>5. CASE UNCHANGED healthVars
    BY <1>1, <1>5 DEF healthVars, monitoring
  <1>6. QED
    BY <1>2, <1>3, <1>4, <1>5 DEF HealthNext

\* Every variable of the monitor keeps its type; the counter of failures stops
\* at the limit, whatever the limit is.
THEOREM MonitorTypes == HealthSpec => []HealthTypeOK
  BY InitHealth, HealthTypes, PTL DEF HealthSpec

\* What makes CalmTunnelKept inductive: the counter never runs ahead of the
\* checks that saw the tunnel down, and a check that will be counted saw it down.
CalmInv ==
    /\ failures <= downChecks
    /\ mpc \in {"probe", "report"} /\ ~seenAlive => sawDown
    /\ mpc = "report" /\ probe = "closed" => sawDown
    /\ CalmTunnelKept

LEMMA CalmStep ==
    ASSUME HealthTypeOK, CalmInv, [HealthNext]_healthVars
    PROVE  CalmInv'
  <1> USE MonitorAssumption DEF HealthTypeOK, CalmInv, CalmTunnelKept, forwards, link, check, evidence
  <1>1. CASE SessionStep
    BY <1>1 DEF SessionStep
  <1>2. CASE Establish \/ \E side \in profile.rules : Hang(side)
    BY <1>2 DEF Establish, Hang
  <1>3. CASE Monitor
    <2>1. CASE FirstCheck \/ NextCheck
      BY <2>1 DEF FirstCheck, NextCheck, ReadHandle, Working, Checked, Listening
    <2>2. CASE MonitorEnds \/ PollChild \/ RereadHandle
      BY <2>2 DEF MonitorEnds, PollChild, RereadHandle, PolledAlive, Working, Checked, Listening
    <2>3. ASSUME NEW r \in {"open", "closed", "unknown"}, Probe(r)
          PROVE  CalmInv'
      BY <2>3 DEF Probe, Working
    <2>4. CASE ReportHealthy \/ ReportUnknown \/ StopReturns
      BY <2>4 DEF ReportHealthy, ReportUnknown, StopReturns, Dropped
    <2>5. CASE ReportUnhealthy
      \* A verdict that counts rests on a read that saw the tunnel down.
      <3>1. sawDown
        BY <2>5 DEF ReportUnhealthy, AllHealthy, Conclusive
      <3>2. QED
        BY <2>5, <3>1 DEF ReportUnhealthy, CountTo, Dropped
    <2>6. QED
      BY <1>3, <2>1, <2>2, <2>3, <2>4, <2>5 DEF Monitor
  <1>4. CASE UNCHANGED healthVars
    BY <1>4 DEF healthVars, monitoring
  <1>5. QED
    BY <1>1, <1>2, <1>3, <1>4 DEF HealthNext

LEMMA InitCalm == HealthInit => CalmInv
  BY MonitorAssumption DEF HealthInit, CalmInv, CalmTunnelKept

\* Whatever the probes answer and however the reads of a check race the
\* reconnect loop, no tunnel is forced to reconnect before it was seen down in
\* FailureLimit checks with no healthy one between them.
THEOREM CalmTunnelIsKept == HealthSpec => []CalmTunnelKept
  <1>1. HealthTypeOK /\ CalmInv => CalmTunnelKept
    BY DEF CalmInv
  <1>2. QED
    BY <1>1, InitHealth, HealthTypes, InitCalm, CalmStep, PTL DEF HealthSpec

\* The session's promises survive the monitor beside it: forced reconnects
\* neither spend the retry budget nor leave a child that stop() cannot reach.
THEOREM MonitoredSession == HealthSpec => [](BudgetKept /\ SshOwned)
  <1>1. HealthInit => IInv
    BY InitInv DEF HealthInit
  <1>2. IInv /\ [HealthNext]_healthVars => IInv'
    BY MonitorKeepsSession, StepInv
  <1>3. IInv => BudgetKept /\ SshOwned
    BY BudgetAssumption
    DEF IInv, TypeOK, BudgetInv, BudgetKept, HandleInv, SshOwned
  <1>4. QED
    BY <1>1, <1>2, <1>3, PTL DEF HealthSpec

\* A monitored session is still what Tunnel promises: a forced reconnect is a loss
\* like any other, reconnected within the budget, and ends no tunnel for good.
THEOREM MonitoredRefinement == HealthSpec => ImplementsTunnel
  <1>1. HealthInit => IInv /\ Abstract!Init
    BY InitInv, InitRefines DEF HealthInit
  <1>2. IInv /\ [HealthNext]_healthVars => IInv'
    BY MonitorKeepsSession, StepInv
  <1>3. IInv /\ IInv' /\ [HealthNext]_healthVars => [Abstract!Next]_(Abstract!tunnel)
    BY MonitorKeepsSession, StepRefines
  <1>4. QED
    BY <1>1, <1>2, <1>3, PTL DEF HealthSpec, ImplementsTunnel, Abstract!Spec

=============================================================================
