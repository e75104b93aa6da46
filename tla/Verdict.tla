------------------------------- MODULE Verdict -------------------------------
(***************************************************************************)
(* What one health check of a profile becomes on its way to a reader:      *)
(* HealthStatus (HealthChecker.check), the section of the status file      *)
(* (TunnelDaemon._on_health), the ProfileStatus another process reads, and *)
(* the verdicts drawn from that payload: /healthz, /metrics, the dashboard *)
(* and the tables of `ponte status` and `ponte watch`.                     *)
(*                                                                         *)
(* A field that may be absent is "none"; of texts only their presence is   *)
(* kept.                                                                   *)
(***************************************************************************)
EXTENDS Naturals, FiniteSets

CONSTANTS
    RemotePorts,    \* -R ports of a profile
    LocalPorts      \* its -L and -D listeners

Maybe == {"yes", "no", "none"}
Flag(b) == IF b THEN "yes" ELSE "no"
NoPorts == [p \in {} |-> TRUE]
PortMaps(S) == [S -> BOOLEAN] \cup {NoPorts}

-----------------------------------------------------------------------------
(* HealthChecker.check.                                                    *)

\* What a check met: the process; the probe of the server, which is off, saw
\* the ports, could not run, or raised; and the loopback probe.
Outcomes ==
    [alive : BOOLEAN, remote : {"off", "seen", "probe_error", "raised"},
     remotePorts : [RemotePorts -> BOOLEAN], local : {"seen", "raised"},
     localPorts : [LocalPorts -> BOOLEAN]]

ObservedRemote(o) == IF o.remote = "seen" THEN o.remotePorts ELSE NoPorts
ObservedLocal(o) == IF o.local = "seen" THEN o.localPorts ELSE NoPorts
AllOpen(ports) == \A p \in DOMAIN ports : ports[p]

Raised(o) == o.remote = "raised" \/ o.local = "raised"

AllHealthy(o) ==
    /\ ~Raised(o) /\ o.remote # "probe_error" /\ o.alive
    /\ AllOpen(ObservedRemote(o)) /\ AllOpen(ObservedLocal(o))

Conclusive(o) == ~o.alive \/ (~Raised(o) /\ o.remote # "probe_error")

-----------------------------------------------------------------------------
(* The profile's section of the status file, and how it is read back.      *)

Sections ==
    [healthy : Maybe, conclusive : Maybe, alive : Maybe,
     remote : PortMaps(RemotePorts), local : PortMaps(LocalPorts),
     healthError : BOOLEAN, probeError : BOOLEAN]

\* A section no check has reported to.
Unreported ==
    [healthy |-> "none", conclusive |-> "none", alive |-> "none",
     remote |-> NoPorts, local |-> NoPorts,
     healthError |-> FALSE, probeError |-> FALSE]

ReportedKeepingPorts(s, o) ==       \* Mutant: an empty map replaces nothing
    [healthy |-> Flag(AllHealthy(o)), conclusive |-> Flag(Conclusive(o)),
     alive |-> Flag(o.alive),
     remote |-> IF ObservedRemote(o) = NoPorts THEN s.remote ELSE ObservedRemote(o),
     local |-> ObservedLocal(o),
     healthError |-> Raised(o), probeError |-> o.remote = "probe_error"]

ReportedFirst(s, o) ==              \* Mutant: conclusive is set once
    [healthy |-> Flag(AllHealthy(o)),
     conclusive |-> IF s.conclusive = "none" THEN Flag(Conclusive(o)) ELSE s.conclusive,
     alive |-> Flag(o.alive),
     remote |-> ObservedRemote(o), local |-> ObservedLocal(o),
     healthError |-> Raised(o), probeError |-> o.remote = "probe_error"]

\* _on_health: every field of the check replaces the one of the check before.
Reported(s, o) ==
    [healthy |-> Flag(AllHealthy(o)), conclusive |-> Flag(Conclusive(o)),
     alive |-> Flag(o.alive),
     remote |-> ObservedRemote(o), local |-> ObservedLocal(o),
     healthError |-> Raised(o), probeError |-> o.remote = "probe_error"]

\* status(): nothing while the daemon is down; else the reader's own profiles,
\* and whatever else the file knows.
Payload(up, names, file) ==
    [n \in IF up THEN names \cup DOMAIN file ELSE {} |->
        IF n \in DOMAIN file THEN file[n] ELSE Unreported]

\* _status_payload: the "running" that the web endpoints read is a constant.
Running(up) == TRUE

Having(P, Test(_)) == {n \in DOMAIN P : Test(P[n])}

\* DaemonStatus.healthy.
DaemonHealthy(P) ==
    IF \A n \in DOMAIN P : P[n].healthy = "none" THEN "none"
    ELSE Flag(\A n \in DOMAIN P : P[n].healthy = "yes")

-----------------------------------------------------------------------------
(* serve.py: /healthz.                                                     *)

InconclusiveNever(s) == FALSE       \* Mutant: an unanswered probe is a failure
Inconclusive(s) == s.healthy = "no" /\ s.conclusive = "no"

Failed(s) == s.healthy = "no" /\ ~Inconclusive(s)
Healthy(s) == s.healthy = "yes"

Closed(ports) == {p \in DOMAIN ports : ~ports[p]}

ExplainedByText(s) == s.healthError \/ s.probeError     \* Mutant
\* _failure_reason finds something to say.
Explained(s) ==
    \/ s.healthError \/ s.probeError
    \/ s.alive = "no"
    \/ Closed(s.remote) # {} \/ Closed(s.local) # {}

HealthResponse(running, P) ==
    LET unhealthy == Having(P, Failed)
        unknown == Having(P, Inconclusive)
        answer(code, status) ==
            [code |-> code, status |-> status, unhealthy |-> unhealthy,
             errors |-> {n \in unhealthy : Explained(P[n])}]
    IN  CASE ~running                          -> answer(503, "down")
          [] running /\ DOMAIN P = {}          -> answer(200, "starting")
          [] running /\ unhealthy # {}         -> answer(503, "degraded")
          [] running /\ unhealthy = {} /\ unknown # {} -> answer(200, "unverified")
          [] OTHER -> IF \A n \in DOMAIN P : Healthy(P[n])
                      THEN answer(200, "ok") ELSE answer(200, "starting")

-----------------------------------------------------------------------------
(* serve.py: /metrics.  A series without a value is not exported.          *)

HealthySample(s) == IF Inconclusive(s) THEN "none" ELSE s.healthy

\* ponte_profile_port_listening: the ports that are not.
DeadPorts(P) ==
    UNION {{<<n, "remote", p>> : p \in Closed(P[n].remote)}
           \cup {<<n, "local", p>> : p \in Closed(P[n].local)} : n \in DOMAIN P}

Metrics(running, P) ==
    IF ~running
    THEN [up |-> 0, unhealthy |-> 0, unknown |-> 0, healthy |-> NoPorts, dead |-> {}]
    ELSE [up |-> 1,
          unhealthy |-> Cardinality(Having(P, Failed)),
          unknown |-> Cardinality(Having(P, Inconclusive)),
          healthy |-> [n \in {m \in DOMAIN P : HealthySample(P[m]) # "none"} |->
                          HealthySample(P[n]) = "yes"],
          dead |-> DeadPorts(P)]

-----------------------------------------------------------------------------
(* serve.py: the dashboard.                                                *)

Tone(s) == IF Healthy(s) THEN "ok" ELSE IF Failed(s) THEN "bad" ELSE "unknown"

\* The header: its verdict and the tiles that are drawn.
Summary(running, P) ==
    LET ok == Having(P, Healthy)
        broken == Having(P, Failed)
        unknown == DOMAIN P \ (ok \cup broken)
        verdict == IF broken # {} THEN "bad"
                   ELSE IF \E n \in unknown : Inconclusive(P[n]) THEN "unknown"
                   ELSE IF ok # {} /\ ok = DOMAIN P THEN "ok"
                   ELSE "waiting"
    IN  IF ~running THEN [verdict |-> "down", tiles |-> NoPorts]
        ELSE [verdict |-> verdict,
              tiles |-> [t \in {"ok", "unknown", "bad"} |->
                            Cardinality(CASE t = "ok" -> ok [] t = "bad" -> broken
                                          [] t = "unknown" -> unknown)]]

\* _port_chips; only the ports of the server can go unobserved.
PortChips(s) ==
    LET of(ports, kind) == {<<kind, p, ports[p]>> : p \in DOMAIN ports}
        seen == of(s.remote, "remote") \cup of(s.local, "local")
        hidden == s.remote = NoPorts /\ s.probeError
    IN  [chips |-> seen,
         unobserved |-> hidden \/ (seen = {} /\ Inconclusive(s))]

\* _respond: the path, the token, the provider, then the endpoint.
Respond(request, running, P) ==
    CASE request.path = "other"                        -> 404
      [] request.path # "other" /\ ~request.token      -> 401
      [] OTHER -> IF ~request.status THEN 500
                  ELSE IF request.path = "/healthz" THEN HealthResponse(running, P).code
                  ELSE 200

-----------------------------------------------------------------------------
(* main.py: `ponte status` and `ponte watch`.                              *)

MarkupHealth(s) ==
    CASE s.healthy = "yes"                           -> "ok"
      [] s.healthy = "none" \/ s.conclusive = "no"   -> "unknown"
      [] OTHER                                       -> "bad"

WatchBorder(running, P) ==
    IF ~running THEN "red" ELSE IF DaemonHealthy(P) = "yes" THEN "green" ELSE "yellow"

\* Several profiles get a panel each; its border knows nothing of `conclusive`.
ProfileBorder(s) ==
    CASE s.healthy = "yes"  -> "green"
      [] s.healthy = "none" -> "yellow"
      [] OTHER              -> "red"

ProfilePanels(running, P) ==
    [n \in IF running /\ Cardinality(DOMAIN P) > 1 THEN DOMAIN P ELSE {} |->
        ProfileBorder(P[n])]

=============================================================================
