------------------------------ MODULE MCStatus ------------------------------
(* An instance of StatusFile: a profile with one port of each kind.          *)
EXTENDS StatusFile

HealthyTunnel == [alive |-> TRUE, remote |-> "seen", remotePorts |-> [p \in RemotePorts |-> TRUE],
                  local |-> "seen", localPorts |-> [p \in LocalPorts |-> TRUE]]
PortClosed == [HealthyTunnel EXCEPT !.remotePorts = [p \in RemotePorts |-> FALSE]]
Unreachable == [HealthyTunnel EXCEPT !.remote = "probe_error"]
ProcessDead == [HealthyTunnel EXCEPT !.alive = FALSE, !.remote = "probe_error",
                                     !.local = "raised"]
MCMet == {HealthyTunnel, PortClosed, Unreachable, ProcessDead}
=============================================================================
