-------------------------------- MODULE MCHealth --------------------------------
(***************************************************************************)
(* Profiles for HealthMonitor: all of the ports checked, none of them      *)
(* (remote_check_enabled off and nothing but -R), and one side of two.     *)
(***************************************************************************)
EXTENDS HealthMonitor

MCProfiles == {
    [rules |-> {"remote"}, remoteCheck |-> TRUE],
    [rules |-> {"remote"}, remoteCheck |-> FALSE],
    [rules |-> {"remote", "local"}, remoteCheck |-> FALSE]}
=============================================================================
