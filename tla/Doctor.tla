-------------------------------- MODULE Doctor --------------------------------
(***************************************************************************)
(* `ponte doctor` (doctor.py): what each check looks at and concludes.      *)
(*                                                                         *)
(* A world is what the checks can meet: the machine, the chain of hops,    *)
(* the server and the last word of the daemon's own health check ("yes",   *)
(* "no", "unknown" for a no that is not conclusive, "none").  A hop has a  *)
(* name: `direct` says that a socket connects to that name, `hop` that ssh *)
(* gets to what its own configuration makes of the name.  `login` is a new *)
(* login, which can fail while the tunnel works.  The wording of details   *)
(* and hints is left out; a check that does not apply has no row.          *)
(***************************************************************************)
EXTENDS Config

World == [ssh : {"found", "none", "raises"}, direct : BOOLEAN, hop : BOOLEAN,
          login : BOOLEAN, probe : BOOLEAN, remote : BOOLEAN, local : BOOLEAN,
          key : {"private", "open"}, health : {"yes", "no", "unknown", "none"},
          service : {"installed", "unknown", "missing"},
          log : {"there", "none", "nowhere"}, lastError : BOOLEAN]

\* What ssh does in a world: it logs in through the chain.
FirstHopUp(w, profile) == profile.jumps = <<>> \/ w.hop
LoginWorks(w, profile) ==
    /\ w.ssh = "found" /\ w.login /\ FirstHopUp(w, profile)
    /\ profile.identity # "" => w.key = "private"
ProbeRuns(w, profile) == LoginWorks(w, profile) /\ w.probe

Row(name, status) == [name |-> name, status |-> status]

ConfigCheck(config) == Row("config", IF config.warnings THEN "warn" ELSE "ok")

SshClientCheck(w) ==
    Row("ssh", CASE w.ssh = "raises" -> "fail" [] w.ssh = "none" -> "warn" [] OTHER -> "ok")

IdentityCheck(profile, keys) ==
    Row("identity", IF profile.identity \in keys \cup {""} THEN "ok" ELSE "fail")

\* A key that cannot be looked at, or that others can read.
KeyPermissionCheck(w, profile, keys) ==
    Row("permission",
        CASE profile.identity = "" -> "skip"
          [] profile.identity # "" /\ profile.identity \notin keys -> "warn"
          [] OTHER -> IF w.key = "open" THEN "warn" ELSE "ok")

\* Of a chain only the first hop can be reached from here; it is connected to
\* by its name, past the configuration of ssh.
JumpCheck(w, profile, offline) ==
    IF profile.jumps = <<>> THEN {}
    ELSE {Row("jump", CASE offline -> "skip"
                        [] ~offline /\ w.direct -> "ok"
                        [] OTHER -> "fail")}

ConnectivityCheck(w, profile, offline) ==
    Row("connectivity", CASE offline -> "skip"
                          [] ~offline /\ LoginWorks(w, profile) -> "ok"
                          [] OTHER -> "fail")

\* A probe that could not run says nothing of the ports.
RemotePortsCheck(w, profile, running, offline) ==
    IF RemotePorts(profile) = {} THEN {}
    ELSE {Row("remote", CASE offline \/ ~running -> "skip"
                          [] ~offline /\ running /\ ~ProbeRuns(w, profile) -> "warn"
                          [] OTHER -> IF w.remote THEN "ok" ELSE "fail")}

LocalPortsOfL(w, profile, running, offline) ==          \* Mutant: -D is forgotten
    IF \A i \in DOMAIN profile.tunnels : profile.tunnels[i].kind # "local" THEN {}
    ELSE {Row("local", CASE offline \/ ~running -> "skip"
                         [] OTHER -> IF w.local THEN "ok" ELSE "warn")}
LocalPortsCheck(w, profile, running, offline) ==
    IF LocalPorts(profile) = {} THEN {}
    ELSE {Row("local", CASE offline \/ ~running -> "skip"
                         [] OTHER -> IF w.local THEN "ok" ELSE "warn")}

ProfileChecks(w, profile, keys, running, offline) ==
    {SshClientCheck(w), IdentityCheck(profile, keys), KeyPermissionCheck(w, profile, keys),
     ConnectivityCheck(w, profile, offline)}
    \cup JumpCheck(w, profile, offline)
    \cup RemotePortsCheck(w, profile, running, offline)
    \cup LocalPortsCheck(w, profile, running, offline)

DaemonCheckPlain(w, running) ==                 \* Mutant: any False is a failure
    Row("daemon", CASE ~running -> "warn"
                    [] running /\ w.health \in {"no", "unknown"} -> "fail"
                    [] OTHER -> IF w.health = "none" THEN "warn" ELSE "ok")
DaemonCheck(w, running) ==
    Row("daemon", CASE ~running -> "warn"
                    [] running /\ w.health = "no" -> "fail"
                    [] OTHER -> IF w.health = "yes" THEN "ok" ELSE "warn")

ServiceCheck(w) ==
    Row("service", CASE w.service = "unknown" -> "skip"
                     [] w.service = "installed" -> "ok"
                     [] OTHER -> "warn")

LogCheck(w) ==
    Row("log", CASE w.log = "nowhere" -> "fail" [] w.log = "none" -> "warn" [] OTHER -> "ok")

\* The error is of the notifier of the doctor's own process.
NotifyCheck(w, notify) ==
    Row("notify", CASE ~notify.enabled -> "skip"
                    [] notify.enabled /\ notify.channels = {} -> "fail"
                    [] OTHER -> IF w.lastError THEN "warn" ELSE "ok")

\* run_checks: a set of rows of every profile, and those of the whole.
RunChecks(config, w, keys, running, offline) ==
    [profiles |-> [i \in DOMAIN config.profiles |->
                      ProfileChecks(w, config.profiles[i], keys, running, offline)],
     whole |-> {ConfigCheck(config), DaemonCheck(w, running), ServiceCheck(w), LogCheck(w),
                NotifyCheck(w, config.notify)}]

RowsOf(report) == report.whole \cup UNION {report.profiles[i] : i \in DOMAIN report.profiles}
Has(rows, status) == \E row \in rows : row.status = status
ExitCode(report) == IF Has(RowsOf(report), "fail") THEN 1 ELSE 0
=============================================================================
