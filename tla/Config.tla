-------------------------------- MODULE Config --------------------------------
(***************************************************************************)
(* What a configuration file means (config.py): which file is read, what   *)
(* of it is accepted and the configuration it becomes.                     *)
(*                                                                         *)
(* A value of the file is a record of its type, the number it stands for   *)
(* and its text; paths, keys and chains of hops are known by their names.  *)
(* Loading ends "ok", with a ConfigError ("error") or with an exception of *)
(* another kind ("crash"), whichever the code comes upon first.            *)
(***************************************************************************)
EXTENDS Integers, Sequences, FiniteSets

Raw(type, number, text) == [t |-> type, n |-> number, s |-> text]
Absent == Raw("absent", 0, "")
Whole(n) == Raw("int", n, "")
Text(s) == Raw("text", 0, s)
Blank == Raw("blank", 0, "")
Bool(b) == Raw("bool", IF b THEN 1 ELSE 0, "")
Infinite == Raw("inf", 0, "")
NotANumber == Raw("nan", 0, "")

\* A section is a function of the keys it has.
Get(section, key) == IF key \in DOMAIN section THEN section[key] ELSE Absent
NoKeys == [k \in {} |-> Absent]

\* The first of a sequence of checks that fails.
First(S) == CHOOSE i \in S : \A j \in S : i <= j
Outcome(checks) ==
    LET bad == {i \in DOMAIN checks : checks[i] # "ok"}
    IN  IF bad = {} THEN "ok" ELSE checks[First(bad)]
Must(condition) == IF condition THEN "ok" ELSE "error"
OutcomeOf(S) == IF S \subseteq {"ok"} THEN "ok"
                ELSE IF "error" \in S THEN "error" ELSE "crash"

-----------------------------------------------------------------------------
(* Helpers: what each accepts, and the value it gives.                     *)

Unbounded == 2147483647

IsText(v) == v.t \in {"text", "digits"}
RequireStr(v) == Must(IsText(v))
OptionalStr(v) == Must(v.t \in {"absent", "blank"} \/ IsText(v))
StrOr(v, default) == IF IsText(v) THEN v.s ELSE default

\* int() of a string of digits or of a fraction is a number, int(inf) raises
\* OverflowError, which nothing catches.
CheckInt(v, lo, hi) ==
    IF v.t = "inf" THEN "crash"
    ELSE Must(v.t \in {"int", "digits", "fraction"} /\ v.n \in lo .. hi)
RequiredInt(v, lo, hi) == IF v = Absent THEN "error" ELSE CheckInt(v, lo, hi)
OptionalInt(v, lo, hi) == IF v = Absent THEN "ok" ELSE CheckInt(v, lo, hi)

\* A comparison with NaN is false, so that it passes every bound.
OptionalNumber(v, lo) ==
    Must(v.t \in {"absent", "inf", "nan"}
         \/ (v.t \in {"int", "digits", "fraction"} /\ v.n >= lo))

OptionalBool(v) == Must(v.t \in {"absent", "bool"})
BoolOr(v, default) == IF v = Absent THEN default ELSE v.n = 1

-----------------------------------------------------------------------------
(* A tunnel.                                                               *)

Kinds == {"remote", "local", "dynamic"}
KindOf(raw) == StrOr(Get(raw, "kind"), "remote")

TunnelOutcome(raw) ==
    Outcome(<<OptionalStr(Get(raw, "kind")), Must(KindOf(raw) \in Kinds),
              RequiredInt(Get(raw, "local_port"), 1, 65535),
              OptionalStr(Get(raw, "description")),
              IF KindOf(raw) = "dynamic" THEN OptionalStr(Get(raw, "local_host"))
              ELSE Outcome(<<RequiredInt(Get(raw, "remote_port"), 1, 65535),
                             OptionalStr(Get(raw, "remote_host")),
                             IF KindOf(raw) = "local" THEN OptionalStr(Get(raw, "local_host"))
                             ELSE RequireStr(Get(raw, "local_host")),
                             Must(KindOf(raw) = "local" => IsText(Get(raw, "remote_host")))>>)>>)

TunnelOf(raw) ==
    [kind |-> KindOf(raw),
     localHost |-> StrOr(Get(raw, "local_host"), "127.0.0.1"),
     localPort |-> Get(raw, "local_port").n,
     remoteHost |-> IF KindOf(raw) = "dynamic" THEN ""
                    ELSE StrOr(Get(raw, "remote_host"), ""),
     remotePort |-> IF KindOf(raw) = "dynamic" THEN 0 ELSE Get(raw, "remote_port").n]

-----------------------------------------------------------------------------
(* A profile.  Of `jump` the text names a chain, see Chain.                *)

Chain(text) ==
    CASE text = "bastion" -> <<"bastion">>
      [] text = "bastion,inner" -> <<"bastion", "inner">>
      [] OTHER -> <<>>                          \* a hop that does not parse

\* What Python holds for true.
Truthy(v) == v.t \notin {"absent", "blank"} /\ (v.t \in {"int", "bool"} => v.n # 0)
JumpKeys(ssh) == {k \in {"jump", "proxy_jump"} : Truthy(Get(ssh, k))}
JumpOutcome(ssh) ==
    IF JumpKeys(ssh) = {} THEN "ok"
    ELSE Must(\E k \in JumpKeys(ssh) : /\ JumpKeys(ssh) = {k}
                                       /\ IsText(ssh[k]) /\ Chain(ssh[k].s) # <<>>)
Jumps(ssh) == IF JumpKeys(ssh) = {} THEN <<>>
              ELSE Chain(ssh[CHOOSE k \in JumpKeys(ssh) : TRUE].s)

\* The options ponte knows are coerced; the others are passed on as they are.
OptionOutcome(key, v) ==
    CASE key \in {"ServerAliveInterval", "ServerAliveCountMax"} ->
            (IF v.t = "inf" THEN "crash" ELSE Must(v.t \in {"int", "digits", "fraction", "bool"}))
      [] key \in {"StrictHostKeyChecking", "ExitOnForwardFailure", "TCPKeepAlive"} ->
            Must(IsText(v) \/ v.t \in {"blank", "bool"})
      [] OTHER -> "ok"
\* Extra options are compared without regard to case.
ConflictTest(ssh) ==
    Must(Jumps(ssh) = <<>> \/ DOMAIN ssh.options \cap {"ProxyJump", "ProxyCommand"} = {})

SshOutcome(ssh) ==
    Outcome(<<RequireStr(Get(ssh, "host")), OptionalStr(Get(ssh, "user")),
              OptionalStr(Get(ssh, "identity_file")),
              OptionalInt(Get(ssh, "port"), 1, 65535),
              OptionalStr(Get(ssh, "known_hosts_file")),
              OutcomeOf({OptionOutcome(k, ssh.options[k]) : k \in DOMAIN ssh.options}),
              JumpOutcome(ssh), ConflictTest(ssh)>>)

\* taken: the names of the profiles before.
ProfileOutcome(raw, taken) ==
    Outcome(<<RequireStr(raw.name), Must(raw.name.s \notin taken), SshOutcome(raw.ssh),
              Outcome([i \in DOMAIN raw.tunnels |-> TunnelOutcome(raw.tunnels[i])])>>)

ProfileOf(raw) ==
    [name |-> raw.name.s, host |-> raw.ssh["host"].s,
     identity |-> StrOr(Get(raw.ssh, "identity_file"), ""),
     knownHosts |-> StrOr(Get(raw.ssh, "known_hosts_file"), ""),
     jumps |-> Jumps(raw.ssh), options |-> DOMAIN raw.ssh.options,
     tunnels |-> [i \in DOMAIN raw.tunnels |-> TunnelOf(raw.tunnels[i])]]

\* [ssh] and [[tunnels]] at the top level are one profile, "default".
ProfilesOutcome(file) ==
    CASE file.layout = "legacy" ->
            ProfileOutcome([file.profiles[1] EXCEPT !.name = Text("default")], {})
      [] file.layout = "both"   -> "error"
      [] OTHER ->
            Outcome(<<Must(file.profiles # <<>>),
                      Outcome([i \in DOMAIN file.profiles |->
                          ProfileOutcome(file.profiles[i],
                                         {file.profiles[j].name.s : j \in 1 .. i - 1})])>>)
ProfilesOf(file) ==
    IF file.layout = "legacy"
    THEN <<ProfileOf([file.profiles[1] EXCEPT !.name = Text("default")])>>
    ELSE [i \in DOMAIN file.profiles |-> ProfileOf(file.profiles[i])]

-----------------------------------------------------------------------------
(* The other sections.                                                     *)

RetryOutcome(r) ==
    Outcome(<<OptionalInt(Get(r, "max_retries"), 0, Unbounded),
              OptionalNumber(Get(r, "base_delay"), 0), OptionalNumber(Get(r, "max_delay"), 0),
              OptionalNumber(Get(r, "backoff_factor"), 1), OptionalBool(Get(r, "jitter")),
              OptionalNumber(Get(r, "stable_after"), 0)>>)

HealthOutcome(h) ==
    Outcome(<<OptionalInt(Get(h, "check_interval"), 1, Unbounded),
              OptionalBool(Get(h, "remote_check_enabled")),
              OptionalInt(Get(h, "remote_check_timeout"), 1, Unbounded),
              OptionalNumber(Get(h, "max_check_interval"), 1)>>)

DaemonOutcome(d) ==
    Outcome(<<OptionalStr(Get(d, "pid_file")), OptionalStr(Get(d, "log_file")),
              OptionalInt(Get(d, "log_max_bytes"), 1, Unbounded),
              OptionalInt(Get(d, "log_backup_count"), 0, Unbounded)>>)
DefaultPid == "ponte.pid"
PidFileOf(d) == StrOr(Get(d, "pid_file"), DefaultPid)

Channels(n) == {k \in {"ntfy_topic", "webhook_url"} : IsText(Get(n, k))}
Http(v) == ~IsText(v) \/ v.s = "http"           \* the text is an http(s) URL
NotifyOutcome(n) ==
    Outcome(<<OptionalBool(Get(n, "enabled")),
              OptionalInt(Get(n, "on_consecutive_failures"), 1, Unbounded),
              OptionalInt(Get(n, "cooldown"), 0, Unbounded),
              OptionalStr(Get(n, "ntfy_topic")), OptionalStr(Get(n, "ntfy_server")),
              OptionalStr(Get(n, "ntfy_token")), OptionalStr(Get(n, "webhook_url")),
              Must(Http(Get(n, "ntfy_server")) /\ Http(Get(n, "webhook_url")))>>)

WindowsOutcome(w) ==
    Outcome(<<OptionalStr(Get(w, "task_name")), OptionalStr(Get(w, "ssh_exe")),
              OptionalStr(Get(w, "pythonw_exe")), OptionalStr(Get(w, "run_as")),
              Must(StrOr(Get(w, "run_as"), "user") \in {"system", "user"})>>)

ServiceOutcome(s) ==
    Outcome(<<OptionalStr(Get(s, "name")), OptionalBool(Get(s, "autostart")),
              OptionalNumber(Get(s, "kill_timeout"), 0)>>)

Loopback(host) == host \in {"127.0.0.1", "localhost", "::1"}
Bindable(serve) == Loopback(serve.host) \/ serve.token # ""
ServeOf(s) == [host |-> StrOr(Get(s, "host"), "127.0.0.1"), token |-> StrOr(Get(s, "token"), "")]
ServeOutcome(s) ==
    Outcome(<<OptionalStr(Get(s, "host")), OptionalInt(Get(s, "port"), 1, 65535),
              OptionalStr(Get(s, "token")), OptionalInt(Get(s, "refresh"), 1, Unbounded),
              Must(Bindable(ServeOf(s)))>>)

KnownSsh == {"host", "port", "user", "identity_file", "known_hosts_file", "options",
             "jump", "proxy_jump"}
KnownTunnel == {"kind", "remote_port", "remote_host", "local_host", "local_port",
                "description"}
Known ==
    [retry |-> {"max_retries", "base_delay", "max_delay", "backoff_factor", "jitter",
                "stable_after"},
     health |-> {"check_interval", "remote_check_enabled", "remote_check_timeout",
                 "max_check_interval"},
     daemon |-> {"pid_file", "log_file", "log_max_bytes", "log_backup_count"},
     notify |-> {"enabled", "on_consecutive_failures", "cooldown", "ntfy_topic",
                 "ntfy_server", "ntfy_token", "webhook_url"},
     windows |-> {"task_name", "ssh_exe", "pythonw_exe", "run_as"},
     service |-> {"name", "autostart", "kill_timeout"},
     serve |-> {"host", "port", "token", "refresh"}]

Ignored(raw) ==
    (DOMAIN raw \ KnownTunnel)
    \cup IF KindOf(raw) = "dynamic" THEN DOMAIN raw \cap {"remote_host", "remote_port"} ELSE {}

\* What is ignored is at least said to be.  file.others: the keys that are not
\* known at the top level and in the items of [[profiles]].
Warnings(file) ==
    LET profiles == {file.profiles[j] : j \in DOMAIN file.profiles}
        tunnels == UNION {{p.tunnels[i] : i \in DOMAIN p.tunnels} : p \in profiles}
    IN
    {<<"file", k>> : k \in file.others}
    \cup UNION {{<<s, k>> : k \in DOMAIN file[s] \ Known[s]} : s \in DOMAIN Known}
    \cup {<<"ssh", k>> : k \in UNION {DOMAIN p.ssh \ KnownSsh : p \in profiles}}
    \cup {<<"tunnel", k>> : k \in UNION {Ignored(raw) : raw \in tunnels}}
    \cup IF BoolOr(Get(file.notify, "enabled"), FALSE) /\ Channels(file.notify) = {}
         THEN {<<"notify", "enabled">>} ELSE {}

-----------------------------------------------------------------------------
(* _validate, and the whole file.  keys: the key and known-hosts files that *)
(* exist.                                                                  *)

NoDuplicateTest(tunnels) == "ok"                \* Mutant
\* The ports of the server by their number, those of this machine by the text
\* of their address; each profile for itself.
DuplicateTest(tunnels) ==
    Must(\A i, j \in DOMAIN tunnels : i # j =>
            LET a == tunnels[i]
                b == tunnels[j]
            IN  \/ (a.kind = "remote") # (b.kind = "remote")
                \/ a.kind = "remote" /\ a.remotePort # b.remotePort
                \/ a.kind # "remote" /\ (a.localHost # b.localHost \/ a.localPort # b.localPort))

Validate(profiles, keys) ==
    Outcome([i \in DOMAIN profiles |->
        Outcome(<<Must(profiles[i].tunnels # <<>>), DuplicateTest(profiles[i].tunnels),
                  Must({profiles[i].identity, profiles[i].knownHosts} \subseteq keys \cup {""})>>)])

Missing == [text |-> "missing"]

\* What a file can be: the sections are functions of any keys, and the legacy
\* layout is one profile, the empty one if need be.
IsSequence(s) == s \in Seq({s[i] : i \in DOMAIN s})
IsProfile(p) == p = [name |-> p.name, ssh |-> p.ssh, tunnels |-> p.tunnels] /\ IsSequence(p.tunnels)
IsContents(c) ==
    /\ c.text \in {"toml", "broken", "binary"}
    /\ c.layout \in {"legacy", "profiles", "both"}
    /\ IsSequence(c.profiles) /\ \A i \in DOMAIN c.profiles : IsProfile(c.profiles[i])
    /\ c.layout = "legacy" => c.profiles # <<>>

LoadOutcome(file, keys) ==
    CASE file.text \in {"missing", "broken"} -> "error"
      [] file.text = "binary"                -> "crash"     \* not UTF-8
      [] OTHER ->
            LET sections == Outcome(<<ProfilesOutcome(file), DaemonOutcome(file.daemon),
                    RetryOutcome(file.retry), HealthOutcome(file.health),
                    NotifyOutcome(file.notify), WindowsOutcome(file.windows),
                    ServiceOutcome(file.service), ServeOutcome(file.serve)>>)
            IN  IF sections # "ok" THEN sections ELSE Validate(ProfilesOf(file), keys)

ConfigOf(file) ==
    [profiles |-> ProfilesOf(file), pidFile |-> PidFileOf(file.daemon),
     retry |-> file.retry, health |-> file.health,
     notify |-> [enabled |-> BoolOr(Get(file.notify, "enabled"), FALSE),
                 channels |-> Channels(file.notify)],
     serve |-> ServeOf(file.serve), warnings |-> Warnings(file) # {}]

\* daemon_paths_from_file: [daemon] alone, whatever the rest says.
PidFileAnyway(file) ==
    IF file.text \in {"missing", "broken"} \/ OptionalStr(Get(file.daemon, "pid_file")) # "ok"
       \/ OptionalStr(Get(file.daemon, "log_file")) # "ok"
    THEN DefaultPid ELSE PidFileOf(file.daemon)

-----------------------------------------------------------------------------
(* The command line of ssh (core.py): how to reach the server, and a flag   *)
(* with its argument for every rule.                                       *)

SpecOf(tunnel) ==
    CASE tunnel.kind = "dynamic" -> <<tunnel.localHost, tunnel.localPort>>
      [] tunnel.kind = "local" -> <<tunnel.localHost, tunnel.localPort,
              IF tunnel.remoteHost = "" THEN "localhost" ELSE tunnel.remoteHost, tunnel.remotePort>>
      [] OTHER ->
            IF tunnel.remoteHost = ""
            THEN <<tunnel.remotePort, tunnel.localHost, tunnel.localPort>>
            ELSE <<tunnel.remoteHost, tunnel.remotePort, tunnel.localHost, tunnel.localPort>>
Flag(tunnel) ==
    CASE tunnel.kind = "dynamic" -> "-D" [] tunnel.kind = "local" -> "-L" [] OTHER -> "-R"

ConnectionArgs(profile) ==
    [to |-> profile.host, options |-> profile.options, jump |-> profile.jumps,
     identity |-> profile.identity, knownHosts |-> profile.knownHosts]
BuildArgs(profile) ==
    [reach |-> ConnectionArgs(profile),
     forwards |-> [i \in DOMAIN profile.tunnels |->
                      [flag |-> Flag(profile.tunnels[i]), spec |-> SpecOf(profile.tunnels[i])]]]
RemotePorts(profile) ==
    {profile.tunnels[i].remotePort :
        i \in {j \in DOMAIN profile.tunnels : profile.tunnels[j].kind = "remote"}}
LocalPorts(profile) ==
    {profile.tunnels[i].localPort :
        i \in {j \in DOMAIN profile.tunnels : profile.tunnels[j].kind # "remote"}}

\* What ssh makes of an argument: the listener it opens, and where.
Listener(forward) ==
    IF forward.flag = "-R"
    THEN [side |-> "server", host |-> IF Len(forward.spec) = 4 THEN forward.spec[1] ELSE "",
          port |-> forward.spec[Len(forward.spec) - 2]]
    ELSE [side |-> "here", host |-> forward.spec[1], port |-> forward.spec[2]]
Interfaces(host) ==
    CASE host = "127.0.0.1"         -> {"lo"}
      [] host \in {"", "localhost"} -> {"lo", "lo6"}
      [] host = "0.0.0.0"           -> {"lo", "lan"}
      [] OTHER                      -> {"lan"}
Clash(a, b) ==
    a.side = b.side /\ a.port = b.port /\ Interfaces(a.host) \cap Interfaces(b.host) # {}
=============================================================================
