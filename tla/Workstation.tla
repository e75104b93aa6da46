----------------------------- MODULE Workstation -----------------------------
(***************************************************************************)
(* One user's machine as the commands of main.py see it: the places where  *)
(* a configuration file can be, the daemons that were started from them    *)
(* and the page of `ponte serve`.                                          *)
(*                                                                         *)
(* A command is one step here: what happens between the steps of two of    *)
(* them is the module Lifecycle's, and what a daemon does with a reload    *)
(* the module Daemon's.  A daemon keeps the file it was started from and   *)
(* the pid file it wrote; everybody else finds it through their own file.  *)
(***************************************************************************)
EXTENDS Doctor

CONSTANTS
    Contents,   \* what a user can write into a file
    Template,   \* config.example.toml
    Keys,       \* the key files that can exist
    Worlds,     \* what doctor can meet
    MaxEdits    \* bound: edits of the user

ASSUME ContentsAssumption == Template \in Contents /\ \A c \in Contents : IsContents(c)
ASSUME WorldsAssumption == Worlds \subseteq World
ASSUME EditsAssumption == MaxEdits \in Nat

Paths == {"flag", "env", "user", "legacy"}
PidFiles == {PidFileOf(c.daemon) : c \in {d \in Contents : d.text = "toml"}} \cup {DefaultPid}
NoDaemon == [on |-> FALSE]
NoPage == [on |-> FALSE]

VARIABLES
    disk,       \* what is at each path
    env,        \* $PONTE_CONFIG is set
    keys,       \* the key files that exist
    daemons,    \* by pid file
    page,       \* where `ponte serve` listens
    edits       \* bound

vars == <<disk, env, keys, daemons, page, edits>>

-----------------------------------------------------------------------------
(* Which file, and what a command makes of it.                             *)

\* config_search_paths; flag: --config was given.
Search(flag) ==
    (IF flag THEN <<"flag">> ELSE <<>>) \o (IF env THEN <<"env">> ELSE <<>>)
    \o <<"user", "legacy">>

There(flag) == {i \in DOMAIN Search(flag) : disk[Search(flag)[i]] # Missing}
Found(flag) == There(flag) # {}
Resolve(flag) == Search(flag)[First(There(flag))]
Read(flag) == IF Found(flag) THEN disk[Resolve(flag)] ELSE Missing

Load(file) == LoadOutcome(file, keys)
Loads(flag) == Load(Read(flag)) = "ok"
Effective(flag) == ConfigOf(Read(flag))

On(pidFile) == daemons[pidFile].on

StrictTarget(flag) == IF Loads(flag) THEN {Effective(flag).pidFile} ELSE {}     \* Mutant
\* _control_daemon: a file that does not load still tells where the daemon is,
\* unless reading it ends with another exception than a ConfigError.
Target(flag) ==
    CASE Loads(flag)                        -> {Effective(flag).pidFile}
      [] Load(Read(flag)) = "error"         -> {PidFileAnyway(Read(flag))}
      [] OTHER                              -> {}

-----------------------------------------------------------------------------
Init ==
    /\ disk \in [Paths -> Contents \cup {Missing}]
    /\ disk["flag"] = Missing /\ disk["env"] = Missing
    /\ disk["legacy"] \in {Missing, Template}
    /\ env \in BOOLEAN
    /\ keys = Keys
    /\ daemons = [p \in PidFiles |-> NoDaemon]
    /\ page = NoPage /\ edits = 0

\* An editor, or rm.
Edit ==
    /\ edits < MaxEdits /\ edits' = edits + 1
    /\ \E p \in Paths, c \in Contents \cup {Missing} : disk' = [disk EXCEPT ![p] = c]
    /\ UNCHANGED <<env, keys, daemons, page>>

KeyLost ==
    /\ edits < MaxEdits /\ edits' = edits + 1
    /\ keys # {} /\ keys' = {}
    /\ UNCHANGED <<disk, env, daemons, page>>

\* `ponte init`: the legacy file moves, or the template is copied.
InitConfig(force) ==
    /\ force \/ disk["user"] = Missing
    /\ disk' = [disk EXCEPT !["user"] = IF disk["legacy"] # Missing THEN disk["legacy"]
                                        ELSE Template]
    /\ UNCHANGED <<env, keys, daemons, page, edits>>

NewDaemon(flag) == [on |-> TRUE, source |-> Resolve(flag), config |-> Effective(flag)]

\* The child is given the file its parent found.
Start(flag) ==
    /\ Loads(flag) /\ ~On(Effective(flag).pidFile)
    /\ daemons' = [daemons EXCEPT ![Effective(flag).pidFile] = NewDaemon(flag)]
    /\ UNCHANGED <<disk, env, keys, page, edits>>

Stop(flag) ==
    /\ \E p \in Target(flag) : On(p) /\ daemons' = [daemons EXCEPT ![p] = NoDaemon]
    /\ UNCHANGED <<disk, env, keys, page, edits>>

Restart(flag) ==
    /\ Loads(flag) /\ On(Effective(flag).pidFile)
    /\ daemons' = [daemons EXCEPT ![Effective(flag).pidFile] = NewDaemon(flag)]
    /\ UNCHANGED <<disk, env, keys, page, edits>>

ReconcileBlindly(p) ==                  \* Mutant: a file that does not load is applied
    /\ On(p)
    /\ daemons' = [daemons EXCEPT ![p].config =
                      IF disk[daemons[p].source].text = "toml"
                      THEN ConfigOf(disk[daemons[p].source]) ELSE @]
\* _reconcile: the daemon's own file, which may load or not.
Reconcile(p) ==
    /\ On(p)
    /\ daemons' = [daemons EXCEPT ![p] =
                      IF Load(disk[@.source]) = "ok"
                      THEN [@ EXCEPT !.config = ConfigOf(disk[daemons[p].source])] ELSE @]

\* `ponte reload` looks at the file the user's command finds, first.
Reload(flag) ==
    /\ Loads(flag)
    /\ Reconcile(Effective(flag).pidFile)
    /\ UNCHANGED <<disk, env, keys, page, edits>>

\* SIGHUP asks nobody.
Hangup(p) ==
    /\ Reconcile(p)
    /\ UNCHANGED <<disk, env, keys, page, edits>>

\* _serve_config: what the command line says replaces what the file says.
Override(base, host, token) ==
    [host |-> IF host = "" THEN base.host ELSE host,
     token |-> IF token = "-" THEN base.token ELSE token]

BindsTheFiles(base, effective) == Bindable(base)        \* Mutant: checked before the override
Binds(base, effective) == Bindable(effective)

Serve(flag, demo) ==
    /\ demo \/ Loads(flag)
    /\ LET base == IF demo THEN ServeOf(NoKeys) ELSE Effective(flag).serve
       IN  \E host \in {"", "0.0.0.0"}, token \in {"-", "", "secret"} :
              /\ Binds(base, Override(base, host, token))
              /\ page' = [on |-> TRUE, demo |-> demo, serve |-> Override(base, host, token)]
    /\ UNCHANGED <<disk, env, keys, daemons, edits>>

ServeEnds ==
    /\ page # NoPage /\ page' = NoPage
    /\ UNCHANGED <<disk, env, keys, daemons, edits>>

\* The page changes nothing behind it.
Next ==
    \/ ServeEnds
    \/ /\ page = NoPage
       /\ \/ Edit \/ KeyLost
          \/ \E force \in BOOLEAN : InitConfig(force)
          \/ \E flag \in BOOLEAN : Start(flag) \/ Stop(flag) \/ Restart(flag) \/ Reload(flag)
          \/ \E p \in PidFiles : Hangup(p)
          \/ \E flag, demo \in BOOLEAN : Serve(flag, demo)

Spec == Init /\ [][Next]_vars

-----------------------------------------------------------------------------
(* Properties.                                                             *)

\* Types; a daemon never runs on a configuration that was not accepted whole.
Accepted == {ConfigOf(c) : c \in {d \in Contents : LoadOutcome(d, Keys) = "ok"}}
WorkstationTypeOK ==
    /\ disk \in [Paths -> Contents \cup {Missing}]
    /\ env \in BOOLEAN /\ keys \subseteq Keys /\ edits \in 0 .. MaxEdits
    /\ \A p \in PidFiles : On(p) =>
          /\ daemons[p].source \in Paths
          /\ daemons[p].config \in Accepted

\* "Every forward is established with ExitOnForwardFailure=yes, so a duplicate
\* listen request makes OpenSSH drop the whole connection": whatever was edited
\* and reloaded, ssh is never asked for a listener that clashes with another of
\* its profile, unless the two are spelled as different addresses of this
\* machine; nor for two ways to reach the server at once.
NoSelfConflict ==
    \A p \in PidFiles : On(p) =>
        \A i \in DOMAIN daemons[p].config.profiles :
            LET args == BuildArgs(daemons[p].config.profiles[i])
                listener(k) == Listener(args.forwards[k])
            IN  /\ args.forwards # <<>>
                /\ \A j, k \in DOMAIN args.forwards :
                      j # k /\ Clash(listener(j), listener(k)) =>
                          listener(j).side = "here" /\ listener(j).host # listener(k).host
                /\ args.reach.jump # <<>> =>
                      args.reach.options \cap {"ProxyJump", "ProxyCommand"} = {}

\* "A single typo must not lock the user out of stopping the daemon": a command
\* that finds the daemon's own file finds the daemon, whatever else that file has
\* come to say, as long as it is TOML, the paths of [daemon] are what they were
\* and every number is finite.
ControlFindsDaemon ==
    \A p \in PidFiles, flag \in BOOLEAN :
        LET file == Read(flag)
        IN  /\ On(p) /\ Found(flag) /\ daemons[p].source = Resolve(flag)
            /\ file.text = "toml" /\ PidFileOf(file.daemon) = p
            /\ DaemonOutcome(file.daemon) = "ok" /\ Load(file) # "crash"
            => p \in Target(flag)

\* The page is never exposed to the network without a token, whichever of the
\* file, the command line and the demonstration its settings come from.
PageGuarded == page # NoPage => Loopback(page.serve.host) \/ page.serve.token # ""

-----------------------------------------------------------------------------
(* `ponte doctor` changes nothing: what it would say, in every world and of *)
(* every file that loads.                                                  *)

\* Behind a page it would say what it says without.
Asked == {flag \in BOOLEAN : page = NoPage /\ Loads(flag)}
Running(flag) == On(Effective(flag).pidFile)
Report(flag, w, offline) == RunChecks(Effective(flag), w, keys, Running(flag), offline)

\* Doctor has no false alarm, and blames the right profile.  Beside a daemon that
\* found nothing wrong it fails nothing offline, whatever the machine, the server
\* and the chain are like; and online exactly those profiles whose server ssh does
\* not reach from here now, whose first hop no socket reaches by its name, or whose
\* ports a probe that ran saw closed.  (The first two can be so of a tunnel that
\* works: a chain ssh gets through by an alias of ~/.ssh/config has a hop that "is
\* down".)
Calm(w) == w.ssh # "raises" /\ w.log # "nowhere" /\ w.health # "no"
CanAlert(notify) == notify.enabled => notify.channels # {}
Reachable(w, profile) ==
    /\ LoginWorks(w, profile)
    /\ profile.jumps # <<>> => w.direct
    /\ RemotePorts(profile) # {} /\ w.probe => w.remote
NoFalseAlarm ==
    \A flag \in Asked : Running(flag) /\ CanAlert(Effective(flag).notify) =>
        \A w \in {v \in Worlds : Calm(v)} :
            LET profiles == Effective(flag).profiles
                report(offline) == Report(flag, w, offline)
                blamed == {i \in DOMAIN profiles : Has(report(FALSE).profiles[i], "fail")}
            IN  /\ ExitCode(report(TRUE)) = 0
                /\ ExitCode(report(FALSE)) = IF blamed = {} THEN 0 ELSE 1
                /\ blamed = {i \in DOMAIN profiles : ~Reachable(w, profiles[i])}

\* Nothing but passed checks means that every tunnel carries traffic.
Flowing(w, profile) ==
    /\ LoginWorks(w, profile)
    /\ RemotePorts(profile) # {} => w.remote
    /\ LocalPorts(profile) # {} => w.local
ClearMeansFlowing ==
    \A flag \in Asked, w \in Worlds :
        LET report == Report(flag, w, FALSE)
            profiles == Effective(flag).profiles
        IN  ~Has(RowsOf(report), "warn") /\ ExitCode(report) = 0 =>
                Running(flag) /\ \A i \in DOMAIN profiles : Flowing(w, profiles[i])
=============================================================================
