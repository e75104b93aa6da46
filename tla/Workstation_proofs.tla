-------------------------- MODULE Workstation_proofs --------------------------
(***************************************************************************)
(* Proofs about Workstation, for every set of files a user can write, of   *)
(* key files and of worlds, and for any number of edits.                   *)
(*                                                                         *)
(* What loading accepts comes first: Outcome is "ok" when all its checks   *)
(* are, so that from the outcome of a file follows that of every part of   *)
(* it.  The invariant then says that a daemon runs on a configuration that *)
(* was accepted; the properties of its ssh and of `ponte doctor` are facts *)
(* about such a configuration.                                             *)
(***************************************************************************)
EXTENDS Workstation, WellFoundedInduction, TLAPS

-----------------------------------------------------------------------------
(* The first of several.                                                   *)

LEMMA LeastIndex ==
    ASSUME NEW S \in SUBSET Nat, S # {}
    PROVE  \E i \in S : \A j \in S : i <= j
<1>1. PICK x \in S : \A y \in S : ~ (<<y, x>> \in OpToRel(<, Nat))
    BY WFMin, NatLessThanWellFounded, Zenon
<1>2. ASSUME NEW y \in S PROVE x <= y
  <2>1. <<y, x>> \notin {ss \in Nat \X Nat : ss[1] < ss[2]}
    BY <1>1, Zenon DEF OpToRel
  <2>2. QED
    BY <2>1
<1>3. QED
    BY <1>2

LEMMA FirstIsThere ==
    ASSUME NEW S \in SUBSET Nat, S # {}
    PROVE  First(S) \in S
BY LeastIndex DEF First

Results == {"ok", "error", "crash"}

\* What the checks say together: nothing is wrong if nothing is wrong with any
\* of them, and what is wrong is wrong with one of them.
LEMMA OutcomeIs ==
    ASSUME NEW checks, DOMAIN checks \in SUBSET Nat
    PROVE  /\ Outcome(checks) = "ok" <=> \A i \in DOMAIN checks : checks[i] = "ok"
           /\ (\A i \in DOMAIN checks : checks[i] \in Results) => Outcome(checks) \in Results
<1> DEFINE bad == {i \in DOMAIN checks : checks[i] # "ok"}
<1>1. CASE bad = {}
    BY <1>1 DEF Outcome, Results
<1>2. CASE bad # {}
  <2>1. First(bad) \in bad
    BY <1>2, FirstIsThere
  <2>2. Outcome(checks) = checks[First(bad)]
    BY <1>2 DEF Outcome
  <2>3. QED
    BY <2>1, <2>2
<1>3. QED
    BY <1>1, <1>2

-----------------------------------------------------------------------------
(* What is known of a file that is accepted.                               *)

LEMMA DomainOfSequence ==
    ASSUME NEW s, IsSequence(s)
    PROVE  DOMAIN s \in SUBSET Nat
BY DEF IsSequence

LEMMA TunnelKind ==
    ASSUME NEW raw, TunnelOutcome(raw) = "ok"
    PROVE  KindOf(raw) \in Kinds
BY OutcomeIs DEF TunnelOutcome, Must

LEMMA OneWay ==
    ASSUME NEW ssh, SshOutcome(ssh) = "ok"
    PROVE  Jumps(ssh) # <<>> => DOMAIN ssh.options \cap {"ProxyJump", "ProxyCommand"} = {}
BY OutcomeIs DEF SshOutcome, ConflictTest, Must

Sound(profile) ==
    /\ profile.jumps # <<>> => profile.options \cap {"ProxyJump", "ProxyCommand"} = {}
    /\ \A i \in DOMAIN profile.tunnels : profile.tunnels[i].kind \in Kinds
    /\ profile.tunnels = [i \in DOMAIN profile.tunnels |-> profile.tunnels[i]]

LEMMA ProfileIsSound ==
    ASSUME NEW raw, IsProfile(raw), NEW taken, ProfileOutcome(raw, taken) = "ok"
    PROVE  Sound(ProfileOf(raw))
<1> DEFINE tunnels == [i \in DOMAIN raw.tunnels |-> TunnelOutcome(raw.tunnels[i])]
<1>1. SshOutcome(raw.ssh) = "ok" /\ Outcome(tunnels) = "ok"
    BY OutcomeIs DEF ProfileOutcome
<1>2. \A i \in DOMAIN raw.tunnels : TunnelOutcome(raw.tunnels[i]) = "ok"
  <2>1. DOMAIN tunnels \in SUBSET Nat
    BY DomainOfSequence DEF IsProfile
  <2>2. QED
    BY <1>1, <2>1, OutcomeIs
<1>3. QED
    BY <1>1, <1>2, OneWay, TunnelKind DEF Sound, ProfileOf, TunnelOf

LEMMA ProfilesAreSound ==
    ASSUME NEW file, IsContents(file), ProfilesOutcome(file) = "ok"
    PROVE  \A i \in DOMAIN ProfilesOf(file) : Sound(ProfilesOf(file)[i])
<1>1. CASE file.layout = "legacy"
  <2> DEFINE raw == [file.profiles[1] EXCEPT !.name = Text("default")]
  <2>1. IsProfile(file.profiles[1])
    BY <1>1 DEF IsContents, IsSequence
  <2>2. IsProfile(raw)
    BY <2>1 DEF IsProfile
  <2>3. ProfileOutcome(raw, {}) = "ok" /\ ProfilesOf(file) = <<ProfileOf(raw)>>
    BY <1>1 DEF ProfilesOutcome, ProfilesOf
  <2>4. QED
    BY <2>2, <2>3, ProfileIsSound
<1>2. CASE file.layout = "profiles"
  <2> DEFINE taken(i) == {file.profiles[j].name.s : j \in 1 .. i - 1}
             checks == [i \in DOMAIN file.profiles |-> ProfileOutcome(file.profiles[i], taken(i))]
  <2>1. ProfilesOutcome(file) = Outcome(<<Must(file.profiles # <<>>), Outcome(checks)>>)
    BY <1>2 DEF ProfilesOutcome
  <2> HIDE DEF taken
  <2>3. DOMAIN checks \in SUBSET Nat
    BY DomainOfSequence DEF IsContents
  <2>2. Outcome(checks) = "ok"
    <3> HIDE DEF checks
    <3> QED
      BY <2>1, OutcomeIs
  <2>4. \A i \in DOMAIN file.profiles : ProfileOutcome(file.profiles[i], taken(i)) = "ok"
    BY <2>2, <2>3, OutcomeIs
  <2>5. \A i \in DOMAIN file.profiles : Sound(ProfileOf(file.profiles[i]))
    BY <2>4, ProfileIsSound DEF IsContents
  <2>6. QED
    BY <1>2, <2>5 DEF ProfilesOf
<1>3. CASE file.layout = "both"
    BY <1>3 DEF ProfilesOutcome
<1>4. QED
    BY <1>1, <1>2, <1>3 DEF IsContents

Valid(profile, files) ==
    /\ profile.tunnels # <<>>
    /\ DuplicateTest(profile.tunnels) = "ok"
    /\ {profile.identity, profile.knownHosts} \subseteq files \cup {""}

LEMMA ProfilesInOrder ==
    ASSUME NEW file, IsContents(file)
    PROVE  DOMAIN ProfilesOf(file) \in SUBSET Nat
BY DomainOfSequence DEF IsContents, ProfilesOf

LEMMA DuplicateVerdict ==
    ASSUME NEW tunnels
    PROVE  DuplicateTest(tunnels) \in Results
BY Zenon DEF DuplicateTest, Must, Results

LEMMA ThreeChecks ==
    ASSUME NEW a \in Results, NEW b \in Results, NEW c \in Results
    PROVE  /\ Outcome(<<a, b, c>>) \in Results
           /\ Outcome(<<a, b, c>>) = "ok" <=> a = "ok" /\ b = "ok" /\ c = "ok"
BY OutcomeIs

LEMMA ValidIs ==
    ASSUME NEW profiles, DOMAIN profiles \in SUBSET Nat, NEW files
    PROVE  /\ Validate(profiles, files) \in Results
           /\ Validate(profiles, files) = "ok" <=>
                 \A i \in DOMAIN profiles : Valid(profiles[i], files)
<1> DEFINE rules(i) == Must(profiles[i].tunnels # <<>>)
           single(i) == DuplicateTest(profiles[i].tunnels)
           exist(i) == Must({profiles[i].identity, profiles[i].knownHosts} \subseteq files \cup {""})
           checks == [i \in DOMAIN profiles |-> Outcome(<<rules(i), single(i), exist(i)>>)]
<1>1. Validate(profiles, files) = Outcome(checks)
    BY DEF Validate
<1>2. ASSUME NEW i \in DOMAIN profiles
      PROVE  /\ rules(i) \in Results /\ single(i) \in Results /\ exist(i) \in Results
             /\ Valid(profiles[i], files) <=>
                   rules(i) = "ok" /\ single(i) = "ok" /\ exist(i) = "ok"
  <2>1. rules(i) \in Results /\ (rules(i) = "ok" <=> profiles[i].tunnels # <<>>)
    BY DEF Must, Results
  <2>2. single(i) \in Results
    BY DuplicateVerdict
  <2>3. /\ exist(i) \in Results
        /\ exist(i) = "ok" <=>
              {profiles[i].identity, profiles[i].knownHosts} \subseteq files \cup {""}
    BY Zenon DEF Must, Results
  <2>4. QED
    BY <2>1, <2>2, <2>3, Zenon DEF Valid
<1> HIDE DEF rules, single, exist
<1>3. DOMAIN checks \in SUBSET Nat
    OBVIOUS
<1>4. ASSUME NEW i \in DOMAIN profiles
      PROVE  checks[i] \in Results /\ (checks[i] = "ok" <=> Valid(profiles[i], files))
    BY <1>2, ThreeChecks
<1>5. DOMAIN checks = DOMAIN profiles
    OBVIOUS
<1> HIDE DEF checks
<1>6. QED
    BY <1>1, <1>3, <1>4, <1>5, OutcomeIs

LEMMA LoadedIs ==
    ASSUME NEW file, IsContents(file), NEW files, LoadOutcome(file, files) = "ok"
    PROVE  /\ file.text = "toml" /\ ProfilesOutcome(file) = "ok"
           /\ Validate(ProfilesOf(file), files) = "ok"
BY OutcomeIs DEF LoadOutcome, IsContents

\* A file that loads still does when there are more files beside it.
LEMMA MoreKeys ==
    ASSUME NEW file, IsContents(file), NEW more, NEW files \in SUBSET more,
           LoadOutcome(file, files) = "ok"
    PROVE  LoadOutcome(file, more) = "ok"
<1> DEFINE profiles == ProfilesOf(file)
<1>0. DOMAIN profiles \in SUBSET Nat
    BY ProfilesInOrder
<1>1. \A i \in DOMAIN profiles : Valid(profiles[i], files)
    BY <1>0, LoadedIs, ValidIs
<1>2. \A i \in DOMAIN profiles : Valid(profiles[i], more)
    BY <1>1 DEF Valid
<1>3. Validate(profiles, more) = "ok"
    BY <1>0, <1>2, ValidIs
<1>4. QED
    BY <1>3, LoadedIs DEF LoadOutcome

-----------------------------------------------------------------------------
(* Loading ends in one of three ways.                                      *)

LEMMA HelperResults ==
    ASSUME NEW v, NEW lo, NEW hi
    PROVE  /\ RequireStr(v) \in Results /\ OptionalStr(v) \in Results
           /\ RequiredInt(v, lo, hi) \in Results /\ OptionalInt(v, lo, hi) \in Results
           /\ OptionalNumber(v, lo) \in Results /\ OptionalBool(v) \in Results
BY DEF RequireStr, OptionalStr, RequiredInt, OptionalInt, CheckInt, OptionalNumber,
       OptionalBool, Must, Results

LEMMA MustResult ==
    ASSUME NEW b
    PROVE  Must(b) \in Results
BY Zenon DEF Must, Results

LEMMA TunnelResult ==
    ASSUME NEW raw
    PROVE  TunnelOutcome(raw) \in Results
<1> DEFINE remote == Outcome(<<RequiredInt(Get(raw, "remote_port"), 1, 65535),
                               OptionalStr(Get(raw, "remote_host")),
                               IF KindOf(raw) = "local" THEN OptionalStr(Get(raw, "local_host"))
                               ELSE RequireStr(Get(raw, "local_host")),
                               Must(KindOf(raw) = "local" => IsText(Get(raw, "remote_host")))>>)
<1>1. remote \in Results
    BY OutcomeIs, HelperResults, MustResult
<1>2. QED
    BY <1>1, OutcomeIs, HelperResults, MustResult DEF TunnelOutcome

LEMMA SshResult ==
    ASSUME NEW ssh
    PROVE  SshOutcome(ssh) \in Results
<1>1. \A S : OutcomeOf(S) \in Results
    BY Zenon DEF OutcomeOf, Results
<1>2. JumpOutcome(ssh) \in Results /\ ConflictTest(ssh) \in Results
    BY Zenon, MustResult DEF JumpOutcome, ConflictTest, Results
<1>3. QED
    BY <1>1, <1>2, OutcomeIs, HelperResults DEF SshOutcome

LEMMA ProfileResult ==
    ASSUME NEW raw, IsProfile(raw), NEW taken
    PROVE  ProfileOutcome(raw, taken) \in Results
<1> DEFINE tunnels == [i \in DOMAIN raw.tunnels |-> TunnelOutcome(raw.tunnels[i])]
<1>1. Outcome(tunnels) \in Results
    BY OutcomeIs, TunnelResult, DomainOfSequence DEF IsProfile
<1>2. QED
    BY <1>1, OutcomeIs, HelperResults, MustResult, SshResult DEF ProfileOutcome

LEMMA SectionResults ==
    ASSUME NEW s
    PROVE  /\ RetryOutcome(s) \in Results /\ HealthOutcome(s) \in Results
           /\ DaemonOutcome(s) \in Results /\ NotifyOutcome(s) \in Results
           /\ WindowsOutcome(s) \in Results /\ ServiceOutcome(s) \in Results
           /\ ServeOutcome(s) \in Results
<1>1. RetryOutcome(s) \in Results
    BY OutcomeIs, HelperResults DEF RetryOutcome
<1>2. HealthOutcome(s) \in Results
    BY OutcomeIs, HelperResults DEF HealthOutcome
<1>3. DaemonOutcome(s) \in Results
    BY OutcomeIs, HelperResults DEF DaemonOutcome
<1>4. NotifyOutcome(s) \in Results
    BY OutcomeIs, HelperResults, MustResult DEF NotifyOutcome
<1>5. WindowsOutcome(s) \in Results
    BY OutcomeIs, HelperResults, MustResult DEF WindowsOutcome
<1>6. ServiceOutcome(s) \in Results
    BY OutcomeIs, HelperResults DEF ServiceOutcome
<1>7. ServeOutcome(s) \in Results
    BY OutcomeIs, HelperResults, MustResult DEF ServeOutcome
<1>8. QED
    BY <1>1, <1>2, <1>3, <1>4, <1>5, <1>6, <1>7

LEMMA ProfilesResult ==
    ASSUME NEW file, IsContents(file)
    PROVE  ProfilesOutcome(file) \in Results
<1>1. CASE file.layout = "legacy"
  <2> DEFINE raw == [file.profiles[1] EXCEPT !.name = Text("default")]
  <2>1. IsProfile(file.profiles[1])
    BY <1>1 DEF IsContents, IsSequence
  <2>2. IsProfile(raw)
    BY <2>1 DEF IsProfile
  <2>3. QED
    BY <1>1, <2>2, ProfileResult DEF ProfilesOutcome
<1>2. CASE file.layout = "profiles"
  <2> DEFINE taken(i) == {file.profiles[j].name.s : j \in 1 .. i - 1}
             checks == [i \in DOMAIN file.profiles |-> ProfileOutcome(file.profiles[i], taken(i))]
  <2>1. ProfilesOutcome(file) = Outcome(<<Must(file.profiles # <<>>), Outcome(checks)>>)
    BY <1>2 DEF ProfilesOutcome
  <2> HIDE DEF taken
  <2>2. Outcome(checks) \in Results
    BY OutcomeIs, ProfileResult, DomainOfSequence DEF IsContents
  <2> HIDE DEF checks
  <2>3. QED
    BY <2>1, <2>2, OutcomeIs, MustResult
<1>3. CASE file.layout = "both"
    BY <1>3 DEF ProfilesOutcome, Results
<1>4. QED
    BY <1>1, <1>2, <1>3 DEF IsContents

LEMMA LoadResult ==
    ASSUME NEW file, IsContents(file), NEW files
    PROVE  LoadOutcome(file, files) \in Results
<1> DEFINE sections == Outcome(<<ProfilesOutcome(file), DaemonOutcome(file.daemon),
                    RetryOutcome(file.retry), HealthOutcome(file.health),
                    NotifyOutcome(file.notify), WindowsOutcome(file.windows),
                    ServiceOutcome(file.service), ServeOutcome(file.serve)>>)
<1>1. sections \in Results
    BY OutcomeIs, ProfilesResult, SectionResults
<1>2. Validate(ProfilesOf(file), files) \in Results
    BY ValidIs, ProfilesInOrder
<1>3. QED
    BY <1>1, <1>2 DEF LoadOutcome, IsContents, Results

-----------------------------------------------------------------------------
(* Files and daemons.                                                      *)

LEMMA SearchIs ==
    ASSUME NEW flag \in BOOLEAN, Found(flag)
    PROVE  Resolve(flag) \in Paths /\ disk[Resolve(flag)] # Missing
<1>1. DOMAIN Search(flag) \in SUBSET Nat /\ \A i \in DOMAIN Search(flag) : Search(flag)[i] \in Paths
    BY DEF Search, Paths
<1>2. First(There(flag)) \in There(flag)
    BY <1>1, FirstIsThere DEF There, Found
<1>3. QED
    BY <1>1, <1>2 DEF Resolve, There

Started == [on : {TRUE}, source : Paths, config : Accepted]

\* Types, and what a place for a daemon holds.
WorkInv ==
    /\ disk \in [Paths -> Contents \cup {Missing}]
    /\ env \in BOOLEAN /\ keys \subseteq Keys /\ edits \in 0 .. MaxEdits
    /\ daemons \in [PidFiles -> Started \cup {NoDaemon}]

LEMMA LoadedFile ==
    ASSUME WorkInv, NEW p \in Paths, Load(disk[p]) = "ok"
    PROVE  /\ disk[p] \in Contents /\ disk[p].text = "toml"
           /\ ConfigOf(disk[p]) \in Accepted /\ PidFileOf(disk[p].daemon) \in PidFiles
<1>1. disk[p] \in Contents
    BY DEF WorkInv, Load, LoadOutcome, Missing
<1>2. IsContents(disk[p])
    BY <1>1, ContentsAssumption
<1>3. LoadOutcome(disk[p], Keys) = "ok"
    BY <1>2, MoreKeys DEF WorkInv, Load
<1>4. disk[p].text = "toml"
    BY <1>2, <1>3, LoadedIs
<1>5. QED
    BY <1>1, <1>3, <1>4 DEF Accepted, PidFiles

LEMMA LoadedByCommand ==
    ASSUME WorkInv, NEW flag \in BOOLEAN, Loads(flag)
    PROVE  /\ Found(flag) /\ Resolve(flag) \in Paths /\ Read(flag) = disk[Resolve(flag)]
           /\ Read(flag) \in Contents /\ Read(flag).text = "toml"
           /\ Effective(flag) \in Accepted /\ Effective(flag).pidFile \in PidFiles
<1>1. Found(flag)
    BY DEF Loads, Read, Load, LoadOutcome, Missing
<1>2. Resolve(flag) \in Paths /\ Read(flag) = disk[Resolve(flag)]
    BY <1>1, SearchIs DEF Read
<1>3. Load(disk[Resolve(flag)]) = "ok"
    BY <1>2 DEF Loads
<1>4. Effective(flag).pidFile = PidFileOf(Read(flag).daemon)
    BY DEF Effective, ConfigOf
<1>5. QED
    BY <1>1, <1>2, <1>3, <1>4, LoadedFile DEF Effective

LEMMA InitWork == Init => WorkInv
BY EditsAssumption, ContentsAssumption DEF Init, WorkInv

LEMMA StartedHere ==
    ASSUME WorkInv, NEW flag \in BOOLEAN, Loads(flag)
    PROVE  [daemons EXCEPT ![Effective(flag).pidFile] = NewDaemon(flag)]
               \in [PidFiles -> Started \cup {NoDaemon}]
<1>1. NewDaemon(flag) \in Started
    BY LoadedByCommand DEF NewDaemon, Started
<1>2. QED
    BY <1>1, LoadedByCommand DEF WorkInv

LEMMA StartedThere ==
    ASSUME WorkInv, NEW p \in PidFiles, On(p)
    PROVE  daemons[p] \in Started
<1>1. daemons[p] \in Started \cup {NoDaemon}
    BY DEF WorkInv
<1>2. ~ NoDaemon.on
    BY DEF NoDaemon
<1>3. daemons[p] # NoDaemon
    BY <1>2, Zenon DEF On
<1>4. QED
    BY <1>1, <1>3

LEMMA Reconciled ==
    ASSUME WorkInv, NEW p \in PidFiles, Reconcile(p)
    PROVE  daemons' \in [PidFiles -> Started \cup {NoDaemon}]
<1> DEFINE file == disk[daemons[p].source]
<1>1. daemons[p] \in Started
    BY StartedThere DEF Reconcile
<1>2. daemons[p].source \in Paths
    BY <1>1 DEF Started
<1>3. Load(file) = "ok" => [daemons[p] EXCEPT !.config = ConfigOf(file)] \in Started
    BY <1>1, <1>2, LoadedFile DEF Started
<1>4. QED
    BY <1>1, <1>3 DEF WorkInv, Reconcile

LEMMA NextWork == WorkInv /\ [Next]_vars => WorkInv'
<1> SUFFICES ASSUME WorkInv, [Next]_vars
             PROVE  WorkInv'
    OBVIOUS
<1>1. ASSUME Edit PROVE WorkInv'
    BY <1>1, EditsAssumption DEF WorkInv, Edit
<1>2. ASSUME KeyLost PROVE WorkInv'
    BY <1>2, EditsAssumption DEF WorkInv, KeyLost
<1>3. ASSUME NEW force \in BOOLEAN, InitConfig(force) PROVE WorkInv'
  <2>1. (IF disk["legacy"] # Missing THEN disk["legacy"] ELSE Template) \in Contents \cup {Missing}
    BY ContentsAssumption DEF WorkInv, Paths
  <2>2. QED
    BY <1>3, <2>1 DEF WorkInv, InitConfig
<1>4. ASSUME NEW flag \in BOOLEAN, Start(flag) PROVE WorkInv'
    BY <1>4, StartedHere DEF WorkInv, Start
<1>5. ASSUME NEW flag \in BOOLEAN, Stop(flag) PROVE WorkInv'
    BY <1>5 DEF WorkInv, Stop
<1>6. ASSUME NEW flag \in BOOLEAN, Restart(flag) PROVE WorkInv'
    BY <1>6, StartedHere DEF WorkInv, Restart
<1>7. ASSUME NEW flag \in BOOLEAN, Reload(flag) PROVE WorkInv'
  <2>1. daemons' \in [PidFiles -> Started \cup {NoDaemon}]
    BY <1>7, LoadedByCommand, Reconciled DEF Reload
  <2>2. QED
    BY <1>7, <2>1 DEF WorkInv, Reload
<1>8. ASSUME NEW p \in PidFiles, Hangup(p) PROVE WorkInv'
  <2>1. daemons' \in [PidFiles -> Started \cup {NoDaemon}]
    BY <1>8, Reconciled DEF Hangup
  <2>2. QED
    BY <1>8, <2>1 DEF WorkInv, Hangup
<1>9. ASSUME NEW flag \in BOOLEAN, NEW demo \in BOOLEAN, Serve(flag, demo) PROVE WorkInv'
    BY <1>9 DEF WorkInv, Serve
<1>10. CASE ServeEnds \/ UNCHANGED vars
    BY <1>10 DEF WorkInv, ServeEnds, vars
<1>11. QED
    BY <1>1, <1>2, <1>3, <1>4, <1>5, <1>6, <1>7, <1>8, <1>9, <1>10 DEF Next

LEMMA SpecWork == Spec => []WorkInv
BY InitWork, NextWork, PTL DEF Spec

\* A daemon that runs, runs on what was accepted.
LEMMA RunsOnAccepted ==
    ASSUME WorkInv, NEW p \in PidFiles, On(p)
    PROVE  daemons[p].source \in Paths /\ daemons[p].config \in Accepted
BY StartedThere DEF Started

\* Every place holds a file or none, and a daemon runs on a configuration that
\* was accepted as a whole: what is edited, reloaded or half written afterwards
\* does not get into it.
THEOREM WorkstationTypes == Spec => []WorkstationTypeOK
<1>1. WorkInv => WorkstationTypeOK
    BY RunsOnAccepted DEF WorkInv, WorkstationTypeOK
<1>2. QED
    BY <1>1, SpecWork, PTL

\* A command that finds the file of a daemon finds the daemon: when the file
\* loads its pid file is the one it names, and when it does not the pid file is
\* read from [daemon] alone.
THEOREM ControlAlwaysFinds == Spec => []ControlFindsDaemon
<1>1. ASSUME WorkInv, NEW p \in PidFiles, NEW flag \in BOOLEAN,
             On(p), Found(flag), Read(flag).text = "toml",
             PidFileOf(Read(flag).daemon) = p, DaemonOutcome(Read(flag).daemon) = "ok",
             Load(Read(flag)) # "crash"
      PROVE  p \in Target(flag)
  <2>1. Read(flag) \in Contents
    BY <1>1, SearchIs DEF WorkInv, Read
  <2>2. Load(Read(flag)) \in Results
    BY <2>1, ContentsAssumption, LoadResult DEF Load
  <2>3. CASE Load(Read(flag)) = "ok"
    BY <1>1, <2>3 DEF Target, Loads, Effective, ConfigOf
  <2>4. CASE Load(Read(flag)) = "error"
    <3>1. /\ OptionalStr(Get(Read(flag).daemon, "pid_file")) = "ok"
          /\ OptionalStr(Get(Read(flag).daemon, "log_file")) = "ok"
      BY <1>1, OutcomeIs DEF DaemonOutcome
    <3>2. PidFileAnyway(Read(flag)) = p
      BY <1>1, <3>1 DEF PidFileAnyway
    <3>3. QED
      BY <2>4, <3>2 DEF Target, Loads
  <2>5. QED
    BY <1>1, <2>2, <2>3, <2>4 DEF Results
<1>2. WorkInv => ControlFindsDaemon
    BY <1>1 DEF ControlFindsDaemon
<1>3. QED
    BY <1>2, SpecWork, PTL

\* A page that listens was checked with the settings it listens with.
LEMMA NextGuarded == PageGuarded /\ [Next]_vars => PageGuarded'
<1> SUFFICES ASSUME PageGuarded, [Next]_vars
             PROVE  PageGuarded'
    OBVIOUS
<1>1. ASSUME NEW flag \in BOOLEAN, NEW demo \in BOOLEAN, Serve(flag, demo) PROVE PageGuarded'
  <2>1. PICK serve : page' = [on |-> TRUE, demo |-> demo, serve |-> serve] /\ Bindable(serve)
    BY <1>1 DEF Serve, Binds
  <2>2. QED
    BY <2>1 DEF PageGuarded, Bindable
<1>2. ASSUME ServeEnds PROVE PageGuarded'
    BY <1>2 DEF ServeEnds, PageGuarded
<1>3. ASSUME UNCHANGED page PROVE PageGuarded'
    BY <1>3 DEF PageGuarded
<1>4. QED
    BY <1>1, <1>2, <1>3 DEF Next, Edit, KeyLost, InitConfig, Start, Stop, Restart, Reload,
                            Hangup, vars

\* The page is on this machine's own addresses or asks for a token, whether its
\* settings come from a file, the command line or the demonstration.
THEOREM PageAlwaysGuarded == Spec => []PageGuarded
<1>1. Init => PageGuarded
    BY DEF Init, PageGuarded
<1>2. QED
    BY <1>1, NextGuarded, PTL DEF Spec

-----------------------------------------------------------------------------
(* The listeners of a profile.                                             *)

LEMMA AcceptedIs ==
    ASSUME NEW config \in Accepted
    PROVE  /\ DOMAIN config.profiles \in SUBSET Nat
           /\ \A i \in DOMAIN config.profiles :
                 Sound(config.profiles[i]) /\ Valid(config.profiles[i], Keys)
<1>1. PICK c \in Contents : config = ConfigOf(c) /\ LoadOutcome(c, Keys) = "ok"
    BY DEF Accepted
<1>2. config.profiles = ProfilesOf(c) /\ IsContents(c)
    BY <1>1, ContentsAssumption DEF ConfigOf
<1>3. QED
    BY <1>1, <1>2, LoadedIs, ProfilesAreSound, ProfilesInOrder, ValidIs

ForwardOf(tunnel) == [flag |-> Flag(tunnel), spec |-> SpecOf(tunnel)]

LEMMA ListenerIs ==
    ASSUME NEW tunnel, tunnel.kind \in Kinds
    PROVE  LET l == Listener(ForwardOf(tunnel))
           IN  /\ tunnel.kind = "remote" => l.side = "server" /\ l.port = tunnel.remotePort
               /\ tunnel.kind # "remote" => /\ l.side = "here" /\ l.host = tunnel.localHost
                                            /\ l.port = tunnel.localPort
<1>1. CASE tunnel.kind = "remote"
  <2> DEFINE spec == SpecOf(tunnel)
  <2>1. spec[Len(spec) - 2] = tunnel.remotePort
    <3>1. CASE tunnel.remoteHost = ""
      <4>1. spec = <<tunnel.remotePort, tunnel.localHost, tunnel.localPort>>
        BY <1>1, <3>1 DEF SpecOf
      <4> HIDE DEF spec
      <4>2. Len(spec) = 3 /\ spec[1] = tunnel.remotePort
        BY <4>1
      <4>3. QED
        BY <4>2
    <3>2. CASE tunnel.remoteHost # ""
      <4>1. spec = <<tunnel.remoteHost, tunnel.remotePort, tunnel.localHost, tunnel.localPort>>
        BY <1>1, <3>2 DEF SpecOf
      <4> HIDE DEF spec
      <4>2. Len(spec) = 4 /\ spec[2] = tunnel.remotePort
        BY <4>1
      <4>3. QED
        BY <4>2
    <3>3. QED
      BY <3>1, <3>2
  <2>2. Flag(tunnel) = "-R"
    BY <1>1 DEF Flag
  <2> HIDE DEF spec
  <2>3. ForwardOf(tunnel).flag = "-R" /\ ForwardOf(tunnel).spec = spec
    BY <2>2 DEF ForwardOf, spec
  <2>4. QED
    BY <1>1, <2>1, <2>3 DEF Listener
<1>2. CASE tunnel.kind = "local"
    BY <1>2 DEF Listener, ForwardOf, Flag, SpecOf
<1>3. CASE tunnel.kind = "dynamic"
    BY <1>3 DEF Listener, ForwardOf, Flag, SpecOf
<1>4. QED
    BY <1>1, <1>2, <1>3 DEF Kinds

LEMMA ListenersApart ==
    ASSUME NEW tunnels, DuplicateTest(tunnels) = "ok",
           \A i \in DOMAIN tunnels : tunnels[i].kind \in Kinds,
           NEW j \in DOMAIN tunnels, NEW k \in DOMAIN tunnels, j # k,
           Clash(Listener(ForwardOf(tunnels[j])), Listener(ForwardOf(tunnels[k])))
    PROVE  /\ Listener(ForwardOf(tunnels[j])).side = "here"
           /\ Listener(ForwardOf(tunnels[j])).host # Listener(ForwardOf(tunnels[k])).host
<1> DEFINE a == tunnels[j]
           b == tunnels[k]
<1>1. \/ (a.kind = "remote") # (b.kind = "remote")
      \/ a.kind = "remote" /\ a.remotePort # b.remotePort
      \/ a.kind # "remote" /\ (a.localHost # b.localHost \/ a.localPort # b.localPort)
    BY DEF DuplicateTest, Must
<1>2. /\ Listener(ForwardOf(a)).side = Listener(ForwardOf(b)).side
      /\ Listener(ForwardOf(a)).port = Listener(ForwardOf(b)).port
    BY DEF Clash
<1> HIDE DEF a, b
<1>3. a.kind \in Kinds /\ b.kind \in Kinds
    BY DEF a, b
<1>4. QED
    BY <1>1, <1>2, <1>3, ListenerIs DEF a, b

\* Whatever is edited and reloaded, the ssh of a daemon is asked for listeners
\* that do not clash, but for two spellings of this machine, and for one way to
\* reach the server: the configuration it is built from was accepted.
THEOREM NeverSelfConflicting == Spec => []NoSelfConflict
<1>1. ASSUME NEW config \in Accepted, NEW i \in DOMAIN config.profiles
      PROVE  LET args == BuildArgs(config.profiles[i])
                 listener(k) == Listener(args.forwards[k])
             IN  /\ args.forwards # <<>>
                 /\ \A j, k \in DOMAIN args.forwards :
                       j # k /\ Clash(listener(j), listener(k)) =>
                           listener(j).side = "here" /\ listener(j).host # listener(k).host
                 /\ args.reach.jump # <<>> =>
                       args.reach.options \cap {"ProxyJump", "ProxyCommand"} = {}
  <2> DEFINE profile == config.profiles[i]
             tunnels == profile.tunnels
             args == BuildArgs(profile)
  <2>1. Sound(profile) /\ Valid(profile, Keys)
    BY AcceptedIs
  <2> HIDE DEF profile
  <2>2. /\ args.forwards = [k \in DOMAIN tunnels |-> ForwardOf(tunnels[k])]
        /\ args.reach.jump = profile.jumps /\ args.reach.options = profile.options
    BY DEF BuildArgs, ConnectionArgs, ForwardOf
  <2> HIDE DEF args
  <2>3. args.forwards # <<>>
    <3>1. DOMAIN tunnels # {}
      <4>1. tunnels = [n \in DOMAIN tunnels |-> tunnels[n]] /\ tunnels # <<>>
        BY <2>1 DEF Sound, Valid
      <4> HIDE DEF tunnels
      <4>2. ASSUME DOMAIN tunnels = {} PROVE tunnels = <<>>
        <5>1. tunnels \in [{} -> {}] /\ <<>> \in [{} -> {}]
          BY <4>1, <4>2
        <5>2. QED
          BY <5>1
      <4>3. QED
        BY <4>1, <4>2
    <3>2. QED
      BY <2>2, <3>1
  <2>4. ASSUME NEW j \in DOMAIN tunnels, NEW k \in DOMAIN tunnels, j # k,
               Clash(Listener(args.forwards[j]), Listener(args.forwards[k]))
        PROVE  /\ Listener(args.forwards[j]).side = "here"
               /\ Listener(args.forwards[j]).host # Listener(args.forwards[k]).host
    <3>1. args.forwards[j] = ForwardOf(tunnels[j]) /\ args.forwards[k] = ForwardOf(tunnels[k])
      BY <2>2
    <3>2. /\ DuplicateTest(tunnels) = "ok"
          /\ \A n \in DOMAIN tunnels : tunnels[n].kind \in Kinds
      BY <2>1 DEF Sound, Valid
    <3> HIDE DEF tunnels
    <3>3. QED
      BY <2>4, <3>1, <3>2, ListenersApart
  <2>5. args.reach.jump # <<>> => args.reach.options \cap {"ProxyJump", "ProxyCommand"} = {}
    BY <2>1, <2>2 DEF Sound
  <2>6. DOMAIN args.forwards = DOMAIN tunnels
    BY <2>2
  <2>7. QED
    BY <2>3, <2>4, <2>5, <2>6 DEF args, profile
<1>2. WorkInv => NoSelfConflict
    BY <1>1, RunsOnAccepted DEF NoSelfConflict
<1>3. QED
    BY <1>2, SpecWork, PTL

-----------------------------------------------------------------------------
(* `ponte doctor`.                                                         *)

LEMMA NoneHas ==
    ASSUME NEW config, NEW w, NEW files, NEW running, NEW offline, NEW status
    PROVE  ~ Has(RowsOf(RunChecks(config, w, files, running, offline)), status) <=>
              /\ ConfigCheck(config).status # status /\ DaemonCheck(w, running).status # status
              /\ ServiceCheck(w).status # status /\ LogCheck(w).status # status
              /\ NotifyCheck(w, config.notify).status # status
              /\ \A i \in DOMAIN config.profiles :
                    ~ Has(ProfileChecks(w, config.profiles[i], files, running, offline), status)
<1> DEFINE whole == {ConfigCheck(config), DaemonCheck(w, running), ServiceCheck(w), LogCheck(w),
                     NotifyCheck(w, config.notify)}
           parts == [i \in DOMAIN config.profiles |->
                        ProfileChecks(w, config.profiles[i], files, running, offline)]
           report == RunChecks(config, w, files, running, offline)
<1>1. report = [profiles |-> parts, whole |-> whole]
    BY DEF RunChecks
<1>2. /\ DOMAIN parts = DOMAIN config.profiles
      /\ \A i \in DOMAIN parts :
            parts[i] = ProfileChecks(w, config.profiles[i], files, running, offline)
    OBVIOUS
<1> HIDE DEF whole, parts, report
<1>3. report.profiles = parts /\ report.whole = whole
    BY <1>1
<1>4. Has(RowsOf(report), status) <=>
          Has(whole, status) \/ \E i \in DOMAIN parts : Has(parts[i], status)
    BY <1>3 DEF Has, RowsOf
<1>5. Has(whole, status) <=>
          \/ ConfigCheck(config).status = status \/ DaemonCheck(w, running).status = status
          \/ ServiceCheck(w).status = status \/ LogCheck(w).status = status
          \/ NotifyCheck(w, config.notify).status = status
    BY DEF Has, whole
<1>6. QED
    BY <1>2, <1>4, <1>5 DEF report

LEMMA RowSays ==
    ASSUME NEW name, NEW status
    PROVE  Row(name, status).status = status
BY DEF Row

LEMMA NoneFails ==
    ASSUME NEW report
    PROVE  ExitCode(report) = 0 <=> ~ Has(RowsOf(report), "fail")
BY DEF ExitCode

LEMMA ProfileNotBlamed ==
    ASSUME NEW w \in World, Calm(w), NEW profile, NEW files,
           profile.identity \in files \cup {""},
           NEW running \in BOOLEAN, NEW offline \in BOOLEAN,
           ~ offline => Reachable(w, profile)
    PROVE  ~ Has(ProfileChecks(w, profile, files, running, offline), "fail")
<1>1. SshClientCheck(w).status # "fail" /\ IdentityCheck(profile, files).status # "fail"
    BY DEF SshClientCheck, IdentityCheck, Row, Calm
<1>2. KeyPermissionCheck(w, profile, files).status # "fail"
    BY DEF KeyPermissionCheck, Row
<1>3. ConnectivityCheck(w, profile, offline).status # "fail"
    BY DEF ConnectivityCheck, Row, Reachable
<1>4. \A row \in JumpCheck(w, profile, offline) : row.status # "fail"
  <2>1. JumpCheck(w, profile, offline) \subseteq {Row("jump", "skip"), Row("jump", "ok")}
    BY DEF JumpCheck, Reachable
  <2>2. Row("jump", "skip").status # "fail" /\ Row("jump", "ok").status # "fail"
    BY RowSays
  <2>3. QED
    BY <2>1, <2>2, Zenon
<1>5. \A row \in RemotePortsCheck(w, profile, running, offline) : row.status # "fail"
  <2>1. RemotePortsCheck(w, profile, running, offline)
            \subseteq {Row("remote", "skip"), Row("remote", "warn"), Row("remote", "ok")}
    BY DEF RemotePortsCheck, Reachable, ProbeRuns
  <2>2. /\ Row("remote", "skip").status # "fail" /\ Row("remote", "warn").status # "fail"
        /\ Row("remote", "ok").status # "fail"
    BY RowSays
  <2>3. QED
    BY <2>1, <2>2, Zenon
<1>6. \A row \in LocalPortsCheck(w, profile, running, offline) : row.status # "fail"
  <2>1. LocalPortsCheck(w, profile, running, offline)
            \subseteq {Row("local", "skip"), Row("local", "warn"), Row("local", "ok")}
    BY DEF LocalPortsCheck
  <2>2. /\ Row("local", "skip").status # "fail" /\ Row("local", "warn").status # "fail"
        /\ Row("local", "ok").status # "fail"
    BY RowSays
  <2>3. QED
    BY <2>1, <2>2, Zenon
<1>7. QED
    BY <1>1, <1>2, <1>3, <1>4, <1>5, <1>6 DEF Has, ProfileChecks

LEMMA ProfileBlamed ==
    ASSUME NEW w \in World, NEW profile, NEW files, ~ Reachable(w, profile)
    PROVE  Has(ProfileChecks(w, profile, files, TRUE, FALSE), "fail")
<1> DEFINE rows == ProfileChecks(w, profile, files, TRUE, FALSE)
<1>1. CASE ~ LoginWorks(w, profile)
  <2>1. ConnectivityCheck(w, profile, FALSE) = Row("connectivity", "fail")
    BY <1>1 DEF ConnectivityCheck
  <2>2. Row("connectivity", "fail") \in rows
    BY <2>1 DEF ProfileChecks
  <2>3. QED
    BY <2>2, RowSays DEF Has
<1>2. CASE profile.jumps # <<>> /\ ~ w.direct
  <2>1. JumpCheck(w, profile, FALSE) = {Row("jump", "fail")}
    BY <1>2 DEF JumpCheck
  <2>2. Row("jump", "fail") \in rows
    BY <2>1 DEF ProfileChecks
  <2>3. QED
    BY <2>2, RowSays DEF Has
<1>3. CASE LoginWorks(w, profile) /\ RemotePorts(profile) # {} /\ w.probe /\ ~ w.remote
  <2>1. RemotePortsCheck(w, profile, TRUE, FALSE) = {Row("remote", "fail")}
    BY <1>3 DEF RemotePortsCheck, ProbeRuns
  <2>2. Row("remote", "fail") \in rows
    BY <2>1 DEF ProfileChecks
  <2>3. QED
    BY <2>2, RowSays DEF Has
<1>4. QED
    BY <1>1, <1>2, <1>3 DEF Reachable

LEMMA WholeNotBlamed ==
    ASSUME NEW w \in World, Calm(w), NEW config, CanAlert(config.notify)
    PROVE  /\ ConfigCheck(config).status # "fail" /\ DaemonCheck(w, TRUE).status # "fail"
           /\ ServiceCheck(w).status # "fail" /\ LogCheck(w).status # "fail"
           /\ NotifyCheck(w, config.notify).status # "fail"
<1>1. ConfigCheck(config).status # "fail" /\ ServiceCheck(w).status # "fail"
    BY DEF ConfigCheck, ServiceCheck, Row
<1>2. DaemonCheck(w, TRUE).status # "fail"
    BY DEF DaemonCheck, Row, Calm
<1>3. LogCheck(w).status # "fail"
    BY DEF LogCheck, Row, Calm
<1>4. NotifyCheck(w, config.notify).status # "fail"
    BY DEF NotifyCheck, CanAlert, Row
<1>5. QED
    BY <1>1, <1>2, <1>3, <1>4

LEMMA AskedFile ==
    ASSUME WorkInv, NEW flag \in Asked
    PROVE  /\ Running(flag) \in BOOLEAN
           /\ \A i \in DOMAIN Effective(flag).profiles :
                 Effective(flag).profiles[i].identity \in keys \cup {""}
<1>1. flag \in BOOLEAN /\ Loads(flag)
    BY DEF Asked
<1>2. Running(flag) \in BOOLEAN
  <2>1. daemons[Effective(flag).pidFile] \in Started \cup {NoDaemon}
    BY <1>1, LoadedByCommand DEF WorkInv
  <2>2. NoDaemon.on \in BOOLEAN /\ \A d \in Started : d.on \in BOOLEAN
    BY DEF Started, NoDaemon
  <2>3. QED
    BY <2>1, <2>2, Zenon DEF Running, On
<1>3. IsContents(Read(flag)) /\ LoadOutcome(Read(flag), keys) = "ok"
    BY <1>1, LoadedByCommand, ContentsAssumption DEF Loads, Load
<1>4. \A i \in DOMAIN ProfilesOf(Read(flag)) : Valid(ProfilesOf(Read(flag))[i], keys)
    BY <1>3, LoadedIs, ProfilesInOrder, ValidIs
<1>5. Effective(flag).profiles = ProfilesOf(Read(flag))
    BY DEF Effective, ConfigOf
<1>6. QED
    BY <1>2, <1>4, <1>5 DEF Valid

\* Beside a daemon that found nothing wrong doctor fails nothing offline, in any
\* world and of any file, and online exactly the profiles whose server ssh does not
\* reach now, whose first hop no socket reaches or whose ports were seen closed.
THEOREM DoctorNeverFalselyAlarms == Spec => []NoFalseAlarm
<1>1. ASSUME WorkInv, NEW flag \in Asked, Running(flag), CanAlert(Effective(flag).notify),
             NEW w \in Worlds, Calm(w)
      PROVE  LET profiles == Effective(flag).profiles
                 report(offline) == Report(flag, w, offline)
                 blamed == {i \in DOMAIN profiles : Has(report(FALSE).profiles[i], "fail")}
             IN  /\ ExitCode(report(TRUE)) = 0
                 /\ ExitCode(report(FALSE)) = IF blamed = {} THEN 0 ELSE 1
                 /\ blamed = {i \in DOMAIN profiles : ~Reachable(w, profiles[i])}
  <2> DEFINE config == Effective(flag)
             profiles == config.profiles
             rows(i, offline) == ProfileChecks(w, profiles[i], keys, TRUE, offline)
             blamed == {i \in DOMAIN profiles :
                           Has(Report(flag, w, FALSE).profiles[i], "fail")}
  <2>1. w \in World
    BY WorldsAssumption
  <2>2. Running(flag) = TRUE
    BY <1>1, AskedFile
  <2>3. \A offline \in BOOLEAN :
            Report(flag, w, offline) = RunChecks(config, w, keys, TRUE, offline)
    BY <2>2 DEF Report
  <2>4. \A i \in DOMAIN profiles : ~ Has(rows(i, TRUE), "fail")
    BY <1>1, <2>1, AskedFile, ProfileNotBlamed
  <2>5. \A i \in DOMAIN profiles : Has(rows(i, FALSE), "fail") <=> ~Reachable(w, profiles[i])
    BY <1>1, <2>1, AskedFile, ProfileNotBlamed, ProfileBlamed
  <2>6. \A i \in DOMAIN profiles : Report(flag, w, FALSE).profiles[i] = rows(i, FALSE)
    <3>1. Report(flag, w, FALSE) = RunChecks(config, w, keys, TRUE, FALSE)
      BY <2>3
    <3>2. ASSUME NEW i \in DOMAIN profiles
          PROVE  Report(flag, w, FALSE).profiles[i] = rows(i, FALSE)
      <4>1. RunChecks(config, w, keys, TRUE, FALSE).profiles[i] = rows(i, FALSE)
        BY DEF RunChecks
      <4>2. QED
        BY <3>1, <4>1
    <3>3. QED
      BY <3>2
  <2>7. \A offline \in BOOLEAN :
            ExitCode(Report(flag, w, offline)) = 0 <=>
                \A i \in DOMAIN profiles : ~ Has(rows(i, offline), "fail")
    BY <1>1, <2>1, <2>3, WholeNotBlamed, NoneHas, NoneFails
  <2>8. blamed = {i \in DOMAIN profiles : ~Reachable(w, profiles[i])}
    BY <2>5, <2>6
  <2>9. ExitCode(Report(flag, w, TRUE)) = 0
    BY <2>4, <2>7
  <2>10. blamed = {} <=> \A i \in DOMAIN profiles : ~ Has(rows(i, FALSE), "fail")
    BY <2>6
  <2>11. ExitCode(Report(flag, w, FALSE)) = IF blamed = {} THEN 0 ELSE 1
    <3> HIDE DEF blamed, rows, profiles, config
    <3>1. ExitCode(Report(flag, w, FALSE)) \in {0, 1}
      BY DEF ExitCode
    <3>2. QED
      BY <2>7, <2>10, <3>1
  <2>12. QED
    BY <2>8, <2>9, <2>11
<1>2. WorkInv => NoFalseAlarm
    BY <1>1 DEF NoFalseAlarm
<1>3. QED
    BY <1>2, SpecWork, PTL

LEMMA ProfileFlows ==
    ASSUME NEW w \in World, NEW profile, NEW files,
           ~ Has(ProfileChecks(w, profile, files, TRUE, FALSE), "fail"),
           ~ Has(ProfileChecks(w, profile, files, TRUE, FALSE), "warn")
    PROVE  Flowing(w, profile)
<1>1. /\ ConnectivityCheck(w, profile, FALSE).status # "fail"
      /\ \A row \in RemotePortsCheck(w, profile, TRUE, FALSE) : row.status \notin {"fail", "warn"}
      /\ \A row \in LocalPortsCheck(w, profile, TRUE, FALSE) : row.status \notin {"fail", "warn"}
    BY DEF Has, ProfileChecks
<1>2. LoginWorks(w, profile)
    BY <1>1 DEF ConnectivityCheck, Row
<1>3. RemotePorts(profile) # {} => w.remote
    BY <1>1 DEF RemotePortsCheck, Row
<1>4. LocalPorts(profile) # {} => w.local
    BY <1>1 DEF LocalPortsCheck, Row
<1>5. QED
    BY <1>2, <1>3, <1>4 DEF Flowing

\* When doctor passes everything there is a daemon and every tunnel of its
\* profiles carries traffic, in any world and of any file.
THEOREM ClearAlwaysMeansFlowing == Spec => []ClearMeansFlowing
<1>1. ASSUME WorkInv, NEW flag \in Asked, NEW w \in Worlds,
             ~ Has(RowsOf(Report(flag, w, FALSE)), "warn"), ExitCode(Report(flag, w, FALSE)) = 0
      PROVE  Running(flag) /\ \A i \in DOMAIN Effective(flag).profiles :
                                  Flowing(w, Effective(flag).profiles[i])
  <2> DEFINE config == Effective(flag)
             report == RunChecks(config, w, keys, Running(flag), FALSE)
  <2>1. ~ Has(RowsOf(report), "warn") /\ ~ Has(RowsOf(report), "fail")
    BY <1>1, NoneFails DEF Report
  <2>2. Running(flag)
    <3>1. DaemonCheck(w, Running(flag)).status # "warn"
      BY <2>1, NoneHas
    <3>2. QED
      BY <3>1, AskedFile DEF DaemonCheck, Row
  <2>3. Running(flag) = TRUE
    BY <2>2, AskedFile
  <2>4. \A i \in DOMAIN config.profiles :
            /\ ~ Has(ProfileChecks(w, config.profiles[i], keys, TRUE, FALSE), "warn")
            /\ ~ Has(ProfileChecks(w, config.profiles[i], keys, TRUE, FALSE), "fail")
    BY <2>1, <2>3, NoneHas
  <2>5. QED
    BY <2>2, <2>4, WorldsAssumption, ProfileFlows
<1>2. WorkInv => ClearMeansFlowing
    BY <1>1 DEF ClearMeansFlowing
<1>3. QED
    BY <1>2, SpecWork, PTL
=============================================================================
