------------------------------ MODULE StatusFile ------------------------------
(***************************************************************************)
(* The status file (_StatusStore): its sections, the threads that write    *)
(* them and the processes that read them while they are written.           *)
(*                                                                         *)
(* Every write takes the lock, reads the file, empties it (open(path,      *)
(* "w")) and writes it again; the lock does not reach the readers, which   *)
(* find the file empty in between.  A reload swaps the runners and then    *)
(* writes twice; a runner it retired may outlive its join and report once  *)
(* more.  What a reader is shown is the module Verdict's.                  *)
(***************************************************************************)
EXTENDS Verdict

CONSTANTS
    Names,      \* profiles
    Met,        \* what a check can meet
    Faults      \* bound: reloads, deaths, failed writes, changes of a tunnel

ASSUME MetAssumption == Met \subseteq Outcomes /\ Met # {}
ASSUME FaultAssumption == Faults \in Nat

VARIABLES
    up,         \* the daemon is alive
    conf,       \* the profiles it supervises
    tunnel,     \* what a check of each profile would meet now
    file,       \* the sections a reader of the file finds
    writing,    \* a write has emptied the file, and what it will write
    reload,     \* how far a reload is, and the profiles it removes
    late,       \* profiles with a retired runner whose threads still run
    last,       \* history: what the last report of each profile said
    spent       \* bound: faults so far

vars == <<up, conf, tunnel, file, writing, reload, late, last, spent>>

NoSections == [n \in {} |-> Unreported]
NotWriting == [on |-> FALSE, to |-> NoSections]
NoReload == [pc |-> "idle", removed |-> {}]
NoReport == [known |-> FALSE, outcome |-> CHOOSE o \in Met : TRUE]

IsFile(f) ==
    /\ DOMAIN f \subseteq Names
    /\ \A n \in DOMAIN f : f[n] \in Sections
                         /\ (f[n].healthy = "none") = (f[n].conclusive = "none")

StatusTypeOK ==
    /\ up \in BOOLEAN
    /\ conf \subseteq Names /\ conf # {}
    /\ tunnel \in [Names -> Met]
    /\ IsFile(file) /\ IsFile(writing.to)
    /\ writing.on \in BOOLEAN /\ (writing.on => file = NoSections)
    /\ reload \in [pc : {"idle", "begin", "remove"}, removed : SUBSET (Names \ conf)]
    /\ late \subseteq Names
    /\ last \in [Names -> [known : BOOLEAN, outcome : Met]]
    /\ spent \in 0 .. Faults

Init ==
    /\ up = FALSE
    /\ conf \in (SUBSET Names) \ {{}}
    /\ tunnel \in [Names -> Met]
    /\ file = NoSections
    /\ writing = NotWriting /\ reload = NoReload
    /\ late = {}
    /\ last = [n \in Names |-> NoReport]
    /\ spent = 0

\* What the file holds, or is about to hold again.
Stored == IF writing.on THEN writing.to ELSE file

-----------------------------------------------------------------------------
(* Writing.                                                                *)

\* setdefault(name, {}): a section that is not there is created.
SectionOf(n) == IF n \in DOMAIN file THEN file[n] ELSE Unreported
With(n, s) == [m \in DOMAIN file \cup {n} |-> IF m = n THEN s ELSE file[m]]

StartWrite(sections) ==
    /\ ~writing.on
    /\ file' = NoSections
    /\ writing' = [on |-> TRUE, to |-> sections]

Flush ==
    /\ writing.on
    /\ file' = writing.to
    /\ writing' = NotWriting
    /\ UNCHANGED <<up, conf, tunnel, reload, late, last, spent>>

Fault == spent < Faults /\ spent' = spent + 1

\* A full disk: logged, and the file stays empty.
WriteFails ==
    /\ writing.on /\ Fault
    /\ writing' = NotWriting
    /\ UNCHANGED <<up, conf, tunnel, file, reload, late, last>>

\* The report of a check through _on_health.
Edit(n, o) ==
    /\ StartWrite(With(n, Reported(SectionOf(n), o)))
    /\ last' = [last EXCEPT ![n] = [known |-> TRUE, outcome |-> o]]

Report(n) ==
    /\ up /\ n \in conf
    /\ Edit(n, tunnel[n])
    /\ UNCHANGED <<up, conf, tunnel, reload, late, spent>>

\* _record_retry_event and its like: the health of the section stays.
Event(n) ==
    /\ up /\ n \in conf \cup late
    /\ StartWrite(With(n, SectionOf(n)))
    /\ UNCHANGED <<up, conf, tunnel, reload, late, last, spent>>

\* The check of a retired runner, begun before it was told to stop.
LateReport(n) ==
    /\ up /\ n \in late
    /\ \E o \in Met : Edit(n, o)
    /\ late' = late \ {n}
    /\ UNCHANGED <<up, conf, tunnel, reload, spent>>

LateEnds(n) ==
    /\ up /\ n \in late
    /\ late' = late \ {n}
    /\ UNCHANGED <<up, conf, tunnel, file, writing, reload, last, spent>>

TunnelChanges(n) ==
    /\ Fault
    /\ \E o \in Met \ {tunnel[n]} : tunnel' = [tunnel EXCEPT ![n] = o]
    /\ UNCHANGED <<up, conf, file, writing, reload, late, last>>

-----------------------------------------------------------------------------
(* begin() and remove().                                                   *)

Begun == [n \in DOMAIN file \cup conf |-> SectionOf(n)]

RemovedNothing == file                  \* Mutant
Removed == [n \in DOMAIN file \ reload.removed |-> file[n]]

Start ==
    /\ ~up
    /\ up' = TRUE
    /\ StartWrite(Begun)
    /\ UNCHANGED <<conf, tunnel, reload, late, last, spent>>

\* Any subset of the retired runners outlives its join; a profile that is kept
\* can be retired too, and rebuilt.
ReloadSwap ==
    /\ up /\ reload = NoReload /\ Fault
    /\ \E new \in (SUBSET Names) \ {{}} :
          /\ \E some \in SUBSET conf : late' = late \cup some
          /\ conf' = new
          /\ reload' = [pc |-> "begin", removed |-> conf \ new]
    /\ UNCHANGED <<up, tunnel, file, writing, last>>

ReloadBegin ==
    /\ up /\ reload.pc = "begin"
    /\ StartWrite(Begun)
    /\ reload' = IF reload.removed = {} THEN NoReload ELSE [reload EXCEPT !.pc = "remove"]
    /\ UNCHANGED <<up, conf, tunnel, late, last, spent>>

ReloadRemove ==
    /\ up /\ reload.pc = "remove"
    /\ StartWrite(Removed)
    /\ reload' = NoReload
    /\ UNCHANGED <<up, conf, tunnel, late, last, spent>>

\* The process ends, in the middle of a write or not; the file stays as it is,
\* and the next daemon may be given another configuration.
Die ==
    /\ up /\ Fault
    /\ up' = FALSE
    /\ conf' \in (SUBSET Names) \ {{}}
    /\ writing' = NotWriting /\ reload' = NoReload /\ late' = {}
    /\ UNCHANGED <<tunnel, file, last>>

Next ==
    \/ Flush \/ WriteFails \/ Start \/ ReloadSwap \/ ReloadBegin \/ ReloadRemove \/ Die
    \/ \E n \in Names : Report(n) \/ Event(n) \/ LateReport(n) \/ LateEnds(n)
                          \/ TunnelChanges(n)

\* Whoever waits for the lock gets it in the end, a file that was opened is
\* written, a thread told to stop ends, and every profile is checked for ever.
Fairness ==
    /\ WF_vars(Flush) /\ WF_vars(Start)
    /\ SF_vars(ReloadBegin) /\ SF_vars(ReloadRemove)
    /\ \A n \in Names : SF_vars(Report(n)) /\ WF_vars(LateEnds(n))

Spec == Init /\ [][Next]_vars /\ Fairness

-----------------------------------------------------------------------------
(* Properties.                                                             *)

\* serve.py: "the web page can never disagree with `ponte status`".  Whatever
\* the file holds while a reader with any configuration looks at it, /healthz,
\* the metrics, the header and every row of the page agree with each other, and
\* while the daemon is up with `ponte status` and both borders of `ponte watch`.
\* (While it is down they do not: DownIsReported.)
VerdictsAgreeFor(names) ==
    LET P == Payload(up, names, file)
        health == HealthResponse(Running(up), P)
        page == Summary(Running(up), P)
        metrics == Metrics(Running(up), P)
        request == [path |-> "/healthz", token |-> TRUE, status |-> TRUE]
        answer(r) == Respond(r, Running(up), P)
    IN  /\ page.verdict = CASE health.status = "down"       -> "down"
                            [] health.status = "degraded"   -> "bad"
                            [] health.status = "unverified" -> "unknown"
                            [] health.status = "ok"         -> "ok"
                            [] health.status = "starting"   -> "waiting"
        /\ metrics.unhealthy = Cardinality(health.unhealthy)
        /\ page.tiles["bad"] = metrics.unhealthy
        /\ page.tiles["ok"] = Cardinality({n \in DOMAIN metrics.healthy : metrics.healthy[n]})
        /\ (answer(request) = 503) = (page.verdict \in {"down", "bad"})
        /\ answer([request EXCEPT !.path = "/metrics"]) = 200
        /\ answer([request EXCEPT !.path = "other"]) = 404
        /\ (health.status = "ok") = (DaemonHealthy(P) = "yes")
        /\ (WatchBorder(up, P) = "green") = (health.status = "ok")
        /\ \A n \in DOMAIN P : /\ Tone(P[n]) = MarkupHealth(P[n])
                             /\ (Tone(P[n]) = "bad") = (n \in health.unhealthy)
                             /\ {c \in PortChips(P[n]).chips : ~c[3]} =
                                   {<<d[2], d[3], FALSE>> : d \in {e \in metrics.dead : e[1] = n}}
\* The one exception, and nothing but it: the border `ponte watch` draws around a
\* profile whose check never got to ask is red, where _markup_health, right inside
\* it, says "unknown" and that "painting it red is how a healthy tunnel gets
\* "fixed" until it breaks".
BordersAgreeFor(names) ==
    LET P == Payload(up, names, file)
        panels == ProfilePanels(up, P)
        colour == [ok |-> "green", unknown |-> "yellow", bad |-> "red"]
    IN  \A n \in DOMAIN panels :
            panels[n] = IF Inconclusive(P[n]) THEN "red" ELSE colour[Tone(P[n])]
VerdictsAgree ==
    \A names \in SUBSET Names : VerdictsAgreeFor(names) /\ BordersAgreeFor(names)

\* serve.py, health_response: "503 down: the daemon is not running", and the
\* README: "503 as soon as one is broken".  Checked against what `ponte serve`
\* feeds it; it fails, the payload says "running" whatever status() found.
DownIsReported ==
    [][up /\ ~up' =>
        HealthResponse(Running(up), Payload(up, conf, file))'.code = 503]_vars

\* /healthz names a reason for every tunnel it calls unhealthy, although a
\* check that ran and found a port closed records none.
DegradedIsExplained ==
    LET health == HealthResponse(Running(up), Payload(up, conf, Stored))
    IN  health.errors = health.unhealthy

\* A port is shown as closed only when the last check saw it closed: one that
\* a failed probe did not reach is shown as not observed, whatever an earlier
\* check had seen.
UnobservedNotClosed ==
    \A n \in DOMAIN Stored : Stored[n].healthy # "none" =>
        LET shown == PortChips(Stored[n])
            o == last[n].outcome
        IN  /\ last[n].known
            /\ {c \in shown.chips : ~c[3]} =
                   {<<"remote", p, FALSE>> : p \in Closed(ObservedRemote(o))}
                   \cup {<<"local", p, FALSE>> : p \in Closed(ObservedLocal(o))}
            /\ o.remote = "probe_error" => shown.unobserved

\* A section of a profile that nobody supervises (a tunnel "that does not exist
\* any more") comes from a retired runner that reports late, or from before the
\* daemon started; a reload leaves none by itself.
Ghosts == DOMAIN Stored \ (conf \cup reload.removed)
GhostsAreLate == [][up /\ up' => Ghosts' \ Ghosts \subseteq late]_vars

\* What the tunnels are like reaches the reader: once the daemon stays up and
\* its profiles do not change, /healthz settles on what their checks find.
Expected ==
    LET found == {tunnel[n] : n \in conf}
    IN  IF \E o \in found : ~AllHealthy(o) /\ Conclusive(o) THEN "degraded"
        ELSE IF \E o \in found : ~AllHealthy(o) THEN "unverified" ELSE "ok"
VerdictSettles ==
    <>[]up => <>[](Ghosts = {} =>
                      HealthResponse(Running(up), Payload(up, conf, Stored)).status = Expected)

=============================================================================
