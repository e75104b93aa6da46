--------------------------- MODULE StatusFile_proofs ---------------------------
(***************************************************************************)
(* Theorems about the status file and what a reader is shown of it, for    *)
(* any profiles and ports, and whatever the checks meet.                   *)
(***************************************************************************)
EXTENDS StatusFile, TLAPS

\* A report is a section, and nothing of the section before is left in it.
LEMMA ReportIsSection ==
    ASSUME NEW s, NEW o \in Outcomes
    PROVE  /\ Reported(s, o) \in Sections
           /\ Reported(s, o).healthy # "none" /\ Reported(s, o).conclusive # "none"
           /\ Reported(s, o) = Reported(Unreported, o)
  <1>1. ObservedRemote(o) \in PortMaps(RemotePorts) /\ ObservedLocal(o) \in PortMaps(LocalPorts)
    BY DEF Outcomes, ObservedRemote, ObservedLocal, PortMaps
  <1>2. \A b : Flag(b) \in {"yes", "no"}
    BY DEF Flag
  <1>3. Raised(o) \in BOOLEAN /\ (o.remote = "probe_error") \in BOOLEAN
    BY DEF Raised
  <1>4. QED
    BY <1>1, <1>2, <1>3 DEF Reported, Sections, Maybe

LEMMA UnreportedIsSection == Unreported \in Sections
  BY DEF Unreported, Sections, Maybe, PortMaps

-----------------------------------------------------------------------------
(* Types.                                                                  *)

LEMMA FileWith ==
    ASSUME IsFile(file), NEW n \in Names, NEW s \in Sections,
           (s.healthy = "none") = (s.conclusive = "none")
    PROVE  IsFile(With(n, s))
  BY DEF IsFile, With

LEMMA SectionOfIs ==
    ASSUME IsFile(file), NEW n \in Names
    PROVE  /\ SectionOf(n) \in Sections
           /\ (SectionOf(n).healthy = "none") = (SectionOf(n).conclusive = "none")
  <1>1. Unreported.healthy = "none" /\ Unreported.conclusive = "none"
    BY DEF Unreported
  <1>2. QED
    BY <1>1, UnreportedIsSection DEF IsFile, SectionOf

LEMMA FileBegun ==
    ASSUME IsFile(file), conf \subseteq Names
    PROVE  IsFile(Begun) /\ IsFile(Removed) /\ IsFile(NoSections)
  <1>1. IsFile(Begun)
    BY SectionOfIs DEF IsFile, Begun
  <1>2. IsFile(Removed) /\ IsFile(NoSections)
    BY DEF IsFile, Removed, NoSections
  <1>3. QED
    BY <1>1, <1>2

LEMMA InitStatus == Init => StatusTypeOK
  <1> SUFFICES ASSUME Init
               PROVE  StatusTypeOK
    OBVIOUS
  <1>1. NoReport \in [known : BOOLEAN, outcome : Met]
    <2>1. (CHOOSE o \in Met : TRUE) \in Met
      BY MetAssumption
    <2>2. QED
      BY <2>1 DEF NoReport
  <1>2. IsFile(NoSections)
    BY DEF IsFile, NoSections
  <1>3. spent \in 0 .. Faults
    BY FaultAssumption DEF Init
  <1>4. /\ up \in BOOLEAN /\ conf \subseteq Names /\ conf # {} /\ tunnel \in [Names -> Met]
        /\ late \subseteq Names /\ last \in [Names -> [known : BOOLEAN, outcome : Met]]
    <2>1. last \in [Names -> [known : BOOLEAN, outcome : Met]]
      BY <1>1 DEF Init
    <2>2. QED
      BY <2>1 DEF Init
  <1>5. /\ IsFile(file) /\ IsFile(writing.to) /\ writing.on = FALSE
        /\ reload \in [pc : {"idle", "begin", "remove"}, removed : SUBSET (Names \ conf)]
    BY <1>2 DEF Init, NotWriting, NoReload
  <1>6. QED
    BY <1>3, <1>4, <1>5 DEF StatusTypeOK

\* The parts of StatusTypeOK that the writes touch, and those they do not.
WriteTypeOK ==
    /\ IsFile(file) /\ IsFile(writing.to)
    /\ writing.on \in BOOLEAN /\ (writing.on => file = NoSections)
RestTypeOK ==
    /\ up \in BOOLEAN
    /\ conf \subseteq Names /\ conf # {}
    /\ tunnel \in [Names -> Met]
    /\ reload \in [pc : {"idle", "begin", "remove"}, removed : SUBSET (Names \ conf)]
    /\ late \subseteq Names
    /\ last \in [Names -> [known : BOOLEAN, outcome : Met]]
    /\ spent \in 0 .. Faults

LEMMA TypesSplit == StatusTypeOK <=> WriteTypeOK /\ RestTypeOK
  BY DEF StatusTypeOK, WriteTypeOK, RestTypeOK

LEMMA StartWriteTypes ==
    ASSUME NEW f, IsFile(f), StartWrite(f)
    PROVE  WriteTypeOK'
  <1>1. IsFile(NoSections)
    BY DEF IsFile, NoSections
  <1>2. file' = NoSections /\ writing'.on = TRUE /\ writing'.to = f
    BY DEF StartWrite
  <1>3. IsFile(file)' /\ IsFile(writing.to)'
    BY <1>1, <1>2 DEF IsFile
  <1>4. QED
    BY <1>2, <1>3 DEF WriteTypeOK

LEMMA StepWriteTypes ==
    ASSUME StatusTypeOK, [Next]_vars
    PROVE  WriteTypeOK'
  <1>1. WriteTypeOK /\ RestTypeOK
    BY TypesSplit
  <1>2. IsFile(Begun) /\ IsFile(Removed) /\ IsFile(NoSections)
    BY <1>1, FileBegun DEF WriteTypeOK, RestTypeOK
  <1>3. \A n \in Names : IsFile(With(n, SectionOf(n)))
    BY <1>1, SectionOfIs, FileWith DEF WriteTypeOK
  <1>4. ASSUME NEW n \in Names, NEW o \in Met
        PROVE  IsFile(With(n, Reported(SectionOf(n), o)))
    <2>1. o \in Outcomes
      BY MetAssumption
    <2>2. QED
      BY <1>1, <2>1, ReportIsSection, FileWith DEF WriteTypeOK
  <1>5. CASE UNCHANGED <<file, writing>>
    BY <1>1, <1>5 DEF WriteTypeOK, IsFile
  <1>6. CASE Flush \/ WriteFails \/ Die
    <2>1. writing' = NotWriting
      BY <1>6 DEF Flush, WriteFails, Die
    <2>2. file' \in {file, writing.to}
      BY <1>6 DEF Flush, WriteFails, Die
    <2>3. writing'.on = FALSE /\ writing'.to = NoSections
      BY <2>1 DEF NotWriting
    <2>4. IsFile(file)' /\ IsFile(writing.to)'
      BY <1>1, <1>2, <2>2, <2>3 DEF WriteTypeOK, IsFile
    <2>5. QED
      BY <2>3, <2>4 DEF WriteTypeOK
  <1>7. CASE Start \/ ReloadBegin \/ ReloadRemove
    BY <1>2, <1>7, StartWriteTypes DEF Start, ReloadBegin, ReloadRemove
  <1>8. ASSUME NEW n \in Names, Report(n) \/ Event(n) \/ LateReport(n)
        PROVE  WriteTypeOK'
    <2>1. CASE Report(n)
      <3>1. tunnel[n] \in Met
        BY <1>1 DEF RestTypeOK
      <3>2. QED
        BY <1>4, <2>1, <3>1, StartWriteTypes DEF Report, Edit
    <2>2. CASE Event(n)
      BY <1>3, <2>2, StartWriteTypes DEF Event
    <2>3. CASE LateReport(n)
      BY <1>4, <2>3, StartWriteTypes DEF LateReport, Edit
    <2>4. QED
      BY <1>8, <2>1, <2>2, <2>3
  <1>9. CASE UNCHANGED vars
    BY <1>5, <1>9 DEF vars
  <1>10. CASE ReloadSwap \/ \E n \in Names : LateEnds(n) \/ TunnelChanges(n)
    BY <1>5, <1>10 DEF ReloadSwap, LateEnds, TunnelChanges
  <1>11. QED
    BY <1>6, <1>7, <1>8, <1>9, <1>10 DEF Next

LEMMA StepRestTypes ==
    ASSUME StatusTypeOK, [Next]_vars
    PROVE  RestTypeOK'
  <1>1. RestTypeOK
    BY TypesSplit
  <1>2. ASSUME Fault
        PROVE  spent' \in 0 .. Faults
    BY <1>1, <1>2, FaultAssumption DEF Fault, RestTypeOK
  <1>3. CASE UNCHANGED <<up, conf, tunnel, reload, late, last, spent>>
    BY <1>1, <1>3 DEF RestTypeOK
  <1>4. CASE Flush
    BY <1>3, <1>4 DEF Flush
  <1>5. CASE WriteFails
    BY <1>1, <1>2, <1>5 DEF WriteFails, RestTypeOK
  <1>6. CASE Start
    BY <1>1, <1>6 DEF Start, RestTypeOK
  <1>7. CASE ReloadSwap
    <2>1. PICK new \in (SUBSET Names) \ {{}}, some \in SUBSET conf :
              /\ late' = late \cup some /\ conf' = new
              /\ reload' = [pc |-> "begin", removed |-> conf \ new]
      BY <1>7 DEF ReloadSwap
    <2>2. Fault /\ UNCHANGED <<up, tunnel, last>>
      BY <1>7 DEF ReloadSwap
    <2>3. /\ conf' \subseteq Names /\ conf' # {} /\ late' \subseteq Names
          /\ reload' \in [pc : {"idle", "begin", "remove"}, removed : SUBSET (Names \ conf')]
      BY <1>1, <2>1 DEF RestTypeOK
    <2>4. QED
      BY <1>1, <1>2, <2>1, <2>2, <2>3 DEF RestTypeOK
  <1>8. CASE ReloadBegin \/ ReloadRemove
    <2>1. UNCHANGED <<up, conf, tunnel, late, last, spent>>
      BY <1>8 DEF ReloadBegin, ReloadRemove
    <2>2. reload' = NoReload \/ (ReloadBegin /\ reload' = [reload EXCEPT !.pc = "remove"])
      BY <1>8 DEF ReloadBegin, ReloadRemove
    <2>3. CASE reload' = NoReload
      BY <1>1, <2>1, <2>3 DEF RestTypeOK, NoReload
    <2>4. CASE reload' = [reload EXCEPT !.pc = "remove"]
      <3>1. reload' \in [pc : {"idle", "begin", "remove"}, removed : SUBSET (Names \ conf)]
        BY <1>1, <2>4 DEF RestTypeOK
      <3>2. QED
        BY <1>1, <2>1, <3>1 DEF RestTypeOK
    <2>5. QED
      BY <2>2, <2>3, <2>4
  <1>9. CASE Die
    <2>1. /\ up' = FALSE /\ conf' \in (SUBSET Names) \ {{}} /\ late' = {}
          /\ reload' = NoReload /\ UNCHANGED <<tunnel, last>> /\ Fault
      BY <1>9 DEF Die
    <2>2. QED
      BY <1>1, <1>2, <2>1 DEF RestTypeOK, NoReload
  <1>10. ASSUME NEW n \in Names, Report(n) \/ LateReport(n)
         PROVE  RestTypeOK'
    <2>1. PICK o \in Met : last' = [last EXCEPT ![n] = [known |-> TRUE, outcome |-> o]]
      BY <1>1, <1>10 DEF Report, LateReport, Edit, RestTypeOK
    <2>2. last' \in [Names -> [known : BOOLEAN, outcome : Met]]
      BY <1>1, <2>1 DEF RestTypeOK
    <2>3. UNCHANGED <<up, conf, tunnel, reload, spent>> /\ late' \subseteq late
      BY <1>10 DEF Report, LateReport
    <2>4. QED
      BY <1>1, <2>2, <2>3 DEF RestTypeOK
  <1>11. ASSUME NEW n \in Names, Event(n) \/ LateEnds(n)
         PROVE  RestTypeOK'
    BY <1>1, <1>11 DEF Event, LateEnds, RestTypeOK
  <1>12. ASSUME NEW n \in Names, TunnelChanges(n)
         PROVE  RestTypeOK'
    <2>1. PICK o \in Met : tunnel' = [tunnel EXCEPT ![n] = o]
      BY <1>12 DEF TunnelChanges
    <2>2. Fault /\ UNCHANGED <<up, conf, reload, late, last>>
      BY <1>12 DEF TunnelChanges
    <2>3. tunnel' \in [Names -> Met]
      BY <1>1, <2>1 DEF RestTypeOK
    <2>4. QED
      BY <1>1, <1>2, <2>2, <2>3 DEF RestTypeOK
  <1>13. CASE UNCHANGED vars
    BY <1>3, <1>13 DEF vars
  <1>14. QED
    BY <1>4, <1>5, <1>6, <1>7, <1>8, <1>9, <1>10, <1>11, <1>12, <1>13 DEF Next

LEMMA StepStatus == StatusTypeOK /\ [Next]_vars => StatusTypeOK'
  BY StepWriteTypes, StepRestTypes, TypesSplit DEF StatusTypeOK, WriteTypeOK, RestTypeOK

\* Every section keeps its type, in the file and in what a write is about to put there.
THEOREM StatusTypes == Spec => []StatusTypeOK
  BY InitStatus, StepStatus, PTL DEF Spec

-----------------------------------------------------------------------------
(* What a section says is what the last check said.                        *)

\* The section of a profile that was checked is the whole of its last report.
SectionInv(f, l) ==
    \A n \in DOMAIN f : f[n].healthy # "none" =>
        l[n].known /\ f[n] = Reported(Unreported, l[n].outcome)

ReportInv == SectionInv(file, last) /\ SectionInv(writing.to, last)

LEMMA InitReport == Init => ReportInv
  BY DEF Init, ReportInv, SectionInv, NotWriting, NoSections

LEMMA SectionsKept ==
    ASSUME NEW f, SectionInv(f, last), last' = last
    PROVE  SectionInv(f, last')
  OBVIOUS

LEMMA StepReport ==
    ASSUME StatusTypeOK, ReportInv, [Next]_vars
    PROVE  ReportInv'
  <1>1. SectionInv(NoSections, last')
    BY DEF SectionInv, NoSections
  <1>2. Unreported.healthy = "none"
    BY DEF Unreported
  <1>3. SectionInv(Begun, last) /\ SectionInv(Removed, last)
        /\ \A n \in Names : SectionInv(With(n, SectionOf(n)), last)
    BY <1>2 DEF ReportInv, SectionInv, Begun, SectionOf, Removed, With
  <1>4. ASSUME NEW f, StartWrite(f), SectionInv(f, last')
        PROVE  ReportInv'
    <2>1. file' = NoSections /\ writing'.to = f
      BY <1>4 DEF StartWrite
    <2>2. QED
      BY <1>1, <1>4, <2>1 DEF ReportInv
  <1>5. CASE UNCHANGED <<file, writing, last>>
    BY <1>5 DEF ReportInv, SectionInv
  <1>6. CASE Flush \/ WriteFails \/ Die
    <2>1. writing' = NotWriting /\ file' \in {file, writing.to} /\ last' = last
      BY <1>6 DEF Flush, WriteFails, Die
    <2>2. writing'.to = NoSections
      BY <2>1 DEF NotWriting
    <2>3. SectionInv(file', last')
      BY <2>1 DEF ReportInv
    <2>4. QED
      BY <1>1, <2>2, <2>3 DEF ReportInv
  <1>7. CASE Start \/ ReloadBegin \/ ReloadRemove
    <2>1. last' = last
      BY <1>7 DEF Start, ReloadBegin, ReloadRemove
    <2>2. SectionInv(Begun, last') /\ SectionInv(Removed, last')
      BY <1>3, <2>1
    <2>3. QED
      BY <1>4, <1>7, <2>2 DEF Start, ReloadBegin, ReloadRemove
  <1>8. ASSUME NEW n \in Names, Event(n)
        PROVE  ReportInv'
    <2>1. last' = last /\ StartWrite(With(n, SectionOf(n)))
      BY <1>8 DEF Event
    <2>2. SectionInv(With(n, SectionOf(n)), last')
      BY <1>3, <2>1
    <2>3. QED
      BY <1>4, <2>1, <2>2
  <1>9. ASSUME NEW n \in Names, NEW o \in Met, Edit(n, o)
        PROVE  ReportInv'
    <2>1. last' = [last EXCEPT ![n] = [known |-> TRUE, outcome |-> o]]
      BY <1>9 DEF Edit
    <2>2. o \in Outcomes
      BY MetAssumption
    <2>3. Reported(SectionOf(n), o) = Reported(Unreported, o)
      BY <2>2, ReportIsSection
    <2>4. last'[n].known /\ last'[n].outcome = o
      BY <2>1 DEF StatusTypeOK
    <2>5. \A m \in Names \ {n} : last'[m] = last[m]
      BY <2>1 DEF StatusTypeOK
    <2>6. DOMAIN file \subseteq Names
      BY DEF StatusTypeOK, IsFile
    <2>7. SectionInv(With(n, Reported(SectionOf(n), o)), last')
      <3> SUFFICES ASSUME NEW m \in DOMAIN file \cup {n},
                          With(n, Reported(SectionOf(n), o))[m].healthy # "none"
                   PROVE  /\ last'[m].known
                          /\ With(n, Reported(SectionOf(n), o))[m]
                                = Reported(Unreported, last'[m].outcome)
        BY DEF SectionInv, With
      <3>1. CASE m = n
        BY <2>3, <2>4, <3>1 DEF With
      <3>2. CASE m # n
        <4>1. With(n, Reported(SectionOf(n), o))[m] = file[m] /\ m \in DOMAIN file
          BY <3>2 DEF With
        <4>2. last'[m] = last[m]
          BY <2>5, <2>6, <3>2, <4>1
        <4>3. QED
          BY <4>1, <4>2 DEF ReportInv, SectionInv
      <3>3. QED
        BY <3>1, <3>2
    <2>8. QED
      BY <1>4, <1>9, <2>7 DEF Edit
  <1>10. CASE \E n \in Names : Report(n) \/ LateReport(n)
    <2>1. PICK n \in Names : Report(n) \/ LateReport(n)
      BY <1>10
    <2>2. tunnel[n] \in Met
      BY DEF StatusTypeOK
    <2>3. \E o \in Met : Edit(n, o)
      BY <2>1, <2>2 DEF Report, LateReport
    <2>4. QED
      BY <1>9, <2>3
  <1>11. CASE ReloadSwap \/ UNCHANGED vars \/ \E n \in Names : LateEnds(n) \/ TunnelChanges(n)
    BY <1>5, <1>11 DEF ReloadSwap, LateEnds, TunnelChanges, vars
  <1>12. QED
    BY <1>6, <1>7, <1>8, <1>10, <1>11 DEF Next

LEMMA StatusInvariant == Spec => [](StatusTypeOK /\ ReportInv)
  BY InitStatus, InitReport, StepStatus, StepReport, PTL DEF Spec

LEMMA StoredReport ==
    ASSUME StatusTypeOK, ReportInv, NEW n \in DOMAIN Stored, Stored[n].healthy # "none"
    PROVE  /\ n \in Names /\ last[n].known /\ last[n].outcome \in Outcomes
           /\ Stored[n] = Reported(Unreported, last[n].outcome)
  <1>1. n \in Names
    BY DEF StatusTypeOK, IsFile, Stored
  <1>2. last[n].outcome \in Outcomes
    BY <1>1, MetAssumption DEF StatusTypeOK
  <1>3. QED
    BY <1>1, <1>2 DEF ReportInv, SectionInv, Stored

\* The chips of _port_chips that are drawn as closed.
LEMMA ClosedChips ==
    ASSUME NEW s \in Sections
    PROVE  {c \in PortChips(s).chips : ~c[3]} =
              {<<"remote", p, FALSE>> : p \in Closed(s.remote)}
              \cup {<<"local", p, FALSE>> : p \in Closed(s.local)}
  <1> DEFINE r == s.remote
             l == s.local
             R == {<<"remote", p, r[p]>> : p \in DOMAIN r}
             L == {<<"local", p, l[p]>> : p \in DOMAIN l}
  <1>1. /\ \A p \in DOMAIN r : r[p] \in BOOLEAN
        /\ \A p \in DOMAIN l : l[p] \in BOOLEAN
    BY DEF Sections, PortMaps, NoPorts
  <1>2. PortChips(s).chips = R \cup L
    BY DEF PortChips
  <1> HIDE DEF r, l
  <1>3. /\ \A p \in DOMAIN r : ~r[p] => r[p] = FALSE
        /\ \A p \in DOMAIN l : ~l[p] => l[p] = FALSE
    BY <1>1
  <1>4. \A A, B : {c \in A \cup B : ~c[3]} = {c \in A : ~c[3]} \cup {c \in B : ~c[3]}
    OBVIOUS
  <1>5. {c \in R : ~c[3]} = {<<"remote", p, FALSE>> : p \in Closed(r)}
    <2>1. \A p \in DOMAIN r : ~r[p] => <<"remote", p, r[p]>> = <<"remote", p, FALSE>>
      BY <1>3
    <2>2. \A p \in DOMAIN r : ~<<"remote", p, r[p]>>[3] <=> ~r[p]
      OBVIOUS
    <2>3. QED
      BY <2>1, <2>2 DEF Closed
  <1>6. {c \in L : ~c[3]} = {<<"local", p, FALSE>> : p \in Closed(l)}
    <2>1. \A p \in DOMAIN l : ~l[p] => <<"local", p, l[p]>> = <<"local", p, FALSE>>
      BY <1>3
    <2>2. \A p \in DOMAIN l : ~<<"local", p, l[p]>>[3] <=> ~l[p]
      OBVIOUS
    <2>3. QED
      BY <2>1, <2>2 DEF Closed
  <1>7. {c \in R \cup L : ~c[3]} = {c \in R : ~c[3]} \cup {c \in L : ~c[3]}
    BY <1>4
  <1>8. QED
    BY <1>2, <1>5, <1>6, <1>7 DEF r, l

\* _on_health, _port_chips: a port is shown as closed exactly when the last check saw it
\* closed, and the ports of a server that check did not reach as not observed, through
\* reloads, deaths, failed writes and late reports.
THEOREM NotObservedNotClosed == Spec => []UnobservedNotClosed
  <1>1. StatusTypeOK /\ ReportInv => UnobservedNotClosed
    <2> SUFFICES ASSUME StatusTypeOK, ReportInv, NEW n \in DOMAIN Stored,
                        Stored[n].healthy # "none"
                 PROVE  LET shown == PortChips(Stored[n])
                            o == last[n].outcome
                        IN  /\ last[n].known
                            /\ {c \in shown.chips : ~c[3]} =
                                   {<<"remote", p, FALSE>> : p \in Closed(ObservedRemote(o))}
                                   \cup {<<"local", p, FALSE>> : p \in Closed(ObservedLocal(o))}
                            /\ o.remote = "probe_error" => shown.unobserved
      BY DEF UnobservedNotClosed
    <2> DEFINE o == last[n].outcome
    <2>1. o \in Outcomes /\ last[n].known /\ Stored[n] = Reported(Unreported, o)
      BY StoredReport
    <2>2. /\ Stored[n].remote = ObservedRemote(o) /\ Stored[n].local = ObservedLocal(o)
          /\ Stored[n].probeError = (o.remote = "probe_error")
      BY <2>1 DEF Reported
    <2>3. Stored[n] \in Sections
      BY <2>1, ReportIsSection
    <2>4. {c \in PortChips(Stored[n]).chips : ~c[3]} =
             {<<"remote", p, FALSE>> : p \in Closed(ObservedRemote(o))}
             \cup {<<"local", p, FALSE>> : p \in Closed(ObservedLocal(o))}
      BY <2>2, <2>3, ClosedChips
    <2>5. o.remote = "probe_error" => PortChips(Stored[n]).unobserved
      BY <2>2 DEF PortChips, ObservedRemote
    <2>6. QED
      BY <2>1, <2>4, <2>5
  <1>2. QED
    BY StatusInvariant, <1>1, PTL

\* _failure_reason: for every tunnel /healthz calls unhealthy it has a reason, whatever
\* the checks met.
THEOREM DegradedExplained == Spec => []DegradedIsExplained
  <1>1. ASSUME NEW o \in Outcomes, ~AllHealthy(o), Conclusive(o)
        PROVE  Explained(Reported(Unreported, o))
    <2>1. CASE ~o.alive
      BY <2>1 DEF Explained, Reported, Flag
    <2>2. CASE o.alive
      <3>1. ~AllOpen(ObservedRemote(o)) \/ ~AllOpen(ObservedLocal(o))
        BY <1>1, <2>2 DEF AllHealthy, Conclusive
      <3>2. Closed(ObservedRemote(o)) # {} \/ Closed(ObservedLocal(o)) # {}
        BY <3>1 DEF AllOpen, Closed
      <3>3. QED
        BY <3>2 DEF Explained, Reported
    <2>3. QED
      BY <2>1, <2>2 DEF Outcomes
  <1>2. ASSUME NEW P, \A n \in Having(P, Failed) : Explained(P[n])
        PROVE  HealthResponse(TRUE, P).errors = HealthResponse(TRUE, P).unhealthy
    <2>1. {n \in Having(P, Failed) : Explained(P[n])} = Having(P, Failed)
      BY <1>2
    <2>2. QED
      BY <2>1 DEF HealthResponse
  <1>3. StatusTypeOK /\ ReportInv => DegradedIsExplained
    <2> SUFFICES ASSUME StatusTypeOK, ReportInv
                 PROVE  DegradedIsExplained
      OBVIOUS
    <2> DEFINE P == Payload(up, conf, Stored)
    <2>1. ASSUME NEW n \in Having(P, Failed)
          PROVE  Explained(P[n])
      <3>1. n \in DOMAIN P /\ P[n].healthy = "no" /\ P[n].conclusive # "no"
        BY <2>1 DEF Having, Failed, Inconclusive
      <3>2. n \in DOMAIN Stored /\ P[n] = Stored[n]
        BY <3>1 DEF Payload, Unreported
      <3>3. /\ last[n].outcome \in Outcomes
            /\ Stored[n] = Reported(Unreported, last[n].outcome)
        BY <3>1, <3>2, StoredReport
      <3>4. ~AllHealthy(last[n].outcome) /\ Conclusive(last[n].outcome)
        BY <3>1, <3>2, <3>3 DEF Reported, Flag
      <3>5. QED
        BY <1>1, <3>2, <3>3, <3>4
    <2>2. QED
      BY <1>2, <2>1 DEF DegradedIsExplained, Running
  <1>4. QED
    BY StatusInvariant, <1>3, PTL

\* begin, remove, edit: a section of a profile nobody supervises comes from a retired
\* runner that reports late; no reload leaves one by itself.
THEOREM GhostsOnlyLate == Spec => GhostsAreLate
  <1>1. ASSUME StatusTypeOK, [Next]_vars, up, up'
        PROVE  Ghosts' \ Ghosts \subseteq late
    <2>1. CASE /\ conf' = conf /\ reload' = reload
               /\ DOMAIN Stored' \subseteq DOMAIN Stored \cup conf \cup late
      BY <2>1 DEF Ghosts
    <2>2. CASE Flush \/ WriteFails
      <3>1. CASE Flush
        <4>1. writing.on /\ ~writing'.on /\ file' = writing.to
          BY <3>1 DEF Flush, NotWriting
        <4>2. Stored' = Stored
          BY <4>1 DEF Stored
        <4>3. QED
          BY <2>1, <3>1, <4>2 DEF Flush
      <3>2. CASE WriteFails
        <4>0. ~writing'.on /\ file' = file /\ file = NoSections
          BY <1>1, <3>2 DEF WriteFails, NotWriting, StatusTypeOK
        <4>1. Stored' = NoSections
          BY <4>0 DEF Stored
        <4>2. DOMAIN Stored' \subseteq DOMAIN Stored
          BY <4>1 DEF NoSections
        <4>3. QED
          BY <2>1, <3>2, <4>2 DEF WriteFails
      <3>3. QED
        BY <2>2, <3>1, <3>2
    <2>3. CASE ReloadSwap
      <3>1. Stored' = Stored /\ reload.removed = {}
        BY <2>3 DEF ReloadSwap, Stored, NoReload
      <3>2. conf \subseteq conf' \cup reload'.removed
        BY <2>3 DEF ReloadSwap
      <3>3. QED
        BY <3>1, <3>2 DEF Ghosts
    <2>4. CASE ReloadBegin
      <3>1. DOMAIN Stored' = DOMAIN Stored \cup conf
        BY <2>4 DEF ReloadBegin, StartWrite, Stored, Begun
      <3>2. conf' = conf /\ reload'.removed = reload.removed
        BY <2>4 DEF ReloadBegin, NoReload, StatusTypeOK
      <3>3. QED
        BY <3>1, <3>2 DEF Ghosts
    <2>5. CASE ReloadRemove
      <3>1. DOMAIN Stored' = DOMAIN Stored \ reload.removed
        BY <2>5 DEF ReloadRemove, StartWrite, Stored, Removed
      <3>2. conf' = conf
        BY <2>5 DEF ReloadRemove
      <3>3. QED
        BY <3>1, <3>2 DEF Ghosts
    <2>6. ASSUME NEW n \in Names, Report(n) \/ Event(n) \/ LateReport(n)
          PROVE  Ghosts' \ Ghosts \subseteq late
      <3>1. DOMAIN Stored' = DOMAIN Stored \cup {n} /\ n \in conf \cup late
        BY <2>6 DEF Report, Event, LateReport, Edit, StartWrite, Stored, With
      <3>2. conf' = conf /\ reload' = reload
        BY <2>6 DEF Report, Event, LateReport
      <3>3. QED
        BY <2>1, <3>1, <3>2
    <2>7. CASE UNCHANGED vars \/ \E n \in Names : LateEnds(n) \/ TunnelChanges(n)
      BY <2>1, <2>7 DEF LateEnds, TunnelChanges, vars, Stored
    <2>8. CASE Start \/ Die
      BY <1>1, <2>8 DEF Start, Die
    <2>9. QED
      BY <1>1, <2>2, <2>3, <2>4, <2>5, <2>6, <2>7, <2>8 DEF Next
  <1>2. StatusTypeOK /\ [Next]_vars => [up /\ up' => Ghosts' \ Ghosts \subseteq late]_vars
    BY <1>1
  <1>3. QED
    BY StatusInvariant, <1>2, PTL DEF Spec, GhostsAreLate

-----------------------------------------------------------------------------
(* The verdicts drawn from one payload.                                    *)

\* The sections a reader can be shown: a verdict is there with its certainty, and
\* a good one is certain.
Payloads(P) ==
    \A n \in DOMAIN P :
        /\ P[n] \in Sections
        /\ (P[n].healthy = "none") = (P[n].conclusive = "none")
        /\ P[n].healthy = "yes" => P[n].conclusive = "yes"

\* The four ways to look at a payload that decide every verdict.
LEMMA Parts ==
    ASSUME NEW P, Payloads(P)
    PROVE  /\ Having(P, Failed) \subseteq DOMAIN P
           /\ Having(P, Inconclusive) \subseteq DOMAIN P \ (Having(P, Healthy) \cup Having(P, Failed))
           /\ Having(P, Healthy) \subseteq DOMAIN P
           /\ Having(P, Healthy) \cap Having(P, Failed) = {}
           /\ \A n \in DOMAIN P :
                 /\ n \in Having(P, Failed) <=> P[n].healthy = "no" /\ P[n].conclusive = "yes"
                 /\ n \in Having(P, Inconclusive) <=> P[n].healthy = "no" /\ P[n].conclusive = "no"
                 /\ n \in Having(P, Healthy) <=> P[n].healthy = "yes"
  <1>1. \A n \in DOMAIN P : P[n].healthy \in Maybe /\ P[n].conclusive \in Maybe
    BY DEF Payloads, Sections
  <1>2. QED
    BY <1>1 DEF Payloads, Having, Failed, Inconclusive, Healthy, Maybe

LEMMA HealthVerdict ==
    ASSUME NEW P
    PROVE  /\ HealthResponse(TRUE, P).unhealthy = Having(P, Failed)
           /\ HealthResponse(TRUE, P).code = IF Having(P, Failed) # {} THEN 503 ELSE 200
           /\ HealthResponse(TRUE, P).status =
                 IF Having(P, Failed) # {} THEN "degraded"
                 ELSE IF Having(P, Inconclusive) # {} THEN "unverified"
                 ELSE IF DOMAIN P # {} /\ Having(P, Healthy) = DOMAIN P THEN "ok"
                 ELSE "starting"
  <1> DEFINE U == Having(P, Failed)
             K == Having(P, Inconclusive)
             H == Having(P, Healthy)
  <1>1. U \subseteq DOMAIN P /\ K \subseteq DOMAIN P /\ H \subseteq DOMAIN P
    BY DEF Having
  <1>2. (\A n \in DOMAIN P : Healthy(P[n])) <=> H = DOMAIN P
    BY DEF Having
  <1>3. CASE DOMAIN P = {}
    BY <1>1, <1>3 DEF HealthResponse
  <1>4. CASE DOMAIN P # {} /\ U # {}
    BY <1>4 DEF HealthResponse
  <1>5. CASE DOMAIN P # {} /\ U = {} /\ K # {}
    BY <1>5 DEF HealthResponse
  <1>6. CASE DOMAIN P # {} /\ U = {} /\ K = {}
    BY <1>2, <1>6 DEF HealthResponse
  <1>7. QED
    BY <1>3, <1>4, <1>5, <1>6

LEMMA PageVerdict ==
    ASSUME NEW P, Payloads(P)
    PROVE  /\ Summary(TRUE, P).tiles["bad"] = Cardinality(Having(P, Failed))
           /\ Summary(TRUE, P).tiles["ok"] = Cardinality(Having(P, Healthy))
           /\ Summary(TRUE, P).verdict =
                 IF Having(P, Failed) # {} THEN "bad"
                 ELSE IF Having(P, Inconclusive) # {} THEN "unknown"
                 ELSE IF DOMAIN P # {} /\ Having(P, Healthy) = DOMAIN P THEN "ok"
                 ELSE "waiting"
  <1> DEFINE U == Having(P, Failed)
             K == Having(P, Inconclusive)
             H == Having(P, Healthy)
             rest == \E n \in DOMAIN P \ (H \cup U) : Inconclusive(P[n])
             verdict == IF U # {} THEN "bad" ELSE IF rest THEN "unknown"
                        ELSE IF H # {} /\ H = DOMAIN P THEN "ok" ELSE "waiting"
             tile(t) == CASE t = "ok" -> H [] t = "bad" -> U
                          [] t = "unknown" -> DOMAIN P \ (H \cup U)
             tiles == [t \in {"ok", "unknown", "bad"} |-> Cardinality(tile(t))]
  <1>1. rest <=> K # {}
    BY Parts DEF Having
  <1>2. verdict = IF U # {} THEN "bad" ELSE IF K # {} THEN "unknown"
                  ELSE IF DOMAIN P # {} /\ H = DOMAIN P THEN "ok" ELSE "waiting"
    <2> HIDE DEF U, K, H, rest
    <2>1. QED
      BY <1>1
  <1>3. Summary(TRUE, P).verdict = verdict
    BY DEF Summary
  <1>4. Summary(TRUE, P).tiles = tiles
    BY DEF Summary
  <1>5. tile("ok") = H /\ tile("bad") = U
    <2> HIDE DEF U, H
    <2>1. QED
      OBVIOUS
  <1>6. tiles["ok"] = Cardinality(H) /\ tiles["bad"] = Cardinality(U)
    <2> HIDE DEF tile, U, H
    <2>1. QED
      BY <1>5
  <1> HIDE DEF verdict, tiles, U, K, H
  <1>7. QED
    BY <1>2, <1>3, <1>4, <1>6 DEF U, K, H

LEMMA MetricsVerdict ==
    ASSUME NEW P, Payloads(P)
    PROVE  /\ Metrics(TRUE, P).unhealthy = Cardinality(Having(P, Failed))
           /\ {n \in DOMAIN Metrics(TRUE, P).healthy : Metrics(TRUE, P).healthy[n]} =
                 Having(P, Healthy)
           /\ Metrics(TRUE, P).dead = DeadPorts(P)
  <1> DEFINE with == {m \in DOMAIN P : HealthySample(P[m]) # "none"}
             series == [n \in with |-> HealthySample(P[n]) = "yes"]
  <1>1. Metrics(TRUE, P).healthy = series
    BY DEF Metrics
  <1>2. {n \in with : HealthySample(P[n]) = "yes"} = Having(P, Healthy)
    BY DEF HealthySample, Having, Healthy, Inconclusive
  <1>3. DOMAIN series = with /\ \A n \in with : series[n] = (HealthySample(P[n]) = "yes")
    OBVIOUS
  <1>4. {n \in DOMAIN series : series[n]} = Having(P, Healthy)
    BY <1>2, <1>3
  <1>5. /\ Metrics(TRUE, P).unhealthy = Cardinality(Having(P, Failed))
        /\ Metrics(TRUE, P).dead = DeadPorts(P)
    BY DEF Metrics
  <1> HIDE DEF series
  <1>6. QED
    BY <1>1, <1>4, <1>5

\* The tables' DaemonStatus.healthy, which also colours `ponte watch`.
LEMMA TableVerdict ==
    ASSUME NEW P, Payloads(P)
    PROVE  (DaemonHealthy(P) = "yes") <=> DOMAIN P # {} /\ Having(P, Healthy) = DOMAIN P
  BY DEF DaemonHealthy, Flag, Having, Healthy

LEMMA RowVerdict ==
    ASSUME NEW P, Payloads(P), NEW n \in DOMAIN P
    PROVE  /\ Tone(P[n]) = MarkupHealth(P[n])
           /\ (Tone(P[n]) = "bad") <=> n \in Having(P, Failed)
  <1>1. P[n].healthy \in Maybe /\ P[n].conclusive \in Maybe
    BY DEF Payloads, Sections
  <1>2. QED
    BY <1>1 DEF Payloads, Maybe, Tone, MarkupHealth, Healthy, Failed, Inconclusive, Having

\* The ports that a row of the page shows as closed are those of the metrics.
LEMMA DeadChips ==
    ASSUME NEW P, Payloads(P), NEW n \in DOMAIN P
    PROVE  {c \in PortChips(P[n]).chips : ~c[3]} =
              {<<d[2], d[3], FALSE>> : d \in {e \in DeadPorts(P) : e[1] = n}}
  <1> DEFINE R == Closed(P[n].remote)
             L == Closed(P[n].local)
             mine == {<<n, "remote", p>> : p \in R} \cup {<<n, "local", p>> : p \in L}
             flat == {<<"remote", p, FALSE>> : p \in R} \cup {<<"local", p, FALSE>> : p \in L}
  <1>1. {c \in PortChips(P[n]).chips : ~c[3]} = flat
    BY ClosedChips DEF Payloads
  <1>2. {e \in DeadPorts(P) : e[1] = n} = mine
    BY DEF DeadPorts
  <1> HIDE DEF R, L
  <1>3. {<<d[2], d[3], FALSE>> : d \in mine} = flat
    <2>1. \A A, B : {<<d[2], d[3], FALSE>> : d \in A \cup B} =
                      {<<d[2], d[3], FALSE>> : d \in A} \cup {<<d[2], d[3], FALSE>> : d \in B}
      OBVIOUS
    <2>2. {<<d[2], d[3], FALSE>> : d \in {<<n, "remote", p>> : p \in R}} =
             {<<"remote", p, FALSE>> : p \in R}
      <3>1. \A p : <<n, "remote", p>>[2] = "remote" /\ <<n, "remote", p>>[3] = p
        OBVIOUS
      <3>2. QED
        BY <3>1
    <2>3. {<<d[2], d[3], FALSE>> : d \in {<<n, "local", p>> : p \in L}} =
             {<<"local", p, FALSE>> : p \in L}
      <3>1. \A p : <<n, "local", p>>[2] = "local" /\ <<n, "local", p>>[3] = p
        OBVIOUS
      <3>2. QED
        BY <3>1
    <2>4. QED
      BY <2>1, <2>2, <2>3
  <1> HIDE DEF mine, flat
  <1>4. QED
    BY <1>1, <1>2, <1>3

LEMMA ReadPayload ==
    ASSUME StatusTypeOK, ReportInv, NEW names \in SUBSET Names
    PROVE  /\ Payloads(Payload(up, names, file))
           /\ ~up => DOMAIN Payload(up, names, file) = {}
  <1> DEFINE P == Payload(up, names, file)
  <1>1. /\ Unreported.healthy = "none" /\ Unreported.conclusive = "none"
        /\ Unreported \in Sections
    BY UnreportedIsSection DEF Unreported
  <1>2. ASSUME NEW n \in DOMAIN file, file[n].healthy = "yes"
        PROVE  file[n].conclusive = "yes"
    <2>1. file[n] = Reported(Unreported, last[n].outcome)
      BY <1>2 DEF ReportInv, SectionInv
    <2>2. AllHealthy(last[n].outcome)
      BY <1>2, <2>1 DEF Reported, Flag
    <2>3. Conclusive(last[n].outcome)
      BY <2>2 DEF AllHealthy, Conclusive
    <2>4. QED
      BY <2>1, <2>3 DEF Reported, Flag
  <1>3. \A n \in DOMAIN P : P[n] = IF n \in DOMAIN file THEN file[n] ELSE Unreported
    BY DEF Payload
  <1>4. \A n \in DOMAIN file : /\ file[n] \in Sections
                               /\ (file[n].healthy = "none") = (file[n].conclusive = "none")
    BY DEF StatusTypeOK, IsFile
  <1>5. ~up => DOMAIN P = {}
    BY DEF Payload
  <1> HIDE DEF P
  <1>6. Payloads(P)
    BY <1>1, <1>2, <1>3, <1>4 DEF Payloads
  <1>7. QED
    BY <1>5, <1>6 DEF P

LEMMA BordersAgree ==
    ASSUME StatusTypeOK, ReportInv, NEW names \in SUBSET Names
    PROVE  BordersAgreeFor(names)
  <1> DEFINE P == Payload(up, names, file)
             panels == ProfilePanels(up, P)
             colour == [ok |-> "green", unknown |-> "yellow", bad |-> "red"]
  <1>1. Payloads(P)
    BY ReadPayload
  <1> HIDE DEF P
  <1>2. \A n \in DOMAIN panels : n \in DOMAIN P /\ panels[n] = ProfileBorder(P[n])
    BY DEF ProfilePanels
  <1> HIDE DEF panels
  <1>3. ASSUME NEW n \in DOMAIN panels
        PROVE  panels[n] = IF Inconclusive(P[n]) THEN "red" ELSE colour[Tone(P[n])]
    <2>1. P[n].healthy \in Maybe
      BY <1>1, <1>2 DEF Payloads, Sections
    <2>2. QED
      BY <1>2, <2>1 DEF ProfileBorder, Tone, Healthy, Failed, Inconclusive, Maybe
  <1>4. QED
    BY <1>3 DEF BordersAgreeFor, P, panels, colour

\* serve.py and main.py derive every verdict from one payload: whatever the file
\* holds at that moment, for any profiles and any configuration of the reader,
\* /healthz, /metrics, the page and the tables of `ponte status` and `ponte watch`
\* agree, and so does the border `ponte watch` draws around each of several
\* profiles, but around one whose check never got to ask: that is red.
THEOREM VerdictsAlwaysAgree == Spec => []VerdictsAgree
  <1>1. StatusTypeOK /\ ReportInv => VerdictsAgree
    <2> SUFFICES ASSUME StatusTypeOK, ReportInv, NEW names \in SUBSET Names
                 PROVE  VerdictsAgreeFor(names)
      BY BordersAgree DEF VerdictsAgree
    <2> DEFINE P == Payload(up, names, file)
               U == Having(P, Failed)
               K == Having(P, Inconclusive)
               H == Having(P, Healthy)
               health == HealthResponse(TRUE, P)
               page == Summary(TRUE, P)
               metrics == Metrics(TRUE, P)
               request == [path |-> "/healthz", token |-> TRUE, status |-> TRUE]
               answer(r) == Respond(r, TRUE, P)
    <2>1. Payloads(P) /\ (~up => DOMAIN P = {})
      BY ReadPayload
    <2> HIDE DEF P
    <2>2. health.unhealthy = U
      BY HealthVerdict
    <2>3. health.code = IF U # {} THEN 503 ELSE 200
      BY HealthVerdict
    <2>4. health.status = IF U # {} THEN "degraded" ELSE IF K # {} THEN "unverified"
                          ELSE IF DOMAIN P # {} /\ H = DOMAIN P THEN "ok" ELSE "starting"
      BY HealthVerdict
    <2>5. page.tiles["bad"] = Cardinality(U) /\ page.tiles["ok"] = Cardinality(H)
      BY <2>1, PageVerdict
    <2>6. page.verdict = IF U # {} THEN "bad" ELSE IF K # {} THEN "unknown"
                         ELSE IF DOMAIN P # {} /\ H = DOMAIN P THEN "ok" ELSE "waiting"
      BY <2>1, PageVerdict
    <2>7. /\ metrics.unhealthy = Cardinality(U)
          /\ {n \in DOMAIN metrics.healthy : metrics.healthy[n]} = H
      BY <2>1, MetricsVerdict
    <2>8. metrics.dead = DeadPorts(P)
      BY <2>1, MetricsVerdict
    <2>9. (DaemonHealthy(P) = "yes") <=> DOMAIN P # {} /\ H = DOMAIN P
      BY <2>1, TableVerdict
    <2>10. H = DOMAIN P => U = {} /\ K = {}
      BY <2>1, Parts
    <2>11. answer(request) = health.code
      BY DEF Respond
    <2>12. /\ answer([request EXCEPT !.path = "/metrics"]) = 200
           /\ answer([request EXCEPT !.path = "other"]) = 404
      BY DEF Respond
    <2>13. (WatchBorder(up, P) = "green") <=> up /\ DaemonHealthy(P) = "yes"
      BY DEF WatchBorder
    <2>14. \A n \in DOMAIN P : Tone(P[n]) = MarkupHealth(P[n]) /\ ((Tone(P[n]) = "bad") <=> n \in U)
      BY <2>1, RowVerdict
    <2>15. \A n \in DOMAIN P :
              {c \in PortChips(P[n]).chips : ~c[3]} =
                 {<<d[2], d[3], FALSE>> : d \in {e \in DeadPorts(P) : e[1] = n}}
      BY <2>1, DeadChips
    <2> HIDE DEF U, K, H, health, page, metrics, request, answer
    <2>16. (health.status = "ok") <=> DOMAIN P # {} /\ H = DOMAIN P
      BY <2>4, <2>10
    <2>17. page.verdict = CASE health.status = "down"       -> "down"
                            [] health.status = "degraded"   -> "bad"
                            [] health.status = "unverified" -> "unknown"
                            [] health.status = "ok"         -> "ok"
                            [] health.status = "starting"   -> "waiting"
      BY <2>4, <2>6
    <2>18. /\ metrics.unhealthy = Cardinality(health.unhealthy)
           /\ page.tiles["bad"] = metrics.unhealthy
           /\ page.tiles["ok"] = Cardinality({n \in DOMAIN metrics.healthy : metrics.healthy[n]})
      BY <2>2, <2>5, <2>7
    <2>19. (answer(request) = 503) = (page.verdict \in {"down", "bad"})
      <3>1. (answer(request) = 503) <=> U # {}
        BY <2>3, <2>11
      <3>2. (page.verdict \in {"down", "bad"}) <=> U # {}
        BY <2>6
      <3>3. QED
        BY <3>1, <3>2
    <2>20. /\ (health.status = "ok") = (DaemonHealthy(P) = "yes")
           /\ (WatchBorder(up, P) = "green") = (health.status = "ok")
      BY <2>1, <2>9, <2>13, <2>16
    <2>21. \A n \in DOMAIN P :
              /\ Tone(P[n]) = MarkupHealth(P[n])
              /\ (Tone(P[n]) = "bad") = (n \in health.unhealthy)
              /\ {c \in PortChips(P[n]).chips : ~c[3]} =
                    {<<d[2], d[3], FALSE>> : d \in {e \in metrics.dead : e[1] = n}}
      <3>1. \A n \in DOMAIN P : (Tone(P[n]) = "bad") = (n \in health.unhealthy)
        BY <2>2, <2>14
      <3>2. QED
        BY <2>8, <2>14, <2>15, <3>1
    <2>22. QED
      BY <2>12, <2>17, <2>18, <2>19, <2>20, <2>21
      DEF VerdictsAgreeFor, Running, P, health, page, metrics, request, answer
  <1>2. QED
    BY StatusInvariant, <1>1, PTL

=============================================================================
