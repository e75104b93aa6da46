-------------------------- MODULE DemoTimeline_proofs --------------------------
(***************************************************************************)
(* Proofs about DemoTimeline, for every Horizon and every set of Anchors:  *)
(* the numbers computed of a moment are what passing through all the       *)
(* moments before it adds up to (StatsAlwaysAgree), the change announced   *)
(* is the next one (NextIsAlwaysNext), the feed agrees with the numbers    *)
(* (FeedAlwaysAgrees) and no counter goes down (NothingIsTakenBack).       *)
(*                                                                         *)
(* The phases of the three profiles are data, so the proof computes with   *)
(* them: first where in its cycle every phase begins, then every number    *)
(* of a moment s as a function of the round s \div cycle and the offset    *)
(* s % cycle, then what a second adds to it, where the cases are the       *)
(* seconds inside a round and the one that begins the next.                *)
(***************************************************************************)
EXTENDS DemoTimeline, TLAPS

-----------------------------------------------------------------------------
(* The phases, and where they begin.                                       *)

\* What the k-th phase adds to the seconds spent in some states.
Spent(p, k, states) ==
    IF Phases[p][k].state \in states THEN Phases[p][k].seconds ELSE 0

PhaseIs(p, k, state, seconds, reason) ==
    /\ Phases[p][k].state = state /\ Phases[p][k].seconds = seconds
    /\ Phases[p][k].reason = reason

LEMMA WebPhases ==
    /\ Len(Phases["web"]) = 4
    /\ PhaseIs("web", 1, "connected", 140, FALSE) /\ PhaseIs("web", 2, "disconnected", 6, TRUE)
    /\ PhaseIs("web", 3, "retrying", 18, FALSE) /\ PhaseIs("web", 4, "connected", 16, FALSE)
BY DEF Phases, Phase, PhaseIs

LEMMA DbPhases ==
    /\ Len(Phases["db"]) = 3
    /\ PhaseIs("db", 1, "connected", 25, TRUE) /\ PhaseIs("db", 2, "disconnected", 5, TRUE)
    /\ PhaseIs("db", 3, "retrying", 90, FALSE)
BY DEF Phases, Phase, PhaseIs

LEMMA MetricsPhases ==
    /\ Len(Phases["metrics"]) = 2
    /\ PhaseIs("metrics", 1, "connected", 170, FALSE)
    /\ PhaseIs("metrics", 2, "unknown", 40, TRUE)
BY DEF Phases, Phase, PhaseIs

LEMMA PhasesAre ==
    ASSUME NEW p \in Profiles
    PROVE  /\ Len(Phases[p]) \in 2 .. 4
           /\ \A k \in 1 .. Len(Phases[p]) : Phases[p][k].seconds \in Nat
<1>1. CASE p = "web"
  <2>1. 1 .. 4 = {1, 2, 3, 4}
    OBVIOUS
  <2>2. QED
    BY <1>1, <2>1, WebPhases DEF PhaseIs
<1>2. CASE p = "db"
  <2>1. 1 .. 3 = {1, 2, 3}
    OBVIOUS
  <2>2. QED
    BY <1>2, <2>1, DbPhases DEF PhaseIs
<1>3. CASE p = "metrics"
  <2>1. 1 .. 2 = {1, 2}
    OBVIOUS
  <2>2. QED
    BY <1>3, <2>1, MetricsPhases DEF PhaseIs
<1>4. QED
    BY <1>1, <1>2, <1>3 DEF Profiles

\* The recursion of Seconds, unfolded: no profile has more than four phases, so
\* the function it defines can be written down, and with that it exists.
LEMMA Cursor ==
    ASSUME NEW p \in Profiles, NEW states
    PROVE  /\ Seconds(p, 1, states) = 0
           /\ \A k \in 2 .. Len(Phases[p]) + 1 :
                 Seconds(p, k, states) = Seconds(p, k - 1, states) + Spent(p, k - 1, states)
<1> DEFINE n == Len(Phases[p])
           Adds(f) == f = [k \in 1 .. n + 1 |->
               IF k = 1 THEN 0
               ELSE f[k - 1]
                    + IF Phases[p][k - 1].state \in states THEN Phases[p][k - 1].seconds ELSE 0]
           add(k) == Spent(p, k, states)
           f == [k \in 1 .. n + 1 |->
               IF k = 1 THEN 0
               ELSE IF k = 2 THEN add(1)
               ELSE IF k = 3 THEN add(1) + add(2)
               ELSE IF k = 4 THEN add(1) + add(2) + add(3)
               ELSE add(1) + add(2) + add(3) + add(4)]
<1>1. n \in 2 .. 4
    BY PhasesAre
<1> HIDE DEF n
<1>2. ASSUME NEW k \in 1 .. n + 1
      PROVE  f[k] = IF k = 1 THEN 0
                    ELSE f[k - 1] + IF Phases[p][k - 1].state \in states
                                    THEN Phases[p][k - 1].seconds ELSE 0
  <2>1. k \in {1, 2, 3, 4, 5}
    BY <1>1
  <2>2. \A j \in 1 .. 4 :
            (IF Phases[p][j].state \in states THEN Phases[p][j].seconds ELSE 0) = add(j)
    BY DEF Spent
  <2>3. \A j \in 1 .. n : add(j) \in Nat
    BY PhasesAre DEF Spent, n
  <2>4. f[1] = 0 /\ f[2] = add(1)
        /\ (n >= 2 => f[3] = add(1) + add(2)) /\ (n >= 3 => f[4] = add(1) + add(2) + add(3))
        /\ (n >= 4 => f[5] = add(1) + add(2) + add(3) + add(4))
    BY <1>1
  <2>5. k \in 2 .. n + 1 => k - 1 \in 1 .. n /\ k - 1 \in 1 .. 4
    BY <1>1
  <2>6. 0 + add(1) = add(1)
    BY <1>1, <2>3
  <2> HIDE DEF add, f
  <2>7. k \in 2 .. n + 1 => f[k] = f[k - 1] + add(k - 1)
    BY <1>1, <2>1, <2>4, <2>6
  <2>8. QED
    BY <2>1, <2>2, <2>4, <2>5, <2>7
<1>3. Adds(f)
    BY <1>2
<1> HIDE DEF f
<1>4. PICK g : Adds(g) /\ \A i : Seconds(p, i, states) = g[i]
    BY <1>3 DEF Seconds, n
<1>5. g[1] = 0 /\ \A k \in 1 .. n + 1 : k # 1 => g[k] = g[k - 1] + Spent(p, k - 1, states)
    BY <1>1, <1>4 DEF Spent
<1>6. \A k \in 2 .. n + 1 : k \in 1 .. n + 1 /\ k # 1
    BY <1>1
<1>7. \A k \in 2 .. n + 1 : g[k] = g[k - 1] + Spent(p, k - 1, states)
    BY <1>5, <1>6
<1>8. QED
    BY <1>4, <1>5, <1>7 DEF n

LEMMA WebTimes ==
    /\ StartOf("web", 1) = 0 /\ StartOf("web", 2) = 140 /\ StartOf("web", 3) = 146
    /\ StartOf("web", 4) = 164 /\ Cycle("web") = 180
    /\ Seconds("web", 1, UpStates) = 0 /\ Seconds("web", 2, UpStates) = 140
    /\ Seconds("web", 3, UpStates) = 140 /\ Seconds("web", 4, UpStates) = 140
    /\ Seconds("web", 5, UpStates) = 156
<1> DEFINE all == UpStates \cup {"disconnected", "retrying"}
<1>1. "web" \in Profiles
    BY DEF Profiles
<1>2. ASSUME NEW states
      PROVE  /\ Seconds("web", 1, states) = 0
             /\ \A k \in {2, 3, 4, 5} :
                   Seconds("web", k, states)
                       = Seconds("web", k - 1, states) + Spent("web", k - 1, states)
  <2>1. 2 .. Len(Phases["web"]) + 1 = {2, 3, 4, 5}
    BY WebPhases
  <2>2. QED
    BY <1>1, <2>1, Cursor
<1>3. /\ Spent("web", 1, all) = 140 /\ Spent("web", 2, all) = 6 /\ Spent("web", 3, all) = 18
      /\ Spent("web", 4, all) = 16
      /\ Spent("web", 1, UpStates) = 140 /\ Spent("web", 2, UpStates) = 0
      /\ Spent("web", 3, UpStates) = 0 /\ Spent("web", 4, UpStates) = 16
    BY WebPhases DEF PhaseIs, Spent, UpStates
<1>4. \A i : StartOf("web", i) = Seconds("web", i, all)
    BY DEF StartOf
<1> HIDE DEF all
<1>5. QED
    BY <1>2, <1>3, <1>4, WebPhases DEF Cycle

LEMMA DbTimes ==
    /\ StartOf("db", 1) = 0 /\ StartOf("db", 2) = 25 /\ StartOf("db", 3) = 30
    /\ Cycle("db") = 120
    /\ Seconds("db", 1, UpStates) = 0 /\ Seconds("db", 2, UpStates) = 25
    /\ Seconds("db", 3, UpStates) = 25 /\ Seconds("db", 4, UpStates) = 25
<1> DEFINE all == UpStates \cup {"disconnected", "retrying"}
<1>1. "db" \in Profiles
    BY DEF Profiles
<1>2. ASSUME NEW states
      PROVE  /\ Seconds("db", 1, states) = 0
             /\ \A k \in {2, 3, 4} :
                   Seconds("db", k, states)
                       = Seconds("db", k - 1, states) + Spent("db", k - 1, states)
  <2>1. 2 .. Len(Phases["db"]) + 1 = {2, 3, 4}
    BY DbPhases
  <2>2. QED
    BY <1>1, <2>1, Cursor
<1>3. /\ Spent("db", 1, all) = 25 /\ Spent("db", 2, all) = 5 /\ Spent("db", 3, all) = 90
      /\ Spent("db", 1, UpStates) = 25 /\ Spent("db", 2, UpStates) = 0
      /\ Spent("db", 3, UpStates) = 0
    BY DbPhases DEF PhaseIs, Spent, UpStates
<1>4. \A i : StartOf("db", i) = Seconds("db", i, all)
    BY DEF StartOf
<1> HIDE DEF all
<1>5. QED
    BY <1>2, <1>3, <1>4, DbPhases DEF Cycle

LEMMA MetricsTimes ==
    /\ StartOf("metrics", 1) = 0 /\ StartOf("metrics", 2) = 170 /\ Cycle("metrics") = 210
    /\ Seconds("metrics", 1, UpStates) = 0 /\ Seconds("metrics", 2, UpStates) = 170
    /\ Seconds("metrics", 3, UpStates) = 210
<1> DEFINE all == UpStates \cup {"disconnected", "retrying"}
<1>1. "metrics" \in Profiles
    BY DEF Profiles
<1>2. ASSUME NEW states
      PROVE  /\ Seconds("metrics", 1, states) = 0
             /\ \A k \in {2, 3} :
                   Seconds("metrics", k, states)
                       = Seconds("metrics", k - 1, states) + Spent("metrics", k - 1, states)
  <2>1. 2 .. Len(Phases["metrics"]) + 1 = {2, 3}
    BY MetricsPhases
  <2>2. QED
    BY <1>1, <2>1, Cursor
<1>3. /\ Spent("metrics", 1, all) = 170 /\ Spent("metrics", 2, all) = 40
      /\ Spent("metrics", 1, UpStates) = 170 /\ Spent("metrics", 2, UpStates) = 40
    BY MetricsPhases DEF PhaseIs, Spent, UpStates
<1>4. \A i : StartOf("metrics", i) = Seconds("metrics", i, all)
    BY DEF StartOf
<1> HIDE DEF all
<1>5. QED
    BY <1>2, <1>3, <1>4, MetricsPhases DEF Cycle

-----------------------------------------------------------------------------
(* A moment within its cycle.                                              *)

LEMMA MaxIs ==
    ASSUME NEW S \in SUBSET Int, NEW m \in S, \A x \in S : x <= m
    PROVE  Max(S) = m
<1> DEFINE x == CHOOSE x \in S : \A y \in S : x >= y
<1>1. \A y \in S : m >= y
    OBVIOUS
<1>2. x \in S /\ \A y \in S : x >= y
    BY <1>1
<1> HIDE DEF x
<1>3. x = m
    BY <1>2
<1>4. QED
    BY <1>3 DEF Max, x

\* The phase of a moment is the last that has begun.
LEMMA Located ==
    ASSUME NEW p \in Profiles, NEW s, NEW i \in Indices(p),
           Offset(p, s) >= StartOf(p, i),
           \A j \in Indices(p) : Offset(p, s) >= StartOf(p, j) => j <= i
    PROVE  Locate(p, s) = i
<1>1. Indices(p) \subseteq Int
    BY DEF Indices
<1>2. QED
    BY <1>1, MaxIs DEF Locate

LEMMA WebAt ==
    ASSUME NEW s \in Nat
    PROVE  /\ Round("web", s) = s \div 180 /\ Offset("web", s) = s % 180
           /\ Locate("web", s) = IF s % 180 < 140 THEN 1 ELSE IF s % 180 < 146 THEN 2
                                 ELSE IF s % 180 < 164 THEN 3 ELSE 4
<1>1. Round("web", s) = s \div 180 /\ Offset("web", s) = s % 180 /\ s % 180 \in 0 .. 179
    BY WebTimes DEF Round, Offset
<1>2. Indices("web") = {1, 2, 3, 4}
    BY WebPhases DEF Indices
<1>3. QED
    BY <1>1, <1>2, WebTimes, Located DEF Profiles

LEMMA DbAt ==
    ASSUME NEW s \in Nat
    PROVE  /\ Round("db", s) = s \div 120 /\ Offset("db", s) = s % 120
           /\ Locate("db", s) = IF s % 120 < 25 THEN 1 ELSE IF s % 120 < 30 THEN 2 ELSE 3
<1>1. Round("db", s) = s \div 120 /\ Offset("db", s) = s % 120 /\ s % 120 \in 0 .. 119
    BY DbTimes DEF Round, Offset
<1>2. Indices("db") = {1, 2, 3}
    BY DbPhases DEF Indices
<1>3. QED
    BY <1>1, <1>2, DbTimes, Located DEF Profiles

LEMMA MetricsAt ==
    ASSUME NEW s \in Nat
    PROVE  /\ Round("metrics", s) = s \div 210 /\ Offset("metrics", s) = s % 210
           /\ Locate("metrics", s) = IF s % 210 < 170 THEN 1 ELSE 2
<1>1. Round("metrics", s) = s \div 210 /\ Offset("metrics", s) = s % 210 /\ s % 210 \in 0 .. 209
    BY MetricsTimes DEF Round, Offset
<1>2. Indices("metrics") = {1, 2}
    BY MetricsPhases DEF Indices
<1>3. QED
    BY <1>1, <1>2, MetricsTimes, Located DEF Profiles

-----------------------------------------------------------------------------
(* What is computed of a moment.                                           *)

\* The numbers of a moment s in round r, at offset o.
WebIs(s, r, o) ==
    /\ Up(At("web", s).state) <=> o < 140 \/ o >= 164
    /\ UpTime("web", s) = 156 * r + (IF o < 140 THEN o
                                     ELSE IF o < 164 THEN 140 ELSE o - 24)
    /\ Sessions("web", s) = 1 + r + (IF o >= 164 THEN 1 ELSE 0)
    /\ LastDisconnect("web", s) = IF o >= 140 THEN 180 * r + 140
                                  ELSE IF r >= 1 THEN 180 * (r - 1) + 140 ELSE Never
    /\ Attempts("web", s) = 1 + 5 * r + (IF o < 146 THEN 0
                                        ELSE IF o < 164 THEN (o - 146) \div 5 ELSE 4)

LEMMA WebStats ==
    ASSUME NEW s \in Nat, NEW r, r = s \div 180, NEW o, o = s % 180
    PROVE  WebIs(s, r, o)
<1> DEFINE i == Locate("web", s)
<1>1. /\ Round("web", s) = r /\ Offset("web", s) = o /\ r \in Nat /\ o \in 0 .. 179
      /\ i = IF o < 140 THEN 1 ELSE IF o < 146 THEN 2 ELSE IF o < 164 THEN 3 ELSE 4
    BY WebAt
<1>2. Indices("web") = {1, 2, 3, 4}
    BY WebPhases DEF Indices
<1>3. Retries("web") = {3} /\ Disconnects("web") = {2}
    BY <1>2, WebPhases DEF Retries, Disconnects, PhaseIs
<1>4. ReconnectIndex("web") = 4
    BY <1>3, MaxIs DEF ReconnectIndex
<1>5. At("web", s).state = IF o < 140 THEN "connected" ELSE IF o < 146 THEN "disconnected"
                           ELSE IF o < 164 THEN "retrying" ELSE "connected"
    BY <1>1, WebPhases DEF At, PhaseIs
<1>6. Up(At("web", s).state) <=> o < 140 \/ o >= 164
    BY <1>1, <1>5 DEF Up, UpStates
<1>7. UpTime("web", s) = 156 * r + (IF o < 140 THEN o ELSE IF o < 164 THEN 140 ELSE o - 24)
    BY <1>1, <1>6, WebTimes, WebPhases DEF UpTime
<1>8. Sessions("web", s) = 1 + r + (IF o >= 164 THEN 1 ELSE 0)
    BY <1>1, <1>3, <1>4 DEF Sessions
<1>9. LastDisconnect("web", s) = IF o >= 140 THEN 180 * r + 140
                                 ELSE IF r >= 1 THEN 180 * (r - 1) + 140 ELSE Never
  <2>1. {k \in Disconnects("web") : StartOf("web", k) <= Offset("web", s)}
            = IF o >= 140 THEN {2} ELSE {}
    BY <1>1, <1>3, WebTimes
  <2>2. Max({2}) = 2
    BY MaxIs
  <2> DEFINE before == {k \in Disconnects("web") : StartOf("web", k) <= Offset("web", s)}
  <2>3. CASE o >= 140
    <3>1. LastDisconnect("web", s) = Round("web", s) * Cycle("web") + StartOf("web", 2)
      BY <2>1, <2>2, <2>3 DEF LastDisconnect
    <3>2. QED
      BY <1>1, <2>3, <3>1, WebTimes
  <2>4. CASE o < 140
    <3>1. before = {} /\ Disconnects("web") # {} /\ Max(Disconnects("web")) = 2
      BY <1>1, <1>3, <2>1, <2>2, <2>4
    <3>2. LastDisconnect("web", s) =
              IF Round("web", s) >= 1
              THEN (Round("web", s) - 1) * Cycle("web") + StartOf("web", 2) ELSE Never
      BY <3>1, Zenon DEF LastDisconnect
    <3>3. QED
      BY <1>1, <2>4, <3>2, WebTimes
  <2>5. QED
    BY <1>1, <2>3, <2>4
<1>10. Attempts("web", s) = 1 + 5 * r + (IF o < 146 THEN 0
                                         ELSE IF o < 164 THEN (o - 146) \div 5 ELSE 4)
  <2>1. Max(Retries("web")) = 3
    BY <1>3, MaxIs
  <2> DEFINE perRound == Max({1, (Phases["web"][Max(Retries("web"))].seconds
                                      + AttemptInterval - 1) \div AttemptInterval})
             inRound == IF i >= ReconnectIndex("web") THEN perRound
                        ELSE IF At("web", s).state = "retrying"
                        THEN (Offset("web", s) - StartOf("web", i)) \div AttemptInterval
                        ELSE 0
  <2>2. perRound = 4
    BY <2>1, WebPhases, MaxIs DEF PhaseIs, AttemptInterval
  <2>3. Attempts("web", s) = 1 + Round("web", s) * (1 + perRound) + inRound
    BY <1>3 DEF Attempts
  <2> HIDE DEF perRound
  <2>4. inRound = IF o < 146 THEN 0 ELSE IF o < 164 THEN (o - 146) \div 5 ELSE 4
    BY <1>1, <1>4, <1>5, <2>2, WebTimes DEF AttemptInterval
  <2> HIDE DEF inRound
  <2>5. QED
    BY <1>1, <2>2, <2>3, <2>4
<1>11. QED
    BY <1>6, <1>7, <1>8, <1>9, <1>10 DEF WebIs
DbIs(s, r, o) ==
    /\ Up(At("db", s).state) <=> o < 25
    /\ UpTime("db", s) = 25 * r + (IF o < 25 THEN o ELSE 25)
    /\ Sessions("db", s) = 1 + r
    /\ LastDisconnect("db", s) = IF o >= 25 THEN 120 * r + 25
                                 ELSE IF r >= 1 THEN 120 * (r - 1) + 25 ELSE Never
    /\ Attempts("db", s) = 1 + 19 * r + (IF o < 30 THEN 0 ELSE (o - 30) \div 5)

LEMMA DbStats ==
    ASSUME NEW s \in Nat, NEW r, r = s \div 120, NEW o, o = s % 120
    PROVE  DbIs(s, r, o)
<1> DEFINE i == Locate("db", s)
<1>1. /\ Round("db", s) = r /\ Offset("db", s) = o /\ r \in Nat /\ o \in 0 .. 119
      /\ i = IF o < 25 THEN 1 ELSE IF o < 30 THEN 2 ELSE 3
    BY DbAt
<1>2. Indices("db") = {1, 2, 3}
    BY DbPhases DEF Indices
<1>3. Retries("db") = {3} /\ Disconnects("db") = {2}
    BY <1>2, DbPhases DEF Retries, Disconnects, PhaseIs
<1>4. ReconnectIndex("db") = 4
    BY <1>3, MaxIs DEF ReconnectIndex
<1>5. At("db", s).state = IF o < 25 THEN "connected" ELSE IF o < 30 THEN "disconnected"
                          ELSE "retrying"
    BY <1>1, DbPhases DEF At, PhaseIs
<1>6. Up(At("db", s).state) <=> o < 25
    BY <1>1, <1>5 DEF Up, UpStates
<1>7. UpTime("db", s) = 25 * r + (IF o < 25 THEN o ELSE 25)
    BY <1>1, <1>6, DbTimes, DbPhases DEF UpTime
<1>8. Sessions("db", s) = 1 + r
    BY <1>1, <1>3, <1>4 DEF Sessions
<1>9. LastDisconnect("db", s) = IF o >= 25 THEN 120 * r + 25
                                ELSE IF r >= 1 THEN 120 * (r - 1) + 25 ELSE Never
  <2> DEFINE before == {k \in Disconnects("db") : StartOf("db", k) <= Offset("db", s)}
  <2>1. before = IF o >= 25 THEN {2} ELSE {}
    BY <1>1, <1>3, DbTimes
  <2>2. Max({2}) = 2
    BY MaxIs
  <2>3. CASE o >= 25
    <3>1. LastDisconnect("db", s) = Round("db", s) * Cycle("db") + StartOf("db", 2)
      BY <2>1, <2>2, <2>3 DEF LastDisconnect
    <3>2. QED
      BY <1>1, <2>3, <3>1, DbTimes
  <2>4. CASE o < 25
    <3>1. before = {} /\ Disconnects("db") # {} /\ Max(Disconnects("db")) = 2
      BY <1>1, <1>3, <2>1, <2>2, <2>4
    <3>2. LastDisconnect("db", s) =
              IF Round("db", s) >= 1
              THEN (Round("db", s) - 1) * Cycle("db") + StartOf("db", 2) ELSE Never
      BY <3>1, Zenon DEF LastDisconnect
    <3>3. QED
      BY <1>1, <2>4, <3>2, DbTimes
  <2>5. QED
    BY <1>1, <2>3, <2>4
<1>10. Attempts("db", s) = 1 + 19 * r + (IF o < 30 THEN 0 ELSE (o - 30) \div 5)
  <2>1. Max(Retries("db")) = 3
    BY <1>3, MaxIs
  <2> DEFINE perRound == Max({1, (Phases["db"][Max(Retries("db"))].seconds
                                      + AttemptInterval - 1) \div AttemptInterval})
             inRound == IF i >= ReconnectIndex("db") THEN perRound
                        ELSE IF At("db", s).state = "retrying"
                        THEN (Offset("db", s) - StartOf("db", i)) \div AttemptInterval
                        ELSE 0
  <2>2. perRound = 18
    BY <2>1, DbPhases, MaxIs DEF PhaseIs, AttemptInterval
  <2>3. Attempts("db", s) = 1 + Round("db", s) * (1 + perRound) + inRound
    BY <1>3 DEF Attempts
  <2> HIDE DEF perRound
  <2>4. inRound = IF o < 30 THEN 0 ELSE (o - 30) \div 5
    BY <1>1, <1>4, <1>5, <2>2, DbTimes DEF AttemptInterval
  <2> HIDE DEF inRound
  <2>5. QED
    BY <1>1, <2>2, <2>3, <2>4
<1>11. QED
    BY <1>6, <1>7, <1>8, <1>9, <1>10 DEF DbIs

\* A tunnel that never goes down: one session, all the time.
LEMMA MetricsStats ==
    ASSUME NEW s \in Nat
    PROVE  /\ Up(At("metrics", s).state) /\ UpTime("metrics", s) = s
           /\ Sessions("metrics", s) = 1 /\ LastDisconnect("metrics", s) = Never
           /\ Attempts("metrics", s) = 1
<1> DEFINE i == Locate("metrics", s)
           r == s \div 210
           o == s % 210
<1>1. /\ Round("metrics", s) = r /\ Offset("metrics", s) = o
      /\ i = IF o < 170 THEN 1 ELSE 2
    BY MetricsAt
<1>2. r \in Nat /\ o \in 0 .. 209 /\ s = 210 * r + o
    OBVIOUS
<1> HIDE DEF r, o
<1>3. Indices("metrics") = {1, 2}
    BY MetricsPhases DEF Indices
<1>4. Retries("metrics") = {} /\ Disconnects("metrics") = {}
    BY <1>3, MetricsPhases DEF Retries, Disconnects, PhaseIs
<1>5. ReconnectIndex("metrics") = 3
    BY <1>4, MetricsPhases DEF ReconnectIndex
<1>6. Up(At("metrics", s).state)
    BY <1>1, MetricsPhases DEF At, PhaseIs, Up, UpStates
<1>7. UpTime("metrics", s) = s
    BY <1>1, <1>2, <1>6, MetricsTimes, MetricsPhases DEF UpTime
<1>8. Sessions("metrics", s) = 1
    BY <1>1, <1>4, <1>5 DEF Sessions
<1>9. LastDisconnect("metrics", s) = Never
    BY <1>4, Zenon DEF LastDisconnect
<1>10. Attempts("metrics", s) = 1
    BY <1>4, Zenon DEF Attempts
<1>11. QED
    BY <1>6, <1>7, <1>8, <1>9, <1>10


\* What a second adds to each of the numbers.
Passes(p, s) ==
    LET up == Up(At(p, s).state)
        next == Up(At(p, s + 1).state)
    IN  /\ UpTime(p, s + 1) = UpTime(p, s) + IF up THEN 1 ELSE 0
        /\ Sessions(p, s + 1) = Sessions(p, s) + IF ~up /\ next THEN 1 ELSE 0
        /\ LastDisconnect(p, s + 1) = IF up /\ ~next THEN s + 1 ELSE LastDisconnect(p, s)

Counts(p, s) ==
    /\ UpTime(p, s) \in Nat /\ Attempts(p, s + 1) >= Attempts(p, s)
    /\ Sessions(p, s) <= Attempts(p, s)

LEMMA WebPasses ==
    ASSUME NEW s \in Nat
    PROVE  Passes("web", s) /\ Counts("web", s)
<1> DEFINE r == s \div 180
           o == s % 180
           q == (s + 1) \div 180
           u == (s + 1) % 180
<1>1. /\ r \in Nat /\ o \in 0 .. 179 /\ s = 180 * r + o
      /\ o # 179 => q = r /\ u = o + 1
      /\ o = 179 => q = r + 1 /\ u = 0
    OBVIOUS
<1>2. s + 1 \in Nat /\ r = s \div 180 /\ o = s % 180 /\ q = (s + 1) \div 180 /\ u = (s + 1) % 180
    OBVIOUS
<1> HIDE DEF r, o, q, u
<1>3. WebIs(s, r, o) /\ WebIs(s + 1, q, u)
    BY <1>2, WebStats
<1>4. CASE o # 179
    BY <1>1, <1>3, <1>4 DEF WebIs, Passes, Counts, Never
<1>5. CASE o = 179
    BY <1>1, <1>3, <1>5 DEF WebIs, Passes, Counts, Never
<1>6. QED
    BY <1>4, <1>5

LEMMA DbPasses ==
    ASSUME NEW s \in Nat
    PROVE  Passes("db", s) /\ Counts("db", s)
<1> DEFINE r == s \div 120
           o == s % 120
           q == (s + 1) \div 120
           u == (s + 1) % 120
<1>1. /\ r \in Nat /\ o \in 0 .. 119 /\ s = 120 * r + o
      /\ o # 119 => q = r /\ u = o + 1
      /\ o = 119 => q = r + 1 /\ u = 0
    OBVIOUS
<1>2. s + 1 \in Nat /\ r = s \div 120 /\ o = s % 120 /\ q = (s + 1) \div 120 /\ u = (s + 1) % 120
    OBVIOUS
<1> HIDE DEF r, o, q, u
<1>3. DbIs(s, r, o) /\ DbIs(s + 1, q, u)
    BY <1>2, DbStats
<1>4. CASE o # 119
    BY <1>1, <1>3, <1>4 DEF DbIs, Passes, Counts, Never
<1>5. CASE o = 119
    BY <1>1, <1>3, <1>5 DEF DbIs, Passes, Counts, Never
<1>6. QED
    BY <1>4, <1>5

LEMMA MetricsPasses ==
    ASSUME NEW s \in Nat
    PROVE  Passes("metrics", s) /\ Counts("metrics", s)
BY MetricsStats DEF Passes, Counts

LEMMA EveryPasses ==
    ASSUME NEW p \in Profiles, NEW s \in Nat
    PROVE  Passes(p, s) /\ Counts(p, s)
BY WebPasses, DbPasses, MetricsPasses DEF Profiles

-----------------------------------------------------------------------------
(* The next change of what is visible.                                     *)

Looks(p, s) == Visible(At(p, s))
Open ==
    [healthy |-> TRUE, conclusive |-> TRUE, alive |-> TRUE,
     remote |-> TRUE, local |-> TRUE]
Failing ==
    [healthy |-> FALSE, conclusive |-> TRUE, alive |-> TRUE,
     remote |-> FALSE, local |-> TRUE]
Down ==
    [healthy |-> FALSE, conclusive |-> TRUE, alive |-> FALSE,
     remote |-> FALSE, local |-> FALSE]
Unsure ==
    [healthy |-> FALSE, conclusive |-> FALSE, alive |-> TRUE,
     remote |-> FALSE, local |-> FALSE]

LEMMA LooksDiffer == Open # Down /\ Failing # Down /\ Open # Unsure
BY DEF Open, Failing, Down, Unsure

\* A phase is drawn in one of four ways.
LEMMA PhaseLooks ==
    ASSUME NEW p \in Profiles, NEW k, NEW state, NEW seconds, NEW reason \in BOOLEAN,
           PhaseIs(p, k, state, seconds, reason)
    PROVE  /\ state = "connected" =>
                 Visible(Phases[p][k]) = IF reason THEN Failing ELSE Open
           /\ state \in {"disconnected", "retrying"} => Visible(Phases[p][k]) = Down
           /\ state = "unknown" => Visible(Phases[p][k]) = Unsure
<1> DEFINE phase == Phases[p][k]
<1>1. phase.state = state /\ phase.reason = reason
  BY DEF PhaseIs
<1> HIDE DEF phase
<1>2. CASE state = "connected" /\ reason
  <2>1. (phase.state = "connected") = TRUE /\ (phase.state # "unknown") = TRUE
        /\ Up(phase.state) = TRUE /\ (phase.state = "connected" /\ ~phase.reason) = FALSE
    BY <1>1, <1>2 DEF Up, UpStates
  <2>2. Visible(phase) = Failing
    BY <2>1, Zenon DEF Visible, Failing
  <2>3. QED
    BY <2>2, <1>2 DEF phase
<1>3. CASE state = "connected" /\ ~reason
  <2>1. (phase.state = "connected") = TRUE /\ (phase.state # "unknown") = TRUE
        /\ Up(phase.state) = TRUE /\ (phase.state = "connected" /\ ~phase.reason) = TRUE
    BY <1>1, <1>3 DEF Up, UpStates
  <2>2. Visible(phase) = Open
    BY <2>1, Zenon DEF Visible, Open
  <2>3. QED
    BY <2>2, <1>3 DEF phase
<1>4. CASE state \in {"disconnected", "retrying"}
  <2>1. (phase.state = "connected") = FALSE /\ (phase.state # "unknown") = TRUE
        /\ Up(phase.state) = FALSE /\ (phase.state = "connected" /\ ~phase.reason) = FALSE
    BY <1>1, <1>4 DEF Up, UpStates
  <2>2. Visible(phase) = Down
    BY <2>1, Zenon DEF Visible, Down
  <2>3. QED
    BY <2>2, <1>4 DEF phase
<1>5. CASE state = "unknown"
  <2>1. (phase.state = "connected") = FALSE /\ (phase.state # "unknown") = FALSE
        /\ Up(phase.state) = TRUE /\ (phase.state = "connected" /\ ~phase.reason) = FALSE
    BY <1>1, <1>5 DEF Up, UpStates
  <2>2. Visible(phase) = Unsure
    BY <2>1, Zenon DEF Visible, Unsure
  <2>3. QED
    BY <2>2, <1>5 DEF phase
<1>6. QED
  BY <1>2, <1>3, <1>4, <1>5

LEMMA WebVisible ==
    /\ Visible(Phases["web"][1]) = Open /\ Visible(Phases["web"][2]) = Down
    /\ Visible(Phases["web"][3]) = Down /\ Visible(Phases["web"][4]) = Open
BY WebPhases, PhaseLooks DEF Profiles

LEMMA DbVisible ==
    /\ Visible(Phases["db"][1]) = Failing /\ Visible(Phases["db"][2]) = Down
    /\ Visible(Phases["db"][3]) = Down
BY DbPhases, PhaseLooks DEF Profiles

LEMMA MetricsVisible ==
    Visible(Phases["metrics"][1]) = Open /\ Visible(Phases["metrics"][2]) = Unsure
BY MetricsPhases, PhaseLooks DEF Profiles

\* A boundary of this round or the next that a change is found at.
Counted(p, s, r, i) ==
    /\ r \in {Round(p, s), Round(p, s) + 1} /\ i \in Indices(p)
    /\ Begins(p, r, i) > s /\ Visible(Phases[p][i]) # Looks(p, s)

\* The change announced is the one no other counted boundary comes before; the
\* CHOOSE of NextOf has then only one value to choose.
LEMMA NextOfIs ==
    ASSUME NEW p \in Profiles, NEW s, NEW r, NEW i, Counted(p, s, r, i), Begins(p, r, i) \in Int,
           \A q, j : Counted(p, s, q, j) =>
               \/ q = r /\ j = i
               \/ Begins(p, q, j) \in Int /\ Begins(p, q, j) > Begins(p, r, i)
    PROVE  NextOf(p, s) = <<Begins(p, r, i), Phases[p][i].state>>
<1> DEFINE C == Changes(p, s)
           c == <<Begins(p, r, i), Phases[p][i].state>>
<1>1. c \in C
  <2>1. <<r, i>> \in {Round(p, s), Round(p, s) + 1} \X Indices(p)
    BY DEF Counted
  <2>2. QED
    BY <2>1 DEF Changes, Counted, Looks
<1>2. \A d \in C : d = c \/ (d[1] > c[1] /\ d[1] \in Int)
  <2> SUFFICES ASSUME NEW d \in C
               PROVE  d = c \/ (d[1] > c[1] /\ d[1] \in Int)
    OBVIOUS
  <2>1. PICK b \in {Round(p, s), Round(p, s) + 1} \X Indices(p) :
            /\ Begins(p, b[1], b[2]) > s /\ Visible(Phases[p][b[2]]) # Visible(At(p, s))
            /\ d = <<Begins(p, b[1], b[2]), Phases[p][b[2]].state>>
    BY DEF Changes
  <2>2. Counted(p, s, b[1], b[2])
    BY <2>1 DEF Counted, Looks
  <2>3. QED
    BY <2>1, <2>2
<1>3. c[1] \in Int
  OBVIOUS
<1> HIDE DEF c, C
<1>4. \A d \in C : c[1] <= d[1]
  BY <1>2, <1>3
<1>5. \A x \in C : (\A d \in C : x[1] <= d[1]) => x = c
  BY <1>1, <1>2, <1>3
<1>6. NextOf(p, s) = c
  BY <1>1, <1>4, <1>5 DEF NextOf, C
<1>7. QED
  BY <1>6 DEF c

\* The change found is one, and the first.
Foretold(p, s) ==
    LET n == NextOf(p, s)[1]
    IN  /\ n \in Nat /\ n > s
        /\ \A x \in s + 1 .. n - 1 : Looks(p, x) = Looks(p, s)
        /\ Looks(p, n) # Looks(p, s) /\ At(p, n).state = NextOf(p, s)[2]

LEMMA WebLooks ==
    ASSUME NEW s \in Nat, NEW o, o = s % 180
    PROVE  /\ Looks("web", s) = IF o \in 140 .. 163 THEN Down ELSE Open
           /\ o = 140 => At("web", s).state = "disconnected"
           /\ o = 164 => At("web", s).state = "connected"
<1>1. o \in 0 .. 179
  OBVIOUS
<1>2. Locate("web", s) = IF o < 140 THEN 1 ELSE IF o < 146 THEN 2
                                            ELSE IF o < 164 THEN 3 ELSE 4
  BY WebAt
<1>3. QED
  BY <1>1, <1>2, WebPhases, WebVisible DEF Looks, At, PhaseIs

LEMMA DbLooks ==
    ASSUME NEW s \in Nat, NEW o, o = s % 120
    PROVE  /\ Looks("db", s) = IF o < 25 THEN Failing ELSE Down
           /\ o = 0 => At("db", s).state = "connected"
           /\ o = 25 => At("db", s).state = "disconnected"
<1>1. o \in 0 .. 119
  OBVIOUS
<1>2. Locate("db", s) = IF o < 25 THEN 1 ELSE IF o < 30 THEN 2 ELSE 3
  BY DbAt
<1>3. QED
  BY <1>1, <1>2, DbPhases, DbVisible DEF Looks, At, PhaseIs

LEMMA MetricsLooks ==
    ASSUME NEW s \in Nat, NEW o, o = s % 210
    PROVE  /\ Looks("metrics", s) = IF o < 170 THEN Open ELSE Unsure
           /\ o = 0 => At("metrics", s).state = "connected"
           /\ o = 170 => At("metrics", s).state = "unknown"
<1>1. o \in 0 .. 209
  OBVIOUS
<1>2. Locate("metrics", s) = IF o < 170 THEN 1 ELSE 2
  BY MetricsAt
<1>3. QED
  BY <1>1, <1>2, MetricsPhases, MetricsVisible DEF Looks, At, PhaseIs

\* Where every phase of a profile begins.
LEMMA BeginsAre ==
    ASSUME NEW q
    PROVE  /\ Begins("web", q, 1) = q * 180 + 0 /\ Begins("web", q, 2) = q * 180 + 140
           /\ Begins("web", q, 3) = q * 180 + 146 /\ Begins("web", q, 4) = q * 180 + 164
           /\ Begins("db", q, 1) = q * 120 + 0 /\ Begins("db", q, 2) = q * 120 + 25
           /\ Begins("db", q, 3) = q * 120 + 30
           /\ Begins("metrics", q, 1) = q * 210 + 0 /\ Begins("metrics", q, 2) = q * 210 + 170
BY WebTimes, DbTimes, MetricsTimes DEF Begins

\* For each profile: the boundaries where it looks different from now are those
\* of the phases drawn in another way, and the first of them follows from the
\* offset; the next round has one if this one has none left.
LEMMA WebForetold ==
    ASSUME NEW s \in Nat
    PROVE  Foretold("web", s)
<1> DEFINE r == s \div 180
           o == s % 180
           m == IF o >= 164 THEN r + 1 ELSE r
           i == IF o \in 140 .. 163 THEN 4 ELSE 2
           n == Begins("web", m, i)
<1>1. r \in Nat /\ o \in 0 .. 179 /\ s = 180 * r + o /\ r = s \div 180 /\ o = s % 180
  OBVIOUS
<1> HIDE DEF r, o
<1>2. Round("web", s) = r /\ Indices("web") = {1, 2, 3, 4}
  BY <1>1, WebAt, WebPhases DEF Indices
<1>3. Looks("web", s) = IF o \in 140 .. 163 THEN Down ELSE Open
  BY <1>1, WebLooks
<1>4. n = IF o < 140 THEN 180 * r + 140 ELSE IF o < 164 THEN 180 * r + 164 ELSE 180 * r + 320
  BY <1>1, BeginsAre
<1>5. Counted("web", s, m, i)
  BY <1>1, <1>2, <1>3, <1>4, WebVisible, LooksDiffer DEF Counted
<1>6. ASSUME NEW q, NEW j, Counted("web", s, q, j)
      PROVE  \/ q = m /\ j = i
             \/ Begins("web", q, j) \in Int /\ Begins("web", q, j) > n
  <2>1. /\ q \in {r, r + 1} /\ j \in {1, 2, 3, 4} /\ Begins("web", q, j) > s
        /\ Visible(Phases["web"][j]) # Looks("web", s)
    BY <1>6, <1>2 DEF Counted
  <2>2. j \in IF o \in 140 .. 163 THEN {1, 4} ELSE {2, 3}
    BY <2>1, <1>3, WebVisible
  <2>3. Begins("web", q, j) = q * 180 + (IF j = 1 THEN 0 ELSE IF j = 2 THEN 140
                                         ELSE IF j = 3 THEN 146 ELSE 164)
    BY <2>1, BeginsAre
  <2>4. QED
    BY <2>1, <2>2, <2>3, <1>1, <1>4
<1>7. NextOf("web", s) = <<n, Phases["web"][i].state>>
  BY <1>1, <1>4, <1>5, <1>6, NextOfIs DEF Profiles
<1>8. n \in Nat /\ n > s /\ n % 180 = IF o \in 140 .. 163 THEN 164 ELSE 140
  <2>1. \A a, b \in Nat : b < 180 => (180 * a + b) % 180 = b
    OBVIOUS
  <2>2. 180 * r + 320 = 180 * (r + 1) + 140
    BY <1>1
  <2>3. QED
    BY <2>1, <2>2, <1>1, <1>4
<1>9. ASSUME NEW x \in s + 1 .. n - 1
      PROVE  Looks("web", x) = Looks("web", s)
  <2>1. x \in Nat /\ (x % 180 \in 140 .. 163 <=> o \in 140 .. 163)
    BY <1>1, <1>4, <1>9
  <2>2. QED
    BY <2>1, <1>3, WebLooks
<1>10. /\ Looks("web", n) = IF o \in 140 .. 163 THEN Open ELSE Down
       /\ At("web", n).state = Phases["web"][i].state
  BY <1>1, <1>8, WebLooks, WebPhases DEF PhaseIs
<1>11. QED
  BY <1>3, <1>7, <1>8, <1>9, <1>10, LooksDiffer DEF Foretold

LEMMA DbForetold ==
    ASSUME NEW s \in Nat
    PROVE  Foretold("db", s)
<1> DEFINE r == s \div 120
           o == s % 120
           m == IF o >= 25 THEN r + 1 ELSE r
           i == IF o >= 25 THEN 1 ELSE 2
           n == Begins("db", m, i)
<1>1. r \in Nat /\ o \in 0 .. 119 /\ s = 120 * r + o /\ r = s \div 120 /\ o = s % 120
  OBVIOUS
<1> HIDE DEF r, o
<1>2. Round("db", s) = r /\ Indices("db") = {1, 2, 3}
  BY <1>1, DbAt, DbPhases DEF Indices
<1>3. Looks("db", s) = IF o < 25 THEN Failing ELSE Down
  BY <1>1, DbLooks
<1>4. n = IF o < 25 THEN 120 * r + 25 ELSE 120 * r + 120
  BY <1>1, BeginsAre
<1>5. Counted("db", s, m, i)
  BY <1>1, <1>2, <1>3, <1>4, DbVisible, LooksDiffer DEF Counted
<1>6. ASSUME NEW q, NEW j, Counted("db", s, q, j)
      PROVE  \/ q = m /\ j = i
             \/ Begins("db", q, j) \in Int /\ Begins("db", q, j) > n
  <2>1. /\ q \in {r, r + 1} /\ j \in {1, 2, 3} /\ Begins("db", q, j) > s
        /\ Visible(Phases["db"][j]) # Looks("db", s)
    BY <1>6, <1>2 DEF Counted
  <2>2. j \in IF o < 25 THEN {2, 3} ELSE {1}
    BY <2>1, <1>3, DbVisible
  <2>3. Begins("db", q, j) = q * 120 + (IF j = 1 THEN 0 ELSE IF j = 2 THEN 25 ELSE 30)
    BY <2>1, BeginsAre
  <2>4. QED
    BY <2>1, <2>2, <2>3, <1>1, <1>4
<1>7. NextOf("db", s) = <<n, Phases["db"][i].state>>
  BY <1>1, <1>4, <1>5, <1>6, NextOfIs DEF Profiles
<1>8. n \in Nat /\ n > s /\ n % 120 = IF o < 25 THEN 25 ELSE 0
  <2>1. \A a, b \in Nat : b < 120 => (120 * a + b) % 120 = b
    OBVIOUS
  <2>2. 120 * r + 120 = 120 * (r + 1) + 0
    BY <1>1
  <2>3. QED
    BY <2>1, <2>2, <1>1, <1>4
<1>9. ASSUME NEW x \in s + 1 .. n - 1
      PROVE  Looks("db", x) = Looks("db", s)
  <2>1. x \in Nat /\ (x % 120 < 25 <=> o < 25)
    BY <1>1, <1>4, <1>9
  <2>2. QED
    BY <2>1, <1>3, DbLooks
<1>10. /\ Looks("db", n) = IF o < 25 THEN Down ELSE Failing
       /\ At("db", n).state = Phases["db"][i].state
  BY <1>1, <1>8, DbLooks, DbPhases DEF PhaseIs
<1>11. QED
  BY <1>3, <1>7, <1>8, <1>9, <1>10, LooksDiffer DEF Foretold

LEMMA MetricsForetold ==
    ASSUME NEW s \in Nat
    PROVE  Foretold("metrics", s)
<1> DEFINE r == s \div 210
           o == s % 210
           m == IF o >= 170 THEN r + 1 ELSE r
           i == IF o >= 170 THEN 1 ELSE 2
           n == Begins("metrics", m, i)
<1>1. r \in Nat /\ o \in 0 .. 209 /\ s = 210 * r + o /\ r = s \div 210 /\ o = s % 210
  OBVIOUS
<1> HIDE DEF r, o
<1>2. Round("metrics", s) = r /\ Indices("metrics") = {1, 2}
  <2>1. 1 .. 2 = {1, 2}
    OBVIOUS
  <2>2. QED
    BY <2>1, <1>1, MetricsAt, MetricsPhases DEF Indices
<1>3. Looks("metrics", s) = IF o < 170 THEN Open ELSE Unsure
  BY <1>1, MetricsLooks
<1>4. n = IF o < 170 THEN 210 * r + 170 ELSE 210 * r + 210
  BY <1>1, BeginsAre
<1>5. Counted("metrics", s, m, i)
  BY <1>1, <1>2, <1>3, <1>4, MetricsVisible, LooksDiffer DEF Counted
<1>6. ASSUME NEW q, NEW j, Counted("metrics", s, q, j)
      PROVE  \/ q = m /\ j = i
             \/ Begins("metrics", q, j) \in Int /\ Begins("metrics", q, j) > n
  <2>1. /\ q \in {r, r + 1} /\ j \in {1, 2} /\ Begins("metrics", q, j) > s
        /\ Visible(Phases["metrics"][j]) # Looks("metrics", s)
    BY <1>6, <1>2 DEF Counted
  <2>2. j \in IF o < 170 THEN {2} ELSE {1}
    BY <2>1, <1>3, MetricsVisible
  <2>3. Begins("metrics", q, j) = q * 210 + (IF j = 1 THEN 0 ELSE 170)
    BY <2>1, BeginsAre
  <2>4. QED
    BY <2>1, <2>2, <2>3, <1>1, <1>4
<1>7. NextOf("metrics", s) = <<n, Phases["metrics"][i].state>>
  BY <1>1, <1>4, <1>5, <1>6, NextOfIs DEF Profiles
<1>8. n \in Nat /\ n > s /\ n % 210 = IF o < 170 THEN 170 ELSE 0
  <2>1. \A a, b \in Nat : b < 210 => (210 * a + b) % 210 = b
    OBVIOUS
  <2>2. 210 * r + 210 = 210 * (r + 1) + 0
    BY <1>1
  <2>3. QED
    BY <2>1, <2>2, <1>1, <1>4
<1>9. ASSUME NEW x \in s + 1 .. n - 1
      PROVE  Looks("metrics", x) = Looks("metrics", s)
  <2>1. x \in Nat /\ (x % 210 < 170 <=> o < 170)
    BY <1>1, <1>4, <1>9
  <2>2. QED
    BY <2>1, <1>3, MetricsLooks
<1>10. /\ Looks("metrics", n) = IF o < 170 THEN Unsure ELSE Open
       /\ At("metrics", n).state = Phases["metrics"][i].state
  BY <1>1, <1>8, MetricsLooks, MetricsPhases DEF PhaseIs
<1>11. QED
  BY <1>3, <1>7, <1>8, <1>9, <1>10, LooksDiffer DEF Foretold

\* Of the three, the first; of two at the same second, the first profile's.
LEMMA FirstOfThree ==
    ASSUME NEW s \in Nat
    PROVE  /\ NextChange(s).profile \in Profiles
           /\ NextChange(s).at = NextOf(NextChange(s).profile, s)[1]
           /\ NextChange(s).state = NextOf(NextChange(s).profile, s)[2]
           /\ \A p \in Profiles : NextChange(s).at <= NextOf(p, s)[1]
<1> DEFINE n(k) == NextOf(Order[k], s)[1]
           Leads(k) == \A m \in DOMAIN Order : \/ n(k) < n(m)
                                               \/ n(k) = n(m) /\ k <= m
           first == CHOOSE k \in DOMAIN Order : Leads(k)
<1>1. DOMAIN Order = {1, 2, 3} /\ Order[1] = "web" /\ Order[2] = "db" /\ Order[3] = "metrics"
  BY DEF Order
<1>2. n(1) \in Nat /\ n(2) \in Nat /\ n(3) \in Nat
  BY <1>1, WebForetold, DbForetold, MetricsForetold DEF Foretold
<1> HIDE DEF n
<1>3. \E k \in DOMAIN Order : Leads(k)
  <2>1. CASE n(1) <= n(2) /\ n(1) <= n(3)
    BY <1>1, <1>2, <2>1
  <2>2. CASE n(2) < n(1) /\ n(2) <= n(3)
    BY <1>1, <1>2, <2>2
  <2>3. CASE n(3) < n(1) /\ n(3) < n(2)
    BY <1>1, <1>2, <2>3
  <2>4. QED
    BY <1>2, <2>1, <2>2, <2>3
<1>4. first \in DOMAIN Order /\ Leads(first)
  BY <1>3
<1>5. NextChange(s) = [at |-> NextOf(Order[first], s)[1], profile |-> Order[first],
                       state |-> NextOf(Order[first], s)[2]]
  BY Zenon DEF NextChange, n
<1> HIDE DEF first
<1>6. /\ NextChange(s).profile = Order[first] /\ NextChange(s).at = n(first)
      /\ NextChange(s).state = NextOf(Order[first], s)[2]
  BY <1>5 DEF n
<1>7. \A k \in DOMAIN Order : n(first) <= n(k)
  BY <1>1, <1>2, <1>4
<1>8. \A p \in Profiles : n(first) <= NextOf(p, s)[1]
  BY <1>1, <1>7 DEF n, Profiles
<1>9. QED
  BY <1>1, <1>4, <1>6, <1>8 DEF Profiles, n

\* Before the earliest of the three changes none of the profiles changes.
LEMMA NextChangeIsNext ==
    ASSUME NEW s \in Nat
    PROVE  LET next == NextChange(s)
           IN  /\ next.at \in Nat
               /\ \A p \in Profiles, x \in s + 1 .. next.at - 1 : Looks(p, x) = Looks(p, s)
               /\ Looks(next.profile, next.at) # Looks(next.profile, s)
               /\ At(next.profile, next.at).state = next.state
<1>1. \A p \in Profiles : Foretold(p, s)
  BY WebForetold, DbForetold, MetricsForetold DEF Profiles
<1>2. NextChange(s).at \in Nat
  BY <1>1, FirstOfThree DEF Foretold
<1>3. ASSUME NEW p \in Profiles, NEW x \in s + 1 .. NextChange(s).at - 1
      PROVE  Looks(p, x) = Looks(p, s)
  <2>1. NextOf(p, s)[1] \in Nat /\ NextChange(s).at <= NextOf(p, s)[1]
    BY <1>1, FirstOfThree DEF Foretold
  <2>2. x \in s + 1 .. NextOf(p, s)[1] - 1
    BY <2>1, <1>2
  <2>3. QED
    BY <1>1, <2>2 DEF Foretold
<1>4. QED
  BY <1>1, <1>2, <1>3, FirstOfThree DEF Foretold

-----------------------------------------------------------------------------
(* The feed of events.                                                     *)

\* What there is to show at a moment, for one profile.
FeedIs(p, s) ==
    LET feed == Events(p, s)
        newest == Event(p, Max(feed))
        downs == {k \in feed : Event(p, k).type = "disconnected"}
    IN  /\ \A j, k \in feed : j < k => Event(p, j).at < Event(p, k).at
        /\ newest.at <= s /\ Up(newest.type) = Up(At(p, s).state)
        /\ downs # {} => Event(p, Max(downs)).at = LastDisconnect(p, s)

\* Every number is one of a round q and a phase i, by the remainder.
LEMMA Numbers ==
    ASSUME NEW k \in Nat, k >= 1
    PROVE  /\ \E q \in Nat, i \in 1 .. 4 : k = 4 * q + i
           /\ \E q \in Nat, i \in 1 .. 3 : k = 3 * q + i
           /\ \E q \in Nat, i \in 1 .. 2 : k = 2 * q + i
<1>1. (k - 1) \div 4 \in Nat /\ 1 + ((k - 1) % 4) \in 1 .. 4
      /\ k = 4 * ((k - 1) \div 4) + (1 + ((k - 1) % 4))
  OBVIOUS
<1>2. (k - 1) \div 3 \in Nat /\ 1 + ((k - 1) % 3) \in 1 .. 3
      /\ k = 3 * ((k - 1) \div 3) + (1 + ((k - 1) % 3))
  OBVIOUS
<1>3. (k - 1) \div 2 \in Nat /\ 1 + ((k - 1) % 2) \in 1 .. 2
      /\ k = 2 * ((k - 1) \div 2) + (1 + ((k - 1) % 2))
  OBVIOUS
<1>4. QED
  BY <1>1, <1>2, <1>3

LEMMA WebEvent ==
    ASSUME NEW q \in Nat, NEW i \in 1 .. 4
    PROVE  /\ Event("web", 4 * q + i).at = 180 * q + (IF i = 1 THEN 0 ELSE IF i = 2 THEN 140 ELSE IF i = 3 THEN 146 ELSE 164)
           /\ Event("web", 4 * q + i).type = Phases["web"][i].state
<1>1. (4 * q + i - 1) \div 4 = q /\ 1 + ((4 * q + i - 1) % 4) = i
  OBVIOUS
<1>2. i \in {1, 2, 3, 4}
  OBVIOUS
<1>3. Event("web", 4 * q + i) = [at |-> q * 180 + StartOf("web", i),
                                 type |-> Phases["web"][i].state]
  BY <1>1, WebPhases, WebTimes DEF Event
<1>4. StartOf("web", i) = IF i = 1 THEN 0 ELSE IF i = 2 THEN 140 ELSE IF i = 3 THEN 146 ELSE 164
  BY <1>2, WebTimes
<1>5. QED
  BY <1>3, <1>4

LEMMA DbEvent ==
    ASSUME NEW q \in Nat, NEW i \in 1 .. 3
    PROVE  /\ Event("db", 3 * q + i).at = 120 * q + (IF i = 1 THEN 0 ELSE IF i = 2 THEN 25 ELSE 30)
           /\ Event("db", 3 * q + i).type = Phases["db"][i].state
<1>1. (3 * q + i - 1) \div 3 = q /\ 1 + ((3 * q + i - 1) % 3) = i
  OBVIOUS
<1>2. i \in {1, 2, 3}
  OBVIOUS
<1>3. Event("db", 3 * q + i) = [at |-> q * 120 + StartOf("db", i),
                                 type |-> Phases["db"][i].state]
  BY <1>1, DbPhases, DbTimes DEF Event
<1>4. StartOf("db", i) = IF i = 1 THEN 0 ELSE IF i = 2 THEN 25 ELSE 30
  BY <1>2, DbTimes
<1>5. QED
  BY <1>3, <1>4

LEMMA MetricsEvent ==
    ASSUME NEW q \in Nat, NEW i \in 1 .. 2
    PROVE  /\ Event("metrics", 2 * q + i).at = 210 * q + (IF i = 1 THEN 0 ELSE 170)
           /\ Event("metrics", 2 * q + i).type = Phases["metrics"][i].state
<1>1. (2 * q + i - 1) \div 2 = q /\ 1 + ((2 * q + i - 1) % 2) = i
  OBVIOUS
<1>2. i \in {1, 2}
  OBVIOUS
<1>3. Event("metrics", 2 * q + i) = [at |-> q * 210 + StartOf("metrics", i),
                                 type |-> Phases["metrics"][i].state]
  BY <1>1, MetricsPhases, MetricsTimes DEF Event
<1>4. StartOf("metrics", i) = IF i = 1 THEN 0 ELSE 170
  BY <1>2, MetricsTimes
<1>5. QED
  BY <1>3, <1>4

LEMMA WebFeed ==
    ASSUME NEW s \in Nat
    PROVE  FeedIs("web", s)
<1> DEFINE r == s \div 180
           o == s % 180
           l == Locate("web", s)
           n == 4 * r + l
           feed == Events("web", s)
           downs == {k \in feed : Event("web", k).type = "disconnected"}
           last == IF l >= 2 THEN 4 * r + 2 ELSE 4 * (r - 1) + 2
<1>1. r \in Nat /\ o \in 0 .. 179 /\ s = 180 * r + o /\ r = s \div 180 /\ o = s % 180
  OBVIOUS
<1> HIDE DEF r, o
<1>2. /\ l = IF o < 140 THEN 1 ELSE IF o < 146 THEN 2
               ELSE IF o < 164 THEN 3 ELSE 4
      /\ Begun("web", s) = n /\ At("web", s) = Phases["web"][l]
  <2>1. /\ Round("web", s) = r
        /\ l = IF o < 140 THEN 1 ELSE IF o < 146 THEN 2
               ELSE IF o < 164 THEN 3 ELSE 4
    BY WebAt DEF r, o
  <2> HIDE DEF l
  <2>2. Begun("web", s) = n
    BY <1>1, <2>1, WebPhases DEF Begun, l
  <2>3. At("web", s) = Phases["web"][l]
    BY DEF At, l
  <2>4. QED
    BY <2>1, <2>2, <2>3
<1>3. WebIs(s, r, o)
  BY <1>1, WebStats
<1>4. l \in 1 .. 4 /\ n \in Nat /\ n >= 1
  BY <1>1, <1>2
<1> HIDE DEF l
<1>5. \A k : k \in feed <=> /\ k \in 1 .. n /\ k > n - 8
                           /\ Event("web", k).type # "unknown"
  BY <1>2 DEF Events, Fed, FeedLimit
<1> HIDE DEF n, feed
<1>6. ASSUME NEW k \in feed
      PROVE  /\ k \in Nat /\ k <= n
             /\ \E q \in Nat, i \in 1 .. 4 : k = 4 * q + i
  <2>1. k \in Nat /\ k >= 1 /\ k <= n
    BY <1>4, <1>5
  <2>2. QED
    BY <2>1, Numbers
<1>7. ASSUME NEW j \in feed, NEW k \in feed, j < k
      PROVE  Event("web", j).at < Event("web", k).at
  <2>1. PICK q \in Nat, i \in 1 .. 4 : j = 4 * q + i
    BY <1>6
  <2>2. PICK u \in Nat, v \in 1 .. 4 : k = 4 * u + v
    BY <1>6
  <2>3. Event("web", j).at = 180 * q + (IF i = 1 THEN 0 ELSE IF i = 2 THEN 140 ELSE IF i = 3 THEN 146 ELSE 164)
    BY <2>1, WebEvent
  <2>4. Event("web", k).at = 180 * u + (IF v = 1 THEN 0 ELSE IF v = 2 THEN 140 ELSE IF v = 3 THEN 146 ELSE 164)
    BY <2>2, WebEvent
  <2>5. QED
    BY <2>1, <2>2, <2>3, <2>4, <1>7
<1>8. /\ Event("web", n).at = 180 * r + (IF l = 1 THEN 0 ELSE IF l = 2 THEN 140 ELSE IF l = 3 THEN 146 ELSE 164)
      /\ Event("web", n).type = Phases["web"][l].state
  BY <1>1, <1>4, WebEvent DEF n
<1>9. Max(feed) = n
  <2>1. Phases["web"][l].state # "unknown" /\ l \in {1, 2, 3, 4}
    BY <1>4, WebPhases DEF PhaseIs
  <2>2. n \in feed
    BY <1>4, <1>5, <1>8, <2>1
  <2>3. feed \in SUBSET Int /\ \A k \in feed : k <= n
    BY <1>6
  <2>4. QED
    BY <2>2, <2>3, MaxIs
<1>10. Event("web", n).at <= s
  BY <1>1, <1>2, <1>8
<1>11. ASSUME NEW k \in downs
       PROVE  \E q \in Nat : k = 4 * q + 2
  <2>1. PICK q \in Nat, i \in 1 .. 4 : k = 4 * q + i
    BY <1>6
  <2>2. Phases["web"][i].state = "disconnected"
    BY <2>1, WebEvent
  <2>3. i = 2
    BY <2>2, WebPhases DEF PhaseIs
  <2>4. QED
    BY <2>1, <2>3
<1>12. \A k \in downs : k <= last /\ (l >= 2 \/ r >= 1)
  <2> SUFFICES ASSUME NEW k \in downs
               PROVE  k <= last /\ (l >= 2 \/ r >= 1)
    OBVIOUS
  <2>1. PICK q \in Nat : k = 4 * q + 2
    BY <1>11
  <2>2. k <= 4 * r + l
    BY <1>6 DEF n
  <2>3. QED
    BY <1>1, <1>4, <2>1, <2>2
<1>13. ASSUME l >= 2 \/ r >= 1
       PROVE  last \in downs /\ Event("web", last).at = LastDisconnect("web", s)
  <2> DEFINE q == IF l >= 2 THEN r ELSE r - 1
  <2>1. q \in Nat /\ last = 4 * q + 2
    BY <1>1, <1>4, <1>13
  <2>2. Event("web", last).at = 180 * q + 140 /\ Event("web", last).type = "disconnected"
    <3>1. Event("web", 4 * q + 2).at = 180 * q + 140
          /\ Event("web", 4 * q + 2).type = Phases["web"][2].state
      BY <2>1, WebEvent
    <3>2. QED
      BY <2>1, <3>1, WebPhases DEF PhaseIs
  <2>3. last \in 1 .. n /\ last > n - 8
    BY <1>1, <1>4, <1>13 DEF n
  <2>4. last \in feed
    BY <1>5, <2>2, <2>3
  <2>5. 180 * q + 140 = LastDisconnect("web", s)
    BY <1>1, <1>2, <1>3, <1>13 DEF WebIs
  <2>6. QED
    BY <2>2, <2>4, <2>5
<1>14. downs # {} => Event("web", Max(downs)).at = LastDisconnect("web", s)
  <2> SUFFICES ASSUME downs # {}
               PROVE  Event("web", Max(downs)).at = LastDisconnect("web", s)
    OBVIOUS
  <2>1. downs \in SUBSET Int
    BY <1>6
  <2>2. Max(downs) = last
    BY <1>12, <1>13, <2>1, MaxIs
  <2>3. QED
    BY <1>12, <1>13, <2>2
<1>15. QED
  BY <1>2, <1>7, <1>8, <1>9, <1>10, <1>14 DEF FeedIs, feed

LEMMA DbFeed ==
    ASSUME NEW s \in Nat
    PROVE  FeedIs("db", s)
<1> DEFINE r == s \div 120
           o == s % 120
           l == Locate("db", s)
           n == 3 * r + l
           feed == Events("db", s)
           downs == {k \in feed : Event("db", k).type = "disconnected"}
           last == IF l >= 2 THEN 3 * r + 2 ELSE 3 * (r - 1) + 2
<1>1. r \in Nat /\ o \in 0 .. 119 /\ s = 120 * r + o /\ r = s \div 120 /\ o = s % 120
  OBVIOUS
<1> HIDE DEF r, o
<1>2. /\ l = IF o < 25 THEN 1 ELSE IF o < 30 THEN 2 ELSE 3
      /\ Begun("db", s) = n /\ At("db", s) = Phases["db"][l]
  <2>1. /\ Round("db", s) = r
        /\ l = IF o < 25 THEN 1 ELSE IF o < 30 THEN 2 ELSE 3
    BY DbAt DEF r, o
  <2> HIDE DEF l
  <2>2. Begun("db", s) = n
    BY <1>1, <2>1, DbPhases DEF Begun, l
  <2>3. At("db", s) = Phases["db"][l]
    BY DEF At, l
  <2>4. QED
    BY <2>1, <2>2, <2>3
<1>3. DbIs(s, r, o)
  BY <1>1, DbStats
<1>4. l \in 1 .. 3 /\ n \in Nat /\ n >= 1
  BY <1>1, <1>2
<1> HIDE DEF l
<1>5. \A k : k \in feed <=> /\ k \in 1 .. n /\ k > n - 8
                           /\ Event("db", k).type # "unknown"
  BY <1>2 DEF Events, Fed, FeedLimit
<1> HIDE DEF n, feed
<1>6. ASSUME NEW k \in feed
      PROVE  /\ k \in Nat /\ k <= n
             /\ \E q \in Nat, i \in 1 .. 3 : k = 3 * q + i
  <2>1. k \in Nat /\ k >= 1 /\ k <= n
    BY <1>4, <1>5
  <2>2. QED
    BY <2>1, Numbers
<1>7. ASSUME NEW j \in feed, NEW k \in feed, j < k
      PROVE  Event("db", j).at < Event("db", k).at
  <2>1. PICK q \in Nat, i \in 1 .. 3 : j = 3 * q + i
    BY <1>6
  <2>2. PICK u \in Nat, v \in 1 .. 3 : k = 3 * u + v
    BY <1>6
  <2>3. Event("db", j).at = 120 * q + (IF i = 1 THEN 0 ELSE IF i = 2 THEN 25 ELSE 30)
    BY <2>1, DbEvent
  <2>4. Event("db", k).at = 120 * u + (IF v = 1 THEN 0 ELSE IF v = 2 THEN 25 ELSE 30)
    BY <2>2, DbEvent
  <2>5. QED
    BY <2>1, <2>2, <2>3, <2>4, <1>7
<1>8. /\ Event("db", n).at = 120 * r + (IF l = 1 THEN 0 ELSE IF l = 2 THEN 25 ELSE 30)
      /\ Event("db", n).type = Phases["db"][l].state
  BY <1>1, <1>4, DbEvent DEF n
<1>9. Max(feed) = n
  <2>1. Phases["db"][l].state # "unknown" /\ l \in {1, 2, 3}
    BY <1>4, DbPhases DEF PhaseIs
  <2>2. n \in feed
    BY <1>4, <1>5, <1>8, <2>1
  <2>3. feed \in SUBSET Int /\ \A k \in feed : k <= n
    BY <1>6
  <2>4. QED
    BY <2>2, <2>3, MaxIs
<1>10. Event("db", n).at <= s
  BY <1>1, <1>2, <1>8
<1>11. ASSUME NEW k \in downs
       PROVE  \E q \in Nat : k = 3 * q + 2
  <2>1. PICK q \in Nat, i \in 1 .. 3 : k = 3 * q + i
    BY <1>6
  <2>2. Phases["db"][i].state = "disconnected"
    BY <2>1, DbEvent
  <2>3. i = 2
    BY <2>2, DbPhases DEF PhaseIs
  <2>4. QED
    BY <2>1, <2>3
<1>12. \A k \in downs : k <= last /\ (l >= 2 \/ r >= 1)
  <2> SUFFICES ASSUME NEW k \in downs
               PROVE  k <= last /\ (l >= 2 \/ r >= 1)
    OBVIOUS
  <2>1. PICK q \in Nat : k = 3 * q + 2
    BY <1>11
  <2>2. k <= 3 * r + l
    BY <1>6 DEF n
  <2>3. QED
    BY <1>1, <1>4, <2>1, <2>2
<1>13. ASSUME l >= 2 \/ r >= 1
       PROVE  last \in downs /\ Event("db", last).at = LastDisconnect("db", s)
  <2> DEFINE q == IF l >= 2 THEN r ELSE r - 1
  <2>1. q \in Nat /\ last = 3 * q + 2
    BY <1>1, <1>4, <1>13
  <2>2. Event("db", last).at = 120 * q + 25 /\ Event("db", last).type = "disconnected"
    <3>1. Event("db", 3 * q + 2).at = 120 * q + 25
          /\ Event("db", 3 * q + 2).type = Phases["db"][2].state
      BY <2>1, DbEvent
    <3>2. QED
      BY <2>1, <3>1, DbPhases DEF PhaseIs
  <2>3. last \in 1 .. n /\ last > n - 8
    BY <1>1, <1>4, <1>13 DEF n
  <2>4. last \in feed
    BY <1>5, <2>2, <2>3
  <2>5. 120 * q + 25 = LastDisconnect("db", s)
    BY <1>1, <1>2, <1>3, <1>13 DEF DbIs
  <2>6. QED
    BY <2>2, <2>4, <2>5
<1>14. downs # {} => Event("db", Max(downs)).at = LastDisconnect("db", s)
  <2> SUFFICES ASSUME downs # {}
               PROVE  Event("db", Max(downs)).at = LastDisconnect("db", s)
    OBVIOUS
  <2>1. downs \in SUBSET Int
    BY <1>6
  <2>2. Max(downs) = last
    BY <1>12, <1>13, <2>1, MaxIs
  <2>3. QED
    BY <1>12, <1>13, <2>2
<1>15. QED
  BY <1>2, <1>7, <1>8, <1>9, <1>10, <1>14 DEF FeedIs, feed

LEMMA MetricsFeed ==
    ASSUME NEW s \in Nat
    PROVE  FeedIs("metrics", s)
<1> DEFINE r == s \div 210
           o == s % 210
           l == Locate("metrics", s)
           n == 2 * r + l
           feed == Events("metrics", s)
           downs == {k \in feed : Event("metrics", k).type = "disconnected"}
           newest == 2 * r + 1
<1>1. r \in Nat /\ o \in 0 .. 209 /\ s = 210 * r + o /\ r = s \div 210 /\ o = s % 210
  OBVIOUS
<1> HIDE DEF r, o
<1>2. /\ l = IF o < 170 THEN 1 ELSE 2
      /\ Begun("metrics", s) = n /\ At("metrics", s) = Phases["metrics"][l]
  <2>1. /\ Round("metrics", s) = r
        /\ l = IF o < 170 THEN 1 ELSE 2
    BY MetricsAt DEF r, o
  <2> HIDE DEF l
  <2>2. Begun("metrics", s) = n
    BY <1>1, <2>1, MetricsPhases DEF Begun, l
  <2>3. At("metrics", s) = Phases["metrics"][l]
    BY DEF At, l
  <2>4. QED
    BY <2>1, <2>2, <2>3
<1>4. l \in 1 .. 2 /\ n \in Nat /\ n >= 1
  BY <1>1, <1>2
<1> HIDE DEF l
<1>5. \A k : k \in feed <=> /\ k \in 1 .. n /\ k > n - 8
                           /\ Event("metrics", k).type # "unknown"
  BY <1>2 DEF Events, Fed, FeedLimit
<1> HIDE DEF n, feed
<1>6. ASSUME NEW k \in feed
      PROVE  /\ k \in Nat /\ k <= n
             /\ \E q \in Nat, i \in 1 .. 2 : k = 2 * q + i
  <2>1. k \in Nat /\ k >= 1 /\ k <= n
    BY <1>4, <1>5
  <2>2. QED
    BY <2>1, Numbers
<1>7. ASSUME NEW j \in feed, NEW k \in feed, j < k
      PROVE  Event("metrics", j).at < Event("metrics", k).at
  <2>1. PICK q \in Nat, i \in 1 .. 2 : j = 2 * q + i
    BY <1>6
  <2>2. PICK u \in Nat, v \in 1 .. 2 : k = 2 * u + v
    BY <1>6
  <2>3. Event("metrics", j).at = 210 * q + (IF i = 1 THEN 0 ELSE 170)
    BY <2>1, MetricsEvent
  <2>4. Event("metrics", k).at = 210 * u + (IF v = 1 THEN 0 ELSE 170)
    BY <2>2, MetricsEvent
  <2>5. QED
    BY <2>1, <2>2, <2>3, <2>4, <1>7
<1>8. /\ Event("metrics", newest).at = 210 * r /\ Event("metrics", newest).type = "connected"
      /\ newest \in 1 .. n /\ newest > n - 8
  <2>1. Event("metrics", 2 * r + 1).at = 210 * r + 0
        /\ Event("metrics", 2 * r + 1).type = Phases["metrics"][1].state
    BY <1>1, MetricsEvent
  <2>2. QED
    BY <1>1, <1>4, <2>1, MetricsPhases DEF PhaseIs, n
<1>9. Max(feed) = newest
  <2>1. newest \in feed
    BY <1>5, <1>8
  <2>2. feed \in SUBSET Int
    BY <1>6
  <2>3. ASSUME NEW k \in feed
        PROVE  k <= newest
    <3>1. PICK q \in Nat, i \in 1 .. 2 : k = 2 * q + i
      BY <1>6
    <3>2. i = 1
      <4>1. Phases["metrics"][i].state # "unknown"
        BY <1>5, <3>1, MetricsEvent
      <4>2. QED
        BY <4>1, MetricsPhases DEF PhaseIs
    <3>3. k <= 2 * r + l
      BY <1>6 DEF n
    <3>4. QED
      BY <1>1, <1>4, <3>1, <3>2, <3>3
  <2>4. QED
    BY <2>1, <2>2, <2>3, MaxIs
<1>10. Event("metrics", newest).at <= s
  BY <1>1, <1>8
<1>11. Up("connected") = Up(At("metrics", s).state)
  <2>1. Up(At("metrics", s).state) /\ Up("connected")
    BY <1>2, <1>4, MetricsPhases DEF PhaseIs, Up, UpStates
  <2>2. Up("connected") \in BOOLEAN /\ Up(At("metrics", s).state) \in BOOLEAN
    BY DEF Up
  <2>3. QED
    BY <2>1, <2>2
<1>12. downs = {}
  <2> SUFFICES ASSUME NEW k \in downs
               PROVE  FALSE
    OBVIOUS
  <2>1. PICK q \in Nat, i \in 1 .. 2 : k = 2 * q + i
    BY <1>6
  <2>2. Phases["metrics"][i].state = "disconnected"
    BY <2>1, MetricsEvent
  <2>3. QED
    BY <2>2, MetricsPhases DEF PhaseIs
<1>13. QED
  BY <1>7, <1>8, <1>9, <1>10, <1>11, <1>12 DEF FeedIs, feed

\* Neither date lies ahead.
LEMMA Dated ==
    ASSUME NEW p \in Profiles, NEW s \in Nat
    PROVE  SessionStart(p, s) <= s /\ Notified(p, s) <= s
<1>1. Notified(p, s) <= s
  BY DEF Notified, Never
<1>2. CASE p = "web"
  <2> DEFINE r == s \div 180
             o == s % 180
             l == Locate("web", s)
             down == {k \in 1 .. l - 1 : ~Up(Phases["web"][k].state)}
  <2>1. r \in Nat /\ o \in 0 .. 179 /\ s = 180 * r + o
    OBVIOUS
  <2>2. /\ Round("web", s) = r
        /\ l = IF o < 140 THEN 1 ELSE IF o < 146 THEN 2 ELSE IF o < 164 THEN 3 ELSE 4
    BY WebAt
  <2> HIDE DEF r, o, l
  <2>3. l \in {1, 2, 3, 4}
    BY <2>2
  <2>4. /\ Up(Phases["web"][1].state) /\ ~Up(Phases["web"][2].state)
        /\ ~Up(Phases["web"][3].state)
    BY WebPhases DEF PhaseIs, Up, UpStates
  <2>5. CASE l = 1
    <3>1. down = {}
      BY <2>5
    <3>2. SessionStart("web", s) \in {Never, 0, r * 180 + 0}
      BY <3>1, <2>2, WebTimes DEF SessionStart, l
    <3>3. QED
      BY <1>1, <1>2, <2>1, <3>2 DEF Never
  <2>6. CASE l \in {2, 3}
    <3>1. ~Up(At("web", s).state)
      BY <2>4, <2>6 DEF At, l
    <3>2. QED
      BY <1>1, <1>2, <2>1, <3>1 DEF SessionStart, Never
  <2>7. CASE l = 4
    <3>1. \A k \in 1 .. 3 : k \in {1, 2, 3}
      OBVIOUS
    <3>2. 3 \in down /\ down \in SUBSET Int /\ \A k \in down : k <= 3
      BY <2>4, <2>7, <3>1
    <3> HIDE DEF down
    <3>3. Max(down) = 3 /\ down # {}
      BY <3>2, MaxIs
    <3>4. SessionStart("web", s) \in {Never, 0, r * 180 + 164}
      BY <3>3, <2>2, WebTimes DEF SessionStart, l, down
    <3>5. QED
      BY <1>1, <1>2, <2>1, <2>2, <2>7, <3>4 DEF Never
  <2>8. QED
    BY <2>3, <2>5, <2>6, <2>7
<1>3. CASE p = "db"
  <2> DEFINE r == s \div 120
             l == Locate("db", s)
  <2>1. r \in Nat /\ 120 * r <= s
    OBVIOUS
  <2>2. Round("db", s) = r /\ l \in {1, 2, 3}
    BY DbAt
  <2> HIDE DEF r, l
  <2>3. CASE l = 1
    <3>1. {k \in 1 .. l - 1 : ~Up(Phases["db"][k].state)} = {}
      BY <2>3
    <3>2. SessionStart("db", s) \in {Never, 0, r * 120 + 0}
      BY <3>1, <2>2, DbTimes DEF SessionStart, l
    <3>3. QED
      BY <1>1, <1>3, <2>1, <3>2 DEF Never
  <2>4. CASE l \in {2, 3}
    <3>1. ~Up(At("db", s).state)
      BY <2>4, DbPhases DEF At, l, PhaseIs, Up, UpStates
    <3>2. QED
      BY <1>1, <1>3, <2>1, <3>1 DEF SessionStart, Never
  <2>5. QED
    BY <2>2, <2>3, <2>4
<1>4. CASE p = "metrics"
  <2>1. 1 .. 2 = {1, 2}
    OBVIOUS
  <2>2. \A k \in Indices("metrics") : Up(Phases["metrics"][k].state)
    BY <2>1, MetricsPhases DEF Indices, PhaseIs, Up, UpStates
  <2>3. SessionStart("metrics", s) \in {Never, 0}
    BY <2>2 DEF SessionStart
  <2>4. QED
    BY <1>1, <1>4, <2>3 DEF Never
<1>5. QED
  BY <1>2, <1>3, <1>4 DEF Profiles

-----------------------------------------------------------------------------
(* The specification.                                                      *)

\* StatsAgree is inductive as soon as the moment is a natural number; that of a
\* pressed button is one because the change announced lies ahead.
TimeInv ==
    /\ mode \in {"live", "pinned"}
    /\ t \in Nat
    /\ StatsAgree

LEMMA ParsedAnchor == ASSUME NEW value \in Nat PROVE ParseAt(value) \in Nat
<1> DEFINE S == {value, AtLimit}
           m == CHOOSE x \in S : \A y \in S : x <= y
<1>1. \E x \in S : \A y \in S : x <= y
  BY DEF AtLimit
<1>2. m \in S
  BY <1>1
<1>3. QED
  BY <1>2 DEF ParseAt, Min, AtLimit

LEMMA Beginning ==
    ASSUME NEW p \in Profiles
    PROVE  UpTime(p, 0) = 0 /\ Sessions(p, 0) = 1 /\ LastDisconnect(p, 0) = Never
<1>1. WebIs(0, 0, 0) /\ DbIs(0, 0, 0)
  <2>1. 0 = 0 \div 180 /\ 0 = 0 % 180 /\ 0 = 0 \div 120 /\ 0 = 0 % 120
    OBVIOUS
  <2>2. QED
    BY <2>1, WebStats, DbStats
<1>2. QED
  BY <1>1, MetricsStats DEF WebIs, DbIs, Profiles

LEMMA TimeInvHolds == Spec => []TimeInv
<1>1. Init => TimeInv
  BY Beginning DEF Init, TimeInv, StatsAgree
<1>2. TimeInv /\ [Next]_vars => TimeInv'
  <2> SUFFICES ASSUME TimeInv, [Next]_vars
               PROVE  TimeInv'
    OBVIOUS
  <2>1. CASE Tick
    <3>1. /\ mode = "live" /\ mode' = "live" /\ t \in Nat /\ t' = t + 1
          /\ past' = [p \in Profiles |-> Remember(p)]
      BY <2>1 DEF TimeInv, Tick
    <3>2. ASSUME NEW p \in Profiles
          PROVE  /\ UpTime(p, t + 1) = past'[p].up /\ Sessions(p, t + 1) = past'[p].sessions
                 /\ LastDisconnect(p, t + 1) = past'[p].down
      <4>1. /\ UpTime(p, t) = past[p].up /\ Sessions(p, t) = past[p].sessions
            /\ LastDisconnect(p, t) = past[p].down
        BY <3>1 DEF TimeInv, StatsAgree
      <4>2. Passes(p, t)
        BY <3>1, EveryPasses
      <4>3. past'[p] = Remember(p)
        BY <3>1
      <4>4. QED
        BY <4>1, <4>2, <4>3 DEF Passes, Remember
    <3>3. \A p \in Profiles : /\ UpTime(p, t') = past'[p].up
                              /\ Sessions(p, t') = past'[p].sessions
                              /\ LastDisconnect(p, t') = past'[p].down
      BY <3>1, <3>2
    <3>4. StatsAgree'
      BY <3>3 DEF StatsAgree
    <3>5. QED
      BY <3>1, <3>4 DEF TimeInv
  <2>2. CASE Pin
    <3>1. t' \in Nat /\ mode' = "pinned"
      BY <2>2, ParsedAnchor, AnchorAssumption DEF Pin
    <3>2. QED
      BY <3>1 DEF TimeInv, StatsAgree
  <2>3. CASE Press
    <3>1. mode' = "pinned" /\ t' \in Nat
      BY <2>3, NextChangeIsNext DEF Press, TimeInv
    <3>2. QED
      BY <3>1 DEF TimeInv, StatsAgree
  <2>4. CASE UNCHANGED vars
    BY <2>4 DEF TimeInv, StatsAgree, vars
  <2>5. QED
    BY <2>1, <2>2, <2>3, <2>4 DEF Next
<1>3. QED
  BY <1>1, <1>2, PTL DEF Spec

\* The page is a function of the moment alone, and still shows the time up, the
\* sessions and the last disconnection of a daemon that saw every second.
THEOREM StatsAlwaysAgree == Spec => []StatsAgree
<1>1. TimeInv => StatsAgree
  BY DEF TimeInv
<1>2. QED
  BY <1>1, TimeInvHolds, PTL

\* The link to the next change never jumps over one, and never leads to a moment
\* where the profile it names looks as it did, for any value of ?at=.
THEOREM NextIsAlwaysNext == Spec => []NextIsNext
<1>1. TimeInv => NextIsNext
  BY NextChangeIsNext DEF TimeInv, NextIsNext, Looks
<1>2. QED
  BY <1>1, TimeInvHolds, PTL

\* The feed ends with the state a profile is in, agrees with the statistics about
\* the last disconnection, and nothing that is dated lies ahead.
THEOREM FeedAlwaysAgrees == Spec => []FeedAgrees
<1>1. \A p \in Profiles, s \in Nat : FeedIs(p, s)
  BY WebFeed, DbFeed, MetricsFeed DEF Profiles
<1>2. TimeInv => FeedAgrees
  BY <1>1, Dated DEF TimeInv, FeedAgrees, FeedIs
<1>3. QED
  BY <1>2, TimeInvHolds, PTL

\* A second never lowers the attempts or the time a tunnel was down, and there
\* are never more sessions than attempts.
THEOREM NothingIsTakenBack == Spec => NothingTakenBack
<1> DEFINE Keeps(p) ==
        /\ Attempts(p, t') >= Attempts(p, t)
        /\ t' - UpTime(p, t') >= t - UpTime(p, t)
        /\ Sessions(p, t') <= Attempts(p, t')
<1>1. TimeInv /\ [Next]_vars => (Tick => \A p \in Profiles : Keeps(p))
  <2> SUFFICES ASSUME TimeInv, Tick, NEW p \in Profiles
               PROVE  Keeps(p)
    OBVIOUS
  <2>1. t \in Nat /\ t' = t + 1
    BY DEF TimeInv, Tick
  <2>2. Passes(p, t) /\ Counts(p, t) /\ Counts(p, t + 1)
    BY <2>1, EveryPasses
  <2>3. QED
    BY <2>1, <2>2 DEF Passes, Counts
<1>2. QED
  BY <1>1, TimeInvHolds, PTL DEF Spec, NothingTakenBack
=============================================================================
