------------------------ MODULE AlertDeliveryProofs ------------------------
(***************************************************************************)
(* Theorems about AlertDelivery, for any number of sources and handlers,   *)
(* any preferences and any configuration.  The bounds on time, alerts and  *)
(* events are constants like any other.                                    *)
(***************************************************************************)
EXTENDS AlertDelivery, SequenceTheorems, TLAPS

\* What an alert was decided on; nothing that happens to it later changes it.
Decided(a) == <<a.source, a.kind, a.at, a.era, a.prefs, a.off>>

Readers == [busy : BOOLEAN, prefs : Prefs, off : SUBSET {"webhook", "email"}]

LEMMA DefaultsType == Defaults \in Prefs /\ Nobody \in Readers
  BY AlertAssumption DEF Defaults, Nobody, Readers, Prefs, Switches

LEMMA ChosenType == ASSUME NEW p PROVE Chosen(p) \in SUBSET Channels
  BY DEF Chosen

LEMMA InitIInv == Init => IInv
  <1>. SUFFICES ASSUME Init PROVE IInv
    OBVIOUS
  <1>1. alerts \in Seq(Alerts) /\ Len(alerts) = 0 /\ DOMAIN alerts = {}
    BY DEF Init
  <1>2. TypeOK
    BY <1>1, DefaultsType, AlertAssumption DEF Init, TypeOK, Readers
  <1>3. DecisionInv
    BY <1>1 DEF Init, DecisionInv, Nobody
  <1>4. MarkInv /\ CooldownKept
    BY <1>1 DEF MarkInv, CooldownKept
  <1>5. SaveInv /\ AckedStored
    BY DEF Init, SaveInv, AckedStored, UnderWay
  <1>. QED  BY <1>2, <1>3, <1>4, <1>5 DEF IInv

-----------------------------------------------------------------------------
(* Steps that decide nothing.                                              *)

\* With the same decisions, marks and times the alerts stay covered and as
\* far apart as they were.
LEMMA SameDecisions ==
    ASSUME IInv,
           DOMAIN alerts' = DOMAIN alerts,
           \A i \in DOMAIN alerts : Decided(alerts'[i]) = Decided(alerts[i])
    PROVE  /\ CooldownKept'
           /\ UNCHANGED <<clock, marks, lastAlert, era>> => MarkInv'
  <1>1. \A i \in DOMAIN alerts : LET a == alerts[i]  b == alerts'[i] IN
           /\ a.source = b.source /\ a.kind = b.kind /\ a.at = b.at
           /\ a.era = b.era /\ a.prefs = b.prefs
    BY DEF Decided
  <1>2. CooldownKept'
    BY <1>1 DEF IInv, CooldownKept
  <1>3. ASSUME UNCHANGED <<clock, marks, lastAlert, era>> PROVE MarkInv'
    BY <1>1, <1>3 DEF IInv, MarkInv
  <1>. QED  BY <1>2, <1>3

-----------------------------------------------------------------------------
(* Saves.                                                                  *)

\* Nothing but saves and restarts touches the row and what is known of it.
SavesKept == UNCHANGED <<row, hpc, hval, may, over>>

LEMMA SavesAlone == ASSUME IInv, SavesKept PROVE SaveInv' /\ AckedStored'
  BY DEF IInv, SavesKept, SaveInv, AckedStored, UnderWay

\* A new save is under way beside the others, and may be what is stored.
LEMMA RequestKept ==
    ASSUME IInv, NEW h \in Handlers, NEW p \in Saves, SaveUpdate(h, p)
    PROVE  /\ SaveInv' /\ AckedStored'
           /\ row' \in Prefs \cup {NoRow} /\ may' \subseteq Prefs \cup {NoRow}
           /\ hpc' \in [Handlers -> {"idle", "insert", "stored"}]
           /\ hval' \in [Handlers -> Prefs] /\ over' \in [Handlers -> SUBSET Prefs]
  <1>. USE DEF IInv
  <1>1. /\ hval' = [hval EXCEPT ![h] = p] /\ may' = may \cup {p}
        /\ over' = [g \in Handlers |->
              IF g = h THEN {p} \cup {hval[f] : f \in UnderWay}
              ELSE IF g \in UnderWay THEN over[g] \cup {p} ELSE over[g]]
        /\ hpc[h] = "idle" /\ row' \in {row, p} /\ p \in Prefs
        /\ hpc' \in {[hpc EXCEPT ![h] = "stored"], [hpc EXCEPT ![h] = "insert"]}
        /\ hpc'[h] = "stored" => row' = p
    BY AlertAssumption DEF SaveUpdate, Requested, TypeOK
  <1>2. /\ row' \in Prefs \cup {NoRow} /\ may' \subseteq Prefs \cup {NoRow}
        /\ hpc' \in [Handlers -> {"idle", "insert", "stored"}]
        /\ hval' \in [Handlers -> Prefs]
    BY <1>1 DEF TypeOK
  <1>3. over' \in [Handlers -> SUBSET Prefs]
    <2>1. {hval[f] : f \in UnderWay} \subseteq Prefs
      BY DEF TypeOK, UnderWay
    <2>2. \A g \in Handlers : over'[g] \subseteq Prefs
      BY <1>1, <2>1 DEF TypeOK
    <2>. QED  BY <1>1, <2>2
  <1>4. /\ UnderWay' = UnderWay \cup {h} /\ h \notin UnderWay
        /\ \A g \in Handlers : g # h => hpc'[g] = hpc[g] /\ hval'[g] = hval[g]
        /\ hval'[h] = p
    BY <1>1 DEF TypeOK, UnderWay
  <1>5. /\ over'[h] = {p} \cup {hval[f] : f \in UnderWay}
        /\ \A g \in UnderWay : over'[g] = over[g] \cup {p}
    BY <1>1, <1>4 DEF UnderWay
  <1>6. AckedStored'
    BY <1>1 DEF AckedStored
  <1>7. \A g \in Handlers : hpc'[g] = "stored" => row' \in over'[g]
    <2>. SUFFICES ASSUME NEW g \in Handlers, hpc'[g] = "stored"
                  PROVE  row' \in over'[g]
      OBVIOUS
    <2>1. CASE g = h
      BY <1>1, <1>5, <2>1
    <2>2. CASE g # h
      <3>1. hpc[g] = "stored" /\ g \in UnderWay
        BY <1>4, <2>2 DEF UnderWay
      <3>. QED  BY <1>1, <1>5, <3>1 DEF SaveInv
    <2>. QED  BY <2>1, <2>2
  <1>8. \A g, f \in UnderWay' : hval'[f] \in over'[g] \cap may'
    <2>1. \A f \in UnderWay : hval'[f] = hval[f] /\ hval[f] \in may
      BY <1>4 DEF SaveInv, UnderWay
    <2>2. \A g, f \in UnderWay : hval'[f] \in over'[g]
      BY <1>5, <2>1 DEF SaveInv
    <2>3. \A f \in UnderWay : hval'[f] \in over'[h]
      BY <1>5, <2>1
    <2>4. \A f \in UnderWay' : hval'[f] \in may'
      BY <1>1, <1>4, <2>1
    <2>5. \A g \in UnderWay' : p \in over'[g]
      BY <1>4, <1>5
    <2>6. \A g, f \in UnderWay' : hval'[f] \in over'[g]
      BY <1>4, <2>2, <2>3, <2>5
    <2>. QED  BY <2>4, <2>6
  <1>9. SaveInv'
    BY <1>7, <1>8 DEF SaveInv
  <1>. QED  BY <1>2, <1>3, <1>6, <1>9

\* A save that ends takes nothing from the others.
LEMMA AnswerKept ==
    ASSUME IInv, NEW h \in Handlers, Answer(h), UNCHANGED row,
           may' = may \/ (hpc[h] = "stored" /\ may' = may \cap over[h])
    PROVE  /\ SaveInv' /\ AckedStored'
           /\ hpc' \in [Handlers -> {"idle", "insert", "stored"}]
           /\ hval' \in [Handlers -> Prefs] /\ over' \in [Handlers -> SUBSET Prefs]
           /\ may' \subseteq Prefs \cup {NoRow}
  <1>. USE DEF IInv
  <1>1. /\ hpc' \in [Handlers -> {"idle", "insert", "stored"}]
        /\ hval' \in [Handlers -> Prefs] /\ over' \in [Handlers -> SUBSET Prefs]
        /\ may' \subseteq Prefs \cup {NoRow}
    BY DefaultsType DEF Answer, TypeOK
  <1>2. \A g \in UnderWay' : /\ g \in UnderWay /\ hpc'[g] = hpc[g]
                             /\ hval'[g] = hval[g] /\ over'[g] = over[g]
    BY DEF Answer, TypeOK, UnderWay
  <1>3. AckedStored'
    BY DEF AckedStored, SaveInv
  <1>4. \A g, f \in UnderWay' : hval'[f] \in over'[g] \cap may'
    <2>1. \A f \in UnderWay' : hval[f] \in may'
      BY <1>2 DEF SaveInv, UnderWay
    <2>. QED  BY <1>2, <2>1 DEF SaveInv
  <1>5. \A g \in Handlers : hpc'[g] = "stored" => row' \in over'[g]
    BY <1>2 DEF SaveInv, UnderWay
  <1>. QED  BY <1>1, <1>3, <1>4, <1>5 DEF SaveInv

LEMMA InsertKept ==
    ASSUME IInv, NEW h \in Handlers, hpc[h] = "insert", row' = hval[h],
           hpc' = [hpc EXCEPT ![h] = "stored"], UNCHANGED <<hval, may, over>>
    PROVE  SaveInv' /\ AckedStored'
  <1>. USE DEF IInv
  <1>1. UnderWay' = UnderWay /\ h \in UnderWay
    BY DEF TypeOK, UnderWay
  <1>2. \A g \in Handlers : hpc'[g] = "stored" => g \in UnderWay
    BY <1>1 DEF UnderWay
  <1>. QED  BY <1>1, <1>2 DEF SaveInv, AckedStored

LEMMA SaveKept == ASSUME IInv, NEW h \in Handlers, SaveStep(h) PROVE IInv'
  <1>. USE DEF IInv
  <1>1. UNCHANGED <<clock, marks, lastAlert, reader, alerts, era>>
    BY DEF SaveStep, alertVars
  <1>2. /\ row' \in Prefs \cup {NoRow} /\ may' \subseteq Prefs \cup {NoRow}
        /\ hpc' \in [Handlers -> {"idle", "insert", "stored"}]
        /\ hval' \in [Handlers -> Prefs] /\ over' \in [Handlers -> SUBSET Prefs]
        /\ events' \in 0 .. MaxEvents
        /\ SaveInv' /\ AckedStored'
    <2>1. CASE (\E p \in Saves : SaveUpdate(h, p)) /\ UNCHANGED events
      <3>1. PICK p \in Saves : SaveUpdate(h, p)
        BY <2>1
      <3>2. events' \in 0 .. MaxEvents
        BY <2>1 DEF TypeOK
      <3>. QED  BY <3>1, <3>2, RequestKept
    <2>2. CASE hpc[h] = "insert" /\ row' = hval[h] /\ UNCHANGED <<hval, may, over, events>>
               /\ hpc' = [hpc EXCEPT ![h] = "stored"]
      <3>1. SaveInv' /\ AckedStored'
        BY <2>2, InsertKept
      <3>. QED  BY <2>2, <3>1 DEF TypeOK
    <2>3. CASE SaveInsert(h) /\ Answer(h) /\ UNCHANGED <<row, may>>
      <3>1. events' \in 0 .. MaxEvents
        BY <2>3, AlertAssumption DEF SaveInsert, TypeOK
      <3>2. row' \in Prefs \cup {NoRow}
        BY <2>3 DEF TypeOK
      <3>. QED  BY <2>3, <3>1, <3>2, AnswerKept
    <2>4. CASE Confirm(h)
      <3>1. row' \in Prefs \cup {NoRow} /\ events' \in 0 .. MaxEvents
        BY <2>4 DEF Confirm, TypeOK
      <3>. QED  BY <2>4, <3>1, AnswerKept DEF Confirm
    <2>. QED  BY <2>1, <2>2, <2>3, <2>4 DEF SaveStep, SaveInsert
  <1>3. TypeOK'
    BY <1>1, <1>2 DEF TypeOK
  <1>4. DecisionInv' /\ MarkInv' /\ CooldownKept'
    BY <1>1 DEF DecisionInv, MarkInv, CooldownKept
  <1>. QED  BY <1>2, <1>3, <1>4

-----------------------------------------------------------------------------
(* What a decision reads.                                                  *)

LEMMA ReadKept ==
    ASSUME IInv, NEW s \in Sources, NEW k \in Kinds, Read(s, k) PROVE IInv'
  <1>. USE DEF IInv
  <1>1. UNCHANGED <<row, hpc, hval, may, over, clock, marks, lastAlert, alerts, era>>
    BY DEF Read, saveVars
  <1>2. PICK fails \in BOOLEAN :
          /\ reader' = [reader EXCEPT ![s][k] =
                [busy  |-> TRUE,
                 prefs |-> IF fails THEN Defaults ELSE Meant(row),
                 off   |-> IF fails THEN {} ELSE SurelyOff]]
          /\ IF fails THEN Event ELSE UNCHANGED events
    BY Zenon DEF Read
  <1>a. events' \in 0 .. MaxEvents
    BY <1>2, AlertAssumption DEF Event, TypeOK
  <1>. DEFINE read == [busy  |-> TRUE,
                       prefs |-> IF fails THEN Defaults ELSE Meant(row),
                       off   |-> IF fails THEN {} ELSE SurelyOff]
  <1>3. read \in Readers
    BY DefaultsType DEF Readers, TypeOK, Meant, SurelyOff
  <1>4. reader' = [reader EXCEPT ![s] = [reader[s] EXCEPT ![k] = read]]
    BY <1>2 DEF TypeOK
  <1>5. reader' \in [Sources -> [Kinds -> Readers]]
    <2>1. [reader[s] EXCEPT ![k] = read] \in [Kinds -> Readers]
      BY <1>3 DEF TypeOK, Readers
    <2>. QED  BY <1>4, <2>1 DEF TypeOK, Readers
  <1>6. TypeOK' /\ SaveInv' /\ AckedStored'
    BY <1>1, <1>a, <1>5, SavesAlone DEF TypeOK, SavesKept, Readers
  <1>7. DecisionInv'
    <2>1. \A switch \in read.off : read.prefs[switch] = "off"
      BY DEF AckedStored, SurelyOff
    <2>2. \A t \in Sources, l \in Kinds :
            reader'[t][l] = IF t = s /\ l = k THEN read ELSE reader[t][l]
      BY <1>4 DEF TypeOK
    <2>. HIDE DEF read
    <2>. QED  BY <1>1, <2>1, <2>2 DEF DecisionInv
  <1>8. MarkInv' /\ CooldownKept'
    BY <1>1 DEF MarkInv, CooldownKept
  <1>. QED  BY <1>6, <1>7, <1>8

\* The reader is done: nothing of it is left to vouch for.
LEMMA DoneInv ==
    ASSUME IInv, NEW s \in Sources, NEW k \in Kinds, Done(s, k)
    PROVE  /\ reader' \in [Sources -> [Kinds -> Readers]]
           /\ \A t \in Sources, l \in Kinds :
                 \A switch \in reader'[t][l].off : reader'[t][l].prefs[switch] = "off"
  <1>. USE DEF IInv
  <1>1. reader' = [reader EXCEPT ![s] = [reader[s] EXCEPT ![k] = Nobody]]
    BY DEF Done, TypeOK
  <1>2. [reader[s] EXCEPT ![k] = Nobody] \in [Kinds -> Readers]
    BY DefaultsType DEF TypeOK, Readers
  <1>3. \A t \in Sources, l \in Kinds :
          reader'[t][l] = IF t = s /\ l = k THEN Nobody ELSE reader[t][l]
    BY <1>1 DEF TypeOK
  <1>. QED  BY <1>1, <1>2, <1>3 DEF TypeOK, Readers, DecisionInv, Nobody

-----------------------------------------------------------------------------
(* Decisions.                                                              *)

\* The alert that Launch appends.
Launched(s, k) ==
    [source |-> s, kind |-> k, at |-> clock, era |-> era[s],
     prefs |-> reader[s][k].prefs, off |-> reader[s][k].off,
     left |-> Chosen(reader[s][k].prefs), tried |-> {}, lost |-> FALSE]

LEMMA LaunchType ==
    ASSUME TypeOK, NEW s \in Sources, NEW k \in Kinds, Launch(s, k)
    PROVE  /\ alerts' \in Seq(Alerts) /\ Len(alerts') <= MaxAlerts
           /\ DOMAIN alerts' = DOMAIN alerts \cup {Len(alerts) + 1}
           /\ DOMAIN alerts = 1 .. Len(alerts) /\ Len(alerts) \in Nat
           /\ \A i \in DOMAIN alerts : alerts'[i] = alerts[i]
           /\ alerts'[Len(alerts) + 1] = Launched(s, k)
  <1>1. Launched(s, k) \in Alerts
    BY ChosenType DEF Launched, Alerts, TypeOK
  <1>2. alerts' = Append(alerts, Launched(s, k)) /\ Len(alerts) < MaxAlerts
    BY DEF Launch, Launched
  <1>. HIDE DEF Launched
  <1>3. Len(alerts) \in Nat /\ DOMAIN alerts = 1 .. Len(alerts)
    BY DEF TypeOK
  <1>4. 1 .. Len(alerts) + 1 = (1 .. Len(alerts)) \cup {Len(alerts) + 1}
    BY <1>3
  <1>5. alerts' \in Seq(Alerts) /\ Len(alerts') = Len(alerts) + 1
    BY <1>1, <1>2, AppendProperties DEF TypeOK
  <1>6. DOMAIN alerts' = 1 .. Len(alerts) + 1
    BY <1>5
  <1>. QED
    BY <1>1, <1>2, <1>3, <1>4, <1>5, <1>6, AppendProperties, AlertAssumption DEF TypeOK

\* The new alert was decided on what its reader had read.
LEMMA LaunchDecision ==
    ASSUME IInv, NEW s \in Sources, NEW k \in Kinds,
           reader[s][k].busy, Launch(s, k), Done(s, k)
    PROVE  DecisionInv'
  <1>1. /\ DOMAIN alerts' = DOMAIN alerts \cup {Len(alerts) + 1}
        /\ \A i \in DOMAIN alerts : alerts'[i] = alerts[i]
        /\ alerts'[Len(alerts) + 1] = Launched(s, k)
    BY LaunchType DEF IInv
  <1>2. \A i \in DOMAIN alerts' : LET a == alerts'[i] IN
          /\ \A switch \in a.off : a.prefs[switch] = "off"
          /\ a.left \cup a.tried \subseteq Chosen(a.prefs)
    <2>1. LET a == Launched(s, k) IN
            /\ \A switch \in a.off : a.prefs[switch] = "off"
            /\ a.left \cup a.tried \subseteq Chosen(a.prefs)
      BY DEF IInv, DecisionInv, Launched
    <2>. QED  BY <1>1, <2>1 DEF IInv, DecisionInv
  <1>. QED  BY <1>2, DoneInv DEF DecisionInv

\* What is longer ago in minutes is longer ago as a duration.
LEMMA Earlier ==
    ASSUME NEW now \in Nat, NEW then \in Nat, NEW later \in Nat, NEW m \in Nat,
           then <= later
    PROVE  (now - then) * m >= (now - later) * m
  <1>1. PICK d \in Nat : later = then + d
    <2>1. later - then \in Nat /\ later = then + (later - then)
      OBVIOUS
    <2>. QED  BY <2>1
  <1>2. (now - then) * m = (now - later) * m + d * m
    BY <1>1
  <1>3. d * m \in Nat /\ (now - later) * m \in Int
    OBVIOUS
  <1>. QED  BY <1>2, <1>3

LEMMA SendStaleKept == ASSUME IInv, NEW s \in Sources, SendStale(s) PROVE IInv'
  <1>. USE DEF IInv
  <1>. "stale" \in Kinds
    BY DEF Kinds
  <1>1. /\ UNCHANGED <<row, hpc, hval, may, over, clock, era, events>>
        /\ reader[s]["stale"].busy /\ Done(s, "stale")
    BY DEF SendStale, saveVars
  <1>2. CASE UNCHANGED <<marks, lastAlert, alerts>>
    <2>1. TypeOK' /\ SaveInv' /\ AckedStored'
      BY <1>1, <1>2, DoneInv, SavesAlone DEF TypeOK, SavesKept, Readers
    <2>2. DecisionInv'
      BY <1>1, <1>2, DoneInv DEF DecisionInv
    <2>3. MarkInv' /\ CooldownKept'
      BY <1>1, <1>2 DEF MarkInv, CooldownKept
    <2>. QED  BY <2>1, <2>2, <2>3
  <1>3. CASE ~UNCHANGED <<marks, lastAlert, alerts>>
    <2>1. /\ s \in marks =>
                ~(Since(s) < Cooldown(reader[s]["stale"].prefs))
          /\ marks' = marks \cup {s}
          /\ lastAlert' = [lastAlert EXCEPT ![s] = clock]
          /\ Launch(s, "stale")
      BY <1>3 DEF SendStale
    <2>. DEFINE n == Len(alerts) + 1
    <2>2. /\ DOMAIN alerts' = DOMAIN alerts \cup {n}
          /\ DOMAIN alerts = 1 .. Len(alerts) /\ Len(alerts) \in Nat
          /\ \A i \in DOMAIN alerts : alerts'[i] = alerts[i]
          /\ alerts'[n] = Launched(s, "stale")
      BY <2>1, LaunchType
    <2>a. \A i \in DOMAIN alerts : alerts[i] \in Alerts
      BY DEF TypeOK
    <2>3. TypeOK' /\ SaveInv' /\ AckedStored'
      <3>1. alerts' \in Seq(Alerts) /\ Len(alerts') <= MaxAlerts
        BY <2>1, LaunchType
      <3>. QED  BY <1>1, <2>1, <3>1, DoneInv, SavesAlone DEF TypeOK, SavesKept, Readers
    <2>4. DecisionInv'
      BY <1>1, <2>1, LaunchDecision
    <2>5. MarkInv'
      <3>1. ASSUME NEW i \in DOMAIN alerts
            PROVE  LET a == alerts[i] IN
                     /\ a.era <= era[a.source]
                     /\ a.kind = "stale" /\ a.era = era[a.source] =>
                           a.source \in marks' /\ a.at <= lastAlert'[a.source]
        <4>1. /\ alerts[i].source \in Sources /\ alerts[i].at \in Nat
              /\ alerts[i].at <= clock
          BY <2>2, <2>a DEF Alerts, MarkInv
        <4>2. lastAlert'[alerts[i].source] \in {lastAlert[alerts[i].source], clock}
          BY <2>1, <4>1 DEF TypeOK
        <4>. QED  BY <2>1, <4>1, <4>2 DEF MarkInv
      <3>2. LET a == Launched(s, "stale") IN
              /\ a.source = s /\ a.era = era[s] /\ a.at = clock
              /\ s \in marks' /\ lastAlert'[s] = clock
        BY <2>1 DEF Launched, TypeOK
      <3>3. clock \in Nat /\ era[s] \in Nat
        BY AlertAssumption DEF TypeOK
      <3>. QED  BY <1>1, <2>2, <3>1, <3>2, <3>3 DEF MarkInv
    <2>6. CooldownKept'
      <3>. SUFFICES ASSUME NEW i \in DOMAIN alerts', NEW j \in DOMAIN alerts', i < j,
                           alerts'[i].kind = "stale", alerts'[j].kind = "stale",
                           alerts'[i].source = alerts'[j].source,
                           alerts'[i].era = alerts'[j].era,
                           Asked(alerts'[j].prefs) < Half
                    PROVE  (alerts'[j].at - alerts'[i].at) * Minute >= Asked(alerts'[j].prefs)
        BY DEF CooldownKept
      <3>1. i \in DOMAIN alerts /\ alerts'[i] = alerts[i]
        BY <2>2
      <3>2. CASE j # n
        <4>1. j \in DOMAIN alerts /\ alerts'[j] = alerts[j]
          BY <2>2, <3>2
        <4>. QED  BY <3>1, <4>1 DEF CooldownKept
      <3>3. CASE j = n
        <4>1. /\ alerts'[j].source = s /\ alerts'[j].era = era[s]
              /\ alerts'[j].at = clock /\ alerts'[j].prefs = reader[s]["stale"].prefs
          BY <2>2, <3>3 DEF Launched
        <4>2. s \in marks /\ alerts[i].at <= lastAlert[s]
          BY <3>1, <4>1 DEF MarkInv
        <4>3. /\ alerts[i].at \in Nat /\ lastAlert[s] \in Nat /\ clock \in Nat
              /\ Minute \in Nat
          <5>1. alerts[i].at \in Nat
            BY <2>a, <3>1 DEF Alerts
          <5>. QED  BY <5>1, AlertAssumption DEF TypeOK
        <4>4. Asked(alerts'[j].prefs) \in Int
          <5>1. reader[s]["stale"].prefs.cooldown \in Nat \cup {NoCooldown}
            BY DEF TypeOK, Prefs
          <5>. QED  BY <4>1, <5>1, AlertAssumption DEF ValidConfig, Asked
        <4>5. (clock - lastAlert[s]) * Minute >= Asked(alerts'[j].prefs)
          <5>1. Cooldown(alerts'[j].prefs) = Asked(alerts'[j].prefs)
            BY DEF Cooldown
          <5>2. ~((clock - lastAlert[s]) * Minute < Asked(alerts'[j].prefs))
            BY <2>1, <4>1, <4>2, <5>1 DEF Since
          <5>3. (clock - lastAlert[s]) * Minute \in Int
            BY <4>3
          <5>. QED  BY <4>4, <5>2, <5>3
        <4>6. (clock - alerts[i].at) * Minute >= (clock - lastAlert[s]) * Minute
          BY <4>2, <4>3, Earlier
        <4>7. (clock - alerts[i].at) * Minute \in Int /\ (clock - lastAlert[s]) * Minute \in Int
          BY <4>3
        <4>. QED  BY <3>1, <4>1, <4>4, <4>5, <4>6, <4>7
      <3>. QED  BY <3>2, <3>3
    <2>. QED  BY <2>3, <2>4, <2>5, <2>6
  <1>. QED  BY <1>2, <1>3

\* With the mark goes the era: no alert of the past counts any more.
LEMMA UnmarkKept ==
    ASSUME IInv, NEW s \in Sources, Unmark(s), UNCHANGED clock
    PROVE  /\ marks' \subseteq Sources /\ lastAlert' \in [Sources -> 0 .. MaxTime]
           /\ era' \in [Sources -> Nat]
           /\ \A a \in Alerts :
                 /\ a.at <= clock /\ a.era <= era[a.source]
                 /\ a.kind = "stale" /\ a.era = era[a.source] =>
                       a.source \in marks /\ a.at <= lastAlert[a.source]
                 => /\ a.era <= era'[a.source]
                    /\ a.kind = "stale" /\ a.era = era'[a.source] =>
                          a.source \in marks' /\ a.at <= lastAlert'[a.source]
           /\ era'[s] = era[s] + 1
  <1>. USE DEF IInv, Unmark
  <1>1. /\ marks' \subseteq Sources /\ lastAlert' \in [Sources -> 0 .. MaxTime]
        /\ era' \in [Sources -> Nat] /\ era'[s] = era[s] + 1
    BY AlertAssumption DEF TypeOK
  <1>2. ASSUME NEW a \in Alerts,
               a.at <= clock, a.era <= era[a.source],
               a.kind = "stale" /\ a.era = era[a.source] =>
                  a.source \in marks /\ a.at <= lastAlert[a.source]
        PROVE  /\ a.era <= era'[a.source]
               /\ a.kind = "stale" /\ a.era = era'[a.source] =>
                     a.source \in marks' /\ a.at <= lastAlert'[a.source]
    <2>1. a.source \in Sources /\ a.era \in Nat
      BY DEF Alerts
    <2>2. CASE a.source = s
      BY <1>2, <2>1, <2>2 DEF TypeOK
    <2>3. CASE a.source # s
      BY <1>2, <2>1, <2>3 DEF TypeOK
    <2>. QED  BY <2>2, <2>3
  <1>. QED  BY <1>1, <1>2

LEMMA ClearKept ==
    ASSUME IInv, NEW s \in Sources, ClearStaleState(s) PROVE IInv'
  <1>. USE DEF IInv
  <1>1. /\ UNCHANGED <<row, hpc, hval, may, over, clock, reader, alerts>>
        /\ Unmark(s) /\ events' \in 0 .. MaxEvents
    BY AlertAssumption DEF ClearStaleState, saveVars, Event, TypeOK
  <1>2. TypeOK' /\ SaveInv' /\ AckedStored' /\ DecisionInv' /\ CooldownKept'
    BY <1>1, UnmarkKept, SavesAlone DEF TypeOK, SavesKept, DecisionInv, CooldownKept
  <1>3. MarkInv'
    <2>1. \A i \in DOMAIN alerts : alerts[i] \in Alerts
      BY DEF TypeOK
    <2>. QED  BY <1>1, <2>1, UnmarkKept DEF MarkInv
  <1>. QED  BY <1>2, <1>3

LEMMA SendRecoveryKept ==
    ASSUME IInv, NEW s \in Sources, SendRecovery(s) PROVE IInv'
  <1>. USE DEF IInv
  <1>. "recovery" \in Kinds
    BY DEF Kinds
  <1>1. /\ UNCHANGED <<row, hpc, hval, may, over, clock, events>>
        /\ reader[s]["recovery"].busy /\ Done(s, "recovery")
    BY DEF SendRecovery, saveVars
  <1>2. CASE s \notin marks
    <2>1. UNCHANGED <<marks, lastAlert, alerts, era>>
      BY <1>2 DEF SendRecovery
    <2>2. TypeOK' /\ SaveInv' /\ AckedStored'
      BY <1>1, <2>1, DoneInv, SavesAlone DEF TypeOK, SavesKept, Readers
    <2>3. DecisionInv'
      BY <1>1, <2>1, DoneInv DEF DecisionInv
    <2>4. MarkInv' /\ CooldownKept'
      BY <1>1, <2>1 DEF MarkInv, CooldownKept
    <2>. QED  BY <2>2, <2>3, <2>4
  <1>3. CASE s \in marks
    <2>1. Unmark(s) /\ Launch(s, "recovery")
      BY <1>3 DEF SendRecovery
    <2>. DEFINE n == Len(alerts) + 1
    <2>2. /\ DOMAIN alerts' = DOMAIN alerts \cup {n}
          /\ DOMAIN alerts = 1 .. Len(alerts) /\ Len(alerts) \in Nat
          /\ \A i \in DOMAIN alerts : alerts'[i] = alerts[i]
          /\ alerts'[n] = Launched(s, "recovery")
      BY <2>1, LaunchType
    <2>3. \A i \in DOMAIN alerts : alerts[i] \in Alerts
      BY DEF TypeOK
    <2>4. TypeOK' /\ SaveInv' /\ AckedStored'
      <3>1. alerts' \in Seq(Alerts) /\ Len(alerts') <= MaxAlerts
        BY <2>1, LaunchType
      <3>. QED  BY <1>1, <2>1, <3>1, UnmarkKept, DoneInv, SavesAlone
                DEF TypeOK, SavesKept, Readers
    <2>5. DecisionInv'
      BY <1>1, <2>1, LaunchDecision
    <2>6. MarkInv'
      <3>1. LET a == Launched(s, "recovery") IN
              a.source = s /\ a.era = era[s] /\ a.at = clock /\ a.kind # "stale"
        BY DEF Launched
      <3>2. era'[s] = era[s] + 1 /\ era[s] \in Nat /\ clock \in Nat
        BY <1>1, <2>1, UnmarkKept, AlertAssumption DEF TypeOK
      <3>3. \A i \in DOMAIN alerts : LET a == alerts[i] IN
              /\ a.at <= clock /\ a.era <= era'[a.source]
              /\ a.kind = "stale" /\ a.era = era'[a.source] =>
                    a.source \in marks' /\ a.at <= lastAlert'[a.source]
        BY <1>1, <2>1, <2>3, UnmarkKept DEF MarkInv
      <3>. QED  BY <1>1, <2>2, <3>1, <3>2, <3>3 DEF MarkInv
    <2>7. CooldownKept'
      <3>1. Launched(s, "recovery").kind # "stale"
        BY DEF Launched
      <3>. QED  BY <2>2, <3>1 DEF CooldownKept
    <2>. QED  BY <2>4, <2>5, <2>6, <2>7
  <1>. QED  BY <1>2, <1>3

-----------------------------------------------------------------------------
(* Channels, time, and the end of the process.                             *)

LEMMA TryKept ==
    ASSUME IInv, NEW i \in DOMAIN alerts, NEW c, Try(i, c) PROVE IInv'
  <1>. USE DEF IInv
  <1>. DEFINE a == alerts[i]
              b == [a EXCEPT !.tried = @ \cup {c}, !.left = @ \ {c}]
  <1>1. UNCHANGED <<row, hpc, hval, may, over, clock, marks, lastAlert, reader, era, events>>
    BY DEF Try, saveVars
  <1>2. a \in Alerts
    BY DEF TypeOK
  <1>3. c \in a.left
    BY DEF Try
  <1>4. alerts' = [alerts EXCEPT ![i] = b]
    BY <1>2 DEF Try, TypeOK, Alerts
  <1>5. b \in Alerts /\ Decided(b) = Decided(a) /\ b.left \cup b.tried = a.left \cup a.tried
    BY <1>2, <1>3 DEF Alerts, Decided
  <1>6. b.prefs = a.prefs /\ b.off = a.off
    BY <1>5 DEF Decided
  <1>. HIDE DEF b
  <1>7. alerts' \in Seq(Alerts) /\ Len(alerts') = Len(alerts) /\ DOMAIN alerts' = DOMAIN alerts
    BY <1>4, <1>5 DEF TypeOK
  <1>8. \A j \in DOMAIN alerts : alerts'[j] = IF j = i THEN b ELSE alerts[j]
    BY <1>4 DEF TypeOK
  <1>9. TypeOK' /\ SaveInv' /\ AckedStored'
    BY <1>1, <1>7, SavesAlone DEF TypeOK, SavesKept
  <1>10. MarkInv' /\ CooldownKept'
    <2>1. \A j \in DOMAIN alerts : Decided(alerts'[j]) = Decided(alerts[j])
      BY <1>5, <1>8
    <2>. QED  BY <1>1, <1>7, <2>1, SameDecisions
  <1>11. DecisionInv'
    <2>1. \A j \in DOMAIN alerts : LET d == alerts'[j] IN
             /\ \A switch \in d.off : d.prefs[switch] = "off"
             /\ d.left \cup d.tried \subseteq Chosen(d.prefs)
      BY <1>5, <1>6, <1>8 DEF DecisionInv
    <2>. QED  BY <1>1, <1>7, <2>1 DEF DecisionInv
  <1>. QED  BY <1>9, <1>10, <1>11

LEMMA SendKept ==
    ASSUME IInv, NEW i \in DOMAIN alerts, Send(i) PROVE IInv'
  BY TryKept DEF Send, SendWebhook, SendWebhookToURL, SendEmail

LEMMA TickKept == ASSUME IInv, Tick PROVE IInv'
  <1>. USE DEF IInv
  <1>1. UNCHANGED <<row, hpc, hval, may, over, marks, lastAlert, reader, alerts, era, events>>
    BY DEF Tick, saveVars, alertVars
  <1>2. clock' \in 0 .. MaxTime /\ clock' = clock + 1 /\ clock \in Nat
    BY AlertAssumption DEF Tick, TypeOK
  <1>3. TypeOK' /\ SaveInv' /\ AckedStored' /\ DecisionInv' /\ CooldownKept'
    BY <1>1, <1>2, SavesAlone DEF TypeOK, SavesKept, DecisionInv, CooldownKept
  <1>4. MarkInv'
    <2>a. \A i \in DOMAIN alerts : alerts[i] \in Alerts
      BY DEF TypeOK
    <2>1. \A i \in DOMAIN alerts : alerts[i].at \in Nat
      BY <2>a DEF Alerts
    <2>. QED  BY <1>1, <1>2, <2>1 DEF MarkInv
  <1>. QED  BY <1>3, <1>4

\* An alert whose goroutine is cut off is the same decision.
LEMMA CutOff ==
    ASSUME NEW a \in Alerts, NEW b,
           b = a \/ b = [a EXCEPT !.left = {}, !.lost = TRUE]
    PROVE  /\ b \in Alerts /\ Decided(b) = Decided(a)
           /\ b.prefs = a.prefs /\ b.off = a.off
           /\ b.source = a.source /\ b.at = a.at /\ b.era = a.era
           /\ b.left \subseteq a.left /\ b.tried = a.tried
  BY DEF Alerts, Decided

LEMMA RestartKept == ASSUME IInv, Restart PROVE IInv'
  <1>. USE DEF IInv
  <1>0. /\ UNCHANGED <<row, may, clock>> /\ Event
        /\ hpc' = [h \in Handlers |-> "idle"]
        /\ hval' = [h \in Handlers |-> Defaults]
        /\ over' = [h \in Handlers |-> {}]
        /\ marks' = {} /\ lastAlert' = [s \in Sources |-> 0]
        /\ era' = [s \in Sources |-> era[s] + 1]
    BY Zenon DEF Restart
  <1>1. UNCHANGED <<row, may, clock>> /\ events' \in 0 .. MaxEvents
    BY <1>0, AlertAssumption DEF Event, TypeOK
  <1>2. /\ hpc' \in [Handlers -> {"idle", "insert", "stored"}]
        /\ hval' \in [Handlers -> Prefs] /\ over' \in [Handlers -> SUBSET Prefs]
        /\ marks' = {} /\ lastAlert' \in [Sources -> 0 .. MaxTime]
    BY <1>0, DefaultsType, AlertAssumption
  <1>3. reader' = [s \in Sources |-> [k \in Kinds |-> Nobody]]
    BY DEF Restart
  <1>4. /\ DOMAIN alerts' = DOMAIN alerts
        /\ \A i \in DOMAIN alerts : LET a == alerts[i]  b == alerts'[i] IN
              \/ b = a
              \/ b = [a EXCEPT !.left = {}, !.lost = TRUE]
    BY DEF Restart
  <1>5. \A i \in DOMAIN alerts : alerts[i] \in Alerts
    BY DEF TypeOK
  <1>6. \A i \in DOMAIN alerts : LET a == alerts[i]  b == alerts'[i] IN
           /\ b \in Alerts /\ Decided(b) = Decided(a)
           /\ b.prefs = a.prefs /\ b.off = a.off
           /\ b.source = a.source /\ b.at = a.at /\ b.era = a.era
           /\ b.left \subseteq a.left /\ b.tried = a.tried
    BY <1>4, <1>5, CutOff
  <1>7. alerts' \in Seq(Alerts) /\ Len(alerts') = Len(alerts)
    <2>1. DOMAIN alerts = 1 .. Len(alerts) /\ Len(alerts) \in Nat
      BY DEF TypeOK
    <2>2. alerts' = [i \in 1 .. Len(alerts) |-> alerts'[i]]
      BY <2>1 DEF Restart
    <2>3. \A i \in 1 .. Len(alerts) : alerts'[i] \in Alerts
      BY <1>6, <2>1
    <2>4. alerts' \in [1 .. Len(alerts) -> Alerts]
      BY <2>2, <2>3
    <2>. QED  BY <2>1, <2>4
  <1>8. TypeOK' /\ SaveInv' /\ AckedStored'
    <2>1. reader' \in [Sources -> [Kinds -> Readers]]
      BY <1>3, DefaultsType
    <2>2. era' \in [Sources -> Nat]
      BY <1>0 DEF TypeOK
    <2>3. TypeOK'
      BY <1>1, <1>2, <1>7, <2>1, <2>2 DEF TypeOK, Readers
    <2>4. SaveInv' /\ AckedStored'
      BY <1>0 DEF SaveInv, UnderWay, AckedStored
    <2>. QED  BY <2>3, <2>4
  <1>9. DecisionInv'
    <2>1. \A s \in Sources, k \in Kinds : reader'[s][k].off = {}
      BY <1>3 DEF Nobody
    <2>2. \A i \in DOMAIN alerts' : LET b == alerts'[i] IN
             /\ \A switch \in b.off : b.prefs[switch] = "off"
             /\ b.left \cup b.tried \subseteq Chosen(b.prefs)
      <3>. SUFFICES ASSUME NEW i \in DOMAIN alerts
                    PROVE  LET b == alerts'[i] IN
                             /\ \A switch \in b.off : b.prefs[switch] = "off"
                             /\ b.left \cup b.tried \subseteq Chosen(b.prefs)
        BY <1>4
      <3>1. /\ alerts'[i].prefs = alerts[i].prefs /\ alerts'[i].off = alerts[i].off
            /\ alerts'[i].left \subseteq alerts[i].left
            /\ alerts'[i].tried = alerts[i].tried
        BY <1>6
      <3>. QED  BY <3>1 DEF DecisionInv
    <2>. QED  BY <2>1, <2>2 DEF DecisionInv
  <1>10. MarkInv'
    <2>1. \A i \in DOMAIN alerts :
             /\ alerts[i].source \in Sources /\ alerts[i].era \in Nat
             /\ era[alerts[i].source] \in Nat
             /\ era'[alerts[i].source] = era[alerts[i].source] + 1
      BY <1>0, <1>5 DEF Alerts, TypeOK
    <2>2. \A i \in DOMAIN alerts : LET b == alerts'[i] IN
             b.at <= clock' /\ b.era <= era'[b.source] /\ b.era # era'[b.source]
      BY <1>1, <1>6, <2>1 DEF MarkInv
    <2>. QED  BY <1>4, <2>2 DEF MarkInv
  <1>11. CooldownKept'
    BY <1>4, <1>6, SameDecisions
  <1>. QED  BY <1>8, <1>9, <1>10, <1>11

LEMMA StepKept == ASSUME IInv, [Next]_vars PROVE IInv'
  <1>1. CASE UNCHANGED vars
    <2>1. SaveInv' /\ AckedStored'
      BY <1>1, SavesAlone DEF SavesKept, vars, saveVars
    <2>2. TypeOK' /\ DecisionInv' /\ MarkInv' /\ CooldownKept'
      BY <1>1 DEF IInv, TypeOK, DecisionInv, MarkInv, CooldownKept,
                  vars, saveVars, alertVars
    <2>. QED  BY <2>1, <2>2 DEF IInv
  <1>2. CASE Next
    BY <1>2, SaveKept, ReadKept, SendStaleKept, SendRecoveryKept, ClearKept,
       SendKept, TickKept, RestartKept DEF Next
  <1>. QED  BY <1>1, <1>2

-----------------------------------------------------------------------------
(* Theorems.                                                               *)

\* The inductive invariant: what alerts were decided on, and which of them
\* the marks and times of the notifier cover.
THEOREM Invariance == Spec => []IInv
  <1>. QED  BY InitIInv, StepKept, PTL DEF Spec

\* What is stored is what requests and answers leave possible: the value of a
\* save that was answered 200 stays until another save, and saves that overlap
\* may end in either order (UpsertUserAlertPreferences and its handler).
THEOREM SavesAcknowledged == Spec => []AckedStored
  <1>1. IInv => AckedStored
    BY DEF IInv
  <1>. QED  BY Invariance, <1>1, PTL

\* A user who knows a switch to be off before an alert is decided is not
\* alerted that way, unless the row could not be read (sendWithPrefs).
THEOREM OptOutsHonoured == Spec => []OptOutHonoured
  <1>1. IInv => OptOutHonoured
    <2>. SUFFICES ASSUME IInv, NEW i \in DOMAIN alerts
                  PROVE  LET a == alerts[i] IN
                           /\ "webhook" \in a.off => a.tried \subseteq {"email"}
                           /\ "email" \in a.off => "email" \notin a.tried
      BY DEF OptOutHonoured
    <2>1. /\ \A switch \in alerts[i].off : alerts[i].prefs[switch] = "off"
          /\ alerts[i].tried \subseteq Chosen(alerts[i].prefs)
      BY DEF IInv, DecisionInv
    <2>. QED  BY <2>1 DEF Chosen, On, Channels
  <1>. QED  BY Invariance, <1>1, PTL

\* Two stale alerts about a source are a cooldown apart, whatever the user
\* changes meanwhile, if that cooldown fits into a duration
\* (SendStaleAlertWithPrefs, getCooldownPeriod).
THEOREM CooldownHolds == Spec => []CooldownKept
  <1>1. IInv => CooldownKept
    BY DEF IInv
  <1>. QED  BY Invariance, <1>1, PTL
=============================================================================
