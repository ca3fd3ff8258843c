-------------------------- MODULE SyncStatusProofs --------------------------
(***************************************************************************)
(* Proofs about SyncStatus for any number of sources, goroutines, faults,  *)
(* crashes and restarts.                                                   *)
(***************************************************************************)
EXTENDS SyncStatus, TLAPS

LEMMA InitIInv == Init => IInv
  <1>. SUFFICES ASSUME Init PROVE IInv
    OBVIOUS
  <1>1. TypeOK
    <2>1. faults \in 0 .. MaxFaults
      BY SyncStatusAssumption DEF Init
    <2>2. /\ pc \in [Syncs -> PcStates]
          /\ result \in [Syncs -> Results]
          /\ told \in [Sources -> Alerts]
      BY DEF Init, PcStates, Results, Alerts
    <2>3. /\ busy \in [Sources -> Syncs \cup {NoSync}]
          /\ src \in [Syncs -> Sources \cup {NoSource}]
          /\ active \in [Sources -> Syncs \cup {NoSync}]
      BY DEF Init
    <2>. QED  BY <2>1, <2>2, <2>3 DEF Init, TypeOK
  <1>2. SyncInv
    BY SyncStatusAssumption DEF Init, SyncInv
  <1>3. RunningIsTrue /\ TrackerIsTrue
    BY DEF Init, RunningIsTrue, TrackerIsTrue, Tracked
  <1>. QED  BY <1>1, <1>2, <1>3 DEF IInv

\* A fault keeps the counter within its bound.
LEMMA SufferType == ASSUME faults \in 0 .. MaxFaults, Suffer
                    PROVE  faults' \in 0 .. MaxFaults
  BY SyncStatusAssumption DEF Suffer

-----------------------------------------------------------------------------
(* The process.                                                            *)

LEMMA StartKept == ASSUME IInv, Start PROVE IInv'
  <1>. USE DEF Start, syncVars, alertVars, checkVars
  <1>1. TypeOK'
    BY SufferType DEF IInv, TypeOK, Statuses
  <1>2. SyncInv'
    BY DEF IInv, SyncInv
  <1>3. RunningIsTrue'
    BY DEF IInv, TypeOK, RunningIsTrue
  <1>4. TrackerIsTrue'
    BY DEF IInv, TrackerIsTrue, Tracked
  <1>. QED  BY <1>1, <1>2, <1>3, <1>4 DEF IInv

LEMMA CrashKept == ASSUME IInv, Crash PROVE IInv'
  <1>. USE DEF Crash, rowVars
  <1>1. TypeOK'
    BY SufferType DEF IInv, TypeOK, PcStates, Results
  <1>2. SyncInv'
    BY SyncStatusAssumption DEF SyncInv
  <1>3. RunningIsTrue'
    BY DEF RunningIsTrue
  <1>4. TrackerIsTrue'
    BY SyncStatusAssumption DEF TrackerIsTrue, Tracked
  <1>. QED  BY <1>1, <1>2, <1>3, <1>4 DEF IInv

-----------------------------------------------------------------------------
(* A sync.                                                                 *)

LEMMA BeginKept == ASSUME IInv, NEW g \in Syncs, NEW s \in Sources, Begin(g, s)
                   PROVE  IInv'
  <1>. USE DEF Begin, rowVars, alertVars, checkVars
  <1>1. TypeOK'
    BY DEF IInv, TypeOK, PcStates
  <1>2. SyncInv'
    BY SyncStatusAssumption DEF IInv, TypeOK, SyncInv
  <1>3. RunningIsTrue'
    <2>. SUFFICES ASSUME up, NEW t \in Sources, status[t] = "running", t \notin spoiled
                  PROVE  \E h \in Syncs : src'[h] = t /\ Underway(h)'
      BY DEF RunningIsTrue
    <2>1. PICK h \in Syncs : src[h] = t /\ Underway(h)
      BY DEF IInv, RunningIsTrue
    <2>. QED  BY <2>1 DEF IInv, TypeOK, Underway
  <1>4. TrackerIsTrue'
    BY DEF IInv, TypeOK, TrackerIsTrue, Tracked
  <1>. QED  BY <1>1, <1>2, <1>3, <1>4 DEF IInv

\* What all steps within a sync share: g stays in the sync of its source.
LEMMA AdvanceType ==
    ASSUME IInv, NEW g \in Syncs, NEW from \in PcStates \ {"idle"},
           NEW to \in PcStates \ {"idle"}, Advance(g, from, to),
           to = "finish" => result'[g] # "none",
           \A h \in Syncs \ {g} : result'[h] = result[h]
    PROVE  /\ src[g] \in Sources
           /\ pc' \in [Syncs -> PcStates]
           /\ SyncInv'
           /\ UNCHANGED <<enabled, up, job, busy, src, stale, cooling, told, todo,
                          found, dropped>>
  <1>1. src[g] \in Sources
    BY DEF Advance, IInv, SyncInv, TypeOK
  <1>2. pc' \in [Syncs -> PcStates]
    BY DEF Advance, IInv, TypeOK
  <1>3. SyncInv'
    BY DEF Advance, IInv, TypeOK, SyncInv, alertVars
  <1>. QED  BY <1>1, <1>2, <1>3 DEF Advance, alertVars, checkVars

LEMMA WriteRunningKept == ASSUME IInv, NEW g \in Syncs, WriteRunning(g) PROVE IInv'
  <1>1. /\ src[g] \in Sources /\ pc' \in [Syncs -> PcStates] /\ SyncInv'
        /\ UNCHANGED <<enabled, up, job, busy, src, stale, cooling, told, todo,
                       found, dropped>>
    BY AdvanceType DEF WriteRunning, PcStates
  <1>2. pc' = [pc EXCEPT ![g] = "connect"] /\ pc[g] = "begin"
    BY DEF WriteRunning, Advance
  <1>3. \/ /\ status' = [status EXCEPT ![src[g]] = "running"]
           /\ aged' = aged \ {src[g]} /\ spoiled' = spoiled \ {src[g]}
           /\ UNCHANGED faults
        \/ Suffer /\ UNCHANGED <<status, aged, spoiled>>
    BY DEF WriteRunning, WriteStatus
  <1>4. UNCHANGED <<result, active>>
    BY DEF WriteRunning
  <1>5. TypeOK'
    BY <1>1, <1>3, <1>4, SufferType DEF IInv, TypeOK, Statuses
  <1>6. RunningIsTrue'
    <2>. SUFFICES ASSUME up, NEW t \in Sources, status'[t] = "running", t \notin spoiled'
                  PROVE  \E h \in Syncs : src[h] = t /\ Underway(h)'
      BY <1>1 DEF RunningIsTrue
    <2>1. CASE t = src[g]
      BY <1>2, <2>1 DEF IInv, TypeOK, Underway
    <2>2. CASE t # src[g]
      <3>1. status[t] = "running" /\ t \notin spoiled
        BY <1>3, <2>2 DEF IInv, TypeOK
      <3>2. PICK h \in Syncs : src[h] = t /\ Underway(h)
        BY <3>1 DEF IInv, RunningIsTrue
      <3>. QED  BY <1>2, <2>2, <3>2 DEF IInv, TypeOK, Underway
    <2>. QED  BY <2>1, <2>2
  <1>7. TrackerIsTrue'
    BY <1>1, <1>2, <1>4 DEF IInv, TypeOK, TrackerIsTrue, Tracked
  <1>. QED  BY <1>1, <1>5, <1>6, <1>7 DEF IInv

\* A step that writes no status, after which g is underway if it was.
LEMMA UnderwayKept ==
    ASSUME IInv, NEW g \in Syncs, NEW to \in {"calendars", "finish"},
           pc' = [pc EXCEPT ![g] = to], UNCHANGED <<up, status, spoiled, src>>
    PROVE  RunningIsTrue'
  <1>. SUFFICES ASSUME up, NEW t \in Sources, status[t] = "running", t \notin spoiled
                PROVE  \E h \in Syncs : src[h] = t /\ Underway(h)'
    BY DEF RunningIsTrue
  <1>1. PICK h \in Syncs : src[h] = t /\ Underway(h)
    BY DEF IInv, RunningIsTrue
  <1>. QED  BY <1>1 DEF IInv, TypeOK, Underway

LEMMA ConnectKept == ASSUME IInv, NEW g \in Syncs, Connect(g) PROVE IInv'
  <1>1. /\ src[g] \in Sources /\ pc' \in [Syncs -> PcStates] /\ SyncInv'
        /\ UNCHANGED <<enabled, up, job, busy, src, stale, cooling, told, todo,
                       found, dropped>>
    BY AdvanceType DEF Connect, PcStates
  <1>2. /\ pc' = [pc EXCEPT ![g] = "calendars"] /\ pc[g] = "connect"
        /\ active' = [active EXCEPT ![src[g]] = g]
        /\ UNCHANGED <<status, aged, spoiled, result, faults>>
    BY DEF Connect, Advance
  <1>3. TypeOK'
    BY <1>1, <1>2 DEF IInv, TypeOK
  <1>4. RunningIsTrue'
    BY <1>1, <1>2, UnderwayKept
  <1>5. TrackerIsTrue'
    <2>1. ASSUME NEW t \in Sources, active'[t] # NoSync
          PROVE  src[active'[t]] = t /\ Tracked(active[t])'
      <3>1. CASE t = src[g]
        BY <1>1, <1>2, <3>1 DEF IInv, TypeOK, Tracked
      <3>2. CASE t # src[g]
        BY <1>1, <1>2, <2>1, <3>2 DEF IInv, TypeOK, TrackerIsTrue, Tracked
      <3>. QED  BY <3>1, <3>2
    <2>2. ASSUME NEW t \in Sources, t \notin dropped, NEW h \in Syncs,
                 src[h] = t, Tracked(h)'
          PROVE  active'[t] = h
      <3>1. CASE t = src[g]
        BY <1>1, <1>2, <2>2, <3>1 DEF IInv, TypeOK, SyncInv
      <3>2. CASE t # src[g]
        BY <1>1, <1>2, <2>2, <3>2 DEF IInv, TypeOK, TrackerIsTrue, Tracked
      <3>. QED  BY <3>1, <3>2
    <2>. QED  BY <1>1, <2>1, <2>2 DEF TrackerIsTrue
  <1>. QED  BY <1>1, <1>3, <1>4, <1>5 DEF IInv

LEMMA ConnectFailsKept == ASSUME IInv, NEW g \in Syncs, ConnectFails(g) PROVE IInv'
  <1>1. /\ src[g] \in Sources /\ pc' \in [Syncs -> PcStates] /\ SyncInv'
        /\ UNCHANGED <<enabled, up, job, busy, src, stale, cooling, told, todo,
                       found, dropped>>
    BY AdvanceType DEF ConnectFails, PcStates, IInv, TypeOK
  <1>2. /\ pc' = [pc EXCEPT ![g] = "finish"] /\ pc[g] = "connect"
        /\ result' = [result EXCEPT ![g] = "failed"]
        /\ Suffer
        /\ UNCHANGED <<status, aged, spoiled, active>>
    BY DEF ConnectFails, Advance
  <1>3. TypeOK'
    BY <1>1, <1>2, SufferType DEF IInv, TypeOK, Results
  <1>4. RunningIsTrue'
    BY <1>1, <1>2, UnderwayKept
  <1>5. TrackerIsTrue'
    BY <1>1, <1>2 DEF IInv, TypeOK, TrackerIsTrue, Tracked
  <1>. QED  BY <1>1, <1>3, <1>4, <1>5 DEF IInv

LEMMA SyncCalendarsKept == ASSUME IInv, NEW g \in Syncs, SyncCalendars(g) PROVE IInv'
  <1>1. /\ src[g] \in Sources /\ pc' \in [Syncs -> PcStates] /\ SyncInv'
        /\ UNCHANGED <<enabled, up, job, busy, src, stale, cooling, told, todo,
                       found, dropped>>
    <2>1. \A h \in Syncs : result'[h] = IF h = g THEN result'[g] ELSE result[h]
      BY DEF SyncCalendars, IInv, TypeOK
    <2>2. result'[g] # "none"
      BY DEF SyncCalendars, IInv, TypeOK
    <2>. QED  BY <2>1, <2>2, AdvanceType DEF SyncCalendars, PcStates
  <1>2. /\ pc' = [pc EXCEPT ![g] = "finish"] /\ pc[g] = "calendars"
        /\ UNCHANGED <<status, aged, spoiled, active>>
    BY DEF SyncCalendars, Advance
  <1>3. PICK r \in {"success", "error"} : /\ result' = [result EXCEPT ![g] = r]
                                          /\ Suffer \/ UNCHANGED faults
    BY DEF SyncCalendars
  <1>4. TypeOK'
    BY <1>1, <1>2, <1>3, SufferType DEF IInv, TypeOK, Results
  <1>5. RunningIsTrue'
    BY <1>1, <1>2, UnderwayKept
  <1>6. TrackerIsTrue'
    BY <1>1, <1>2, <1>3 DEF IInv, TypeOK, TrackerIsTrue, Tracked
  <1>. QED  BY <1>1, <1>4, <1>5, <1>6 DEF IInv

LEMMA FinishKept == ASSUME IInv, NEW g \in Syncs, Finish(g) PROVE IInv'
  <1>1. /\ src[g] \in Sources /\ pc' \in [Syncs -> PcStates] /\ SyncInv'
        /\ UNCHANGED <<enabled, up, job, busy, src, stale, cooling, told, todo,
                       found, dropped>>
    BY AdvanceType DEF Finish, PcStates
  <1>2. /\ pc' = [pc EXCEPT ![g] = "untrack"] /\ pc[g] = "finish"
        /\ UNCHANGED <<result, active>>
    BY DEF Finish, Advance
  <1>3. \/ /\ \E v \in Statuses \ {"running"} : status' = [status EXCEPT ![src[g]] = v]
           /\ aged' = aged \ {src[g]} /\ spoiled' = spoiled \ {src[g]}
           /\ UNCHANGED faults
        \/ Suffer /\ spoiled' = spoiled \cup {src[g]} /\ UNCHANGED <<status, aged>>
    <2>1. (IF result[g] = "failed" THEN "error" ELSE result[g]) \in Statuses \ {"running"}
      BY <1>2 DEF IInv, TypeOK, SyncInv, Results, Statuses
    <2>. QED  BY <2>1 DEF Finish, WriteStatus
  <1>4. TypeOK'
    BY <1>1, <1>2, <1>3, SufferType DEF IInv, TypeOK
  <1>5. RunningIsTrue'
    <2>. SUFFICES ASSUME up, NEW t \in Sources, status'[t] = "running", t \notin spoiled'
                  PROVE  \E h \in Syncs : src[h] = t /\ Underway(h)'
      BY <1>1 DEF RunningIsTrue
    <2>1. t # src[g]
      BY <1>1, <1>3 DEF IInv, TypeOK
    <2>2. status[t] = "running" /\ t \notin spoiled
      BY <1>3, <2>1 DEF IInv, TypeOK
    <2>3. PICK h \in Syncs : src[h] = t /\ Underway(h)
      BY <2>2 DEF IInv, RunningIsTrue
    <2>. QED  BY <1>2, <2>1, <2>3 DEF IInv, TypeOK, Underway
  <1>6. TrackerIsTrue'
    BY <1>1, <1>2 DEF IInv, TypeOK, TrackerIsTrue, Tracked
  <1>. QED  BY <1>1, <1>4, <1>5, <1>6 DEF IInv

\* What the ways out of a sync share: g is in no sync of any source.
LEMMA ReturnType ==
    ASSUME IInv, NEW g \in Syncs, pc[g] \in {"untrack", "recover"}, Return(g)
    PROVE  /\ pc' \in [Syncs -> PcStates] /\ src' \in [Syncs -> Sources \cup {NoSource}]
           /\ result' \in [Syncs -> Results]
           /\ busy' \in [Sources -> Syncs \cup {NoSync}]
           /\ \A h \in Syncs \ {g} : /\ pc'[h] = pc[h] /\ src'[h] = src[h]
                                    /\ result'[h] = result[h]
           /\ pc'[g] = "idle" /\ src'[g] = NoSource
           /\ \A h \in Syncs \ {g} :
                 src[h] \in Sources /\ busy[src[h]] = h => busy'[src[h]] = h
  BY DEF Return, IInv, TypeOK, PcStates, Results

\* A step that writes no status, of a goroutine that is not underway.
LEMMA RestKept ==
    ASSUME IInv, NEW g \in Syncs, ~Underway(g),
           \A h \in Syncs \ {g} : pc'[h] = pc[h] /\ src'[h] = src[h],
           UNCHANGED <<up, status, spoiled>>
    PROVE  RunningIsTrue'
  <1>. SUFFICES ASSUME up, NEW t \in Sources, status[t] = "running", t \notin spoiled
                PROVE  \E h \in Syncs : src'[h] = t /\ Underway(h)'
    BY DEF RunningIsTrue
  <1>1. PICK h \in Syncs : src[h] = t /\ Underway(h)
    BY DEF IInv, RunningIsTrue
  <1>. QED  BY <1>1 DEF Underway

LEMMA UntrackKept == ASSUME IInv, NEW g \in Syncs, Untrack(g) PROVE IInv'
  <1>. USE DEF Untrack, rowVars, alertVars, checkVars
  <1>0. src[g] \in Sources /\ pc[g] = "untrack"
    BY DEF IInv, TypeOK, SyncInv
  <1>1. /\ pc' \in [Syncs -> PcStates] /\ src' \in [Syncs -> Sources \cup {NoSource}]
        /\ result' \in [Syncs -> Results]
        /\ busy' \in [Sources -> Syncs \cup {NoSync}]
        /\ \A h \in Syncs \ {g} : /\ pc'[h] = pc[h] /\ src'[h] = src[h]
                                 /\ result'[h] = result[h]
        /\ \/ pc'[g] = "idle" /\ src'[g] = NoSource
           \/ pc'[g] = "recover" /\ src'[g] = src[g] /\ UNCHANGED busy
        /\ \A h \in Syncs \ {g} :
              src[h] \in Sources /\ busy[src[h]] = h => busy'[src[h]] = h
    <2>1. CASE result[g] = "success"
      BY <1>0, <2>1 DEF IInv, TypeOK, PcStates
    <2>2. CASE result[g] # "success"
      BY <1>0, <2>2, ReturnType
    <2>. QED  BY <2>1, <2>2
  <1>2. TypeOK'
    BY <1>1 DEF IInv, TypeOK
  <1>3. SyncInv'
    <2>1. \A h \in Syncs : (pc'[h] = "idle" <=> src'[h] = NoSource)
      BY <1>0, <1>1, SyncStatusAssumption DEF IInv, SyncInv
    <2>2. \A h \in Syncs : pc'[h] = "finish" => result'[h] # "none"
      BY <1>0, <1>1 DEF IInv, SyncInv
    <2>3. ASSUME NEW h \in Syncs, src'[h] \in Sources \ dropped
          PROVE  busy'[src'[h]] = h
      <3>1. CASE h = g
        BY <1>0, <1>1, <2>3, <3>1, SyncStatusAssumption DEF IInv, SyncInv
      <3>2. CASE h # g
        BY <1>1, <2>3, <3>2 DEF IInv, SyncInv
      <3>. QED  BY <3>1, <3>2
    <2>. QED  BY <2>1, <2>2, <2>3 DEF IInv, SyncInv
  <1>4. RunningIsTrue'
    BY <1>0, <1>1, RestKept DEF Underway
  <1>5. TrackerIsTrue'
    <2>1. ASSUME NEW t \in Sources, active'[t] # NoSync
          PROVE  src'[active[t]] = t /\ Tracked(active[t])' /\ active'[t] = active[t]
      <3>1. t # src[g] /\ active'[t] = active[t] /\ active[t] \in Syncs
        BY <1>0, <2>1 DEF IInv, TypeOK
      <3>2. src[active[t]] = t /\ Tracked(active[t]) /\ active[t] # g
        BY <2>1, <3>1 DEF IInv, TrackerIsTrue
      <3>. QED  BY <1>1, <3>1, <3>2 DEF Tracked
    <2>2. ASSUME NEW t \in Sources, t \notin dropped, NEW h \in Syncs,
                 src'[h] = t, Tracked(h)'
          PROVE  active'[t] = h
      <3>1. h # g
        BY <1>1, <2>2 DEF Tracked
      <3>2. src[h] = t /\ Tracked(h) /\ active[t] = h
        BY <1>1, <2>2, <3>1 DEF IInv, TrackerIsTrue, Tracked
      <3>3. t # src[g]
        BY <1>0, <2>2, <3>1, <3>2 DEF IInv, SyncInv
      <3>. QED  BY <3>2, <3>3 DEF IInv, TypeOK
    <2>. QED  BY <2>1, <2>2 DEF TrackerIsTrue
  <1>. QED  BY <1>2, <1>3, <1>4, <1>5 DEF IInv

LEMMA RecoverKept == ASSUME IInv, NEW g \in Syncs, Recover(g) PROVE IInv'
  <1>. USE DEF Recover, rowVars, checkVars
  <1>0. src[g] \in Sources /\ pc[g] = "recover"
    BY DEF IInv, TypeOK, SyncInv
  <1>1. /\ pc' \in [Syncs -> PcStates] /\ src' \in [Syncs -> Sources \cup {NoSource}]
        /\ result' \in [Syncs -> Results]
        /\ busy' \in [Sources -> Syncs \cup {NoSync}]
        /\ \A h \in Syncs \ {g} : /\ pc'[h] = pc[h] /\ src'[h] = src[h]
                                 /\ result'[h] = result[h]
        /\ pc'[g] = "idle" /\ src'[g] = NoSource
        /\ \A h \in Syncs \ {g} :
              src[h] \in Sources /\ busy[src[h]] = h => busy'[src[h]] = h
    BY <1>0, ReturnType
  <1>2. /\ stale' \subseteq Sources /\ cooling' \subseteq Sources
        /\ told' \in [Sources -> Alerts]
        /\ \A s \in stale' : told'[s] = "stale"
    <2>1. CASE src[g] \in stale
      BY <1>0, <2>1 DEF IInv, TypeOK, SyncInv, Alerts
    <2>2. CASE src[g] \notin stale
      BY <1>0, <2>2 DEF IInv, TypeOK, SyncInv, alertVars
    <2>. QED  BY <2>1, <2>2
  <1>3. TypeOK'
    BY <1>1, <1>2 DEF IInv, TypeOK
  <1>4. SyncInv'
    BY <1>1, <1>2, SyncStatusAssumption DEF IInv, TypeOK, SyncInv
  <1>5. RunningIsTrue'
    BY <1>0, <1>1, RestKept DEF Underway
  <1>6. TrackerIsTrue'
    BY <1>0, <1>1 DEF IInv, TypeOK, TrackerIsTrue, Tracked
  <1>. QED  BY <1>3, <1>4, <1>5, <1>6 DEF IInv

-----------------------------------------------------------------------------
(* The staleness check, handlers and time.                                 *)

\* Steps that leave the syncs alone.
LEMMA OutsideKept ==
    ASSUME IInv, UNCHANGED <<up, status, spoiled, pc, src, result, active>>,
           TypeOK', dropped \subseteq dropped',
           \A s \in Sources \ dropped' : busy'[s] = busy[s],
           \A s \in stale' : told'[s] = "stale"
    PROVE  IInv'
  <1>1. SyncInv'
    BY DEF IInv, SyncInv
  <1>2. RunningIsTrue' /\ TrackerIsTrue'
    BY DEF IInv, RunningIsTrue, TrackerIsTrue, Underway, Tracked
  <1>. QED  BY <1>1, <1>2 DEF IInv

LEMMA CheckKept == ASSUME IInv, CheckStep PROVE IInv'
  <1>. USE DEF rowVars, syncVars, alertVars, checkVars
  <1>1. CASE CheckBegin
    <2>1. TypeOK'
      BY <1>1 DEF CheckBegin, IInv, TypeOK
    <2>. QED  BY <1>1, <2>1, OutsideKept DEF CheckBegin, IInv, SyncInv
  <1>2. CASE \E s \in Sources : CheckSource(s)
    <2>1. TypeOK'
      BY <1>2 DEF CheckSource, IInv, TypeOK
    <2>. QED  BY <1>2, <2>1, OutsideKept DEF CheckSource, IInv, SyncInv
  <1>3. CASE SendStale
    <2>1. found \in Sources
      BY <1>3 DEF SendStale, IInv, TypeOK
    <2>2. TypeOK'
      BY <1>3, <2>1 DEF SendStale, IInv, TypeOK, Alerts
    <2>3. \A s \in stale' : told'[s] = "stale"
      BY <1>3, <2>1 DEF SendStale, IInv, TypeOK, SyncInv
    <2>. QED  BY <1>3, <2>2, <2>3, OutsideKept DEF SendStale
  <1>. QED  BY <1>1, <1>2, <1>3 DEF CheckStep

LEMMA EnvironmentKept ==
    ASSUME IInv, NEW s \in Sources,
           Toggle(s) \/ Schedule(s) \/ Unschedule(s) \/ Age(s) \/ CooldownOver(s)
    PROVE  IInv'
  <1>. USE DEF rowVars, syncVars, alertVars, checkVars
  <1>1. CASE Toggle(s) \/ Schedule(s) \/ Age(s) \/ CooldownOver(s)
    <2>1. TypeOK'
      BY <1>1 DEF Toggle, Schedule, Age, CooldownOver, IInv, TypeOK
    <2>. QED  BY <1>1, <2>1, OutsideKept
              DEF Toggle, Schedule, Age, CooldownOver, IInv, SyncInv
  <1>2. CASE Unschedule(s)
    <2>1. TypeOK'
      BY <1>2 DEF Unschedule, IInv, TypeOK
    <2>. QED  BY <1>2, <2>1, OutsideKept DEF Unschedule, IInv, TypeOK, SyncInv
  <1>. QED  BY <1>1, <1>2

-----------------------------------------------------------------------------
(* The theorems.                                                           *)

LEMMA NextKept == IInv /\ [Next]_vars => IInv'
  <1>. SUFFICES ASSUME IInv, [Next]_vars PROVE IInv'
    OBVIOUS
  <1>1. CASE Start \/ Crash
    BY <1>1, StartKept, CrashKept
  <1>2. CASE \E g \in Syncs : SyncStep(g)
    BY <1>2, WriteRunningKept, ConnectKept, ConnectFailsKept, SyncCalendarsKept,
       FinishKept, UntrackKept, RecoverKept DEF SyncStep
  <1>3. CASE \E g \in Syncs, s \in Sources : Begin(g, s)
    BY <1>3, BeginKept
  <1>4. CASE CheckStep
    BY <1>4, CheckKept
  <1>5. CASE \E s \in Sources : \/ Toggle(s) \/ Schedule(s) \/ Unschedule(s)
                               \/ Age(s) \/ CooldownOver(s)
    BY <1>5, EnvironmentKept
  <1>6. CASE UNCHANGED vars
    <2>1. TypeOK'
      BY <1>6 DEF vars, rowVars, syncVars, alertVars, checkVars, IInv, TypeOK
    <2>. QED  BY <1>6, <2>1, OutsideKept
              DEF vars, rowVars, syncVars, alertVars, checkVars, IInv, SyncInv
  <1>. QED  BY <1>1, <1>2, <1>3, <1>4, <1>5, <1>6 DEF Next

\* The inductive invariant holds however syncs overlap, fail, and are cut off
\* (sync.go:128-270, scheduler.go:362-413).
THEOREM Invariance == Spec => []IInv
  <1>. QED  BY InitIInv, NextKept, PTL DEF Spec

\* A row says "running" only of a source that is being synced, from the reset
\* at the start (queries.go:271) to overlapping syncs that write it in turn.
THEOREM RunningTrue == Spec => []RunningIsTrue
  <1>1. IInv => RunningIsTrue
    BY DEF IInv
  <1>. QED  BY <1>1, Invariance, PTL

\* The tracker's entry is that of a sync that goes on, and is there for every
\* sync whose lock was left in place (activity.go:46-133).
THEOREM TrackerTrue == Spec => []TrackerIsTrue
  <1>1. IInv => TrackerIsTrue
    BY DEF IInv
  <1>. QED  BY <1>1, Invariance, PTL

\* A recovery is announced only if the alert decided on before it said that
\* the source is stale (notify.go:482-542).
THEOREM RecoveryHeralded == Spec => NoUnheraldedRecovery
  <1>1. ASSUME IInv, [Next]_vars, NEW s \in Sources,
               told[s] # "recovered", told'[s] = "recovered"
        PROVE  told[s] = "stale"
    <2>. USE DEF rowVars, syncVars, alertVars, checkVars
    <2>1. CASE \E g \in Syncs : Recover(g)
      BY <1>1, <2>1 DEF Recover, IInv, TypeOK, SyncInv
    <2>2. CASE SendStale
      BY <1>1, <2>2 DEF SendStale, IInv, TypeOK
    <2>3. CASE UNCHANGED told
      BY <1>1, <2>3
    <2>4. \/ \E g \in Syncs : Recover(g)
          \/ SendStale
          \/ UNCHANGED told
      BY <1>1 DEF vars, Next, SyncStep, CheckStep, Start, Crash, Begin, Advance,
                  WriteRunning, Connect, ConnectFails, SyncCalendars, Finish, Untrack,
                  CheckBegin, CheckSource, Toggle, Schedule, Unschedule, Age, CooldownOver
    <2>. QED  BY <2>1, <2>2, <2>3, <2>4
  <1>2. IInv /\ [Next]_vars =>
          [\A s \in Sources : told[s] # "recovered" /\ told'[s] = "recovered"
                               => told[s] = "stale"]_told
    BY <1>1
  <1>. QED  BY <1>2, Invariance, PTL DEF Spec, NoUnheraldedRecovery
=============================================================================
