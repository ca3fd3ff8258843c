----------------------------- MODULE SyncStatus -----------------------------
(***************************************************************************)
(* What the rest of the program believes about a sync: the status columns  *)
(* of the row (internal/caldav/sync.go, internal/db/queries.go), the entry *)
(* of the activity tracker (internal/activity), and the stale mark of the  *)
(* notifier with its cooldown (internal/notify), while syncs of a source   *)
(* run, overlap, fail, are cut off by a crash, and the staleness check of  *)
(* the scheduler looks on.                                                 *)
(*                                                                         *)
(* The scheduler is reduced to what Scheduler.tla says of it: a source is  *)
(* synced by one goroutine at a time until RemoveJob drops its lock.  The  *)
(* age of a row, and of an alert, is one bit that time may set at any      *)
(* moment.  Counters, messages, log rows and the list of recent syncs are  *)
(* left out: they are shown to people and read by no decision.             *)
(***************************************************************************)
EXTENDS Naturals

CONSTANTS
    Sources,    \* calendar sources (rows of the sources table)
    Syncs,      \* goroutines that may be inside executeSync
    NoSync,     \* no goroutine
    NoSource,   \* no source
    MaxFaults   \* bound on failing writes, failing syncs and crashes

ASSUME SyncStatusAssumption ==
    /\ NoSync \notin Syncs
    /\ NoSource \notin Sources
    /\ MaxFaults \in Nat

VARIABLES
    enabled,    \* enabled rows
    status,     \* status[s]: the column last_sync_status
    aged,       \* rows whose last_sync_at is more than two intervals ago
    up,         \* the process runs
    job,        \* sources with a job
    busy,       \* busy[s]: the holder of the source's lock in the map
    pc,         \* pc[g]: where goroutine g is in its sync
    src,        \* src[g]: the source it syncs
    result,     \* result[g]: how its sync ended
    active,     \* active[s]: whose StartSync made the tracker's entry
    stale,      \* Notifier.staleState
    cooling,    \* sources whose last stale alert is within the cooldown
    todo,       \* sources the staleness check has not reached yet
    found,      \* the source it is about to report
    told,       \* told[s]: history: the last alert decided on about s
    spoiled,    \* history: sources whose final status could not be written
    dropped,    \* history: sources that lost their lock since the start
    faults      \* faults suffered

rowVars   == <<enabled, status, aged>>
syncVars  == <<busy, pc, src, result>>
alertVars == <<stale, cooling, told>>
checkVars == <<todo, found>>
vars == <<rowVars, up, job, syncVars, active, alertVars, checkVars, spoiled,
          dropped, faults>>

\* "success" stands for "partial" too: a sync with warnings goes the same way.
Statuses == {"pending", "running", "success", "error"}

\* "failed": over before StartSync; "error": with errors after it.
Results == {"none", "success", "error", "failed"}

PcStates == {"idle", "begin", "connect", "calendars", "finish", "untrack",
             "recover"}

Alerts == {"nothing", "stale", "recovered"}

\* g has called StartSync and not yet FinishSync.
Tracked(g) ==
    \/ pc[g] = "calendars"
    \/ pc[g] \in {"finish", "untrack"} /\ result[g] # "failed"

\* g has had its chance to write "running", and not yet the final status.
Underway(g) == pc[g] \in {"connect", "calendars", "finish"}

Suffer == faults < MaxFaults /\ faults' = faults + 1

-----------------------------------------------------------------------------
Init ==
    /\ enabled \in SUBSET Sources
    /\ status \in [Sources -> Statuses]
    /\ aged \in SUBSET Sources
    /\ up = FALSE
    /\ job = {}
    /\ busy = [s \in Sources |-> NoSync]
    /\ pc = [g \in Syncs |-> "idle"]
    /\ src = [g \in Syncs |-> NoSource]
    /\ result = [g \in Syncs |-> "none"]
    /\ active = [s \in Sources |-> NoSync]
    /\ stale = {} /\ cooling = {}
    /\ todo = {} /\ found = NoSource
    /\ told = [s \in Sources |-> "nothing"]
    /\ spoiled = {} /\ dropped = {} /\ faults = 0

-----------------------------------------------------------------------------
(* The process.                                                            *)

\* Mutant: the rows an earlier run left behind are not looked at.
StartNoReset ==
    /\ ~up /\ up' = TRUE
    /\ job' = enabled
    /\ UNCHANGED <<rowVars, spoiled, faults, syncVars, active, alertVars,
                   checkVars, dropped>>

\* Start: what an earlier run left "running" is reset, which may fail; then
\* every enabled source gets a job.
Start ==
    /\ ~up /\ up' = TRUE
    /\ \/ /\ status' = [s \in Sources |->
                          IF status[s] = "running" THEN "pending" ELSE status[s]]
          /\ UNCHANGED <<spoiled, faults>>
       \/ /\ Suffer
          /\ spoiled' = spoiled \cup {s \in Sources : status[s] = "running"}
          /\ UNCHANGED status
    /\ job' = enabled
    /\ UNCHANGED <<enabled, aged, syncVars, active, alertVars, checkVars, dropped>>

\* All that is not in the database, or in somebody's inbox, is gone.
Crash ==
    /\ up /\ up' = FALSE
    /\ Suffer
    /\ job' = {}
    /\ busy' = [s \in Sources |-> NoSync]
    /\ pc' = [g \in Syncs |-> "idle"]
    /\ src' = [g \in Syncs |-> NoSource]
    /\ result' = [g \in Syncs |-> "none"]
    /\ active' = [s \in Sources |-> NoSync]
    /\ stale' = {} /\ cooling' = {}
    /\ todo' = {} /\ found' = NoSource
    /\ dropped' = {}
    /\ UNCHANGED <<rowVars, told, spoiled>>

-----------------------------------------------------------------------------
(* A sync, from executeSync's TryLock to its return.                       *)

\* Mutant: the status of the row serves as the lock.
BeginIfNotRunning(g, s) ==
    /\ up /\ pc[g] = "idle"
    /\ status[s] # "running" /\ s \in enabled
    /\ busy' = [busy EXCEPT ![s] = g]
    /\ pc' = [pc EXCEPT ![g] = "begin"]
    /\ src' = [src EXCEPT ![g] = s]
    /\ UNCHANGED <<rowVars, up, job, result, active, alertVars, checkVars,
                   spoiled, dropped, faults>>

\* A job's turn or a manual trigger; a busy lock or a disabled row makes it
\* a no-op.
Begin(g, s) ==
    /\ up /\ pc[g] = "idle"
    /\ busy[s] = NoSync /\ s \in enabled
    /\ busy' = [busy EXCEPT ![s] = g]
    /\ pc' = [pc EXCEPT ![g] = "begin"]
    /\ src' = [src EXCEPT ![g] = s]
    /\ UNCHANGED <<rowVars, up, job, result, active, alertVars, checkVars,
                   spoiled, dropped, faults>>

\* g goes on, and touches nothing of the scheduler or the notifier.
Advance(g, from, to) ==
    /\ pc[g] = from
    /\ pc' = [pc EXCEPT ![g] = to]
    /\ UNCHANGED <<enabled, up, job, busy, src, alertVars, checkVars, dropped>>

\* UpdateSourceSyncStatus writes the time with every status, whatever the
\* status is.
WriteStatus(s, v) ==
    /\ status' = [status EXCEPT ![s] = v]
    /\ aged' = aged \ {s}

WriteRunning(g) ==
    /\ Advance(g, "begin", "connect")
    /\ \/ /\ WriteStatus(src[g], "running")
          /\ spoiled' = spoiled \ {src[g]}
          /\ UNCHANGED faults
       \/ Suffer /\ UNCHANGED <<status, aged, spoiled>>
    /\ UNCHANGED <<result, active>>

\* The tracker has one entry for a source: a second sync takes it over.
Connect(g) ==
    /\ Advance(g, "connect", "calendars")
    /\ active' = [active EXCEPT ![src[g]] = g]
    /\ UNCHANGED <<status, aged, spoiled, result, faults>>

\* Credentials, a connection or the discovery fail.
ConnectFails(g) ==
    /\ Advance(g, "connect", "finish")
    /\ result' = [result EXCEPT ![g] = "failed"]
    /\ Suffer
    /\ UNCHANGED <<status, aged, spoiled, active>>

SyncCalendars(g) ==
    /\ Advance(g, "calendars", "finish")
    /\ \/ result' = [result EXCEPT ![g] = "success"] /\ UNCHANGED faults
       \/ result' = [result EXCEPT ![g] = "error"] /\ Suffer
    /\ UNCHANGED <<status, aged, spoiled, active>>

\* finishSync, first half.  The retries cover a busy database only.
Finish(g) ==
    /\ Advance(g, "finish", "untrack")
    /\ \/ /\ WriteStatus(src[g], IF result[g] = "failed" THEN "error" ELSE result[g])
          /\ spoiled' = spoiled \ {src[g]}
          /\ UNCHANGED faults
       \/ /\ Suffer
          /\ spoiled' = spoiled \cup {src[g]}
          /\ UNCHANGED <<status, aged>>
    /\ UNCHANGED <<result, active>>

\* executeSync returns: the deferred Unlock, of the mutex g has locked.
Return(g) ==
    /\ pc' = [pc EXCEPT ![g] = "idle"]
    /\ src' = [src EXCEPT ![g] = NoSource]
    /\ result' = [result EXCEPT ![g] = "none"]
    /\ busy' = [busy EXCEPT ![src[g]] = IF @ = g THEN NoSync ELSE @]

\* Mutant: a sync that failed keeps its entry.
UntrackGood(g) ==
    /\ pc[g] = "untrack"
    /\ IF result[g] = "success"
       THEN /\ active' = [active EXCEPT ![src[g]] = NoSync]
            /\ pc' = [pc EXCEPT ![g] = "recover"]
            /\ UNCHANGED <<src, result, busy>>
       ELSE Return(g) /\ UNCHANGED active
    /\ UNCHANGED <<rowVars, up, job, alertVars, checkVars, spoiled, dropped, faults>>

\* finishSync, second half: FinishSync takes the source's entry, whosever it
\* is; a sync without errors goes on to the recovery alert.
Untrack(g) ==
    /\ pc[g] = "untrack"
    /\ active' = [active EXCEPT ![src[g]] = NoSync]
    /\ IF result[g] = "success"
       THEN pc' = [pc EXCEPT ![g] = "recover"] /\ UNCHANGED <<src, result, busy>>
       ELSE Return(g)
    /\ UNCHANGED <<rowVars, up, job, alertVars, checkVars, spoiled, dropped, faults>>

\* Mutants: a recovery is announced whether or not the source was marked;
\* a recovery alert leaves the mark.
RecoverAlways(g) ==
    /\ pc[g] = "recover"
    /\ stale' = stale \ {src[g]} /\ cooling' = cooling \ {src[g]}
    /\ told' = [told EXCEPT ![src[g]] = "recovered"]
    /\ Return(g)
    /\ UNCHANGED <<rowVars, up, job, active, checkVars, spoiled, dropped, faults>>
RecoverKeepMark(g) ==
    /\ pc[g] = "recover"
    /\ told' = [told EXCEPT ![src[g]] = IF src[g] \in stale THEN "recovered" ELSE @]
    /\ Return(g)
    /\ UNCHANGED <<rowVars, up, job, active, stale, cooling, checkVars, spoiled,
                   dropped, faults>>

\* SendRecoveryAlertWithPrefs.
Recover(g) ==
    /\ pc[g] = "recover"
    /\ IF src[g] \in stale
       THEN /\ stale' = stale \ {src[g]}
            /\ cooling' = cooling \ {src[g]}
            /\ told' = [told EXCEPT ![src[g]] = "recovered"]
       ELSE UNCHANGED alertVars
    /\ Return(g)
    /\ UNCHANGED <<rowVars, up, job, active, checkVars, spoiled, dropped, faults>>

SyncStep(g) ==
    \/ WriteRunning(g)
    \/ Connect(g)
    \/ ConnectFails(g)
    \/ SyncCalendars(g)
    \/ Finish(g)
    \/ Untrack(g)
    \/ Recover(g)

-----------------------------------------------------------------------------
(* The staleness check.                                                    *)

CheckBegin ==
    /\ up /\ todo = {} /\ found = NoSource
    /\ todo' = job
    /\ UNCHANGED <<rowVars, up, job, syncVars, active, alertVars, found, spoiled,
                   dropped, faults>>

CheckSource(s) ==
    /\ s \in todo /\ found = NoSource
    /\ todo' = todo \ {s}
    /\ found' = IF s \in enabled \cap aged THEN s ELSE NoSource
    /\ UNCHANGED <<rowVars, up, job, syncVars, active, alertVars, spoiled,
                   dropped, faults>>

\* SendStaleAlertWithPrefs: silent only for a marked source in its cooldown.
SendStale ==
    /\ found # NoSource
    /\ IF found \in stale \cap cooling
       THEN UNCHANGED alertVars
       ELSE /\ stale' = stale \cup {found}
            /\ cooling' = cooling \cup {found}
            /\ told' = [told EXCEPT ![found] = "stale"]
    /\ found' = NoSource
    /\ UNCHANGED <<rowVars, up, job, syncVars, active, todo, spoiled, dropped, faults>>

CheckStep == CheckBegin \/ (\E s \in Sources : CheckSource(s)) \/ SendStale

-----------------------------------------------------------------------------
(* Handlers and time.                                                      *)

\* APIToggleSource writes the row ...
Toggle(s) ==
    /\ up
    /\ enabled' = IF s \in enabled THEN enabled \ {s} ELSE enabled \cup {s}
    /\ UNCHANGED <<status, aged, up, job, syncVars, active, alertVars, checkVars,
                   spoiled, dropped, faults>>

\* ... and then calls AddJob or RemoveJob.
Schedule(s) ==
    /\ up /\ s \in enabled \ job
    /\ job' = job \cup {s}
    /\ UNCHANGED <<rowVars, up, syncVars, active, alertVars, checkVars, spoiled,
                   dropped, faults>>

Unschedule(s) ==
    /\ up /\ s \in job \ enabled
    /\ job' = job \ {s}
    /\ busy' = [busy EXCEPT ![s] = NoSync]
    /\ dropped' = dropped \cup {s}
    /\ stale' = stale \ {s}
    /\ cooling' = cooling \ {s}
    /\ UNCHANGED <<rowVars, up, pc, src, result, active, told, checkVars,
                   spoiled, faults>>

Age(s) ==
    /\ s \notin aged
    /\ aged' = aged \cup {s}
    /\ UNCHANGED <<enabled, status, up, job, syncVars, active, alertVars,
                   checkVars, spoiled, dropped, faults>>

CooldownOver(s) ==
    /\ s \in cooling
    /\ cooling' = cooling \ {s}
    /\ UNCHANGED <<rowVars, up, job, syncVars, active, stale, told, checkVars,
                   spoiled, dropped, faults>>

Next ==
    \/ Start
    \/ Crash
    \/ \E g \in Syncs : SyncStep(g) \/ \E s \in Sources : Begin(g, s)
    \/ CheckStep
    \/ \E s \in Sources : \/ Toggle(s)
                          \/ Schedule(s)
                          \/ Unschedule(s)
                          \/ Age(s)
                          \/ CooldownOver(s)

Spec == Init /\ [][Next]_vars

\* The process is started again, goroutines run, syncs end, the tickers of
\* the jobs and of the check fire, a handler that has begun goes on.
Fairness ==
    /\ WF_vars(Start)
    /\ \A g \in Syncs : WF_vars(SyncStep(g))
    /\ \A s \in Sources : WF_vars(s \in job /\ \E g \in Syncs : Begin(g, s))
    /\ WF_vars(CheckStep)
    /\ \A s \in Sources : WF_vars(Schedule(s)) /\ WF_vars(Unschedule(s))

FairSpec == Spec /\ Fairness

-----------------------------------------------------------------------------
(* Properties.                                                             *)

TypeOK ==
    /\ enabled \subseteq Sources
    /\ status \in [Sources -> Statuses]
    /\ aged \subseteq Sources
    /\ up \in BOOLEAN
    /\ job \subseteq Sources
    /\ busy \in [Sources -> Syncs \cup {NoSync}]
    /\ pc \in [Syncs -> PcStates]
    /\ src \in [Syncs -> Sources \cup {NoSource}]
    /\ result \in [Syncs -> Results]
    /\ active \in [Sources -> Syncs \cup {NoSync}]
    /\ stale \subseteq Sources /\ cooling \subseteq Sources
    /\ todo \subseteq Sources /\ found \in Sources \cup {NoSource}
    /\ told \in [Sources -> Alerts]
    /\ spoiled \subseteq Sources /\ dropped \subseteq Sources
    /\ faults \in 0 .. MaxFaults

\* While the process is up a row says "running" only if a sync of it is
\* underway, even when syncs overlap and after a crash, unless the final
\* status, or the reset at the start, could not be written.
RunningIsTrue ==
    up => \A s \in Sources :
        status[s] = "running" /\ s \notin spoiled =>
            \E g \in Syncs : src[g] = s /\ Underway(g)

\* The tracker shows no sync that is over, and shows every sync of a source
\* whose lock RemoveJob has left in place.
TrackerIsTrue ==
    \A s \in Sources :
        /\ active[s] # NoSync => src[active[s]] = s /\ Tracked(active[s])
        /\ s \notin dropped =>
              \A g \in Syncs : src[g] = s /\ Tracked(g) => active[s] = g

\* What these rest on: a goroutine has a source exactly while it is in a
\* sync, has a result when it comes to write it, holds the source's lock as
\* long as that has not been dropped, and a mark stands for an alert that has
\* not been taken back.
SyncInv ==
    /\ \A g \in Syncs : pc[g] = "idle" <=> src[g] = NoSource
    /\ \A g \in Syncs : pc[g] = "finish" => result[g] # "none"
    /\ \A g \in Syncs : src[g] \in Sources \ dropped => busy[src[g]] = g
    /\ \A s \in stale : told[s] = "stale"

IInv == TypeOK /\ SyncInv /\ RunningIsTrue /\ TrackerIsTrue

\* A recovery is only announced if the alert decided on before it says that
\* the source is stale: not after a crash, not when check, sync and removal
\* race.  Each alert has a goroutine that sends it, so which of the two a
\* person gets, and in which order, is another matter.
NoUnheraldedRecovery ==
    [][\A s \in Sources :
         told[s] # "recovered" /\ told'[s] = "recovered" => told[s] = "stale"]_told

\* An enabled source does not stay "running" for ever.
RunningEnds ==
    \A s \in Sources :
        status[s] = "running" ~> status[s] # "running" \/ s \notin enabled

\* A mark does not stay on an enabled source once its syncs succeed.
MarkIsCleared ==
    \A s \in Sources : s \in stale ~> s \notin stale \/ s \notin enabled
=============================================================================
