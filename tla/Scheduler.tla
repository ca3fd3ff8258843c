----------------------------- MODULE Scheduler -----------------------------
(***************************************************************************)
(* internal/scheduler/scheduler.go: the job table, the per-source sync     *)
(* locks, the goroutine of every job and of every manual trigger, the      *)
(* stale-source checker, and the start and stop sequence of main.go.       *)
(*                                                                         *)
(* A critical section under Scheduler.mu is one action.  A goroutine's     *)
(* steps outside it interleave freely.  Job and lock OBJECTS have          *)
(* identities of their own, because a replaced job and a deleted lock      *)
(* live on in the goroutines that still point to them.                     *)
(*                                                                         *)
(* Left out: the staggering times, nextSyncAt (shown by the API, read by   *)
(* no decision), and the cleanup and health-log routines (no state).       *)
(***************************************************************************)
EXTENDS Naturals, FiniteSets

CONSTANTS
    Sources,    \* calendar sources (database ids)
    Jobs,       \* Job objects that may be allocated; each owns one goroutine
    Triggers,   \* goroutines TriggerSync may start
    Locks,      \* sync.Mutex objects that may be allocated
    NoJob,      \* "not in the jobs map"
    NoLock,     \* "not in the syncLocks map" / "no lock taken"
    NoSource    \* null source

ASSUME SchedulerAssumption ==
    /\ NoJob \notin Jobs
    /\ NoLock \notin Locks
    /\ NoSource \notin Sources
    /\ Jobs \cap Triggers = {}

VARIABLES
    jobs,       \* jobs[s]: the Job in the map, or NoJob
    syncLocks,  \* syncLocks[s]: the mutex in the map, or NoLock
    stopped,    \* jobs whose stopCh is closed and whose ticker is stopped
    locked,     \* mutexes that are locked
    pc,         \* pc[r]: where goroutine r is
    src,        \* src[r]: the source goroutine r works for
    lock,       \* lock[r]: the mutex pointer r holds in executeSync
    row,        \* row[s]: the source's database row
    staleState, \* Notifier.staleState: sources marked stale
    todo,       \* sources the running staleness check has not reached yet
    found,      \* the source it judged stale and is about to report
    checker,    \* the staleness routine: "live" or "exited"
    main,       \* where main.go is
    toStart,    \* enabled sources Start has loaded and not started yet
    removed     \* history: sources whose lock entry RemoveJob deleted

tableVars == <<jobs, stopped>>
lockVars  == <<syncLocks, locked, removed>>
goVars    == <<pc, src, lock>>
checkVars == <<todo, found, checker>>
mainVars  == <<main, toStart>>
vars == <<tableVars, lockVars, goVars, row, staleState, checkVars, mainVars>>

Routines == Jobs \cup Triggers

RowStates == {"none", "enabled", "disabled", "deleted"}

PcStates == {"unborn", "starting", "delay", "select", "getLock", "tryLock",
             "getSource", "syncing", "recover", "done"}

MainStates == {"starting", "serving", "cancelled", "waiting", "stopped",
               "exited"}

\* s.ctx has been cancelled.
CtxDone == main \in {"cancelled", "waiting", "stopped", "exited"}

\* Handlers run from the moment main serves until the process exits.
Serving == main \notin {"starting", "exited"}

\* r owns the mutex lock[r].
InSync(r) == pc[r] \in {"getSource", "syncing", "recover"}

\* Goroutines the WaitGroup counts: wg.Add done, wg.Done not yet.
Live(r) == pc[r] \notin {"unborn", "starting", "done"}

-----------------------------------------------------------------------------
Init ==
    /\ jobs = [s \in Sources |-> NoJob]
    /\ syncLocks = [s \in Sources |-> NoLock]
    /\ stopped = {}
    /\ locked = {}
    /\ pc = [r \in Routines |-> "unborn"]
    /\ src = [r \in Routines |-> NoSource]
    /\ lock = [r \in Routines |-> NoLock]
    /\ row \in [Sources -> {"none", "enabled", "disabled"}]
    /\ staleState = {}
    /\ todo = {}
    /\ found = NoSource
    /\ checker = "live"
    /\ main = "starting"
    /\ toStart = {s \in Sources : row[s] = "enabled"}
    /\ removed = {}

-----------------------------------------------------------------------------
(* The exported methods of the scheduler.                                  *)

\* Mutant: the replaced job is not stopped.
InstallJobOver(s, j, first) ==
    /\ pc[j] = "unborn"
    /\ jobs' = [jobs EXCEPT ![s] = j]
    /\ src' = [src EXCEPT ![j] = s]
    /\ pc' = [pc EXCEPT ![j] = first]
    /\ UNCHANGED <<stopped, lock, lockVars, staleState>>

\* Allocate Job object j for s, put it in the map in place of the old one,
\* whose stopCh is closed; its goroutine begins at `first`.
InstallJob(s, j, first) ==
    /\ pc[j] = "unborn"
    /\ stopped' = stopped \cup ({jobs[s]} \ {NoJob})
    /\ jobs' = [jobs EXCEPT ![s] = j]
    /\ src' = [src EXCEPT ![j] = s]
    /\ pc' = [pc EXCEPT ![j] = first]
    /\ UNCHANGED <<lock, lockVars, staleState>>

\* The goroutine syncs at once.
AddJob(s, j) == InstallJob(s, j, "getLock")

\* The first sync waits; a delay of zero is AddJob.
AddJobWithDelay(s, j, delayed) ==
    InstallJob(s, j, IF delayed THEN "delay" ELSE "getLock")

\* Without a job it is a no-op.  wg.Add and the go statement come after the
\* unlock: until then the job is in the map without a goroutine.
UpdateJobInterval(s, j) ==
    \/ /\ jobs[s] # NoJob
       /\ InstallJob(s, j, "starting")
    \/ /\ jobs[s] = NoJob
       /\ UNCHANGED <<tableVars, goVars, lockVars, staleState>>

\* The second half of UpdateJobInterval.
Launch(j) ==
    /\ pc[j] = "starting"
    /\ pc' = [pc EXCEPT ![j] = "select"]
    /\ UNCHANGED <<tableVars, lockVars, src, lock, row, staleState,
                   checkVars, mainVars>>

\* Mutant: the stopped job stays in the map.
RemoveJobKeepEntry(s) ==
    /\ stopped' = stopped \cup ({jobs[s]} \ {NoJob})
    /\ staleState' = staleState \ {s}
    /\ UNCHANGED <<jobs, lockVars, goVars>>

\* The lock entry goes with the job, whoever holds the lock; the notifier
\* forgets the source in any case.
RemoveJob(s) ==
    /\ IF jobs[s] # NoJob
       THEN /\ stopped' = stopped \cup {jobs[s]}
            /\ jobs' = [jobs EXCEPT ![s] = NoJob]
            /\ syncLocks' = [syncLocks EXCEPT ![s] = NoLock]
            /\ removed' = removed \cup {s}
       ELSE UNCHANGED <<tableVars, syncLocks, removed>>
    /\ staleState' = staleState \ {s}
    /\ UNCHANGED <<locked, goVars>>

TriggerSync(s, t) ==
    /\ pc[t] = "unborn"
    /\ src' = [src EXCEPT ![t] = s]
    /\ pc' = [pc EXCEPT ![t] = "getLock"]
    /\ UNCHANGED <<lock, tableVars, lockVars, staleState>>

-----------------------------------------------------------------------------
(* executeSync, step by step, in goroutine r.                              *)

\* Where r goes when executeSync returns: a job loop records nextSyncAt and
\* is back at its select, a manual trigger ends.
AfterSync(r) == IF r \in Jobs THEN "select" ELSE "done"

\* No map entry and no goroutine points to l.
Fresh(l) ==
    /\ l \notin locked
    /\ \A s \in Sources : syncLocks[s] # l
    /\ \A r \in Routines : lock[r] # l

\* Mutants: a new mutex at every call, or one mutex for several sources.
GetSyncLockNew(r, l) ==
    /\ pc[r] = "getLock" /\ Fresh(l)
    /\ syncLocks' = [syncLocks EXCEPT ![src[r]] = l]
    /\ lock' = [lock EXCEPT ![r] = l]
    /\ pc' = [pc EXCEPT ![r] = "tryLock"]
    /\ UNCHANGED <<tableVars, locked, removed, src, row, staleState,
                   checkVars, mainVars>>
GetSyncLockAny(r, l) ==
    /\ pc[r] = "getLock"
    /\ syncLocks' = [syncLocks EXCEPT ![src[r]] = l]
    /\ lock' = [lock EXCEPT ![r] = l]
    /\ pc' = [pc EXCEPT ![r] = "tryLock"]
    /\ UNCHANGED <<tableVars, locked, removed, src, row, staleState,
                   checkVars, mainVars>>

GetSyncLock(r, l) ==
    /\ pc[r] = "getLock"
    /\ \/ /\ syncLocks[src[r]] # NoLock
          /\ l = syncLocks[src[r]]
          /\ UNCHANGED syncLocks
       \/ /\ syncLocks[src[r]] = NoLock
          /\ Fresh(l)
          /\ syncLocks' = [syncLocks EXCEPT ![src[r]] = l]
    /\ lock' = [lock EXCEPT ![r] = l]
    /\ pc' = [pc EXCEPT ![r] = "tryLock"]
    /\ UNCHANGED <<tableVars, locked, removed, src, row, staleState,
                   checkVars, mainVars>>

\* Mutant: a busy lock is no reason to return.
TryLockBlind(r) ==
    /\ pc[r] = "tryLock"
    /\ locked' = locked \cup {lock[r]}
    /\ pc' = [pc EXCEPT ![r] = "getSource"]
    /\ UNCHANGED <<lock, tableVars, syncLocks, removed, src, row, staleState,
                   checkVars, mainVars>>

\* TryLock never waits: a busy lock makes this sync a no-op.
TryLock(r) ==
    /\ pc[r] = "tryLock"
    /\ IF lock[r] \in locked
       THEN /\ lock' = [lock EXCEPT ![r] = NoLock]
            /\ pc' = [pc EXCEPT ![r] = AfterSync(r)]
            /\ UNCHANGED locked
       ELSE /\ locked' = locked \cup {lock[r]}
            /\ pc' = [pc EXCEPT ![r] = "getSource"]
            /\ UNCHANGED lock
    /\ UNCHANGED <<tableVars, syncLocks, removed, src, row, staleState,
                   checkVars, mainVars>>

\* The deferred lock.Unlock().
Unlock(r) ==
    /\ locked' = locked \ {lock[r]}
    /\ lock' = [lock EXCEPT ![r] = NoLock]
    /\ pc' = [pc EXCEPT ![r] = AfterSync(r)]

\* Mutant: a return that skips the Unlock.
ReturnLocked(r) ==
    /\ lock' = [lock EXCEPT ![r] = NoLock]
    /\ pc' = [pc EXCEPT ![r] = AfterSync(r)]
    /\ UNCHANGED <<locked, tableVars, syncLocks, removed, src, row, staleState,
                   checkVars, mainVars>>
GetSourceLeak(r) ==
    /\ pc[r] = "getSource"
    /\ IF row[src[r]] = "enabled"
       THEN /\ pc' = [pc EXCEPT ![r] = "syncing"]
            /\ UNCHANGED <<locked, lock, tableVars, syncLocks, removed, src, row,
                           staleState, checkVars, mainVars>>
       ELSE ReturnLocked(r)
SyncFailsLeak(r) == pc[r] = "syncing" /\ ReturnLocked(r)

\* A missing or disabled row ends the sync before it starts.
GetSource(r) ==
    /\ pc[r] = "getSource"
    /\ IF row[src[r]] = "enabled"
       THEN /\ pc' = [pc EXCEPT ![r] = "syncing"]
            /\ UNCHANGED <<locked, lock>>
       ELSE Unlock(r)
    /\ UNCHANGED <<tableVars, syncLocks, removed, src, row, staleState,
                   checkVars, mainVars>>

\* SyncSource returns: on success a recovery alert is due, else the sync is over.
SyncSucceeds(r) ==
    /\ pc[r] = "syncing"
    /\ pc' = [pc EXCEPT ![r] = "recover"]
    /\ UNCHANGED <<tableVars, lockVars, src, lock, row, staleState,
                   checkVars, mainVars>>

SyncFails(r) ==
    /\ pc[r] = "syncing"
    /\ Unlock(r)
    /\ UNCHANGED <<tableVars, syncLocks, removed, src, row, staleState,
                   checkVars, mainVars>>

\* SendRecoveryAlertWithPrefs clears the mark; executeSync returns.
SendRecovery(r) ==
    /\ pc[r] = "recover"
    /\ staleState' = staleState \ {src[r]}
    /\ Unlock(r)
    /\ UNCHANGED <<tableVars, syncLocks, removed, src, row,
                   checkVars, mainVars>>

-----------------------------------------------------------------------------
(* The select of a job's loop.  Go picks any ready case.                   *)

Tick(j) ==
    /\ pc[j] = "select"
    /\ j \notin stopped
    /\ pc' = [pc EXCEPT ![j] = "getLock"]
    /\ UNCHANGED <<tableVars, lockVars, src, lock, row, staleState,
                   checkVars, mainVars>>

\* time.After(initialDelay) fires, stopped or not.
DelayOver(j) ==
    /\ pc[j] = "delay"
    /\ pc' = [pc EXCEPT ![j] = "getLock"]
    /\ UNCHANGED <<tableVars, lockVars, src, lock, row, staleState,
                   checkVars, mainVars>>

\* Mutants: the loop looks only at one of its two stop signals.
LoopExitOnCancel(j) ==
    /\ pc[j] \in {"delay", "select"} /\ CtxDone
    /\ pc' = [pc EXCEPT ![j] = "done"]
    /\ UNCHANGED <<tableVars, lockVars, src, lock, row, staleState,
                   checkVars, mainVars>>
LoopExitOnStop(j) ==
    /\ pc[j] \in {"delay", "select"} /\ j \in stopped
    /\ pc' = [pc EXCEPT ![j] = "done"]
    /\ UNCHANGED <<tableVars, lockVars, src, lock, row, staleState,
                   checkVars, mainVars>>

LoopExit(j) ==
    /\ pc[j] \in {"delay", "select"}
    /\ CtxDone \/ j \in stopped
    /\ pc' = [pc EXCEPT ![j] = "done"]
    /\ UNCHANGED <<tableVars, lockVars, src, lock, row, staleState,
                   checkVars, mainVars>>

-----------------------------------------------------------------------------
(* staleDetectionRoutine: a snapshot of the job table, then one source     *)
(* after another; reading a source and marking it are separate steps.      *)

CheckBegin ==
    /\ checker = "live" /\ todo = {} /\ found = NoSource
    /\ main # "starting"
    /\ todo' = {s \in Sources : jobs[s] # NoJob}
    /\ UNCHANGED <<tableVars, lockVars, goVars, row, staleState, found,
                   checker, mainVars>>

\* Only an enabled row can be judged stale; its age is not modelled here.
CheckSource(s) ==
    /\ s \in todo /\ found = NoSource
    /\ todo' = todo \ {s}
    /\ \/ row[s] = "enabled" /\ found' = s
       \/ UNCHANGED found
    /\ UNCHANGED <<tableVars, lockVars, goVars, row, staleState, checker,
                   mainVars>>

\* SendStaleAlertWithPrefs marks the source.
SendStale ==
    /\ found # NoSource
    /\ staleState' = staleState \cup {found}
    /\ found' = NoSource
    /\ UNCHANGED <<tableVars, lockVars, goVars, row, todo, checker, mainVars>>

CheckExit ==
    /\ checker = "live" /\ todo = {} /\ found = NoSource /\ CtxDone
    /\ checker' = "exited"
    /\ UNCHANGED <<tableVars, lockVars, goVars, row, staleState, todo, found,
                   mainVars>>

-----------------------------------------------------------------------------
(* main.go: Start, the signal, Stop, server.Shutdown, exit.                *)

\* Start's loop.  Only the first source is not delayed.
StartJob(s, j) ==
    /\ main = "starting" /\ s \in toStart
    /\ AddJobWithDelay(s, j, \E o \in Sources : jobs[o] # NoJob)
    /\ toStart' = toStart \ {s}
    /\ UNCHANGED <<row, checkVars, main>>

MainStep(from, to) ==
    /\ main = from
    /\ main' = to
    /\ UNCHANGED <<goVars, lockVars, row, staleState, checkVars, toStart>>

StartDone  == toStart = {} /\ MainStep("starting", "serving")
                           /\ UNCHANGED tableVars

\* Stop: started := false and cancel().
StopCancel == MainStep("serving", "cancelled") /\ UNCHANGED tableVars

\* Stop: every job is stopped and the table emptied; the locks stay.
StopJobs ==
    /\ MainStep("cancelled", "waiting")
    /\ stopped' = stopped \cup ({jobs[s] : s \in Sources} \ {NoJob})
    /\ jobs' = [s \in Sources |-> NoJob]

\* Stop: wg.Wait() returns once no counted goroutine is left.
StopWait ==
    /\ \A r \in Routines : ~Live(r)
    /\ checker = "exited"
    /\ MainStep("waiting", "stopped")
    /\ UNCHANGED tableVars

\* server.Shutdown is over and main returns.
Exit == MainStep("stopped", "exited") /\ UNCHANGED tableVars

-----------------------------------------------------------------------------
(* The goroutines the scheduler owns, and its clients: the most general    *)
(* use the HTTP handlers could make of it, and of the rows.                *)

SyncStep(r) ==
    \/ \E l \in Locks : GetSyncLock(r, l)
    \/ TryLock(r)
    \/ GetSource(r)
    \/ SyncSucceeds(r)
    \/ SyncFails(r)
    \/ SendRecovery(r)

LoopStep(j) == Tick(j) \/ DelayOver(j) \/ LoopExit(j) \/ Launch(j)

CheckStep == CheckBegin \/ (\E s \in Sources : CheckSource(s)) \/ SendStale
             \/ CheckExit

StopStep == StopCancel \/ StopJobs \/ StopWait \/ Exit

Internal ==
    /\ main # "exited"
    /\ \/ \E r \in Routines : SyncStep(r)
       \/ \E j \in Jobs : LoopStep(j)
       \/ CheckStep
       \/ \E s \in Sources, j \in Jobs : StartJob(s, j)
       \/ StartDone
       \/ StopStep

\* A row is inserted once, changed, and deleted for good (ids are UUIDs).
RowChange(s) ==
    /\ \/ row[s] = "none" /\ row' = [row EXCEPT ![s] = "enabled"]
       \/ /\ row[s] \in {"enabled", "disabled"}
          /\ \E v \in {"enabled", "disabled", "deleted"} \ {row[s]} :
                row' = [row EXCEPT ![s] = v]
    /\ UNCHANGED <<tableVars, lockVars, goVars, staleState>>

Client(s) ==
    \/ \E j \in Jobs : (AddJob(s, j) \/ UpdateJobInterval(s, j)) /\ UNCHANGED row
    \/ RemoveJob(s) /\ UNCHANGED row
    \/ \E t \in Triggers : TriggerSync(s, t) /\ UNCHANGED row
    \/ RowChange(s)

Next ==
    \/ Internal
    \/ Serving /\ (\E s \in Sources : Client(s)) /\ UNCHANGED <<checkVars, mainVars>>

Spec == Init /\ [][Next]_vars

\* Goroutines run, syncs end (syncTimeout and the context bound them), and
\* main proceeds once signalled; requests, ticks and the signal may never
\* come.  A select with several ready cases picks at random, so neither the
\* checker nor the loop of a job added after the cancellation can ignore
\* the cancelled context for ever: strong fairness for the exits.
Fairness ==
    /\ \A r \in Routines : WF_vars(main # "exited" /\ SyncStep(r))
    /\ \A j \in Jobs :
          /\ WF_vars(main # "exited" /\ (DelayOver(j) \/ Launch(j)))
          /\ SF_vars(main # "exited" /\ LoopExit(j))
    /\ WF_vars(main # "exited" /\ ((\E s \in Sources : CheckSource(s)) \/ SendStale))
    /\ SF_vars(main # "exited" /\ CheckExit)
    /\ WF_vars(main # "exited" /\ (StopJobs \/ StopWait \/ Exit))

FairSpec == Spec /\ Fairness

-----------------------------------------------------------------------------
(* Properties.                                                             *)

TypeOK ==
    /\ jobs \in [Sources -> Jobs \cup {NoJob}]
    /\ syncLocks \in [Sources -> Locks \cup {NoLock}]
    /\ stopped \in SUBSET Jobs
    /\ locked \in SUBSET Locks
    /\ pc \in [Routines -> PcStates]
    /\ src \in [Routines -> Sources \cup {NoSource}]
    /\ lock \in [Routines -> Locks \cup {NoLock}]
    /\ row \in [Sources -> RowStates]
    /\ staleState \in SUBSET Sources
    /\ todo \in SUBSET Sources
    /\ found \in Sources \cup {NoSource}
    /\ checker \in {"live", "exited"}
    /\ main \in MainStates
    /\ toStart \in SUBSET Sources
    /\ removed \in SUBSET Sources

\* No stopCh is closed twice, which would panic: AddJob, RemoveJob,
\* UpdateJobInterval and Stop close the channel of the job they find in the
\* map, so a job in the map must still be open, and be there for one source.
NoDoubleClose ==
    \A s \in Sources : jobs[s] # NoJob =>
        /\ jobs[s] \notin stopped
        /\ \A o \in Sources \ {s} : jobs[o] # jobs[s]

\* No job loop is lost: one that still runs, or is about to, either is the
\* source's job in the map, where RemoveJob and Stop find it, or is stopped.
NoOrphanLoop ==
    \A j \in Jobs :
        pc[j] \notin {"unborn", "done"} => jobs[src[j]] = j \/ j \in stopped

\* A mutex is never held by two goroutines (executeSync's TryLock and its
\* deferred Unlock), and one that is locked has a holder to unlock it.
LockDiscipline ==
    /\ \A r1, r2 \in Routines :
          InSync(r1) /\ InSync(r2) /\ lock[r1] = lock[r2] => r1 = r2
    /\ \A l \in locked : \E r \in Routines : InSync(r) /\ lock[r] = l

\* Two syncs of a source never overlap as long as RemoveJob has not thrown
\* the source's lock entry away.
ExclusiveUnlessRemoved ==
    \A r1, r2 \in Routines :
        InSync(r1) /\ InSync(r2) /\ src[r1] = src[r2] /\ src[r1] \notin removed
            => r1 = r2

\* The locks of different sources are different objects, in the map and in
\* the hands of goroutines, so that no source's sync is skipped for another.
LocksPrivate ==
    /\ \A s1, s2 \in Sources :
          syncLocks[s1] = syncLocks[s2] /\ syncLocks[s1] # NoLock => s1 = s2
    /\ \A r \in Routines, s \in Sources :
          lock[r] = syncLocks[s] /\ lock[r] # NoLock => src[r] = s
    /\ \A r1, r2 \in Routines :
          lock[r1] = lock[r2] /\ lock[r1] # NoLock => src[r1] = src[r2]

-----------------------------------------------------------------------------
(* The inductive invariant behind the safety properties.                   *)

\* Goroutines that exist have a source; stopped jobs exist; a job in the
\* map serves the source it is filed under.
JobInv ==
    /\ \A r \in Routines : pc[r] # "unborn" => src[r] \in Sources
    /\ \A j \in stopped : pc[j] # "unborn"
    /\ \A s \in Sources : jobs[s] # NoJob =>
          /\ src[jobs[s]] = s
          /\ pc[jobs[s]] # "unborn"
          /\ jobs[s] \notin stopped
    /\ NoOrphanLoop

\* A goroutine has a lock pointer exactly between getSyncLock and the end of
\* executeSync, owns that mutex while in the sync, and, until the entry is
\* removed, the pointer is the map's.
HasPointer(r) == pc[r] = "tryLock" \/ InSync(r)

LockInv ==
    /\ \A r \in Routines : lock[r] # NoLock <=> HasPointer(r)
    /\ \A r \in Routines : InSync(r) => lock[r] \in locked
    /\ LockDiscipline
    /\ \A r \in Routines :
          HasPointer(r) /\ src[r] \notin removed => lock[r] = syncLocks[src[r]]

IInv == TypeOK /\ JobInv /\ LockInv

-----------------------------------------------------------------------------
(* Liveness, and the abstract specification.                               *)

\* The goroutines of jobs that were replaced or removed end: again and again
\* (ended ones stay so) none of them is left.
StoppedLoopsEnd ==
    []<>(main = "exited" \/ \A j \in stopped : pc[j] = "done")

\* A locked mutex is unlocked again: no path out of executeSync keeps it,
\* else every later sync of the source would be skipped.
LocksReleased ==
    \A l \in Locks : l \in locked ~> (l \notin locked \/ main = "exited")

\* Once main has the signal, Stop returns and the process exits: no
\* goroutine keeps the WaitGroup up for ever (finitely many requests).
StopTerminates == main = "cancelled" ~> main = "exited"

\* The abstract specification and the mapping under which Spec implements it.
Exclusion == INSTANCE SyncExclusion WITH
    running <- [s \in Sources |->
                    IF s \in removed THEN {}
                    ELSE {r \in Routines : src[r] = s /\ InSync(r)}],
    retired <- removed

\* Under the mapping every step of the scheduler is a step or a stutter of
\* the one-sync-at-a-time specification.
ImplementsExclusion == Exclusion!Spec
=============================================================================
