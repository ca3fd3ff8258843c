-------------------------- MODULE SchedulerProofs --------------------------
(***************************************************************************)
(* Machine-checked theorems about Scheduler, for every set of sources,     *)
(* jobs, triggers and locks.  The inductive invariant is IInv: the types,  *)
(* JobInv for the job table and LockInv for the locks.  It is preserved    *)
(* kind of step by kind of step.                                           *)
(***************************************************************************)
EXTENDS Scheduler, TLAPS

\* The initial states satisfy the invariant: no goroutine, job or lock yet.
LEMMA InitIInv == Init => IInv
<1> SUFFICES ASSUME Init PROVE IInv
  OBVIOUS
<1> USE SchedulerAssumption DEF Init, Routines
<1>1. TypeOK
  BY DEF TypeOK, PcStates, RowStates, MainStates
<1>2. JobInv
  BY DEF JobInv, NoOrphanLoop
<1>3. LockInv
  BY DEF LockInv, LockDiscipline, HasPointer, InSync
<1>4. QED
  BY <1>1, <1>2, <1>3 DEF IInv

-----------------------------------------------------------------------------
(* executeSync.                                                            *)

\* A step inside executeSync only moves its own goroutine, which existed
\* before and exists after.
LEMMA SyncStepMoves ==
    ASSUME TypeOK, NEW r \in Routines, SyncStep(r)
    PROVE  /\ UNCHANGED <<jobs, stopped, src>>
           /\ pc[r] \notin {"unborn", "done"}
           /\ \E to \in PcStates \ {"unborn", "starting"} :
                 pc' = [pc EXCEPT ![r] = to]
<1> USE DEF tableVars, PcStates, AfterSync, Unlock
<1>1. ASSUME NEW l \in Locks, GetSyncLock(r, l)
      PROVE  /\ UNCHANGED <<jobs, stopped, src>>
             /\ pc[r] = "getLock" /\ pc' = [pc EXCEPT ![r] = "tryLock"]
  BY <1>1 DEF GetSyncLock
<1>2. CASE TryLock(r)
  BY <1>2 DEF TryLock
<1>3. CASE GetSource(r)
  BY <1>3 DEF GetSource
<1>4. CASE SyncSucceeds(r)
  BY <1>4 DEF SyncSucceeds
<1>5. CASE SyncFails(r)
  BY <1>5 DEF SyncFails
<1>6. CASE SendRecovery(r)
  BY <1>6 DEF SendRecovery
<1>7. QED
  BY <1>1, <1>2, <1>3, <1>4, <1>5, <1>6 DEF SyncStep

LEMMA SyncStepType ==
    ASSUME IInv, NEW r \in Routines, SyncStep(r)
    PROVE  TypeOK'
<1> USE DEF IInv, TypeOK, PcStates, AfterSync, tableVars, lockVars, checkVars,
            mainVars
<1>1. ASSUME NEW l \in Locks, GetSyncLock(r, l) PROVE TypeOK'
  BY <1>1 DEF GetSyncLock
<1>2. CASE TryLock(r)
  <2>1. lock[r] \in Locks
    BY <1>2 DEF TryLock, LockInv, HasPointer
  <2>2. QED
    BY <1>2, <2>1 DEF TryLock
<1>3. CASE GetSource(r)
  BY <1>3 DEF GetSource, Unlock
<1>4. CASE SyncSucceeds(r)
  BY <1>4 DEF SyncSucceeds
<1>5. CASE SyncFails(r)
  BY <1>5 DEF SyncFails, Unlock
<1>6. CASE SendRecovery(r)
  BY <1>6 DEF SendRecovery, Unlock
<1>7. QED
  BY <1>1, <1>2, <1>3, <1>4, <1>5, <1>6 DEF SyncStep

LEMMA SyncStepJobs ==
    ASSUME IInv, NEW r \in Routines, SyncStep(r)
    PROVE  JobInv'
<1>1. PICK to \in PcStates \ {"unborn", "starting"} :
         /\ UNCHANGED <<jobs, stopped, src>>
         /\ pc[r] \notin {"unborn", "done"}
         /\ pc' = [pc EXCEPT ![r] = to]
  BY SyncStepMoves DEF IInv
<1>2. QED
  BY <1>1 DEF IInv, TypeOK, JobInv, NoOrphanLoop, Routines

\* Releasing the mutex of a sync in progress keeps the lock discipline.
LEMMA UnlockLocks ==
    ASSUME IInv, NEW r \in Routines, InSync(r), Unlock(r),
           UNCHANGED <<syncLocks, removed, src>>
    PROVE  LockInv'
<1> USE DEF IInv, TypeOK, Unlock, AfterSync, LockInv, LockDiscipline,
            HasPointer, InSync
<1>1. \A q \in Routines : q # r => pc'[q] = pc[q] /\ lock'[q] = lock[q]
  OBVIOUS
<1>2. pc'[r] \in {"select", "done"} /\ lock'[r] = NoLock
  OBVIOUS
<1>3. \A q \in Routines : q # r /\ InSync(q) => lock[q] # lock[r]
  OBVIOUS
<1>4. QED
  BY <1>1, <1>2, <1>3

LEMMA SyncStepLocks ==
    ASSUME IInv, NEW r \in Routines, SyncStep(r)
    PROVE  LockInv'
<1> USE DEF IInv, TypeOK, LockInv, LockDiscipline, HasPointer, InSync
<1>1. ASSUME NEW l \in Locks, GetSyncLock(r, l) PROVE LockInv'
  <2>1. l # NoLock /\ l = syncLocks'[src[r]] /\ src[r] \in Sources
    BY <1>1, SchedulerAssumption DEF GetSyncLock, JobInv
  <2>2. \A q \in Routines : q # r => pc'[q] = pc[q] /\ lock'[q] = lock[q]
    BY <1>1 DEF GetSyncLock
  <2>3. pc'[r] = "tryLock" /\ lock'[r] = l
    BY <1>1 DEF GetSyncLock
  <2>4. \A q \in Routines : HasPointer(q) /\ src[q] \notin removed
                             => lock[q] = syncLocks'[src[q]]
    BY <1>1 DEF GetSyncLock, JobInv
  <2>5. UNCHANGED <<locked, removed, src>> /\ pc[r] = "getLock"
    BY <1>1 DEF GetSyncLock
  <2>6. QED
    BY <2>1, <2>2, <2>3, <2>4, <2>5
<1>2. CASE TryLock(r)
  <2>1. CASE lock[r] \in locked
    BY <1>2, <2>1 DEF TryLock, AfterSync
  <2>2. CASE lock[r] \notin locked
    <3>1. \A q \in Routines : q # r => pc'[q] = pc[q]
      BY <1>2, <2>2 DEF TryLock
    <3>2. /\ pc[r] = "tryLock" /\ pc'[r] = "getSource"
          /\ locked' = locked \cup {lock[r]}
          /\ UNCHANGED <<lock, syncLocks, removed, src>>
      BY <1>2, <2>2 DEF TryLock
    <3>3. QED
      BY <2>2, <3>1, <3>2
  <2>3. QED
    BY <2>1, <2>2
<1>3. CASE GetSource(r)
  <2>1. CASE row[src[r]] = "enabled"
    <3>1. /\ pc[r] = "getSource" /\ pc' = [pc EXCEPT ![r] = "syncing"]
          /\ UNCHANGED <<locked, lock, syncLocks, removed, src>>
      BY <1>3, <2>1 DEF GetSource
    <3>2. QED
      BY <3>1
  <2>2. CASE row[src[r]] # "enabled"
    BY <1>3, <2>2, UnlockLocks DEF GetSource
  <2>3. QED
    BY <2>1, <2>2
<1>4. CASE SyncSucceeds(r)
  <2>1. /\ pc[r] = "syncing" /\ pc' = [pc EXCEPT ![r] = "recover"]
        /\ UNCHANGED <<locked, lock, syncLocks, removed, src>>
    BY <1>4 DEF SyncSucceeds, lockVars
  <2>2. QED
    BY <2>1
<1>5. CASE SyncFails(r)
  BY <1>5, UnlockLocks DEF SyncFails
<1>6. CASE SendRecovery(r)
  BY <1>6, UnlockLocks DEF SendRecovery
<1>7. QED
  BY <1>1, <1>2, <1>3, <1>4, <1>5, <1>6 DEF SyncStep

LEMMA SyncStepIInv ==
    ASSUME IInv, NEW r \in Routines, SyncStep(r)
    PROVE  IInv'
BY SyncStepType, SyncStepJobs, SyncStepLocks DEF IInv

-----------------------------------------------------------------------------
(* Job loops and the staleness checker.                                    *)

\* A loop step moves a goroutine that has no lock pointer to a place where it
\* has none.
LEMMA LoopStepIInv ==
    ASSUME IInv, NEW j \in Jobs, LoopStep(j)
    PROVE  IInv'
<1>1. PICK to \in {"select", "getLock", "done"} :
         /\ pc[j] \in {"starting", "delay", "select"}
         /\ pc' = [pc EXCEPT ![j] = to]
         /\ UNCHANGED <<tableVars, lockVars, src, lock, row, staleState,
                        checkVars, mainVars>>
  BY DEF LoopStep, Tick, DelayOver, LoopExit, Launch
<1>2. j \in Routines
  BY DEF Routines
<1>3. TypeOK'
  BY <1>1, <1>2 DEF IInv, TypeOK, PcStates, tableVars, lockVars, checkVars,
                    mainVars
<1>4. JobInv'
  BY <1>1, <1>2 DEF IInv, TypeOK, JobInv, NoOrphanLoop, Routines, tableVars
<1>5. LockInv'
  BY <1>1, <1>2 DEF IInv, TypeOK, LockInv, LockDiscipline, HasPointer, InSync,
                    lockVars
<1>6. QED
  BY <1>3, <1>4, <1>5 DEF IInv

\* Steps that leave the job table, the locks and the goroutines alone.
LEMMA FrameIInv ==
    ASSUME IInv, TypeOK', UNCHANGED <<tableVars, lockVars, goVars>>
    PROVE  IInv'
<1> USE DEF IInv, tableVars, lockVars, goVars
<1>1. JobInv'
  BY DEF JobInv, NoOrphanLoop
<1>2. LockInv'
  BY DEF LockInv, LockDiscipline, HasPointer, InSync
<1>3. QED
  BY <1>1, <1>2

LEMMA CheckStepIInv ==
    ASSUME IInv, CheckStep
    PROVE  IInv'
<1>1. UNCHANGED <<tableVars, lockVars, goVars>>
  BY DEF CheckStep, CheckBegin, CheckSource, SendStale, CheckExit
<1> USE DEF IInv, TypeOK, tableVars, lockVars, goVars, mainVars
<1>2. TypeOK'
  <2>1. CASE CheckBegin
    BY <2>1 DEF CheckBegin
  <2>2. ASSUME NEW s \in Sources, CheckSource(s) PROVE TypeOK'
    BY <2>2 DEF CheckSource
  <2>3. CASE SendStale
    BY <2>3 DEF SendStale
  <2>4. CASE CheckExit
    BY <2>4 DEF CheckExit
  <2>5. QED
    BY <2>1, <2>2, <2>3, <2>4 DEF CheckStep
<1>3. QED
  BY <1>1, <1>2, FrameIInv

-----------------------------------------------------------------------------
(* The methods the clients and main call.                                  *)

\* Installing a new job in place of the old one, stopping that, keeps the
\* job table and the locks in order.
LEMMA InstallJobIInv ==
    ASSUME IInv, NEW s \in Sources, NEW j \in Jobs,
           NEW first \in {"starting", "delay", "getLock"},
           InstallJob(s, j, first),
           UNCHANGED <<row, checkVars, main>>, toStart' \in SUBSET Sources
    PROVE  IInv'
<1> USE DEF IInv, InstallJob
<1>1. j \in Routines
  BY DEF Routines
<1>2. TypeOK'
  BY <1>1 DEF TypeOK, PcStates, lockVars, checkVars
<1>3. JobInv'
  <2>1. pc[j] = "unborn" /\ j \notin stopped
    BY DEF JobInv
  <2>2. /\ \A o \in Sources : jobs'[o] = IF o = s THEN j ELSE jobs[o]
        /\ \A r \in Routines : src'[r] = IF r = j THEN s ELSE src[r]
        /\ \A r \in Routines : pc'[r] = IF r = j THEN first ELSE pc[r]
    BY <1>1 DEF TypeOK
  <2>3. \A o \in Sources : jobs[o] # j
    BY <2>1, SchedulerAssumption DEF JobInv
  <2>4. \A r \in Routines : pc'[r] # "unborn" => src'[r] \in Sources
    BY <2>2 DEF JobInv
  <2>5. stopped' \subseteq Jobs /\ \A k \in stopped' : pc'[k] # "unborn"
    <3>1. stopped' \subseteq Jobs
      BY <1>2 DEF TypeOK
    <3>2. ASSUME NEW k \in stopped' PROVE pc[k] # "unborn"
      BY <3>2 DEF JobInv
    <3>3. QED
      BY <2>2, <3>1, <3>2 DEF Routines
  <2>6. ASSUME NEW o \in Sources, jobs'[o] # NoJob
        PROVE  /\ src'[jobs'[o]] = o
               /\ pc'[jobs'[o]] # "unborn"
               /\ jobs'[o] \notin stopped'
    <3>1. CASE o = s
      BY <3>1, <1>1, <2>1, <2>2, <2>3, SchedulerAssumption
    <3>2. CASE o # s
      <4>1. jobs'[o] = jobs[o] /\ jobs[o] \in Jobs
        BY <2>2, <2>6, <3>2 DEF TypeOK
      <4>2. src[jobs[o]] = o /\ pc[jobs[o]] # "unborn" /\ jobs[o] \notin stopped
        BY <2>6, <4>1 DEF JobInv
      <4>3. jobs[o] # jobs[s]
        BY <3>2, <4>1, <4>2, SchedulerAssumption DEF JobInv
      <4>4. QED
        BY <2>2, <2>3, <4>1, <4>2, <4>3 DEF Routines
    <3>3. QED
      BY <3>1, <3>2
  <2>7. ASSUME NEW k \in Jobs, pc'[k] \notin {"unborn", "done"}
        PROVE  jobs'[src'[k]] = k \/ k \in stopped'
    <3>1. CASE k = j
      BY <3>1, <1>1, <2>2
    <3>2. CASE k # j
      <4>1. k \in Routines /\ src'[k] = src[k] /\ pc'[k] = pc[k]
        BY <2>2, <3>2 DEF Routines
      <4>2. jobs[src[k]] = k \/ k \in stopped
        BY <2>7, <4>1 DEF JobInv, NoOrphanLoop
      <4>3. src[k] \in Sources
        BY <2>7, <4>1 DEF JobInv
      <4>4. QED
        BY <2>2, <4>1, <4>2, <4>3, SchedulerAssumption
    <3>3. QED
      BY <3>1, <3>2
  <2>8. QED
    BY <2>4, <2>5, <2>6, <2>7 DEF JobInv, NoOrphanLoop
<1>4. LockInv'
  <2>1. \A r \in Routines : r # j => pc'[r] = pc[r] /\ src'[r] = src[r]
    BY <1>1 DEF TypeOK
  <2>2. pc[j] = "unborn" /\ pc'[j] = first
    BY <1>1 DEF TypeOK
  <2>3. UNCHANGED <<lock, locked, syncLocks, removed>>
    BY DEF lockVars
  <2>4. QED
    BY <2>1, <2>2, <2>3 DEF LockInv, LockDiscipline, HasPointer, InSync
<1>5. QED
  BY <1>2, <1>3, <1>4

\* Taking a job out of the map together with the lock entry: goroutines keep
\* their pointers, and the source joins the removed ones.
LEMMA RemoveJobIInv ==
    ASSUME IInv, NEW s \in Sources, RemoveJob(s),
           UNCHANGED <<row, checkVars, mainVars>>
    PROVE  IInv'
<1> USE DEF IInv, TypeOK, RemoveJob, goVars, tableVars, lockVars, checkVars,
            mainVars
<1>1. TypeOK'
  OBVIOUS
<1>2. JobInv'
  <2>1. CASE jobs[s] = NoJob
    BY <2>1 DEF JobInv, NoOrphanLoop
  <2>2. CASE jobs[s] # NoJob
    <3>1. /\ stopped' = stopped \cup {jobs[s]}
          /\ \A o \in Sources : jobs'[o] = IF o = s THEN NoJob ELSE jobs[o]
          /\ UNCHANGED <<pc, src>>
      BY <2>2
    <3>2. \A o \in Sources \ {s} : jobs[o] # NoJob => jobs[o] # jobs[s]
      BY <2>2 DEF JobInv
    <3>3. QED
      BY <2>2, <3>1, <3>2, SchedulerAssumption DEF JobInv, NoOrphanLoop, Routines
  <2>3. QED
    BY <2>1, <2>2
<1>3. LockInv'
  <2>1. UNCHANGED <<pc, src, lock, locked>> /\ removed \subseteq removed'
    OBVIOUS
  <2>2. \A o \in Sources \ removed' : syncLocks'[o] = syncLocks[o]
    OBVIOUS
  <2>3. \A r \in Routines : HasPointer(r) => src[r] \in Sources
    BY DEF JobInv, HasPointer, InSync
  <2>4. QED
    BY <2>1, <2>2, <2>3 DEF LockInv, LockDiscipline, HasPointer, InSync
<1>4. QED
  BY <1>1, <1>2, <1>3

LEMMA TriggerSyncIInv ==
    ASSUME IInv, NEW s \in Sources, NEW t \in Triggers, TriggerSync(s, t),
           UNCHANGED <<row, checkVars, mainVars>>
    PROVE  IInv'
<1> USE DEF IInv, TypeOK, TriggerSync, tableVars, lockVars, checkVars, mainVars
<1>1. t \in Routines /\ t \notin Jobs
  BY SchedulerAssumption DEF Routines
<1>2. TypeOK'
  BY <1>1 DEF PcStates
<1>3. JobInv'
  BY <1>1, SchedulerAssumption DEF JobInv, NoOrphanLoop, Routines
<1>4. LockInv'
  BY <1>1 DEF LockInv, LockDiscipline, HasPointer, InSync
<1>5. QED
  BY <1>2, <1>3, <1>4

LEMMA ClientIInv ==
    ASSUME IInv, NEW s \in Sources, Client(s), UNCHANGED <<checkVars, mainVars>>
    PROVE  IInv'
<1>1. toStart' \in SUBSET Sources /\ main' = main
  BY DEF IInv, TypeOK, mainVars
<1>2. ASSUME NEW j \in Jobs, AddJob(s, j), UNCHANGED row PROVE IInv'
  BY <1>1, <1>2, InstallJobIInv DEF AddJob
<1>3. ASSUME NEW j \in Jobs, UpdateJobInterval(s, j), UNCHANGED row PROVE IInv'
  <2>1. CASE InstallJob(s, j, "starting")
    BY <1>1, <1>3, <2>1, InstallJobIInv
  <2>2. CASE UNCHANGED <<tableVars, goVars, lockVars, staleState>>
    <3>1. TypeOK'
      BY <1>3, <2>2 DEF IInv, TypeOK, tableVars, goVars, lockVars, checkVars,
                        mainVars
    <3>2. QED
      BY <2>2, <3>1, FrameIInv
  <2>3. QED
    BY <1>3, <2>1, <2>2 DEF UpdateJobInterval
<1>4. CASE RemoveJob(s) /\ UNCHANGED row
  BY <1>4, RemoveJobIInv
<1>5. ASSUME NEW t \in Triggers, TriggerSync(s, t), UNCHANGED row PROVE IInv'
  BY <1>5, TriggerSyncIInv
<1>6. CASE RowChange(s)
  <2>1. TypeOK'
    BY <1>6 DEF RowChange, IInv, TypeOK, RowStates, tableVars, goVars, lockVars,
                checkVars, mainVars
  <2>2. QED
    BY <1>6, <2>1, FrameIInv DEF RowChange
<1>7. QED
  BY <1>2, <1>3, <1>4, <1>5, <1>6 DEF Client

-----------------------------------------------------------------------------
(* main.go: Start and Stop.                                                *)

LEMMA StartJobIInv ==
    ASSUME IInv, NEW s \in Sources, NEW j \in Jobs, StartJob(s, j)
    PROVE  IInv'
<1>1. PICK first \in {"delay", "getLock"} : InstallJob(s, j, first)
  BY DEF StartJob, AddJobWithDelay
<1>2. toStart' \in SUBSET Sources /\ UNCHANGED <<row, checkVars, main>>
  BY DEF StartJob, IInv, TypeOK
<1>3. QED
  BY <1>1, <1>2, InstallJobIInv

\* Stop empties the map after closing every job in it, so that each running
\* loop is now a stopped one.
LEMMA StopJobsIInv ==
    ASSUME IInv, StopJobs
    PROVE  IInv'
<1> USE DEF IInv, TypeOK, StopJobs, MainStep, goVars, lockVars, checkVars
<1>1. TypeOK'
  BY DEF MainStates
<1>2. JobInv'
  <2>1. \A s \in Sources : jobs'[s] = NoJob
    OBVIOUS
  <2>2. stopped \subseteq stopped' /\ \A s \in Sources :
           jobs[s] # NoJob => jobs[s] \in stopped'
    OBVIOUS
  <2>3. \A j \in stopped' : pc[j] # "unborn"
    BY DEF JobInv
  <2>4. ASSUME NEW j \in Jobs, pc[j] \notin {"unborn", "done"}
        PROVE  j \in stopped'
    <3>1. src[j] \in Sources
      BY <2>4 DEF JobInv, Routines
    <3>2. jobs[src[j]] = j \/ j \in stopped
      BY <2>4 DEF JobInv, NoOrphanLoop
    <3>3. QED
      BY <2>2, <3>1, <3>2, SchedulerAssumption
  <2>5. QED
    BY <2>1, <2>3, <2>4 DEF JobInv, NoOrphanLoop
<1>3. LockInv'
  BY DEF LockInv, LockDiscipline, HasPointer, InSync
<1>4. QED
  BY <1>1, <1>2, <1>3

\* The other steps of main only change where main is.
LEMMA MainStepIInv ==
    ASSUME IInv, StartDone \/ StopCancel \/ StopWait \/ Exit
    PROVE  IInv'
<1>1. UNCHANGED <<tableVars, lockVars, goVars>>
  BY DEF StartDone, StopCancel, StopWait, Exit, MainStep
<1>2. TypeOK'
  BY DEF IInv, TypeOK, MainStates, StartDone, StopCancel, StopWait, Exit,
         MainStep, tableVars, lockVars, goVars, checkVars
<1>3. QED
  BY <1>1, <1>2, FrameIInv

-----------------------------------------------------------------------------
(* The theorems.                                                           *)

\* Every step of the specification preserves the invariant.
LEMMA NextIInv == IInv /\ [Next]_vars => IInv'
<1> SUFFICES ASSUME IInv, [Next]_vars PROVE IInv'
  OBVIOUS
<1>1. CASE Internal
  <2>1. ASSUME NEW r \in Routines, SyncStep(r) PROVE IInv'
    BY <2>1, SyncStepIInv
  <2>2. ASSUME NEW j \in Jobs, LoopStep(j) PROVE IInv'
    BY <2>2, LoopStepIInv
  <2>3. ASSUME NEW s \in Sources, NEW j \in Jobs, StartJob(s, j) PROVE IInv'
    BY <2>3, StartJobIInv
  <2>4. QED
    BY <1>1, <2>1, <2>2, <2>3, CheckStepIInv, MainStepIInv, StopJobsIInv
       DEF Internal, StopStep
<1>2. ASSUME NEW s \in Sources, Client(s), UNCHANGED <<checkVars, mainVars>>
      PROVE  IInv'
  BY <1>2, ClientIInv
<1>3. CASE UNCHANGED vars
  <2>1. TypeOK'
    BY <1>3 DEF vars, IInv, TypeOK, tableVars, lockVars, goVars, checkVars,
                mainVars
  <2>2. QED
    BY <1>3, <2>1, FrameIInv DEF vars
<1>4. QED
  BY <1>1, <1>2, <1>3 DEF Next

\* The inductive invariant holds in every reachable state.
THEOREM Invariance == Spec => []IInv
<1>1. QED
  BY InitIInv, NextIInv, PTL DEF Spec

\* Type correctness of the scheduler's state.
THEOREM TypeCorrect == Spec => []TypeOK
<1>1. IInv => TypeOK
  BY DEF IInv
<1>2. QED
  BY <1>1, Invariance, PTL

\* No call of AddJob, RemoveJob, UpdateJobInterval or Stop closes a stopCh
\* that is closed already: the panic "close of closed channel" cannot happen.
THEOREM ClosesOnce == Spec => []NoDoubleClose
<1>1. IInv => NoDoubleClose
  BY DEF IInv, JobInv, NoDoubleClose
<1>2. QED
  BY <1>1, Invariance, PTL

\* A job loop that runs is under control: it is in the map, or it is stopped.
THEOREM LoopsControlled == Spec => []NoOrphanLoop
<1>1. IInv => NoOrphanLoop
  BY DEF IInv, JobInv
<1>2. QED
  BY <1>1, Invariance, PTL

\* A per-source mutex has one owner, and a locked one has an owner.
THEOREM LocksDisciplined == Spec => []LockDiscipline
<1>1. IInv => LockDiscipline
  BY DEF IInv, LockInv
<1>2. QED
  BY <1>1, Invariance, PTL

\* Two goroutines inside a sync of one source share its lock, as long as the
\* entry has not been removed.
LEMMA OneSyncPerSource == IInv => ExclusiveUnlessRemoved
<1> SUFFICES ASSUME IInv, NEW r1 \in Routines, NEW r2 \in Routines,
                    InSync(r1), InSync(r2), src[r1] = src[r2],
                    src[r1] \notin removed
             PROVE  r1 = r2
  BY DEF ExclusiveUnlessRemoved
<1>1. lock[r1] = syncLocks[src[r1]] /\ lock[r2] = syncLocks[src[r1]]
  BY DEF IInv, LockInv, HasPointer
<1>2. QED
  BY <1>1 DEF IInv, LockInv, LockDiscipline

\* A source is synced by one goroutine at a time until RemoveJob has deleted
\* its lock entry.
THEOREM SyncsExclusive == Spec => []ExclusiveUnlessRemoved
  BY OneSyncPerSource, Invariance, PTL

-----------------------------------------------------------------------------
(* The locks of different sources are different objects.                   *)

LEMMA PrivateInit == Init => LocksPrivate
BY DEF Init, LocksPrivate, Routines

\* A step that forgets pointers, and moves no goroutine that keeps one to
\* another source, cannot mix locks up.
LEMMA PrivateFrame ==
    ASSUME LocksPrivate,
           \A s \in Sources : syncLocks'[s] \in {syncLocks[s], NoLock},
           \A r \in Routines : lock'[r] # NoLock =>
               lock'[r] = lock[r] /\ src'[r] = src[r]
    PROVE  LocksPrivate'
BY DEF LocksPrivate

\* Only getSyncLock makes a pointer: a copy of the map's, or one to a mutex
\* that nobody else points to.
LEMMA PrivateGetSyncLock ==
    ASSUME IInv, LocksPrivate, NEW r \in Routines, NEW l \in Locks,
           GetSyncLock(r, l)
    PROVE  LocksPrivate'
<1>1. /\ src[r] \in Sources
      /\ lock' = [lock EXCEPT ![r] = l] /\ lock \in [Routines -> Locks \cup {NoLock}]
      /\ src' = src
      /\ l # NoLock
  BY SchedulerAssumption DEF IInv, TypeOK, JobInv, GetSyncLock
<1>2. CASE l = syncLocks[src[r]] /\ syncLocks' = syncLocks
  BY <1>1, <1>2 DEF LocksPrivate
<1>3. CASE Fresh(l) /\ syncLocks' = [syncLocks EXCEPT ![src[r]] = l]
  <2>1. \A s \in Sources : syncLocks'[s] = IF s = src[r] THEN l ELSE syncLocks[s]
    BY <1>3 DEF IInv, TypeOK
  <2>2. \A q \in Routines : lock'[q] = IF q = r THEN l ELSE lock[q]
    BY <1>1
  <2>3. QED
    BY <1>1, <1>3, <2>1, <2>2 DEF LocksPrivate, Fresh
<1>4. QED
  BY <1>2, <1>3 DEF GetSyncLock

LEMMA PrivateSyncStep ==
    ASSUME IInv, LocksPrivate, NEW r \in Routines, SyncStep(r)
    PROVE  LocksPrivate'
<1> USE PrivateFrame DEF IInv, TypeOK
<1>1. CASE TryLock(r)
  BY <1>1 DEF TryLock
<1>2. CASE GetSource(r)
  BY <1>2 DEF GetSource, Unlock
<1>3. CASE SyncSucceeds(r)
  BY <1>3 DEF SyncSucceeds, lockVars
<1>4. CASE SyncFails(r)
  BY <1>4 DEF SyncFails, Unlock
<1>5. CASE SendRecovery(r)
  BY <1>5 DEF SendRecovery, Unlock
<1>6. QED
  BY <1>1, <1>2, <1>3, <1>4, <1>5, PrivateGetSyncLock DEF SyncStep

\* A goroutine that is born has no pointer yet.
LEMMA PrivateBirth ==
    ASSUME IInv, LocksPrivate, NEW r \in Routines, pc[r] = "unborn",
           NEW s \in Sources, src' = [src EXCEPT ![r] = s],
           UNCHANGED <<lock, syncLocks>>
    PROVE  LocksPrivate'
<1>1. lock[r] = NoLock
  BY DEF IInv, LockInv, HasPointer, InSync
<1>2. QED
  BY <1>1, PrivateFrame DEF IInv, TypeOK

LEMMA PrivateInstall ==
    ASSUME IInv, LocksPrivate, NEW s \in Sources, NEW j \in Jobs, NEW first,
           InstallJob(s, j, first)
    PROVE  LocksPrivate'
BY PrivateBirth DEF InstallJob, Routines, lockVars

LEMMA PrivateClient ==
    ASSUME IInv, LocksPrivate, NEW s \in Sources, Client(s)
    PROVE  LocksPrivate'
<1>1. ASSUME NEW j \in Jobs, AddJob(s, j) PROVE LocksPrivate'
  BY <1>1, PrivateInstall DEF AddJob
<1>2. ASSUME NEW j \in Jobs, UpdateJobInterval(s, j) PROVE LocksPrivate'
  BY <1>2, PrivateInstall, PrivateFrame DEF UpdateJobInterval, goVars, lockVars
<1>3. ASSUME NEW t \in Triggers, TriggerSync(s, t) PROVE LocksPrivate'
  BY <1>3, PrivateBirth DEF TriggerSync, Routines, lockVars
<1>4. CASE RemoveJob(s)
  BY <1>4, PrivateFrame DEF RemoveJob, goVars, IInv, TypeOK
<1>5. CASE RowChange(s)
  BY <1>5, PrivateFrame DEF RowChange, goVars, lockVars
<1>6. QED
  BY <1>1, <1>2, <1>3, <1>4, <1>5 DEF Client

\* Every step keeps the locks of different sources apart.
LEMMA PrivateNext == IInv /\ LocksPrivate /\ [Next]_vars => LocksPrivate'
<1> SUFFICES ASSUME IInv, LocksPrivate, [Next]_vars PROVE LocksPrivate'
  OBVIOUS
<1>1. ASSUME NEW j \in Jobs, LoopStep(j) PROVE LocksPrivate'
  BY <1>1, PrivateFrame DEF LoopStep, Tick, DelayOver, LoopExit, Launch, lockVars
<1>2. ASSUME NEW s \in Sources, NEW j \in Jobs, StartJob(s, j)
      PROVE  LocksPrivate'
  BY <1>2, PrivateInstall DEF StartJob, AddJobWithDelay
<1>3. CASE CheckStep
  BY <1>3, PrivateFrame DEF CheckStep, CheckBegin, CheckSource, SendStale,
     CheckExit, goVars, lockVars
<1>4. CASE StartDone \/ StopStep
  BY <1>4, PrivateFrame DEF StartDone, StopStep, StopCancel, StopJobs,
     StopWait, Exit, MainStep, goVars, lockVars
<1>5. CASE UNCHANGED vars
  BY <1>5, PrivateFrame DEF vars, goVars, lockVars
<1>6. QED
  BY <1>1, <1>2, <1>3, <1>4, <1>5, PrivateSyncStep, PrivateClient
     DEF Next, Internal

\* No goroutine and no map entry of one source ever points to the mutex of
\* another: a source's sync is never skipped because another one is syncing.
THEOREM LocksApart == Spec => []LocksPrivate
<1>1. QED
  BY PrivateInit, PrivateNext, Invariance, PTL DEF Spec

-----------------------------------------------------------------------------
(* Refinement.                                                             *)

\* The value the refinement mapping gives to SyncExclusion's `running`.
Running == [s \in Sources |->
               IF s \in removed THEN {}
               ELSE {r \in Routines : src[r] = s /\ InSync(r)}]

LEMMA ExclusionInit == Init => Exclusion!Init
BY DEF Init, Exclusion!Init, InSync

\* Steps that move no goroutine into or out of a sync map to stutters.
LEMMA ExclusionFrame ==
    ASSUME IInv, UNCHANGED removed,
           \A r \in Routines : /\ InSync(r)' <=> InSync(r)
                               /\ InSync(r) => src'[r] = src[r]
    PROVE  UNCHANGED Exclusion!xvars
<1>1. \A s \in Sources :
         {r \in Routines : src'[r] = s /\ InSync(r)'}
            = {r \in Routines : src[r] = s /\ InSync(r)}
  OBVIOUS
<1>2. QED
  BY <1>1 DEF Exclusion!xvars

\* Taking the lock begins a sync; the lock being free, nobody else is in one.
LEMMA ExclusionBegin ==
    ASSUME IInv, NEW r \in Routines, pc[r] = "tryLock", lock[r] \notin locked,
           pc' = [pc EXCEPT ![r] = "getSource"], UNCHANGED <<src, removed>>
    PROVE  [Exclusion!Next]_(Exclusion!xvars)
<1> USE DEF InSync
<1>1. src[r] \in Sources
  BY DEF IInv, JobInv
<1>2. \A q \in Routines : q # r => (InSync(q)' <=> InSync(q))
  BY DEF IInv, TypeOK
<1>3. ~InSync(r) /\ InSync(r)'
  BY DEF IInv, TypeOK, PcStates
<1>4. \A s \in Sources : s # src[r] => Running'[s] = Running[s]
  BY <1>2 DEF Running
<1>5. CASE src[r] \in removed
  <2>1. Running' = Running
    BY <1>4, <1>5 DEF Running
  <2>2. QED
    BY <2>1 DEF Running, Exclusion!xvars
<1>6. CASE src[r] \notin removed
  <2>1. ASSUME NEW q \in Routines, src[q] = src[r], InSync(q) PROVE FALSE
    <3>1. lock[q] \in locked
      BY <2>1 DEF IInv, LockInv
    <3>2. lock[q] = syncLocks[src[r]] /\ lock[r] = syncLocks[src[r]]
      BY <1>6, <2>1 DEF IInv, LockInv, HasPointer
    <3>3. QED
      BY <3>1, <3>2
  <2>2. Running[src[r]] = {}
    BY <1>1, <1>6, <2>1 DEF Running
  <2>3. Running'[src[r]] = {r}
    BY <1>1, <1>2, <1>3, <1>6, <2>1 DEF Running
  <2>4. Running' = [Running EXCEPT ![src[r]] = {r}]
    BY <1>1, <1>4, <2>3 DEF Running
  <2>5. PICK s \in Sources : s = src[r]
    BY <1>1
  <2>6. Exclusion!Begin(s, r)
    BY <1>6, <2>2, <2>4, <2>5 DEF Running, Exclusion!Begin
  <2>7. QED
    BY <2>6 DEF Exclusion!Next
<1>7. QED
  BY <1>5, <1>6

\* Giving the lock back ends the sync, the only one of its source.
LEMMA ExclusionEnd ==
    ASSUME IInv, NEW r \in Routines, InSync(r), Unlock(r),
           UNCHANGED <<src, removed>>
    PROVE  [Exclusion!Next]_(Exclusion!xvars)
<1>1. src[r] \in Sources
  BY DEF IInv, JobInv, InSync
<1>2. \A q \in Routines : q # r => (InSync(q)' <=> InSync(q))
  BY DEF IInv, TypeOK, InSync, Unlock
<1>3. ~InSync(r)'
  BY DEF IInv, TypeOK, PcStates, InSync, Unlock, AfterSync
<1>4. \A s \in Sources : s # src[r] => Running'[s] = Running[s]
  BY <1>2 DEF Running
<1>5. CASE src[r] \in removed
  <2>1. Running' = Running
    BY <1>4, <1>5 DEF Running
  <2>2. QED
    BY <2>1 DEF Running, Exclusion!xvars
<1>6. CASE src[r] \notin removed
  <2>1. \A q \in Routines : src[q] = src[r] /\ InSync(q) => q = r
    BY <1>6, OneSyncPerSource DEF ExclusiveUnlessRemoved
  <2>2. Running[src[r]] = {r}
    BY <1>1, <1>6, <2>1 DEF Running
  <2>3. Running'[src[r]] = {}
    BY <1>1, <1>2, <1>3, <2>1 DEF Running
  <2>4. Running' = [Running EXCEPT ![src[r]] = {}]
    BY <1>1, <1>4, <2>3 DEF Running
  <2>5. PICK s \in Sources : s = src[r]
    BY <1>1
  <2>6. Exclusion!End(s, r)
    BY <2>2, <2>4, <2>5 DEF Running, Exclusion!End
  <2>7. QED
    BY <2>6 DEF Exclusion!Next
<1>7. QED
  BY <1>5, <1>6

LEMMA ExclusionSyncStep ==
    ASSUME IInv, NEW r \in Routines, SyncStep(r)
    PROVE  [Exclusion!Next]_(Exclusion!xvars)
<1> USE DEF IInv, TypeOK
<1>1. ASSUME NEW l \in Locks, GetSyncLock(r, l)
      PROVE  [Exclusion!Next]_(Exclusion!xvars)
  BY <1>1, ExclusionFrame DEF GetSyncLock, InSync
<1>2. CASE TryLock(r)
  <2>1. CASE lock[r] \in locked
    BY <1>2, <2>1, ExclusionFrame DEF TryLock, InSync, AfterSync
  <2>2. CASE lock[r] \notin locked
    BY <1>2, <2>2, ExclusionBegin DEF TryLock
  <2>3. QED
    BY <2>1, <2>2
<1>3. CASE GetSource(r)
  <2>1. CASE row[src[r]] = "enabled"
    BY <1>3, <2>1, ExclusionFrame DEF GetSource, InSync
  <2>2. CASE row[src[r]] # "enabled"
    BY <1>3, <2>2, ExclusionEnd DEF GetSource, InSync
  <2>3. QED
    BY <2>1, <2>2
<1>4. CASE SyncSucceeds(r)
  BY <1>4, ExclusionFrame DEF SyncSucceeds, InSync, lockVars
<1>5. CASE SyncFails(r)
  BY <1>5, ExclusionEnd DEF SyncFails, InSync
<1>6. CASE SendRecovery(r)
  BY <1>6, ExclusionEnd DEF SendRecovery, InSync
<1>7. QED
  BY <1>1, <1>2, <1>3, <1>4, <1>5, <1>6 DEF SyncStep

\* Removing a job for the first time retires its source.
LEMMA ExclusionRemove ==
    ASSUME IInv, NEW s \in Sources, RemoveJob(s)
    PROVE  [Exclusion!Next]_(Exclusion!xvars)
<1>1. UNCHANGED <<pc, src>>
  BY DEF RemoveJob, goVars
<1>2. CASE removed' = removed
  BY <1>1, <1>2, ExclusionFrame DEF InSync
<1>3. CASE removed' # removed
  <2>1. s \notin removed /\ removed' = removed \cup {s}
    BY <1>3 DEF RemoveJob
  <2>2. Running' = [Running EXCEPT ![s] = {}]
    BY <1>1, <2>1 DEF Running, InSync
  <2>3. Exclusion!Retire(s)
    BY <2>1, <2>2 DEF Running, Exclusion!Retire
  <2>4. QED
    BY <2>3 DEF Exclusion!Next
<1>4. QED
  BY <1>2, <1>3

LEMMA ExclusionInstall ==
    ASSUME IInv, NEW s \in Sources, NEW j \in Jobs,
           NEW first \in {"starting", "delay", "getLock"},
           InstallJob(s, j, first)
    PROVE  UNCHANGED Exclusion!xvars
BY ExclusionFrame DEF InstallJob, lockVars, InSync, IInv, TypeOK, Routines

\* Steps that move no goroutine at all.
LEMMA ExclusionStutter ==
    ASSUME IInv, UNCHANGED <<pc, src, removed>>
    PROVE  UNCHANGED Exclusion!xvars
BY ExclusionFrame DEF InSync

LEMMA ExclusionClient ==
    ASSUME IInv, NEW s \in Sources, Client(s)
    PROVE  [Exclusion!Next]_(Exclusion!xvars)
<1>1. ASSUME NEW j \in Jobs, AddJob(s, j) PROVE UNCHANGED Exclusion!xvars
  BY <1>1, ExclusionInstall DEF AddJob
<1>2. ASSUME NEW j \in Jobs, UpdateJobInterval(s, j)
      PROVE  UNCHANGED Exclusion!xvars
  BY <1>2, ExclusionInstall, ExclusionStutter
     DEF UpdateJobInterval, goVars, lockVars
<1>3. ASSUME NEW t \in Triggers, TriggerSync(s, t)
      PROVE  UNCHANGED Exclusion!xvars
  BY <1>3, ExclusionFrame DEF TriggerSync, lockVars, InSync, IInv, TypeOK, Routines
<1>4. CASE RowChange(s)
  BY <1>4, ExclusionStutter DEF RowChange, goVars, lockVars
<1>5. QED
  BY <1>1, <1>2, <1>3, <1>4, ExclusionRemove DEF Client

\* Every step of the scheduler is a step of SyncExclusion or a stutter.
LEMMA ExclusionNext ==
    IInv /\ [Next]_vars => [Exclusion!Next]_(Exclusion!xvars)
<1> SUFFICES ASSUME IInv, [Next]_vars
             PROVE  [Exclusion!Next]_(Exclusion!xvars)
  OBVIOUS
<1>1. ASSUME NEW j \in Jobs, LoopStep(j) PROVE UNCHANGED Exclusion!xvars
  BY <1>1, ExclusionFrame DEF LoopStep, Tick, DelayOver, LoopExit, Launch,
     lockVars, InSync, IInv, TypeOK
<1>2. ASSUME NEW s \in Sources, NEW j \in Jobs, StartJob(s, j)
      PROVE  UNCHANGED Exclusion!xvars
  BY <1>2, ExclusionInstall DEF StartJob, AddJobWithDelay
<1>3. CASE CheckStep
  BY <1>3, ExclusionStutter DEF CheckStep, CheckBegin, CheckSource, SendStale,
     CheckExit, goVars, lockVars
<1>4. CASE StartDone \/ StopStep
  BY <1>4, ExclusionStutter DEF StartDone, StopStep, StopCancel, StopJobs,
     StopWait, Exit, MainStep, goVars, lockVars
<1>5. CASE UNCHANGED vars
  BY <1>5, ExclusionStutter DEF vars, goVars, lockVars
<1>6. QED
  BY <1>1, <1>2, <1>3, <1>4, <1>5, ExclusionSyncStep, ExclusionClient
     DEF Next, Internal

\* The scheduler implements the one-sync-at-a-time specification: sources are
\* synced by one goroutine at a time until their lock is thrown away.
THEOREM ExclusionRefined == Spec => ImplementsExclusion
<1>1. QED
  BY ExclusionInit, ExclusionNext, Invariance, PTL
     DEF Spec, ImplementsExclusion, Exclusion!Spec
=============================================================================
