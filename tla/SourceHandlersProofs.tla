------------------------ MODULE SourceHandlersProofs ------------------------
(***************************************************************************)
(* Machine-checked theorems about SourceHandlers, for every set of         *)
(* sources, jobs and handlers, with writes that may fail.                  *)
(*                                                                         *)
(* First, the handlers use the scheduler only as its specification         *)
(* foresees, so that what SchedulerProofs shows of the scheduler holds of  *)
(* the two together.  Second, as long as requests for one source do not    *)
(* overlap, the job table mirrors the table of sources.                    *)
(***************************************************************************)
EXTENDS SourceHandlers, SchedulerProofs

-----------------------------------------------------------------------------
(* The handlers implement the scheduler's clients.                         *)

LEMMA InitRequests == HInit => RequestInv
BY DEF HInit, RequestInv

\* A handler that works on a source has found it among the sources.
LEMMA BusySource ==
    ASSUME HTypeOK, RequestInv, NEW h \in Handlers, hpc[h] # "idle"
    PROVE  hsrc[h] \in Sources
BY DEF HTypeOK, RequestInv

\* Inserting a row, or changing or deleting one that exists, is a step the
\* scheduler's specification allows a client, or no change at all.
LEMMA RowSet ==
    ASSUME TypeOK, NEW s \in Sources, NEW v \in {"enabled", "disabled", "deleted"},
           \/ row[s] \in {"enabled", "disabled", v}
           \/ row[s] = "none" /\ v = "enabled",
           row' = [row EXCEPT ![s] = v], UNCHANGED schedVars
    PROVE  RowChange(s) \/ UNCHANGED <<row, schedVars>>
<1>1. CASE row[s] = v
  BY <1>1 DEF TypeOK
<1>2. CASE row[s] # v
  BY <1>2 DEF RowChange, schedVars, tableVars, lockVars, goVars
<1>3. QED
  BY <1>1, <1>2

\* Every step of a handler is a client's step of the scheduler, or changes
\* neither the scheduler nor the rows.
LEMMA StepIsClient ==
    ASSUME HTypeOK, RequestInv, NEW h \in Handlers, HandlerStep(h)
    PROVE  (\E s \in Sources : Client(s)) \/ UNCHANGED <<row, schedVars>>
<1> USE DEF Client
<1>1. TypeOK
  BY DEF HTypeOK
<1>2. CASE ToggleApply(h)
  BY <1>2, BusySource DEF ToggleApply
<1>3. CASE DeleteRow(h)
  <2>1. hsrc[h] \in Sources /\ row[hsrc[h]] \in {"enabled", "disabled", "deleted"}
    BY <1>1, <1>3, BusySource DEF DeleteRow, RequestInv, TypeOK, RowStates
  <2>2. CASE row' = [row EXCEPT ![hsrc[h]] = "deleted"]
    <3>1. UNCHANGED schedVars
      BY <1>3 DEF DeleteRow
    <3>2. PICK s \in Sources : s = hsrc[h]
      BY <2>1
    <3>3. RowChange(s) \/ UNCHANGED <<row, schedVars>>
      BY <1>1, <2>1, <2>2, <3>1, <3>2, RowSet
    <3>4. QED
      BY <3>3
  <2>3. CASE UNCHANGED row
    BY <1>3, <2>3 DEF DeleteRow
  <2>4. QED
    BY <1>3, <2>2, <2>3 DEF DeleteRow
<1>4. ASSUME NEW s \in Sources, CreateSource(h, s)
      PROVE  Client(s) \/ UNCHANGED <<row, schedVars>>
  BY <1>1, <1>4, RowSet DEF CreateSource
<1>5. ASSUME NEW s \in Sources, UpdateRead(h, s) \/ ToggleRead(h, s)
                                \/ DeleteRead(h, s) \/ TriggerRead(h, s)
      PROVE  UNCHANGED <<row, schedVars>>
  BY <1>5 DEF UpdateRead, ToggleRead, DeleteRead, TriggerRead, ReadRow
<1>6. CASE CreateAddJob(h)
  BY <1>6, BusySource DEF CreateAddJob
<1>7. ASSUME NEW from \in {"update", "toggle"}, NEW next, WriteRow(h, from, next)
      PROVE  (\E s \in Sources : Client(s)) \/ UNCHANGED <<row, schedVars>>
  <2>1. hsrc[h] \in Sources /\ hrow[h] \in {"enabled", "disabled"}
    BY <1>7, BusySource DEF WriteRow, RequestInv
  <2>2. UNCHANGED schedVars
    BY <1>7 DEF WriteRow
  <2>3. CASE Exists(hsrc[h]) /\ row' = [row EXCEPT ![hsrc[h]] = hrow[h]]
    <3>1. PICK s \in Sources, v \in {"enabled", "disabled"} :
             s = hsrc[h] /\ v = hrow[h]
      BY <2>1
    <3>2. RowChange(s) \/ UNCHANGED <<row, schedVars>>
      BY <1>1, <2>2, <2>3, <3>1, RowSet DEF Exists
    <3>3. QED
      BY <3>2
  <2>4. CASE UNCHANGED row
    BY <2>2, <2>4
  <2>5. QED
    BY <1>7, <2>3, <2>4 DEF WriteRow
<1>8. CASE UpdateReschedule(h)
  BY <1>8, BusySource DEF UpdateReschedule
<1>9. CASE DeleteUnschedule(h)
  BY <1>9, BusySource DEF DeleteUnschedule
<1>10. CASE Trigger(h)
  BY <1>10, BusySource DEF Trigger
<1>11. QED
  BY <1>2, <1>3, <1>4, <1>5, <1>6, <1>7, <1>8, <1>9, <1>10
     DEF HandlerStep, UpdateWrite, ToggleWrite

\* So every step of the two together is one the scheduler's specification
\* allows.
LEMMA StepIsNext ==
    ASSUME HTypeOK, RequestInv, [HNext]_<<vars, hvars>>
    PROVE  [Next]_vars
<1>1. CASE Internal
  BY <1>1 DEF Next
<1>2. ASSUME NEW h \in Handlers, Serving, HandlerStep(h),
             UNCHANGED <<checkVars, mainVars>>
      PROVE  [Next]_vars
  <2>1. CASE UNCHANGED <<row, schedVars>>
    BY <1>2, <2>1 DEF vars, schedVars
  <2>2. CASE \E s \in Sources : Client(s)
    BY <1>2, <2>2 DEF Next
  <2>3. QED
    BY <1>2, <2>1, <2>2, StepIsClient
<1>3. CASE UNCHANGED <<vars, hvars>>
  BY <1>3
<1>4. QED
  BY <1>1, <1>2, <1>3 DEF HNext

\* A handler's step keeps its own variables in their types.
LEMMA StepTypes ==
    ASSUME HTypeOK, RequestInv, NEW h \in Handlers, HandlerStep(h)
    PROVE  /\ hpc' \in [Handlers -> HandlerStates]
           /\ hsrc' \in [Handlers -> Sources \cup {NoSource}]
           /\ hrow' \in [Handlers -> RowStates]
           /\ stranded' \subseteq Sources
<1> USE DEF HTypeOK, HandlerStates, RowStates, Goto, Answer
<1>1. CASE ToggleApply(h)
  BY <1>1 DEF ToggleApply
<1>2. CASE DeleteRow(h)
  BY <1>2, BusySource DEF DeleteRow
<1>3. ASSUME NEW s \in Sources, UNCHANGED stranded,
             \/ CreateSource(h, s) \/ UpdateRead(h, s) \/ ToggleRead(h, s)
             \/ DeleteRead(h, s) \/ TriggerRead(h, s)
      PROVE  /\ hpc' \in [Handlers -> HandlerStates]
             /\ hsrc' \in [Handlers -> Sources \cup {NoSource}]
             /\ hrow' \in [Handlers -> RowStates]
             /\ stranded' \subseteq Sources
  BY <1>3 DEF CreateSource, UpdateRead, ToggleRead, DeleteRead, TriggerRead,
     ReadRow, TypeOK
<1>4. CASE UNCHANGED stranded /\ (CreateAddJob(h) \/ UpdateReschedule(h)
                                   \/ DeleteUnschedule(h) \/ Trigger(h))
  BY <1>4 DEF CreateAddJob, UpdateReschedule, DeleteUnschedule, Trigger
<1>5. CASE UNCHANGED stranded /\ (UpdateWrite(h) \/ ToggleWrite(h))
  BY <1>5 DEF UpdateWrite, ToggleWrite, WriteRow
<1>6. QED
  BY <1>1, <1>2, <1>3, <1>4, <1>5 DEF HandlerStep

\* What a step of handler h does to the rows and to the other handlers.
LEMMA StepFrame ==
    ASSUME HTypeOK, RequestInv, NEW h \in Handlers, HandlerStep(h)
    PROVE  /\ \A g \in Handlers \ {h} : /\ hpc'[g] = hpc[g]
                                       /\ hsrc'[g] = hsrc[g]
                                       /\ hrow'[g] = hrow[g]
           /\ \A s \in Sources : row[s] # "none" => row'[s] # "none"
<1> USE DEF HTypeOK, TypeOK, Goto, Answer
<1>1. CASE ToggleApply(h)
  BY <1>1 DEF ToggleApply
<1>2. CASE DeleteRow(h)
  BY <1>2 DEF DeleteRow
<1>3. ASSUME NEW s \in Sources, CreateSource(h, s) \/ UpdateRead(h, s)
             \/ ToggleRead(h, s) \/ DeleteRead(h, s) \/ TriggerRead(h, s)
      PROVE  /\ \A g \in Handlers \ {h} : /\ hpc'[g] = hpc[g]
                                         /\ hsrc'[g] = hsrc[g]
                                         /\ hrow'[g] = hrow[g]
             /\ \A o \in Sources : row[o] # "none" => row'[o] # "none"
  BY <1>3 DEF CreateSource, UpdateRead, ToggleRead, DeleteRead, TriggerRead,
     ReadRow
<1>4. CASE CreateAddJob(h) \/ UpdateReschedule(h) \/ DeleteUnschedule(h)
           \/ Trigger(h)
  BY <1>4 DEF CreateAddJob, UpdateReschedule, DeleteUnschedule, Trigger
<1>5. CASE UpdateWrite(h) \/ ToggleWrite(h)
  BY <1>5 DEF UpdateWrite, ToggleWrite, WriteRow, RequestInv
<1>6. QED
  BY <1>1, <1>2, <1>3, <1>4, <1>5 DEF HandlerStep

\* Where handler h stands after its step.
LEMMA StepRequest ==
    ASSUME HTypeOK, RequestInv, NEW h \in Handlers, HandlerStep(h)
    PROVE  /\ hpc'[h] = "idle" <=> hsrc'[h] = NoSource
           /\ hpc'[h] # "idle" => row'[hsrc'[h]] # "none"
           /\ hpc'[h] \in {"add", "update", "reschedule", "toggle", "apply"} =>
                 hrow'[h] \in {"enabled", "disabled"}
<1> DEFINE After == /\ hpc'[h] = "idle" <=> hsrc'[h] = NoSource
                    /\ hpc'[h] # "idle" => row'[hsrc'[h]] # "none"
                    /\ hpc'[h] \in {"add", "update", "reschedule", "toggle",
                                    "apply"} =>
                          hrow'[h] \in {"enabled", "disabled"}
<1> USE SchedulerAssumption DEF HTypeOK, TypeOK, Goto, Answer, Exists
<1>1. CASE ToggleApply(h)
  BY <1>1 DEF ToggleApply
<1>2. CASE DeleteRow(h)
  BY <1>2 DEF DeleteRow
<1>3. ASSUME NEW s \in Sources, CreateSource(h, s) PROVE After
  BY <1>3 DEF CreateSource
<1>4. ASSUME NEW s \in Sources, UpdateRead(h, s) \/ ToggleRead(h, s)
             \/ DeleteRead(h, s) \/ TriggerRead(h, s)
      PROVE  After
  BY <1>4 DEF UpdateRead, ToggleRead, DeleteRead, TriggerRead, ReadRow
<1>5. CASE CreateAddJob(h) \/ UpdateReschedule(h) \/ Trigger(h)
  BY <1>5 DEF CreateAddJob, UpdateReschedule, Trigger
<1>6. CASE DeleteUnschedule(h)
  BY <1>6 DEF DeleteUnschedule, RequestInv
<1>7. CASE UpdateWrite(h) \/ ToggleWrite(h)
  BY <1>7 DEF UpdateWrite, ToggleWrite, WriteRow, RequestInv
<1>8. QED
  BY <1>1, <1>2, <1>3, <1>4, <1>5, <1>6, <1>7 DEF HandlerStep

\* The scheduler moves no row and no handler.
LEMMA InternalFrame == Internal => UNCHANGED row
BY DEF Internal, SyncStep, GetSyncLock, TryLock, GetSource, SyncSucceeds,
   SyncFails, SendRecovery, LoopStep, Tick, DelayOver, LoopExit, Launch,
   CheckStep, CheckBegin, CheckSource, SendStale, CheckExit, StartJob,
   StartDone, StopStep, StopCancel, StopJobs, StopWait, Exit, MainStep

\* The invariant of the scheduler and that of the requests, together.
LEMMA RequestsNext ==
    IInv /\ HTypeOK /\ RequestInv /\ [HNext]_<<vars, hvars>>
        => IInv' /\ HTypeOK' /\ RequestInv'
<1> SUFFICES ASSUME IInv, HTypeOK, RequestInv, [HNext]_<<vars, hvars>>
             PROVE  IInv' /\ HTypeOK' /\ RequestInv'
  OBVIOUS
<1>1. IInv' /\ TypeOK'
  BY StepIsNext, NextIInv DEF IInv
<1>2. CASE UNCHANGED <<row, hvars>>
  BY <1>1, <1>2 DEF HTypeOK, RequestInv, hvars
<1>3. ASSUME NEW h \in Handlers, HandlerStep(h) PROVE HTypeOK' /\ RequestInv'
  <2>1. HTypeOK'
    BY <1>1, <1>3, StepTypes DEF HTypeOK
  <2>2. \A g \in Handlers \ {h} : hpc[g] # "idle" => hsrc[g] \in Sources
    BY BusySource
  <2>3. RequestInv'
    BY <1>3, <2>2, StepFrame, StepRequest DEF RequestInv
  <2>4. QED
    BY <2>1, <2>3
<1>4. QED
  BY <1>1, <1>2, <1>3, InternalFrame DEF HNext, vars

LEMMA RequestsInit == HInit => IInv /\ HTypeOK /\ RequestInv
<1> SUFFICES ASSUME HInit PROVE IInv /\ HTypeOK /\ RequestInv
  OBVIOUS
<1>1. IInv
  BY InitIInv DEF HInit
<1>2. HTypeOK
  BY <1>1 DEF HInit, HTypeOK, IInv, HandlerStates, RowStates
<1>3. QED
  BY <1>1, <1>2, InitRequests

LEMMA RequestsInvariant == HSpec => [](IInv /\ HTypeOK /\ RequestInv)
<1>1. QED
  BY RequestsInit, RequestsNext, PTL DEF HSpec

\* Type correctness of the handlers' state and the scheduler's.
THEOREM HandlersTypeCorrect == HSpec => []HTypeOK
<1>1. QED
  BY RequestsInvariant, PTL

\* The handlers of api_handlers.go with the scheduler implement the
\* scheduler's own specification, in which clients call its methods in any
\* order: whatever holds of that holds of the program's use of it.
THEOREM SchedulerRefined == HSpec => Spec
<1>1. HInit => Init
  BY DEF HInit
<1>2. QED
  BY <1>1, StepIsNext, RequestsInvariant, PTL DEF HSpec, Spec

\* In particular requests, however they overlap and fail, cannot make the
\* scheduler close a stopCh twice, lose a job loop, share a lock between
\* sources or sync a source twice at once before its lock is thrown away.
THEOREM HandlersKeepScheduler ==
    HSpec => /\ [](NoDoubleClose /\ NoOrphanLoop /\ LockDiscipline)
             /\ [](LocksPrivate /\ ExclusiveUnlessRemoved)
             /\ ImplementsExclusion
BY SchedulerRefined, ClosesOnce, LoopsControlled, LocksDisciplined, LocksApart,
   SyncsExclusive, ExclusionRefined, PTL

-----------------------------------------------------------------------------
(* The job table mirrors the table of sources.                             *)

LEMMA MirrorInit == HInit => MirrorInv
<1> SUFFICES ASSUME HInit PROVE MirrorInv
  OBVIOUS
<1>1. \A s \in Sources : Mirrored(s)
  BY DEF HInit, Init, Mirrored
<1>2. QED
  BY <1>1 DEF HInit, Init, MirrorInv, AllIdle

\* What a method of the scheduler does to the job table.
LEMMA MethodOnJobs ==
    ASSUME TypeOK, NEW s \in Sources
    PROVE  /\ \A j \in Jobs : AddJob(s, j) => jobs' = [jobs EXCEPT ![s] = j]
           /\ RemoveJob(s) => jobs' = [jobs EXCEPT ![s] = NoJob]
           /\ \A j \in Jobs : UpdateJobInterval(s, j) =>
                 jobs' = IF jobs[s] = NoJob THEN jobs ELSE [jobs EXCEPT ![s] = j]
           /\ \A t \in Triggers : TriggerSync(s, t) => jobs' = jobs
BY DEF TypeOK, AddJob, InstallJob, RemoveJob, UpdateJobInterval, TriggerSync,
       tableVars

\* A step of h touches the source of h alone: the one it works for, or the
\* one it begins with.
LEMMA StepLocal ==
    ASSUME HTypeOK, RequestInv, NEW h \in Handlers, HandlerStep(h),
           NEW s \in Sources, hsrc[h] # s, hsrc'[h] # s
    PROVE  /\ jobs'[s] = jobs[s] /\ row'[s] = row[s]
           /\ s \in stranded' <=> s \in stranded
<1> USE DEF HTypeOK, TypeOK
<1>1. CASE ToggleApply(h)
  BY <1>1, BusySource, MethodOnJobs DEF ToggleApply
<1>2. CASE DeleteRow(h)
  BY <1>2 DEF DeleteRow, schedVars, tableVars
<1>3. ASSUME NEW o \in Sources, CreateSource(h, o), UNCHANGED stranded
      PROVE  /\ jobs'[s] = jobs[s] /\ row'[s] = row[s]
             /\ s \in stranded' <=> s \in stranded
  BY <1>3 DEF CreateSource, schedVars, tableVars
<1>4. ASSUME NEW o \in Sources, UNCHANGED stranded,
             UpdateRead(h, o) \/ ToggleRead(h, o) \/ DeleteRead(h, o)
                \/ TriggerRead(h, o)
      PROVE  UNCHANGED <<jobs, row, stranded>>
  BY <1>4 DEF UpdateRead, ToggleRead, DeleteRead, TriggerRead, ReadRow,
     schedVars, tableVars
<1>5. CASE UNCHANGED stranded /\ (CreateAddJob(h) \/ UpdateReschedule(h)
                                   \/ DeleteUnschedule(h) \/ Trigger(h))
  BY <1>5, BusySource, MethodOnJobs
     DEF CreateAddJob, UpdateReschedule, DeleteUnschedule, Trigger
<1>6. CASE UNCHANGED stranded /\ (UpdateWrite(h) \/ ToggleWrite(h))
  BY <1>6 DEF UpdateWrite, ToggleWrite, WriteRow, schedVars, tableVars
<1>7. QED
  BY <1>1, <1>2, <1>3, <1>4, <1>5, <1>6 DEF HandlerStep

\* A source that h takes up is mirrored: nobody else is at work on it.
LEMMA TakenUpMirrored ==
    ASSUME HTypeOK, RequestInv, MirrorInv, main = "serving",
           OneRequestPerSource', NEW h \in Handlers, HandlerStep(h),
           NEW s \in Sources, hsrc[h] = NoSource, hsrc'[h] = s
    PROVE  Mirrored(s)
<1>1. ASSUME NEW g \in Handlers, hsrc[g] = s PROVE FALSE
  <2>1. g # h
    BY <1>1, SchedulerAssumption
  <2>2. hsrc'[g] = s
    BY <1>1, <2>1, StepFrame
  <2>3. QED
    BY <2>1, <2>2, SchedulerAssumption DEF OneRequestPerSource
<1>2. QED
  BY <1>1 DEF MirrorInv

\* Each handler leaves its source as the next half of its request needs it,
\* and mirrored when it answers.
LEMMA StepMirrors ==
    ASSUME HTypeOK, RequestInv, MirrorInv, main = "serving", UNCHANGED mainVars,
           OneRequestPerSource', NEW h \in Handlers, HandlerStep(h)
    PROVE  /\ \A s \in Sources : hsrc[h] = s /\ hsrc'[h] # s => Mirrored(s)'
           /\ hpc'[h] # "idle" => Midway(h)'
<1> DEFINE Done == /\ \A s \in Sources : hsrc[h] = s /\ hsrc'[h] # s => Mirrored(s)'
                   /\ hpc'[h] # "idle" => Midway(h)'
<1> USE SchedulerAssumption DEF HTypeOK, TypeOK, Goto, Answer
<1>1. toStart = {} /\ toStart' = {}
  BY DEF MirrorInv, mainVars
<1>2. hpc[h] # "idle" => Midway(h)
  BY DEF MirrorInv
<1>3. hpc[h] = "idle" => hsrc[h] = NoSource
  BY DEF RequestInv
<1>4. CASE ToggleApply(h)
  <2>1. PICK s \in Sources : s = hsrc[h]
    BY <1>4, BusySource DEF ToggleApply
  <2>2. row[s] = hrow[h] /\ row' = row
    BY <1>2, <1>4, <2>1 DEF ToggleApply, Midway
  <2>3. hrow[h] = "enabled" => jobs'[s] # NoJob
    BY <1>4, <2>1, MethodOnJobs DEF ToggleApply
  <2>4. hrow[h] = "disabled" => jobs'[s] = NoJob
    BY <1>4, <2>1, MethodOnJobs DEF ToggleApply
  <2>5. Mirrored(s)'
    BY <1>1, <1>4, <2>2, <2>3, <2>4 DEF ToggleApply, Mirrored
  <2>6. QED
    BY <1>4, <2>1, <2>5 DEF ToggleApply
<1>5. CASE DeleteRow(h)
  <2>1. PICK s \in Sources : s = hsrc[h]
    BY <1>5, BusySource DEF DeleteRow
  <2>2. jobs'[s] = NoJob
    BY <1>2, <1>5, <2>1 DEF DeleteRow, Midway, schedVars, tableVars
  <2>3. row'[s] = "deleted" \/ s \in stranded'
    BY <1>5, <2>1 DEF DeleteRow
  <2>4. Mirrored(s)'
    BY <1>1, <2>2, <2>3 DEF Mirrored
  <2>5. QED
    BY <1>5, <2>1, <2>4 DEF DeleteRow
<1>6. ASSUME NEW s \in Sources, CreateSource(h, s) PROVE Done
  BY <1>3, <1>6 DEF CreateSource, Midway
<1>7. ASSUME NEW s \in Sources, UNCHANGED stranded,
             UpdateRead(h, s) \/ ToggleRead(h, s) \/ DeleteRead(h, s)
                \/ TriggerRead(h, s)
      PROVE  Done
  <2>1. /\ hsrc[h] = NoSource /\ hsrc'[h] = s
        /\ UNCHANGED <<row, jobs>>
        /\ hpc'[h] \in {"update", "toggle", "unschedule", "trigger"}
    BY <1>3, <1>7 DEF UpdateRead, ToggleRead, DeleteRead, TriggerRead, ReadRow,
       schedVars, tableVars
  <2>2. Mirrored(s)'
    BY <1>1, <1>7, <2>1, TakenUpMirrored DEF Mirrored
  <2>3. hpc'[h] = "update" => hrow'[h] = row'[s]
    BY <1>7, <2>1 DEF UpdateRead, ToggleRead, DeleteRead, TriggerRead, ReadRow
  <2>4. QED
    BY <2>1, <2>2, <2>3 DEF Midway
<1>8. CASE CreateAddJob(h)
  <2>1. PICK s \in Sources : s = hsrc[h]
    BY <1>8, BusySource DEF CreateAddJob
  <2>2. row'[s] = "enabled" /\ jobs'[s] # NoJob
    BY <1>2, <1>8, <2>1, MethodOnJobs DEF CreateAddJob, Midway
  <2>3. QED
    BY <1>1, <1>8, <2>1, <2>2 DEF CreateAddJob, Mirrored
<1>9. CASE UNCHANGED stranded /\ (UpdateReschedule(h) \/ Trigger(h))
  <2>1. PICK s \in Sources : s = hsrc[h]
    BY <1>9, BusySource DEF UpdateReschedule, Trigger
  <2>2. Mirrored(s)
    BY <1>2, <1>9, <2>1 DEF UpdateReschedule, Trigger, Midway
  <2>3. row' = row /\ (jobs'[s] = NoJob <=> jobs[s] = NoJob)
    BY <1>9, <2>1, MethodOnJobs DEF UpdateReschedule, Trigger
  <2>4. Mirrored(s)'
    BY <1>1, <1>9, <2>2, <2>3 DEF Mirrored
  <2>5. QED
    BY <1>9, <2>1, <2>4 DEF UpdateReschedule, Trigger
<1>10. CASE DeleteUnschedule(h)
  <2>1. PICK s \in Sources : s = hsrc[h]
    BY <1>10, BusySource DEF DeleteUnschedule
  <2>2. jobs'[s] = NoJob /\ hsrc'[h] = s /\ hpc'[h] = "delete"
    BY <1>10, <2>1, MethodOnJobs DEF DeleteUnschedule
  <2>3. QED
    BY <2>1, <2>2 DEF Midway
<1>11. ASSUME UNCHANGED stranded, UpdateWrite(h) \/ ToggleWrite(h) PROVE Done
  <2>1. PICK s \in Sources : s = hsrc[h]
    BY <1>11, BusySource DEF UpdateWrite, ToggleWrite, WriteRow
  <2>2. Mirrored(s) /\ (hpc[h] = "update" => hrow[h] = row[s])
    BY <1>2, <1>11, <2>1 DEF UpdateWrite, ToggleWrite, WriteRow, Midway
  <2>3. jobs' = jobs
    BY <1>11 DEF UpdateWrite, ToggleWrite, WriteRow, schedVars, tableVars
  <2>4. CASE row' = row /\ Answer(h)
    <3>1. Mirrored(s)'
      BY <1>1, <1>11, <2>2, <2>3, <2>4 DEF Mirrored
    <3>2. QED
      BY <2>1, <2>4, <3>1
  <2>5. CASE /\ row' = [row EXCEPT ![s] = hrow[h]]
             /\ hpc[h] = "update" /\ Goto(h, "reschedule")
             /\ UNCHANGED <<hsrc, hrow>>
    <3>1. Mirrored(s)'
      BY <1>1, <1>11, <2>2, <2>3, <2>5 DEF Mirrored
    <3>2. QED
      BY <2>1, <2>5, <3>1 DEF Midway
  <2>6. CASE /\ row' = [row EXCEPT ![s] = hrow[h]]
             /\ hpc[h] = "toggle" /\ Goto(h, "apply")
             /\ UNCHANGED <<hsrc, hrow>>
    BY <2>1, <2>6 DEF Midway
  <2>7. QED
    BY <1>11, <2>1, <2>4, <2>5, <2>6 DEF UpdateWrite, ToggleWrite, WriteRow
<1>12. QED
  BY <1>4, <1>5, <1>6, <1>7, <1>8, <1>9, <1>10, <1>11 DEF HandlerStep

\* Start takes a source off its list and gives it a job; nothing else in the
\* scheduler changes the table before Stop does.
LEMMA InternalMirrors ==
    ASSUME HTypeOK, MirrorInv, Internal, UNCHANGED hvars
    PROVE  MirrorInv'
<1> USE DEF hvars
<1>1. row' = row
  BY InternalFrame
<1>2. CASE UNCHANGED <<jobs, toStart>>
  <2>1. \A s \in Sources : Mirrored(s)' <=> Mirrored(s)
    BY <1>1, <1>2 DEF Mirrored
  <2>2. \A h \in Handlers : Midway(h)' <=> Midway(h)
    BY <1>1, <1>2 DEF Midway, Mirrored
  <2>3. /\ main' = "starting" => main = "starting"
        /\ main = "starting" /\ main' # "starting" => toStart = {}
        /\ main' = "serving" => main \in {"starting", "serving"}
    <3>1. CASE main' = main
      BY <3>1
    <3>2. CASE main' # main
      BY <3>2 DEF Internal, SyncStep, GetSyncLock, TryLock, GetSource,
         SyncSucceeds, SyncFails, SendRecovery, LoopStep, Tick, DelayOver,
         LoopExit, Launch, CheckStep, CheckBegin, CheckSource, SendStale,
         CheckExit, StartJob, StartDone, StopStep, StopCancel, StopJobs,
         StopWait, Exit, MainStep, mainVars
    <3>3. QED
      BY <3>1, <3>2
  <2>4. QED
    BY <1>2, <2>1, <2>2, <2>3 DEF MirrorInv, AllIdle
<1>3. ASSUME NEW s \in Sources, NEW j \in Jobs, StartJob(s, j) PROVE MirrorInv'
  <2>1. /\ main = "starting" /\ main' = main
        /\ jobs' = [jobs EXCEPT ![s] = j]
        /\ s \in toStart /\ toStart' = toStart \ {s}
    BY <1>3 DEF StartJob, AddJobWithDelay, InstallJob
  <2>2. AllIdle /\ AllIdle'
    BY <2>1 DEF MirrorInv, AllIdle
  <2>3. ASSUME NEW o \in Sources, \A h \in Handlers : hsrc'[h] # o
        PROVE  Mirrored(o)'
    <3>1. Mirrored(o)
      BY <2>1, <2>3 DEF MirrorInv
    <3>2. QED
      BY <1>1, <2>1, <3>1, SchedulerAssumption DEF Mirrored, HTypeOK, TypeOK
  <2>4. QED
    BY <2>1, <2>2, <2>3 DEF MirrorInv, AllIdle
<1>4. CASE StopJobs
  BY <1>4 DEF StopJobs, MainStep, MirrorInv
<1>5. QED
  BY <1>2, <1>3, <1>4 DEF Internal, SyncStep, GetSyncLock, TryLock, GetSource,
     SyncSucceeds, SyncFails, SendRecovery, LoopStep, Tick, DelayOver,
     LoopExit, Launch, CheckStep, CheckBegin, CheckSource, SendStale,
     CheckExit, StartDone, StopStep, StopCancel, StopWait, Exit, MainStep,
     tableVars, mainVars

LEMMA MirrorNext ==
    HTypeOK /\ RequestInv /\ MirrorInv
        /\ OneRequestPerSource /\ OneRequestPerSource'
        /\ [HNext]_<<vars, hvars>> => MirrorInv'
<1> SUFFICES ASSUME HTypeOK, RequestInv, MirrorInv, OneRequestPerSource,
                    OneRequestPerSource', [HNext]_<<vars, hvars>>
             PROVE  MirrorInv'
  OBVIOUS
<1>1. CASE Internal /\ UNCHANGED hvars
  BY <1>1, InternalMirrors
<1>2. ASSUME NEW h \in Handlers, Serving, HandlerStep(h),
             UNCHANGED <<checkVars, mainVars>>
      PROVE  MirrorInv'
  <2>1. UNCHANGED <<main, toStart>> /\ main # "starting"
    BY <1>2 DEF mainVars, Serving
  <2>2. main # "serving" => MirrorInv'
    BY <2>1 DEF MirrorInv
  <2>3. ASSUME main = "serving" PROVE MirrorInv'
    <3>1. /\ \A s \in Sources : hsrc[h] = s /\ hsrc'[h] # s => Mirrored(s)'
          /\ hpc'[h] # "idle" => Midway(h)'
      BY <1>2, <2>3, StepMirrors
    <3>2. ASSUME NEW s \in Sources, \A g \in Handlers : hsrc'[g] # s
          PROVE  Mirrored(s)'
      <4>1. CASE hsrc[h] = s
        BY <3>1, <3>2, <4>1
      <4>2. CASE hsrc[h] # s
        <5>1. \A g \in Handlers : hsrc[g] # s
          BY <1>2, <3>2, <4>2, StepFrame
        <5>2. Mirrored(s)
          BY <2>3, <5>1 DEF MirrorInv
        <5>3. QED
          BY <1>2, <2>1, <3>2, <4>2, <5>2, StepLocal DEF Mirrored
      <4>3. QED
        BY <4>1, <4>2
    <3>3. ASSUME NEW g \in Handlers, hpc'[g] # "idle" PROVE Midway(g)'
      <4>1. CASE g = h
        BY <3>1, <3>3, <4>1
      <4>2. CASE g # h
        <5>1. hpc'[g] = hpc[g] /\ hsrc'[g] = hsrc[g] /\ hrow'[g] = hrow[g]
          BY <1>2, <4>2, StepFrame
        <5>2. PICK s \in Sources : s = hsrc[g]
          BY <3>3, <5>1, BusySource
        <5>3. hsrc[h] # s /\ hsrc'[h] # s
          BY <4>2, <5>1, <5>2, SchedulerAssumption DEF OneRequestPerSource
        <5>4. Midway(g)
          BY <2>3, <3>3, <5>1 DEF MirrorInv
        <5>5. /\ jobs'[s] = jobs[s] /\ row'[s] = row[s]
              /\ s \in stranded' <=> s \in stranded
          BY <1>2, <5>3, StepLocal
        <5>6. QED
          BY <2>1, <5>1, <5>2, <5>4, <5>5 DEF Midway, Mirrored
      <4>3. QED
        BY <4>1, <4>2
    <3>4. QED
      BY <2>1, <3>2, <3>3 DEF MirrorInv
  <2>4. QED
    BY <2>2, <2>3
<1>3. CASE UNCHANGED <<vars, hvars>>
  BY <1>3 DEF vars, hvars, tableVars, mainVars, MirrorInv, AllIdle, Midway,
     Mirrored
<1>4. QED
  BY <1>1, <1>2, <1>3 DEF HNext

\* As long as requests for one source do not overlap, the invariant holds,
\* however those for different sources interleave with each other, with
\* Start and with the goroutines of the scheduler.
THEOREM MirrorKept == HSpec /\ []OneRequestPerSource => []HInv
<1>1. HTypeOK /\ RequestInv /\ MirrorInv <=> HInv
  BY DEF HInv
<1>2. QED
  BY <1>1, MirrorInit, MirrorNext, RequestsInvariant, PTL DEF HSpec

\* So between requests exactly the enabled sources have a job, but for those
\* a failed delete has stranded.
THEOREM JobsFollowRows == HSpec /\ []OneRequestPerSource => []JobIffEnabled
<1>1. HInv => JobIffEnabled
  <2> SUFFICES ASSUME HInv, main = "serving", AllIdle, NEW s \in Sources
               PROVE  /\ jobs[s] # NoJob => row[s] = "enabled"
                      /\ row[s] = "enabled" => jobs[s] # NoJob \/ s \in stranded
    BY DEF JobIffEnabled
  <2>1. \A h \in Handlers : hsrc[h] # s
    BY SchedulerAssumption DEF HInv, RequestInv, AllIdle
  <2>2. Mirrored(s) /\ toStart = {}
    BY <2>1 DEF HInv, MirrorInv
  <2>3. QED
    BY <2>2 DEF Mirrored
<1>2. QED
  BY <1>1, MirrorKept, PTL

\* Requests one at a time, the case the model checker runs.
THEOREM SerialRequests ==
    ASSUME \A h1, h2 \in Handlers : h1 = h2
    PROVE  HSpec => []HInv /\ []JobIffEnabled
<1>1. OneRequestPerSource
  BY DEF OneRequestPerSource
<1>2. []OneRequestPerSource
  BY <1>1, PTL
<1>3. QED
  BY <1>2, MirrorKept, JobsFollowRows, PTL
=============================================================================
