--------------------------- MODULE SourceHandlers ---------------------------
(***************************************************************************)
(* The source handlers of internal/web/api_handlers.go against the sources *)
(* table and the scheduler.  A handler runs in its request's goroutine and *)
(* takes several steps: it reads the row, writes the row, and calls the    *)
(* scheduler, and nothing but the request itself keeps these together.     *)
(*                                                                         *)
(* A row is abstracted to whether it exists and is enabled.  Input         *)
(* validation, which only rejects requests, is left out: a rejected        *)
(* request changes nothing.                                                *)
(***************************************************************************)
EXTENDS Scheduler

CONSTANTS
    Handlers,   \* request goroutines; each serves one request at a time
    DbMayFail   \* whether a write of a handler may fail (SQLITE_BUSY, disk)

ASSUME HandlersAssumption == DbMayFail \in BOOLEAN

VARIABLES
    hpc,        \* hpc[h]: the step handler h takes next
    hsrc,       \* hsrc[h]: the source of its request
    hrow,       \* hrow[h]: the row it will write or has written
    stranded    \* history: sources whose job a failed delete has taken away

hvars == <<hpc, hsrc, hrow, stranded>>

schedVars == <<tableVars, goVars, lockVars, staleState>>

HandlerStates == {"idle", "add", "update", "reschedule", "toggle", "apply",
                  "unschedule", "delete", "trigger"}

Exists(s) == row[s] \in {"enabled", "disabled"}

HInit ==
    /\ Init
    /\ hpc = [h \in Handlers |-> "idle"]
    /\ hsrc = [h \in Handlers |-> NoSource]
    /\ hrow = [h \in Handlers |-> "none"]
    /\ stranded = {}

Goto(h, step) == hpc' = [hpc EXCEPT ![h] = step]

\* The handler answers; its private copy of the row is garbage.
Answer(h) ==
    /\ Goto(h, "idle")
    /\ hsrc' = [hsrc EXCEPT ![h] = NoSource]
    /\ hrow' = [hrow EXCEPT ![h] = "none"]

\* APICreateSource: the row is inserted, enabled, under a new id.
CreateSource(h, s) ==
    /\ hpc[h] = "idle" /\ row[s] = "none"
    /\ row' = [row EXCEPT ![s] = "enabled"]
    /\ Goto(h, "add")
    /\ hsrc' = [hsrc EXCEPT ![h] = s]
    /\ hrow' = [hrow EXCEPT ![h] = "enabled"]
    /\ UNCHANGED schedVars

CreateAddJob(h) ==
    /\ hpc[h] = "add"
    /\ \E j \in Jobs : AddJob(hsrc[h], j)
    /\ Answer(h)
    /\ UNCHANGED row

\* GetSourceByIDForUser at the head of the other handlers: an unknown source
\* is answered 404 without any change.
ReadRow(h, s, next) ==
    /\ hpc[h] = "idle" /\ Exists(s)
    /\ Goto(h, next)
    /\ hsrc' = [hsrc EXCEPT ![h] = s]
    /\ UNCHANGED <<row, schedVars>>

\* APIUpdateSource keeps the enabled flag it read.
UpdateRead(h, s) ==
    /\ ReadRow(h, s, "update")
    /\ hrow' = [hrow EXCEPT ![h] = row[s]]

\* APIToggleSource flips the flag it read.
ToggleRead(h, s) ==
    /\ ReadRow(h, s, "toggle")
    /\ hrow' = [hrow EXCEPT ![h] = IF row[s] = "enabled" THEN "disabled"
                                                         ELSE "enabled"]

DeleteRead(h, s) == ReadRow(h, s, "unschedule") /\ UNCHANGED hrow

TriggerRead(h, s) == ReadRow(h, s, "trigger") /\ UNCHANGED hrow

\* db.UpdateSource writes every column of the copy, the enabled flag among
\* them.  No row, or a failed write: error answer, no scheduler call.
WriteRow(h, from, next) ==
    /\ hpc[h] = from
    /\ UNCHANGED schedVars
    /\ \/ /\ Exists(hsrc[h])
          /\ row' = [row EXCEPT ![hsrc[h]] = hrow[h]]
          /\ Goto(h, next)
          /\ UNCHANGED <<hsrc, hrow>>
       \/ /\ ~Exists(hsrc[h]) \/ DbMayFail
          /\ Answer(h)
          /\ UNCHANGED row

UpdateWrite(h) == WriteRow(h, "update", "reschedule")
ToggleWrite(h) == WriteRow(h, "toggle", "apply")

\* Mutant: the source gets a job whether or not it had one.
UpdateRescheduleBlindly(h) ==
    /\ hpc[h] = "reschedule"
    /\ \E j \in Jobs : AddJob(hsrc[h], j)
    /\ Answer(h)
    /\ UNCHANGED row

UpdateReschedule(h) ==
    /\ hpc[h] = "reschedule"
    /\ \E j \in Jobs : UpdateJobInterval(hsrc[h], j)
    /\ Answer(h)
    /\ UNCHANGED row

\* Mutant: the branch is taken on the flag as it was before.
ToggleApplyOld(h) ==
    /\ hpc[h] = "apply"
    /\ \/ hrow[h] = "disabled" /\ \E j \in Jobs : AddJob(hsrc[h], j)
       \/ hrow[h] = "enabled" /\ RemoveJob(hsrc[h])
    /\ Answer(h)
    /\ stranded' = stranded \ {hsrc[h]}
    /\ UNCHANGED row

\* The branch is taken on the copy, not on the row as it is now.
ToggleApply(h) ==
    /\ hpc[h] = "apply"
    /\ \/ hrow[h] = "enabled" /\ \E j \in Jobs : AddJob(hsrc[h], j)
       \/ hrow[h] = "disabled" /\ RemoveJob(hsrc[h])
    /\ Answer(h)
    /\ stranded' = stranded \ {hsrc[h]}
    /\ UNCHANGED row

\* APIDeleteSource takes the job away before the row.
DeleteUnschedule(h) ==
    /\ hpc[h] = "unschedule"
    /\ RemoveJob(hsrc[h])
    /\ Goto(h, "delete")
    /\ UNCHANGED <<row, hsrc, hrow>>

DeleteRow(h) ==
    /\ hpc[h] = "delete"
    /\ \/ /\ row' = [row EXCEPT ![hsrc[h]] = "deleted"]
          /\ UNCHANGED stranded
       \/ /\ DbMayFail
          /\ stranded' = stranded \cup {hsrc[h]}
          /\ UNCHANGED row
    /\ Answer(h)
    /\ UNCHANGED schedVars

Trigger(h) ==
    /\ hpc[h] = "trigger"
    /\ \E t \in Triggers : TriggerSync(hsrc[h], t)
    /\ Answer(h)
    /\ UNCHANGED row

HandlerStep(h) ==
    \/ ToggleApply(h)
    \/ DeleteRow(h)
    \/ /\ \/ \E s \in Sources : \/ CreateSource(h, s)
                               \/ UpdateRead(h, s)
                               \/ ToggleRead(h, s)
                               \/ DeleteRead(h, s)
                               \/ TriggerRead(h, s)
          \/ CreateAddJob(h)
          \/ UpdateWrite(h)
          \/ UpdateReschedule(h)
          \/ ToggleWrite(h)
          \/ DeleteUnschedule(h)
          \/ Trigger(h)
       /\ UNCHANGED stranded

HNext ==
    \/ Internal /\ UNCHANGED hvars
    \/ /\ Serving
       /\ \E h \in Handlers : HandlerStep(h)
       /\ UNCHANGED <<checkVars, mainVars>>

HSpec == HInit /\ [][HNext]_<<vars, hvars>>

-----------------------------------------------------------------------------
HTypeOK ==
    /\ TypeOK
    /\ hpc \in [Handlers -> HandlerStates]
    /\ hsrc \in [Handlers -> Sources \cup {NoSource}]
    /\ hrow \in [Handlers -> RowStates]
    /\ stranded \subseteq Sources

AllIdle == \A h \in Handlers : hpc[h] = "idle"

\* Between requests the job table mirrors the table of sources: exactly the
\* enabled ones have a job (create, update, toggle, delete and Start
\* together), except that a delete that took the job and failed to delete
\* the row leaves the source without one until it is toggled.
JobIffEnabled ==
    main = "serving" /\ AllIdle =>
        \A s \in Sources :
            /\ jobs[s] # NoJob => row[s] = "enabled"
            /\ row[s] = "enabled" => jobs[s] # NoJob \/ s \in stranded

\* Requests for different sources may overlap, those for one source do not.
OneRequestPerSource ==
    \A h1, h2 \in Handlers : hsrc[h1] = hsrc[h2] /\ hsrc[h1] # NoSource => h1 = h2

-----------------------------------------------------------------------------
(* The inductive invariants behind them.                                   *)

\* A handler at work has found its source, which has had a row ever since,
\* and a row it is to write is one that exists.
RequestInv ==
    \A h \in Handlers :
        /\ hpc[h] = "idle" <=> hsrc[h] = NoSource
        /\ hpc[h] # "idle" => row[hsrc[h]] # "none"
        /\ hpc[h] \in {"add", "update", "reschedule", "toggle", "apply"} =>
              hrow[h] \in {"enabled", "disabled"}

\* The table and the job table agree about s; Start has still to come to the
\* sources in toStart.
Mirrored(s) ==
    /\ jobs[s] # NoJob \/ s \in toStart => row[s] = "enabled"
    /\ row[s] = "enabled" => jobs[s] # NoJob \/ s \in stranded \/ s \in toStart

\* How far they may disagree about the source of request h: only between the
\* two halves of a create, a toggle or a delete.
Midway(h) ==
    /\ hpc[h] = "add"    => row[hsrc[h]] = "enabled"
    /\ hpc[h] = "apply"  => row[hsrc[h]] = hrow[h]
    /\ hpc[h] = "delete" => jobs[hsrc[h]] = NoJob
    /\ hpc[h] = "update" => row[hsrc[h]] = hrow[h]
    /\ hpc[h] \notin {"add", "apply", "delete"} => Mirrored(hsrc[h])

\* Until Stop empties the job table, a source is mirrored unless a request
\* for it is under way.
MirrorInv ==
    /\ main = "starting" => AllIdle
    /\ main # "starting" => toStart = {}
    /\ main \in {"starting", "serving"} =>
          /\ \A s \in Sources : (\A h \in Handlers : hsrc[h] # s) => Mirrored(s)
          /\ \A h \in Handlers : hpc[h] # "idle" => Midway(h)

HInv == HTypeOK /\ RequestInv /\ MirrorInv
=============================================================================
