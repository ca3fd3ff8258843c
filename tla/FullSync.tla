------------------------------ MODULE FullSync ------------------------------
(***************************************************************************)
(* SyncSource, fullSync and cleanupDuplicates of internal/caldav/sync.go:  *)
(* the calendars of one source account are synced one after another into   *)
(* one destination calendar.  Every request to a server and every database *)
(* write is a step that may fail; people edit both sides in between; the   *)
(* process may die anywhere.                                               *)
(*                                                                         *)
(* An event is a UID with a content, which stands for its data, its        *)
(* summary and start time (the dedupe key).  ETags are what the two        *)
(* servers make them: which listed pairs have equal ones is chosen when    *)
(* both listings are there.  Counters, progress, logs and the              *)
(* malformed-event list are left out: no decision of the sync reads them.  *)
(***************************************************************************)
EXTENDS Naturals, FiniteSets

CONSTANTS
    Calendars,  \* selected calendars of the source account
    Uids,       \* event UIDs
    Contents,   \* what an event may say
    Shared,     \* contents with the same summary and start in every event
    Keyless,    \* contents without summary and start time (key "|")
    Past,       \* contents that start before the sync_days_past cutoff
    Blank,      \* contents a query lists and the encoder refuses: no DTSTAMP
    Home,       \* Home[u]: the calendar events u are created in, if any
    Direction,  \* Direction[c]: "one_way" or "two_way"
    Strategy,   \* "source_wins", "dest_wins" or "latest_wins"
    Matching,   \* pairs of a source's and a destination's content whose ETags
                \* may be equal
    Differing,  \* and those whose ETags may differ
    Concurrent, \* whether people edit events during a sync too
    Faults,     \* the kinds of fault that may happen
    MaxEdits,   \* bound on the edits made by people
    MaxFaults,  \* bound on the faults
    Gone,       \* no such event
    NoCalendar  \* not a calendar

Kinds == {"fetch", "partial", "put", "delete", "records", "crash"}

ASSUME FullSyncAssumption ==
    /\ NoCalendar \notin Calendars
    /\ Gone \notin Contents
    /\ Shared \cup Keyless \cup Past \cup Blank \subseteq Contents
    /\ Home \in [Uids -> Calendars \cup {NoCalendar}]
    /\ Direction \in [Calendars -> {"one_way", "two_way"}]
    /\ Strategy \in {"source_wins", "dest_wins", "latest_wins"}
    /\ Matching \cup Differing = Contents \X Contents
    /\ Concurrent \in BOOLEAN
    /\ Faults \subseteq Kinds
    /\ MaxEdits \in Nat /\ MaxFaults \in Nat

VARIABLES
    cal,        \* cal[c][u]: event u in source calendar c
    dest,       \* dest[u]: event u in the destination calendar
    recs,       \* recs[c][u]: the synced_events row: "none", updated within
                \* the safety threshold ("fresh") or before it ("old")
    pc,         \* the phase of the pass
    queue,      \* calendars this pass has not reached yet
    cur,        \* the calendar being synced
    slist,      \* sourceEvents: the source listing
    smap,       \* sourceEventMap: UIDs taken to be on the source
    dlist,      \* destEvents: the destination listing
    same,       \* UIDs listed with the same ETag on both sides
    dmap,       \* destEventMap: listed UIDs not handled yet
    keys,       \* destDedupeMap
    current,    \* currentUIDs: UIDs to record
    todo,       \* what the loop of this phase has still to visit
    forgetting, \* the UID whose deletion is answered and whose record is next
    wiped,      \* history: UIDs people ever deleted on the destination
    lapsed,     \* history: UIDs the sync took from the destination while it
                \* still has a record of them
    owed,       \* history: the last edit, if it deleted a recorded event for
                \* the sync to delete on the other side
    clean,      \* history: neither fault nor edit since the pass began
    edits,      \* edits made
    faults      \* faults suffered

world   == <<cal, dest, recs, lapsed>>
views   == <<cur, slist, smap, dlist, same, keys>>
work    == <<dmap, current, todo, forgetting>>
history == <<wiped, owed, clean, edits, faults>>
vars    == <<world, pc, queue, views, work, history>>

Phases == {"idle", "next", "source", "dest", "delete", "push", "pull",
           "orphans", "dedupe", "sweep", "record"}

Copies == [Uids -> Contents \cup {Gone}]

Nothing == [u \in Uids |-> Gone]

\* The UIDs that f has an event for.
Has(f) == {u \in Uids : f[u] # Gone}

TwoWay == Direction[cur] = "two_way"

\* Mutant: the date filter is forgotten.
ListingUnfiltered(f, missing) == [u \in Uids |-> IF u \in missing THEN Gone ELSE f[u]]

\* GetEvents without the UIDs it failed to fetch, and filterEventsByDate.
Listing(f, missing) ==
    [u \in Uids |-> IF u \in missing \/ f[u] \in Past THEN Gone ELSE f[u]]

\* DedupeKey: a set, empty for the key "|" that no comparison uses.
Keys(u, v) ==
    IF v \in Keyless \cup {Gone} THEN {}
    ELSE {IF v \in Shared THEN <<v>> ELSE <<u, v>>}

\* The UIDs in both listings whose ETags may be equal while the others'
\* differ: each server makes its own, so a hash of the content, a number no
\* other version ever had, a counter that happens to stand alike, or none.
EqualTags(f, g) ==
    LET both == Has(f) \cap Has(g)
    IN  {S \in SUBSET both :
            \A u \in both : <<f[u], g[u]>> \in (IF u \in S THEN Matching ELSE Differing)}

-----------------------------------------------------------------------------
Init ==
    /\ cal \in {f \in [Calendars -> Copies] :
                  \A c \in Calendars, u \in Uids : Home[u] # c => f[c][u] = Gone}
    /\ dest \in Copies
    /\ recs = [c \in Calendars |-> [u \in Uids |-> "none"]]
    /\ pc = "idle"
    /\ queue = {}
    /\ cur = NoCalendar
    /\ slist = Nothing /\ smap = {}
    /\ dlist = Nothing /\ dmap = {} /\ same = {}
    /\ keys = {} /\ current = {} /\ todo = {} /\ forgetting = {}
    /\ wiped = {} /\ lapsed = {} /\ owed = {}
    /\ clean = FALSE /\ edits = 0 /\ faults = 0

\* A step of the sync suffers the faults in `failed`, if any.
Suffer(failed) ==
    /\ failed \subseteq Faults
    /\ faults + Cardinality(failed) <= MaxFaults
    /\ faults' = faults + Cardinality(failed)
    /\ clean' = (clean /\ failed = {})
    /\ owed' = IF failed = {} THEN owed ELSE {}
    /\ UNCHANGED <<wiped, edits>>

\* The locals of fullSync do not outlive it.
DropLocals ==
    /\ cur' = NoCalendar
    /\ slist' = Nothing /\ smap' = {}
    /\ dlist' = Nothing /\ dmap' = {} /\ same' = {}
    /\ keys' = {} /\ current' = {} /\ todo' = {} /\ forgetting' = {}

\* One round of the loop of phase p.
Visit(p, u) ==
    /\ pc = p /\ u \in todo
    /\ todo' = todo \ {u}
    /\ UNCHANGED <<pc, queue, cur, slist, dlist, same>>

-----------------------------------------------------------------------------
(* SyncSource: every selected calendar in turn.                            *)

BeginPass ==
    /\ pc = "idle"
    /\ pc' = "next"
    /\ queue' = Calendars
    /\ clean' = TRUE
    /\ UNCHANGED <<world, views, work, wiped, owed, edits, faults>>

NextCalendar(c) ==
    /\ pc = "next" /\ c \in queue
    /\ queue' = queue \ {c}
    /\ cur' = c
    /\ pc' = "source"
    /\ Suffer({})
    /\ UNCHANGED <<world, slist, smap, dlist, same, keys, work>>

\* Mutant: calendars may be skipped.
EndPassEarly ==
    /\ pc = "next"
    /\ pc' = "idle"
    /\ queue' = {}
    /\ UNCHANGED <<world, views, work, history>>

EndPass ==
    /\ pc = "next" /\ queue = {}
    /\ pc' = "idle"
    /\ UNCHANGED <<world, queue, views, work, history>>

\* The process dies, or the context of the sync is cancelled for good.
Crash ==
    /\ pc # "idle"
    /\ Suffer({"crash"})
    /\ pc' = "idle"
    /\ queue' = {}
    /\ DropLocals
    /\ UNCHANGED world

-----------------------------------------------------------------------------
(* fullSync, first half: both listings.                                    *)

\* A fetch that fails altogether ends the sync of this calendar.
FetchSource ==
    /\ pc = "source"
    /\ \/ \E missing \in SUBSET Has(cal[cur]) :
             /\ Suffer(IF missing = {} THEN {} ELSE {"partial"})
             /\ slist' = Listing(cal[cur], missing)
             /\ smap' = Has(slist')
             /\ pc' = "dest"
             /\ UNCHANGED <<cur, dlist, same, keys, work>>
       \/ /\ Suffer({"fetch"})
          /\ pc' = "next"
          /\ DropLocals
    /\ UNCHANGED <<world, queue>>

\* Mutants: no look at an empty destination; only records past the threshold
\* count.
ToDeleteUnguarded(map) ==
    IF TwoWay THEN {u \in Uids : recs[cur][u] # "none"} ELSE {}
ToDeleteOld(map) ==
    IF TwoWay /\ map # {} THEN {u \in Uids : recs[cur][u] = "old"} ELSE {}

\* The deletion loop visits the synced events, unless the sync is one-way or
\* the destination looks empty.
ToDelete(map) ==
    IF TwoWay /\ map # {} THEN {u \in Uids : recs[cur][u] # "none"} ELSE {}

\* A fetch that fails altogether counts as an empty destination; unreadable
\* records count as none.
FetchDest ==
    /\ pc = "dest"
    /\ \E missing \in SUBSET Has(dest),
          failed \in SUBSET {"fetch", "partial", "records"} :
          /\ "partial" \in failed <=> missing # {} /\ missing # Has(dest)
          /\ "fetch" \in failed <=> missing # {} /\ missing = Has(dest)
          /\ Suffer(failed)
          /\ dlist' = Listing(dest, missing)
          /\ dmap' = Has(dlist')
          /\ same' \in EqualTags(slist, dlist')
          /\ keys' = UNION {Keys(u, dlist'[u]) : u \in Uids}
          /\ todo' = IF "records" \in failed THEN {} ELSE ToDelete(dmap')
    /\ pc' = "delete"
    /\ UNCHANGED <<world, queue, cur, slist, smap, current, forgetting>>

-----------------------------------------------------------------------------
(* fullSync, second half: its loops, one round a step.                     *)

\* Deleted from the source: deleted from the destination too.  The record
\* goes next, even if the deletion has failed.
DeleteFromDest(u) ==
    /\ u \notin smap /\ u \in dmap
    /\ \/ /\ Suffer({})
          /\ dest' = [dest EXCEPT ![u] = Gone]
          /\ lapsed' = lapsed \cup {u}
       \/ Suffer({"delete"}) /\ UNCHANGED <<dest, lapsed>>
    /\ dmap' = dmap \ {u}
    /\ forgetting' = {u}
    /\ UNCHANGED <<cal, recs, smap>>

\* Mutant: whether the destination still has the event is not asked.
DeleteFromSourceBlindly(u) ==
    /\ u \in smap
    /\ Suffer({})
    /\ cal' = [cal EXCEPT ![cur][u] = Gone]
    /\ smap' = smap \ {u}
    /\ dmap' = dmap \ {u}
    /\ forgetting' = {u}
    /\ UNCHANGED <<dest, recs, lapsed>>

\* Deleted from the destination: deleted from the source too, unless the
\* event was synced within the safety threshold.
DeleteFromSource(u) ==
    /\ u \in smap /\ u \notin dmap
    /\ recs[cur][u] # "fresh"
    /\ \/ Suffer({}) /\ cal' = [cal EXCEPT ![cur][u] = Gone]
       \/ Suffer({"delete"}) /\ UNCHANGED cal
    /\ smap' = smap \ {u}
    /\ forgetting' = {u}
    /\ UNCHANGED <<dest, recs, lapsed, dmap>>

KeepFresh(u) ==
    /\ u \in smap /\ u \notin dmap
    /\ recs[cur][u] = "fresh"
    /\ Suffer({})
    /\ UNCHANGED <<world, smap, dmap, forgetting>>

DeletedOnBoth(u) ==
    /\ u \notin smap /\ u \notin dmap
    /\ Suffer({})
    /\ forgetting' = {u}
    /\ UNCHANGED <<world, smap, dmap>>

KeepBoth(u) ==
    /\ u \in smap /\ u \in dmap
    /\ Suffer({})
    /\ UNCHANGED <<world, smap, dmap, forgetting>>

DeleteStep(u) ==
    /\ Visit("delete", u)
    /\ forgetting = {}
    /\ \/ DeleteFromDest(u) \/ DeleteFromSource(u) \/ DeletedOnBoth(u)
       \/ KeepFresh(u) \/ KeepBoth(u)
    /\ UNCHANGED <<keys, current>>

\* DeleteSyncedEvent, once the server has answered: it may fail, and a crash
\* may come before it.
ForgetStep(u) ==
    /\ pc = "delete" /\ u \in forgetting
    /\ forgetting' = {}
    /\ \/ /\ Suffer({})
          /\ recs' = [recs EXCEPT ![cur][u] = "none"]
          /\ lapsed' = lapsed \ {u}
       \/ Suffer({"records"}) /\ UNCHANGED <<recs, lapsed>>
    /\ UNCHANGED <<cal, dest, pc, queue, views, dmap, current, todo>>

\* PutEvent: an event without data is skipped, and the caller told it went
\* well.
Put(f, u, v) == IF v \in Blank THEN f ELSE [f EXCEPT ![u] = v]

\* PutEvent of the listed source event.
PutOut(u, newKeys) ==
    \/ /\ Suffer({})
       /\ dest' = Put(dest, u, slist[u])
       /\ keys' = keys \cup newKeys
       /\ current' = current \cup {u}
    \/ /\ slist[u] \notin Blank
       /\ Suffer({"put"})
       /\ UNCHANGED <<dest, keys, current>>

SkipDuplicate(u) ==
    /\ u \notin dmap
    /\ Keys(u, slist[u]) \cap keys # {}
    /\ Suffer({})
    /\ UNCHANGED <<dest, keys, current>>

CreateOnDest(u) ==
    /\ u \notin dmap
    /\ Keys(u, slist[u]) \cap keys = {}
    /\ PutOut(u, Keys(u, slist[u]))

UpdateOnDest(u) ==
    /\ u \in dmap
    /\ u \notin same
    /\ PutOut(u, {})

Unchanged(u) ==
    /\ u \in dmap
    /\ u \in same
    /\ current' = current \cup {u}
    /\ Suffer({})
    /\ UNCHANGED <<dest, keys>>

PushStep(u) ==
    /\ Visit("push", u)
    /\ SkipDuplicate(u) \/ CreateOnDest(u) \/ UpdateOnDest(u) \/ Unchanged(u)
    /\ dmap' = dmap \ {u}
    /\ UNCHANGED <<cal, recs, lapsed, smap, forgetting>>

\* Two-way, dest_wins: the listed destination event overwrites the source's.
PullStep(u) ==
    /\ Visit("pull", u)
    /\ \/ Suffer({}) /\ cal' = [cal EXCEPT ![cur] = Put(cal[cur], u, dlist[u])]
       \/ dlist[u] \notin Blank /\ Suffer({"put"}) /\ UNCHANGED cal
    /\ UNCHANGED <<dest, recs, lapsed, smap, dmap, keys, current, forgetting>>

\* DeleteEvent on the destination: an orphan, or a duplicate.
DropFromDest(phase, u) ==
    /\ Visit(phase, u)
    /\ \/ Suffer({}) /\ dest' = [dest EXCEPT ![u] = Gone]
       \/ Suffer({"delete"}) /\ UNCHANGED dest
    /\ UNCHANGED <<cal, recs, lapsed, smap, dmap, keys, current, forgetting>>

OrphanStep(u) == DropFromDest("orphans", u)
SweepStep(u)  == DropFromDest("sweep", u)

SameKey(u, w) == Keys(u, dest[u]) \cap Keys(w, dest[w]) # {}

\* All but one of every group of the same key among the listed events L are
\* duplicates; the one kept is the first known to the source, or else the
\* first (the server's order).
Duplicates(L, D) ==
    /\ \A u \in D : \E w \in L \ D : SameKey(u, w) /\ (u \in smap => w \in smap)
    /\ \A u, w \in L \ D : SameKey(u, w) => u = w

\* cleanupDuplicates lists the destination again, without the date filter,
\* and gives up when it cannot.
FindDuplicates ==
    /\ pc = "dedupe"
    /\ \/ \E missing \in SUBSET Has(dest) :
             /\ Suffer(IF missing = {} THEN {} ELSE {"partial"})
             /\ \E D \in SUBSET (Has(dest) \ missing) :
                   Duplicates(Has(dest) \ missing, D) /\ todo' = D
       \/ Suffer({"fetch"}) /\ todo' = {}
    /\ pc' = "sweep"
    /\ UNCHANGED <<world, queue, views, dmap, current, forgetting>>

\* UpsertSyncedEvent.
RecordStep(u) ==
    /\ Visit("record", u)
    /\ \/ Suffer({}) /\ recs' = [recs EXCEPT ![cur][u] = "fresh"]
       \/ Suffer({"records"}) /\ UNCHANGED recs
    /\ UNCHANGED <<cal, dest, lapsed, smap, dmap, keys, current, forgetting>>

\* From one loop to the next.  The push loop and the pull loop visit the
\* listings as they were fetched, whatever was deleted since.
NextLoop(from, to, events) ==
    /\ pc = from /\ todo = {} /\ forgetting = {}
    /\ pc' = to
    /\ todo' = events
    /\ Suffer({})
    /\ UNCHANGED <<world, queue, views, dmap, current, forgetting>>

\* Mutants: the push loop visits only what was never synced; the pull loop
\* creates what the source lacks; orphans are left, or dropped in two-way
\* syncs too.
StartPushNew    == NextLoop("delete", "push",
                       {u \in Has(slist) : recs[cur][u] = "none"})
StartPullNew    == NextLoop("push", "pull", IF TwoWay THEN Has(dlist) \ smap ELSE {})
StartNoOrphans  == NextLoop("pull", "orphans", {})
StartAllOrphans == NextLoop("pull", "orphans",
                       IF Strategy = "source_wins" THEN dmap ELSE {})

StartPush    == NextLoop("delete", "push", Has(slist))
StartPull    == NextLoop("push", "pull",
                    IF TwoWay /\ Strategy = "dest_wins"
                    THEN (Has(dlist) \cap smap) \ same
                    ELSE {})
StartOrphans == NextLoop("pull", "orphans",
                    IF ~TwoWay /\ Strategy = "source_wins" THEN dmap ELSE {})
StartDedupe  == NextLoop("orphans", "dedupe", {})
StartRecord  == NextLoop("sweep", "record", current)

EndCalendar ==
    /\ pc = "record" /\ todo = {}
    /\ pc' = "next"
    /\ DropLocals
    /\ Suffer({})
    /\ UNCHANGED <<world, queue>>

-----------------------------------------------------------------------------
(* The environment.                                                        *)

Edit ==
    /\ pc = "idle" \/ Concurrent
    /\ edits < MaxEdits
    /\ edits' = edits + 1
    /\ clean' = FALSE
    /\ UNCHANGED <<recs, lapsed, pc, queue, views, work, faults>>

\* What the date filter lets through.
Visible(v) == v \notin Past \cup {Gone}

\* The deletion of u between two passes is for the next one to repeat on the
\* other side: a record of u outlives it, the other copy is in sight, and,
\* where the destination's copy has gone, it is a pass later than the record
\* and the destination does not look empty.
OwedOnDest(c, u) ==
    /\ pc = "idle" /\ Direction[c] = "two_way"
    /\ recs[c][u] # "none" /\ Visible(dest[u])

OwedOnSource(u) ==
    /\ pc = "idle"
    /\ \E c \in Calendars :
          Direction[c] = "two_way" /\ recs[c][u] = "old" /\ Visible(cal[c][u])
    /\ \E w \in Uids \ {u} : Visible(dest[w])

\* Somebody adds, changes, deletes or restores an event.
EditSource(c, u) ==
    /\ Home[u] = c
    /\ \E v \in (Contents \cup {Gone}) \ {cal[c][u]} :
          /\ cal' = [cal EXCEPT ![c][u] = v]
          /\ owed' = IF v = Gone /\ OwedOnDest(c, u) THEN {u} ELSE {}
    /\ Edit
    /\ UNCHANGED <<dest, wiped>>

EditDest(u) ==
    /\ \E v \in (Contents \cup {Gone}) \ {dest[u]} :
          /\ dest' = [dest EXCEPT ![u] = v]
          /\ wiped' = IF v = Gone THEN wiped \cup {u} ELSE wiped
          /\ owed' = IF v = Gone /\ OwedOnSource(u) THEN {u} ELSE {}
    /\ Edit
    /\ UNCHANGED cal

\* More than a sync interval goes by between two passes.
IntervalPasses ==
    /\ pc = "idle"
    /\ recs' = [c \in Calendars |->
                  [u \in Uids |-> IF recs[c][u] = "fresh" THEN "old" ELSE recs[c][u]]]
    /\ UNCHANGED <<cal, dest, lapsed, pc, queue, views, work, history>>

SyncStep ==
    \/ BeginPass \/ EndPass
    \/ \E c \in Calendars : NextCalendar(c)
    \/ FetchSource \/ FetchDest
    \/ \E u \in Uids : \/ DeleteStep(u) \/ ForgetStep(u) \/ PushStep(u)
                       \/ PullStep(u) \/ OrphanStep(u) \/ SweepStep(u)
                       \/ RecordStep(u)
    \/ FindDuplicates
    \/ StartPush \/ StartPull \/ StartOrphans \/ StartDedupe \/ StartRecord
    \/ EndCalendar

Next ==
    \/ SyncStep
    \/ Crash
    \/ \E c \in Calendars, u \in Uids : EditSource(c, u)
    \/ \E u \in Uids : EditDest(u)
    \/ IntervalPasses

Spec == Init /\ [][Next]_vars

\* The ticker of the scheduler starts a pass again and again, and every
\* request of a pass is answered or times out.
FairSpec == Spec /\ WF_vars(SyncStep)

-----------------------------------------------------------------------------
(* Properties.                                                             *)

TypeOK ==
    /\ cal \in [Calendars -> Copies]
    /\ dest \in Copies
    /\ recs \in [Calendars -> [Uids -> {"none", "fresh", "old"}]]
    /\ pc \in Phases
    /\ queue \subseteq Calendars
    /\ cur \in Calendars \cup {NoCalendar}
    /\ slist \in Copies /\ smap \subseteq Has(slist)
    /\ dlist \in Copies /\ dmap \subseteq Has(dlist)
    /\ current \subseteq Has(slist)
    /\ same \subseteq Uids /\ todo \subseteq Uids /\ forgetting \subseteq Uids
    /\ wiped \subseteq Uids /\ lapsed \subseteq Uids /\ owed \subseteq Uids
    /\ clean \in BOOLEAN
    /\ edits \in 0 .. MaxEdits /\ faults \in 0 .. MaxFaults

\* What each phase of a calendar's sync may rely on; the inductive part of
\* the argument that the code implements the mirror.  The maps never hold
\* what the listings lack, every loop visits only what it may touch, and the
\* push loop has taken every source event out of destEventMap before the
\* rest counts as orphans.
PassInv ==
    /\ pc \in {"idle", "next"} =>
          /\ cur = NoCalendar
          /\ slist = Nothing
          /\ dlist = Nothing
    /\ pc \notin {"idle", "next"} => cur \in Calendars
    /\ pc \in {"idle", "next", "source", "dest"} =>
          dmap = {} /\ current = {} /\ same = {}
    /\ \A u \in same : <<slist[u], dlist[u]>> \in Matching
    /\ pc # "delete" => forgetting = {}
    /\ \A u \in forgetting : u \notin todo \cup dmap
    /\ pc = "dest" => smap = Has(slist)
    /\ pc = "delete" =>
          /\ todo \cap Has(slist) \subseteq smap
          /\ todo \cap Has(dlist) \subseteq dmap
    /\ pc \in {"delete", "pull"} /\ todo # {} => TwoWay
    /\ pc = "push" => todo \subseteq Has(slist) /\ dmap \cap Has(slist) \subseteq todo
    /\ pc = "pull" => todo \subseteq Has(dlist) \cap smap
    /\ pc \in {"pull", "orphans"} => dmap \cap Has(slist) = {}
    /\ pc = "orphans" => todo \subseteq dmap
    /\ pc = "sweep" /\ Shared = {} => todo = {}

IInv == TypeOK /\ PassInv

\* A step of the sync, not of a person.
BySync == edits' = edits

\* "SAFETY: Only delete from source if the event was synced [...]. This
\* prevents deleting events that failed to sync to destination"
\* (sync.go:535-537): whatever fails or dies, the sync takes an event from
\* the source only if somebody has deleted it on the destination, or the
\* sync itself did, because it had gone from the source, and then died or
\* failed before it took the record away.
SourceLossJustified ==
    [][BySync => \A c \in Calendars, u \in Uids :
         cal[c][u] # Gone /\ cal'[c][u] = Gone => u \in wiped \cup lapsed]_vars

\* w passes for a copy of the source's v: it is one, or its ETag may say so.
PassesFor(w, v) == w = v \/ <<v, w>> \in Matching

\* A fault-free pass without edits leaves the destination of a one-way,
\* source_wins sync of one calendar an exact copy of it, up to what the two
\* servers' ETags tell apart, the events before the cutoff, which the sync
\* does not see on either side, and those that cannot be written.
ExactMirror ==
    pc = "idle" /\ clean =>
        \A c \in Calendars, u \in Uids :
            IF Visible(cal[c][u])
            THEN PassesFor(dest[u], cal[c][u]) \/ cal[c][u] \in Blank
            ELSE ~Visible(dest[u])

\* After such a pass nothing of any source calendar is missing on the
\* destination, nor different there in a way that the ETags tell.
NothingMissing ==
    pc = "idle" /\ clean =>
        \A c \in Calendars, u \in Uids :
            Visible(cal[c][u]) => PassesFor(dest[u], cal[c][u])

\* "This prevents the bug where calendar A deletes events synced by calendar
\* B" (sync.go:665): syncing c never takes an event from the destination
\* that another source calendar holds.
OthersKept ==
    [][BySync => \A c \in Calendars, u \in Uids :
         c # cur /\ cal[c][u] # Gone /\ dest[u] # Gone => dest'[u] # Gone]_vars

\* "Events from OTHER source calendars should not be tracked by THIS
\* calendar" (sync.go:663): an event from elsewhere is neither recorded,
\* nor copied to the source, nor changed or deleted by a two-way sync.
ForeignUntouched ==
    [][BySync => \A u \in Uids : Home[u] = NoCalendar =>
         /\ dest'[u] = dest[u]
         /\ \A c \in Calendars : cal'[c][u] = Gone /\ recs'[c][u] = "none"]_vars

\* Events that lie before the cutoff are out of the sync's reach: what the
\* destination filter hides is not deleted as an orphan (unless somebody has
\* moved it there since the listing).
PastKept ==
    [][BySync => \A u \in Uids :
         dest[u] \in Past /\ dlist[u] \in Past \cup {Gone} => dest'[u] # Gone]_vars

\* A reader of the destination sees u as it is on the source: an event with
\* the same summary and start.
StandIn(c, u) == \E w \in Uids : Keys(w, dest[w]) \cap Keys(u, cal[c][u]) # {}

\* Once people and faults are done, every event of the source, or one that
\* looks the same to a reader or by its ETag, is on the destination for good.
Converges ==
    <>[](\A c \in Calendars, u \in Uids :
            Visible(cal[c][u]) => PassesFor(dest[u], cal[c][u]) \/ StandIn(c, u))

\* "Event was deleted from source - delete from destination too", and back
\* (sync.go:555, 580): a deletion between two passes of a two-way sync of
\* one calendar, of an event it has a record of, reaches the other side for
\* good, unless a fault or another edit comes after it.  On the way a
\* destination's copy comes back for the length of a pass.
DeletionsSettle ==
    <>[](\A u \in owed : dest[u] = Gone /\ \A c \in Calendars : cal[c][u] = Gone)

\* Under the mapping every step of the code is a step of the abstract mirror.
Mirror == INSTANCE CalendarMirror WITH
    src <- cal, dst <- dest, of <- cur, sview <- slist, dview <- dlist,
    ReadOnly <- {c \in Calendars : Direction[c] = "one_way"}

ImplementsMirror == Mirror!Spec
=============================================================================
