-------------------------- MODULE CalendarListing --------------------------
(***************************************************************************)
(* GetEvents of internal/caldav/client.go: a calendar-query, or else a     *)
(* PROPFIND, whose paths are fetched by MULTIGET in batches, or else one   *)
(* by one; and the list of malformed events that a sync keeps with it: the *)
(* fullSync of calendar after calendar clears and fills it, while people   *)
(* look at it and delete from it.  A calendar whose WebDAV-Sync report     *)
(* succeeds has no fullSync: nothing of it is listed, cleared or stored.   *)
(*                                                                         *)
(* Of an event only its kind counts: "good"; "blank", which decodes but    *)
(* cannot be encoded again (its Data is empty); "broken", which does not   *)
(* decode, with an error IsMalformedError knows; "odd", with another one;  *)
(* or "gone".                                                              *)
(***************************************************************************)
EXTENDS Naturals, Sequences, FiniteSets, SequencesExt

CONSTANTS
    Calendars,  \* calendars of the source
    Events,     \* events, known by their paths
    In,         \* In[e]: the calendar of e
    BatchSize,  \* paths in a MULTIGET, 50 in the code
    Faults,     \* the kinds of fault that may happen
    MaxEdits,   \* bound on the changes of events
    MaxFaults,  \* bound on the faults
    NoCalendar, \* not a calendar
    NoEvent     \* not an event

Kinds == {"discover", "db", "query", "propfind", "garbled", "multiget", "get",
          "delete", "crash"}

ASSUME ListingAssumption ==
    /\ In \in [Events -> Calendars] /\ IsFiniteSet(Events)
    /\ BatchSize \in Nat \ {0}
    /\ Faults \subseteq Kinds
    /\ MaxEdits \in Nat /\ MaxFaults \in Nat
    /\ NoCalendar \notin Calendars /\ NoEvent \notin Events

VARIABLES
    store,      \* store[e]: the kind of event e on the source server
    rows,       \* malformed_events: the events that have a row
    pc,         \* the phase of the pass
    queue,      \* calendars the pass has not reached yet
    cur,        \* the calendar being synced
    paths,      \* eventPaths
    start,      \* batchStart
    single,     \* paths of the batch still to fetch one by one
    events,     \* the events listed
    collector,  \* the MalformedEventCollector
    todo,       \* malformed events still to store
    request,    \* the event a person is deleting from the list
    valid,      \* whether the id of that request is still the row's
    steady,     \* history: events that have not changed since the listing began
    missed,     \* history: events whose fetch failed in this listing
    edits,      \* changes made
    faults      \* faults suffered

listing == <<paths, start, single, events, collector>>
person  == <<request, valid>>
history == <<steady, missed>>
vars    == <<store, rows, pc, queue, cur, listing, todo, person, history, edits, faults>>

KindsOfEvent == {"good", "blank", "broken", "odd", "gone"}

Of(c) == {e \in Events : In[e] = c}

\* What the server lists of the calendar being synced.
Present == {e \in Of(cur) : store[e] # "gone"}

Decodes(e) == store[e] \in {"good", "blank"}

Suffer(kind) ==
    /\ kind \in Faults
    /\ faults < MaxFaults
    /\ faults' = faults + 1

NoFault == UNCHANGED faults

Init ==
    /\ store \in [Events -> KindsOfEvent]
    /\ rows = {}
    /\ pc = "idle"
    /\ queue = {}
    /\ cur = NoCalendar
    /\ paths = <<>> /\ start = 0 /\ single = <<>>
    /\ events = <<>> /\ collector = {} /\ todo = {}
    /\ request = NoEvent /\ valid = FALSE
    /\ steady = {} /\ missed = {}
    /\ edits = 0 /\ faults = 0

\* The locals of fullSync do not outlive it.
DropListing ==
    /\ cur' = NoCalendar
    /\ paths' = <<>> /\ start' = 0 /\ single' = <<>>
    /\ events' = <<>> /\ collector' = {}
    /\ steady' = {} /\ missed' = {}

-----------------------------------------------------------------------------
(* SyncSource and fullSync around the listing.                             *)

\* FindCalendars, which may fail and end the sync.
BeginPass ==
    /\ pc = "idle"
    /\ \/ NoFault /\ pc' = "next" /\ queue' = Calendars
       \/ Suffer("discover") /\ UNCHANGED <<pc, queue>>
    /\ UNCHANGED <<store, rows, cur, listing, todo, person, history, edits>>

\* syncCalendar without fullSync: a report succeeds, with or without changes,
\* or the sync state cannot be read.  Which calendars it happens to, and
\* when, is up to the servers.
SyncByReport(c) ==
    /\ pc = "next" /\ c \in queue
    /\ queue' = queue \ {c}
    /\ UNCHANGED <<store, rows, pc, cur, listing, todo, person, history, edits, faults>>

\* syncCalendar comes to fullSync: the server has no WebDAV-Sync, or its
\* report fails.
NextCalendar(c) ==
    /\ pc = "next" /\ c \in queue
    /\ queue' = queue \ {c}
    /\ cur' = c
    /\ pc' = "clear"
    /\ UNCHANGED <<store, rows, listing, todo, person, history, edits, faults>>

\* Mutant: old rows are never cleared.
ClearNothing ==
    /\ pc = "clear"
    /\ pc' = "query"
    /\ steady' = Of(cur) /\ missed' = {}
    /\ UNCHANGED <<store, rows, queue, cur, listing, todo, person, edits, faults>>

\* ClearMalformedEventsForSource: all rows of the source go, those of its
\* other calendars too.
Clear ==
    /\ pc = "clear"
    /\ \/ NoFault /\ rows' = {} /\ valid' = FALSE
       \/ Suffer("db") /\ UNCHANGED <<rows, valid>>
    /\ pc' = "query"
    /\ steady' = Of(cur) /\ missed' = {}
    /\ UNCHANGED <<store, queue, cur, listing, todo, request, edits>>

EndPass ==
    /\ pc = "next" /\ queue = {}
    /\ pc' = "idle"
    /\ UNCHANGED <<store, rows, queue, cur, listing, todo, person, history, edits, faults>>

Crash ==
    /\ pc # "idle"
    /\ Suffer("crash")
    /\ pc' = "idle" /\ queue' = {}
    /\ DropListing
    /\ todo' = {} /\ request' = NoEvent /\ valid' = FALSE
    /\ UNCHANGED <<store, rows, edits>>

-----------------------------------------------------------------------------
(* GetEvents.                                                              *)

\* The listing is complete; what it found malformed is stored next.
Return(listed, malformed) ==
    /\ pc' = "save"
    /\ events' = listed
    /\ collector' = malformed
    /\ todo' = malformed

\* getEventsViaQuery and objectsToEvents: one event that does not decode
\* fails the query; blank events are listed like any others.
Query ==
    /\ pc = "query"
    /\ \/ /\ NoFault
          /\ Present # {} /\ \A e \in Present : Decodes(e)
          /\ Return(SetToSeq(Present), {})
       \/ /\ \/ Suffer("query")
             \/ NoFault /\ (Present = {} \/ \E e \in Present : ~Decodes(e))
          /\ pc' = "propfind"
          /\ UNCHANGED <<events, collector, todo>>
    /\ UNCHANGED <<store, rows, queue, cur, paths, start, single, person, history, edits>>

\* getEventsViaList and parseEventPaths: a body that does not parse is an
\* empty calendar, an error ends the sync of this calendar.
Propfind ==
    /\ pc = "propfind"
    /\ \/ /\ \/ NoFault /\ paths' = SetToSeq(Present) /\ missed' = missed
             \/ Suffer("garbled") /\ paths' = <<>> /\ missed' = Of(cur)
          /\ pc' = "fetch"
          /\ UNCHANGED <<cur, start, single, events, collector, steady>>
       \/ Suffer("propfind") /\ pc' = "next" /\ DropListing
    /\ UNCHANGED <<store, rows, queue, todo, person, edits>>

BatchEnd == IF start + BatchSize > Len(paths) THEN Len(paths) ELSE start + BatchSize

Batch == SubSeq(paths, start + 1, BatchEnd)

\* Mutant: a MULTIGET that fails is taken for an empty one.
FetchBatchOnly ==
    /\ pc = "fetch" /\ start < Len(paths)
    /\ NoFault
    /\ LET got == {e \in ToSet(Batch) : Decodes(e)} IN
           /\ events' = events \o SetToSeq({e \in got : store[e] = "good"})
           /\ collector' = collector \cup {e \in got : store[e] = "blank"}
    /\ start' = start + BatchSize
    /\ UNCHANGED <<store, rows, pc, queue, cur, paths, single, todo, person,
                   history, edits>>

\* getEventsBatch: an event that does not decode fails the MULTIGET; one that
\* is gone meanwhile may fail it or be left out of the answer; blank events
\* are collected.
FetchBatch ==
    /\ pc = "fetch" /\ start < Len(paths)
    /\ LET got == {e \in ToSet(Batch) : store[e] # "gone"} IN
       \/ /\ NoFault
          /\ \A e \in got : Decodes(e)
          /\ events' = events \o SetToSeq({e \in got : store[e] = "good"})
          /\ collector' = collector \cup {e \in got : store[e] = "blank"}
          /\ start' = start + BatchSize
          /\ UNCHANGED <<pc, single>>
       \/ /\ Suffer("multiget") \/ (NoFault /\ \E e \in ToSet(Batch) :
                                         store[e] \in {"broken", "odd", "gone"})
          /\ single' = Batch
          /\ pc' = "single"
          /\ UNCHANGED <<events, collector, start>>
    /\ UNCHANGED <<store, rows, queue, cur, paths, todo, person, history, edits>>

\* On to the next path, or to the next batch.
NextSingle ==
    /\ single' = Tail(single)
    /\ IF Len(single) = 1 THEN pc' = "fetch" /\ start' = start + BatchSize
                          ELSE UNCHANGED <<pc, start>>

\* Mutant: what does not decode is skipped without a record.
FetchSingleQuietly ==
    /\ pc = "single"
    /\ LET e == Head(single) IN
           events' = IF store[e] = "good" THEN Append(events, e) ELSE events
    /\ NextSingle
    /\ UNCHANGED <<store, rows, queue, cur, paths, collector, todo,
                   person, history, edits, faults>>

\* getEventsIndividually, one round: GetEvent and IsMalformedError.
FetchSingle ==
    /\ pc = "single"
    /\ LET e == Head(single) IN
       \/ /\ NoFault
          /\ events' = IF store[e] = "good" THEN Append(events, e) ELSE events
          /\ collector' = collector \cup {f \in {e} : store[f] \in {"blank", "broken"}}
          /\ UNCHANGED missed
       \/ /\ Suffer("get")
          /\ missed' = missed \cup {e}
          /\ UNCHANGED <<events, collector>>
    /\ NextSingle
    /\ UNCHANGED <<store, rows, queue, cur, paths, todo, person, steady, edits>>

EndFetch ==
    /\ pc = "fetch" /\ start >= Len(paths)
    /\ Return(events, collector)
    /\ UNCHANGED <<store, rows, queue, cur, paths, start, single, person, history,
                   edits, faults>>

\* SaveMalformedEvent replaces the row of the event, and its id.
Save(e) ==
    /\ pc = "save" /\ e \in todo
    /\ todo' = todo \ {e}
    /\ \/ /\ NoFault
          /\ rows' = rows \cup {e}
          /\ valid' = (valid /\ request # e)
       \/ Suffer("db") /\ UNCHANGED <<rows, valid>>
    /\ UNCHANGED <<store, pc, queue, cur, listing, request, history, edits>>

\* The rest of fullSync, which FullSync models.
EndCalendar ==
    /\ pc = "save" /\ todo = {}
    /\ pc' = "next"
    /\ DropListing
    /\ UNCHANGED <<store, rows, queue, todo, person, edits, faults>>

-----------------------------------------------------------------------------
(* People: on the source, and at the list of malformed events.             *)

Edit(e) ==
    /\ edits < MaxEdits
    /\ edits' = edits + 1
    /\ \E k \in KindsOfEvent \ {store[e]} : store' = [store EXCEPT ![e] = k]
    /\ steady' = steady \ {e}
    /\ UNCHANGED <<rows, pc, queue, cur, listing, todo, person, missed, faults>>

\* APIDeleteMalformedEvent: GetMalformedEventByIDForUser ...
DeleteRead(e) ==
    /\ request = NoEvent /\ e \in rows
    /\ request' = e /\ valid' = TRUE
    /\ UNCHANGED <<store, rows, pc, queue, cur, listing, todo, history, edits, faults>>

\* ... DeleteEvent at the path the row gives, whatever is there by now, and
\* DeleteMalformedEvent, which finds no row if a sync has replaced it.
DeleteApply ==
    /\ request # NoEvent
    /\ LET left == IF valid THEN rows \ {request} ELSE rows IN
       \/ /\ \/ NoFault /\ rows' = left
             \/ Suffer("db") /\ UNCHANGED rows
          /\ store' = [store EXCEPT ![request] = "gone"]
          /\ steady' = steady \ {request}
       \/ Suffer("delete") /\ rows' = left /\ UNCHANGED <<store, steady>>
    /\ request' = NoEvent /\ valid' = FALSE
    /\ UNCHANGED <<pc, queue, cur, listing, todo, missed, edits>>

\* APIDeleteAllMalformedEvents: rows only.
DeleteAll ==
    /\ rows # {}
    /\ rows' = {} /\ valid' = FALSE
    /\ UNCHANGED <<store, pc, queue, cur, listing, todo, request, history, edits, faults>>

SyncStep ==
    \/ BeginPass \/ EndPass \/ Clear
    \/ \E c \in Calendars : NextCalendar(c) \/ SyncByReport(c)
    \/ Query \/ Propfind
    \/ FetchBatch \/ FetchSingle \/ EndFetch
    \/ \E e \in Events : Save(e)
    \/ EndCalendar

Next ==
    \/ SyncStep
    \/ Crash
    \/ \E e \in Events : Edit(e) \/ DeleteRead(e)
    \/ DeleteApply \/ DeleteAll

Spec == Init /\ [][Next]_vars

\* The ticker starts pass after pass, and requests are answered or time out.
FairSpec == Spec /\ WF_vars(SyncStep)

-----------------------------------------------------------------------------
(* Properties.                                                             *)

TypeOK ==
    /\ store \in [Events -> KindsOfEvent]
    /\ rows \subseteq Events
    /\ pc \in {"idle", "next", "clear", "query", "propfind", "fetch", "single", "save"}
    /\ queue \subseteq Calendars /\ cur \in Calendars \cup {NoCalendar}
    /\ {paths, single, events} \subseteq Seq(Of(cur))
    /\ start \in Nat
    /\ collector \subseteq Of(cur) /\ todo \subseteq collector
    /\ request \in Events \cup {NoEvent} /\ valid \in BOOLEAN
    /\ steady \cup missed \subseteq Events
    /\ edits \in 0 .. MaxEdits /\ faults \in 0 .. MaxFaults

\* The paths whose events have been asked for.
Reached == IF pc = "single" THEN BatchEnd - Len(single) ELSE start
Fetched == {paths[i] : i \in {j \in DOMAIN paths : j <= Reached}}

\* The paths to fetch one by one are the rest of the batch.
Positioned ==
    /\ single # <<>> /\ start < Len(paths) /\ start <= Reached
    /\ single = SubSeq(paths, Reached + 1, BatchEnd)

\* The events of the paths asked for are where they belong.
Placed ==
    /\ IsInjective(events)
    /\ ToSet(events) \cup collector \subseteq Fetched
    /\ \A e \in Of(cur) \cap steady :
          /\ e \notin ToSet(paths) => store[e] = "gone" \/ e \in missed
          /\ e \in ToSet(events) => store[e] = "good"
          /\ e \in collector => store[e] \in {"blank", "broken"}
          /\ e \in Fetched \ missed =>
                /\ store[e] = "good" => e \in ToSet(events)
                /\ store[e] = "broken" => e \in collector

\* What a listing under way may rely on; the inductive part of the argument
\* for ListingHonest.  The batches go through the paths in order, and none is
\* left out or asked for twice, whichever of them fall back to single fetches.
FetchInv ==
    /\ pc \in {"idle", "next", "clear", "query", "propfind"} =>
          /\ paths = <<>> /\ start = 0 /\ single = <<>>
          /\ events = <<>> /\ collector = {}
    /\ IsInjective(paths)
    /\ pc = "single" => Positioned
    /\ pc \in {"fetch", "single"} => Placed

\* What GetEvents returns without an error: no event twice, and of the
\* events that did not change meanwhile exactly the good ones, but for those
\* whose own fetch failed and blank ones that the query lists; and whatever
\* does not decode, in a way the code knows, is in the collector.
ListingHonest ==
    pc = "save" =>
        /\ IsInjective(events)
        /\ ToSet(events) \cap collector \cap steady = {}
        /\ \A e \in Of(cur) \cap steady :
              /\ store[e] = "good" /\ e \notin missed => e \in ToSet(events)
              /\ e \in ToSet(events) => Decodes(e)
              /\ store[e] = "broken" /\ e \notin missed => e \in collector
              /\ e \in collector => store[e] \in {"blank", "broken"}

IInv == TypeOK /\ FetchInv /\ ListingHonest

\* As long as fullSync comes to calendar c again and again: with a token that
\* works it never does.
FullySynced(c) == []<>(pc = "clear" /\ cur = c)

\* A broken event that stays is shown again and again, although every full
\* sync of a calendar, of other calendars too, empties the list first and
\* people delete from it.
BrokenShown ==
    \A e \in Events :
        <>[](store[e] = "broken") /\ FullySynced(In[e]) => []<>(e \in rows)

\* And an event that has been repaired, or is gone, is off the list for good:
\* a full sync of any calendar of the source clears it.
RepairedCleared ==
    \A e \in Events :
        <>[](store[e] \in {"good", "gone"}) /\ (\E c \in Calendars : FullySynced(c))
            => <>[](e \notin rows)
=============================================================================
