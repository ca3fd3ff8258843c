--------------------------- MODULE CalendarMirror ---------------------------
(***************************************************************************)
(* What a calendar sync may do to the events it handles, whatever its      *)
(* direction, strategy, faults and interruptions: it works from one view   *)
(* of each side, and every write copies an event from the view of the      *)
(* other side as it was.  It never invents a content, never takes the      *)
(* source calendar an event that its view of that calendar does not hold,  *)
(* and never deletes an event that both views hold.                        *)
(***************************************************************************)
EXTENDS Naturals

CONSTANTS
    Calendars,  \* calendars of the source account
    Uids,       \* event UIDs
    Contents,   \* what an event may say
    Gone,       \* no such event
    NoCalendar, \* no calendar is being synced
    ReadOnly    \* calendars a sync must not write

VARIABLES
    src,        \* src[c][u]: event u in source calendar c
    dst,        \* dst[u]: event u in the destination calendar
    of,         \* the calendar being synced
    sview,      \* what the sync has read of it
    dview,      \* what the sync has read of the destination
    edits       \* edits made by people: no write of a sync passes for one

mirrorVars == <<src, dst, of, sview, dview, edits>>

Copies == [Uids -> Contents \cup {Gone}]

Nothing == [u \in Uids |-> Gone]

\* A possibly incomplete listing of f.
View(f, v) == v \in Copies /\ \A u \in Uids : v[u] \in {f[u], Gone}

Init ==
    /\ src \in [Calendars -> Copies]
    /\ dst \in Copies
    /\ of = NoCalendar
    /\ sview = Nothing
    /\ dview = Nothing
    /\ edits = 0

\* Somebody edits an event on either side.
Edit ==
    /\ \/ /\ \E c \in Calendars, u \in Uids, v \in Contents \cup {Gone} :
                src' = [src EXCEPT ![c][u] = v]
          /\ UNCHANGED dst
       \/ /\ \E u \in Uids, v \in Contents \cup {Gone} : dst' = [dst EXCEPT ![u] = v]
          /\ UNCHANGED src
    /\ edits' = edits + 1
    /\ UNCHANGED <<of, sview, dview>>

\* A sync of c begins, or whatever sync there is ends.
Take(c) ==
    /\ of' = c
    /\ sview' = Nothing
    /\ dview' = Nothing
    /\ UNCHANGED <<src, dst, edits>>

ReadSource ==
    /\ of \in Calendars
    /\ View(src[of], sview')
    /\ UNCHANGED <<src, dst, of, dview, edits>>

ReadDestination ==
    /\ of \in Calendars
    /\ View(dst, dview')
    /\ UNCHANGED <<src, dst, of, sview, edits>>

\* The destination gets the source's version, or loses what the source lacks.
CopyOut(u) ==
    /\ of \in Calendars
    /\ sview[u] # Gone \/ dview[u] # Gone
    /\ dst' = [dst EXCEPT ![u] = sview[u]]
    /\ UNCHANGED <<src, of, sview, dview, edits>>

\* The source gets the destination's version, or loses what it lacks.
CopyBack(u) ==
    /\ of \in Calendars \ ReadOnly
    /\ sview[u] # Gone
    /\ src' = [src EXCEPT ![of][u] = dview[u]]
    /\ UNCHANGED <<dst, of, sview, dview, edits>>

Next ==
    \/ Edit
    \/ \E c \in Calendars \cup {NoCalendar} : Take(c)
    \/ ReadSource
    \/ ReadDestination
    \/ \E u \in Uids : CopyOut(u) \/ CopyBack(u)

Spec == Init /\ [][Next]_mirrorVars
=============================================================================
