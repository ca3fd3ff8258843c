----------------------------- MODULE MCFullSync -----------------------------
\* The instances of FullSync that are model-checked.
EXTENDS FullSync, TLC

CONSTANTS c1, c2, u1, u2, u3, v, w, x

\* Calendar c1 holds every UID, or all but the last, or each has its own.
HomeAll   == [u \in Uids |-> c1]
HomeOne   == [u \in Uids |-> IF u = u1 THEN c1 ELSE NoCalendar]
HomeSplit == [u \in Uids |-> IF u = u1 THEN c1 ELSE c2]

OneWay  == [c \in Calendars |-> "one_way"]
BothWay == [c \in Calendars |-> "two_way"]

\* Both servers hash the content; so they do, but v's on the source may equal
\* w's (or x's) on the destination; no ETag ever equals another.
Everything  == Contents \X Contents
Hashed      == {<<a, a>> : a \in Contents}
Unhashed    == Everything \ Hashed
Coincident  == Hashed \cup {<<v, w>>}
Coincidence == {<<v, x>>}
Never       == {}
=============================================================================
