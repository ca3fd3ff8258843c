------------------------- MODULE MCCalendarListing -------------------------
\* The instance of CalendarListing that is model-checked.
EXTENDS CalendarListing

CONSTANTS c1, c2, e1, e2, e3

\* The last event is the other calendar's.
InTwo == [e \in Events |-> IF e = e3 THEN c2 ELSE c1]
=============================================================================
