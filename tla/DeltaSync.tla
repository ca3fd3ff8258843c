----------------------------- MODULE DeltaSync -----------------------------
(***************************************************************************)
(* syncCalendar of internal/caldav/sync.go: the WebDAV-Sync path with its  *)
(* stored token, and the full sync it falls back to, for one calendar of a *)
(* one-way source.                                                         *)
(*                                                                         *)
(* The source server numbers its changes.  A version of an event is the    *)
(* number of the change that made it, a token is the number of the last    *)
(* change a report covers.  The fallback is reduced to what one-way        *)
(* fullSync does to single events (module FullSync has its loops).  The    *)
(* destination is the collection its URL names, where the WebDAV-Sync path *)
(* writes; what the fallback writes to another one is not followed.        *)
(***************************************************************************)
EXTENDS Naturals

CONSTANTS
    Uids,       \* events
    Passes,     \* passes of the sync, re-used
    SameHref,   \* events that have the same path on both servers
    Orphans,    \* fullSync removes orphans: strategy source_wins
    PassedOver, \* events fullSync may leave as they are: outside its dates,
                \* a look-alike's, or with the same ETag by chance
    Elsewhere,  \* the first calendar that fullSync finds on the destination
                \* may be another than the one its URL names
    Faults,     \* the kinds of fault that may happen
    MaxChanges, \* bound on the changes made on the source
    MaxFaults,  \* bound on the faults
    NoToken     \* the empty sync token

Kinds == {"read", "probe", "report", "nodata", "untold", "list", "partial",
          "destlist", "put", "delete", "save", "cancel", "crash", "expire", "repoint"}

ASSUME DeltaSyncAssumption ==
    /\ SameHref \subseteq Uids
    /\ Orphans \in BOOLEAN /\ Elsewhere \in BOOLEAN
    /\ PassedOver \subseteq Uids
    /\ Faults \subseteq Kinds
    /\ MaxChanges \in Nat \ {0} /\ MaxFaults \in Nat
    /\ NoToken \notin Nat

VARIABLES
    now,        \* the number of the source's last change
    ver,        \* ver[u]: the last change of u, 0 if it never existed
    live,       \* events that are on the source
    oldest,     \* the oldest token the source server still accepts
    dest,       \* dest[u]: the version on the destination, 0 if none
    token,      \* the sync_states row
    pc,         \* pc[p]: where pass p is
    asked,      \* asked[p]: syncToken
    batch,      \* batch[p][u]: the version of u still to put, or 0
    gone,       \* gone[p]: the deletions still to carry out
    next,       \* next[p]: syncResult.SyncToken; NoToken in a full sync
    cancelled,  \* passes whose context is cancelled
    stray,      \* passes that work for a destination configured before
    dropped,    \* history: events of which the code gave up a change, or
                \* which it deleted although they are on the source
    faults      \* faults suffered

source  == <<now, ver, live, oldest>>
locals  == <<asked, batch, gone, next>>
flags   == <<cancelled, stray>>
vars    == <<source, dest, token, pc, locals, flags, dropped, faults>>

Versions == 0 .. MaxChanges
Empty    == [u \in Uids |-> 0]

Suffer(kind) ==
    /\ kind \in Faults
    /\ faults < MaxFaults
    /\ faults' = faults + 1

\* A request fails by a fault, or because the pass is cancelled.
Fails(p, kind) == (p \in cancelled /\ UNCHANGED faults) \/ Suffer(kind)
Works(p) == p \notin cancelled /\ UNCHANGED faults

\* What the destination has to hold of u.
Wanted(u) == IF u \in live THEN ver[u] ELSE 0

-----------------------------------------------------------------------------
\* A calendar that is new to CalBridge, and an empty destination.
Init ==
    /\ now = 1
    /\ live \in SUBSET Uids
    /\ ver = [u \in Uids |-> IF u \in live THEN 1 ELSE 0]
    /\ oldest = 0
    /\ dest = Empty
    /\ token = NoToken
    /\ pc = [p \in Passes |-> "idle"]
    /\ asked = [p \in Passes |-> NoToken]
    /\ batch = [p \in Passes |-> Empty]
    /\ gone = [p \in Passes |-> {}]
    /\ next = [p \in Passes |-> NoToken]
    /\ cancelled = {} /\ stray = {}
    /\ dropped = {}
    /\ faults = 0

\* Mutant: nothing keeps two syncs of the source apart.
BeginOverlapping(p) ==
    /\ pc[p] = "idle"
    /\ pc' = [pc EXCEPT ![p] = "probe"]
    /\ asked' = [asked EXCEPT ![p] = token]
    /\ UNCHANGED <<source, dest, token, batch, gone, next, flags, dropped, faults>>

\* GetSyncState.  The scheduler's lock lets one sync of a source run at a
\* time; an unreadable row ends the calendar with an error.
Begin(p) ==
    /\ \A q \in Passes : pc[q] = "idle"
    /\ \/ /\ UNCHANGED faults
          /\ pc' = [pc EXCEPT ![p] = "probe"]
          /\ asked' = [asked EXCEPT ![p] = token]
       \/ Suffer("read") /\ UNCHANGED <<pc, asked>>
    /\ UNCHANGED <<source, dest, token, batch, gone, next, flags, dropped>>

\* SupportsWebDAVSync: a request that fails means no.
Probe(p) ==
    /\ pc[p] = "probe"
    /\ \/ Works(p) /\ pc' = [pc EXCEPT ![p] = "report"]
       \/ Fails(p, "probe") /\ pc' = [pc EXCEPT ![p] = "list"]
    /\ UNCHANGED <<source, dest, token, locals, flags, dropped>>

\* The pass is over, and its locals with it.
End(p) ==
    /\ pc' = [pc EXCEPT ![p] = "idle"]
    /\ asked' = [asked EXCEPT ![p] = NoToken]
    /\ batch' = [batch EXCEPT ![p] = Empty]
    /\ gone' = [gone EXCEPT ![p] = {}]
    /\ next' = [next EXCEPT ![p] = NoToken]
    /\ cancelled' = cancelled \ {p}
    /\ stray' = stray \ {p}

-----------------------------------------------------------------------------
(* SyncCollection and the fallback.                                        *)

Since(t, u) == t = NoToken \/ t < ver[u]

\* A report without a token lists what there is, and no deletions.
Changed(t) == {u \in live : Since(t, u)}
Deleted(t) == IF t = NoToken THEN {} ELSE {u \in Uids \ live : Since(t, u)}

\* An event without data is skipped, and counts as reported.  So do the
\* deletions that were made before the first report.  An answer without a
\* token leaves the empty one.
TakeReport(p, nodata, t) ==
    /\ batch' = [batch EXCEPT ![p] =
          [u \in Uids |-> IF u \in Changed(asked[p]) \ nodata THEN ver[u] ELSE 0]]
    /\ gone' = [gone EXCEPT ![p] = Deleted(asked[p])]
    /\ next' = [next EXCEPT ![p] = t]
    /\ dropped' = dropped \cup nodata
         \cup (IF asked[p] = NoToken THEN {u \in Uids \ live : dest[u] # 0} ELSE {})
    /\ pc' = [pc EXCEPT ![p] = "delta"]

Expired(t) == t # NoToken /\ t < oldest

\* Mutants: the token is stored when it arrives, and a report that fails
\* ends the pass.
ReportSaving(p) ==
    /\ pc[p] = "report"
    /\ ~Expired(asked[p])
    /\ Works(p)
    /\ TakeReport(p, {}, now)
    /\ token' = now
    /\ UNCHANGED <<source, dest, asked, flags>>
ReportOnly(p) ==
    /\ pc[p] = "report"
    /\ \/ /\ ~Expired(asked[p])
          /\ Works(p) /\ TakeReport(p, {}, now) /\ UNCHANGED <<asked, flags>>
       \/ /\ (Expired(asked[p]) /\ UNCHANGED faults) \/ Fails(p, "report")
          /\ End(p) /\ UNCHANGED dropped
    /\ UNCHANGED <<source, dest, token>>

Report(p) ==
    /\ pc[p] = "report"
    /\ \/ /\ ~Expired(asked[p])
          /\ \/ Works(p) /\ TakeReport(p, {}, now)
             \/ /\ p \notin cancelled
                /\ Suffer("nodata")
                /\ \E u \in Changed(asked[p]) : TakeReport(p, {u}, now)
             \/ /\ p \notin cancelled
                /\ Suffer("untold")
                /\ TakeReport(p, {}, NoToken)
       \/ /\ \/ Expired(asked[p]) /\ UNCHANGED faults
             \/ Fails(p, "report")
          /\ pc' = [pc EXCEPT ![p] = "list"]
          /\ UNCHANGED <<batch, gone, next, dropped>>
    /\ UNCHANGED <<source, dest, token, asked, flags>>

\* What fullSync makes of the events listed on the source and shown on the
\* destination.  The token is left alone, so what it leaves as it is comes
\* with a report later, or never.
Compare(p, listed, shown, left) ==
    /\ batch' = [batch EXCEPT ![p] =
          [u \in Uids |-> IF u \in listed \ left THEN ver[u] ELSE 0]]
    /\ gone' = [gone EXCEPT ![p] = IF Orphans THEN shown \ (listed \cup left) ELSE {}]
    /\ dropped' = dropped \cup {u \in left : dest[u] # Wanted(u)}
    /\ pc' = [pc EXCEPT ![p] = "full"]
    /\ UNCHANGED <<asked, next, flags>>

Shown == {u \in Uids : dest[u] # 0}

\* fullSync writes to the collection that the URL names: it finds no
\* calendar, or this one first.  A source listing that fails ends the
\* calendar; one without some events, whose fetches failed one by one, or
\* without all, out of a garbled answer, is taken for complete.  So is one of
\* the destination, where even a failed one is: nothing is there, it seems.
ListHere(p) ==
    \/ Works(p) /\ \E left \in SUBSET PassedOver : Compare(p, live, Shown, left)
    \/ /\ p \notin cancelled
       /\ Suffer("partial")
       /\ \E listed \in SUBSET live : Compare(p, listed, Shown, {})
    \/ /\ p \notin cancelled
       /\ Suffer("destlist")
       /\ \E shown \in SUBSET Shown : Compare(p, live, shown, {})

\* fullSync finds another collection first and mirrors the source there: here
\* everything stays as it is.
ListElsewhere(p) == Elsewhere /\ Works(p) /\ Compare(p, live, {}, Uids)

List(p) ==
    /\ pc[p] = "list"
    /\ \/ ListHere(p) \/ ListElsewhere(p)
       \/ Fails(p, "list") /\ End(p) /\ UNCHANGED dropped
    /\ UNCHANGED <<source, dest, token>>

-----------------------------------------------------------------------------
(* The loops over the batch.                                               *)

Delta(p) == pc[p] = "delta"
Applying(p) == pc[p] \in {"delta", "full"}

\* A change that did not reach the destination is retried by the next full
\* sync; a report gives it up.
GiveUp(p, u) ==
    /\ UNCHANGED dest
    /\ dropped' = IF Delta(p) THEN dropped \cup {u} ELSE dropped

Arrive(u, v) ==
    /\ dest' = [dest EXCEPT ![u] = v]
    /\ dropped' = dropped \ {u}

\* PutEvent: a failure is a warning.
Put(p, u) ==
    /\ Applying(p) /\ batch[p][u] # 0
    /\ batch' = [batch EXCEPT ![p][u] = 0]
    /\ \/ Works(p) /\ (IF p \in stray THEN GiveUp(p, u) ELSE Arrive(u, batch[p][u]))
       \/ Fails(p, "put") /\ GiveUp(p, u)
    /\ UNCHANGED <<source, token, pc, asked, gone, next, flags>>

\* Where the href of the source is no path on the destination, the request
\* of the WebDAV-Sync path finds nothing to delete.
Reaches(p, u) == p \notin stray /\ (Delta(p) => u \in SameHref)

\* The fallback deletes what its listing of the source lacks, for good if the
\* token covers the event: no report will bring it back.
Remove(p, u) ==
    /\ dest' = [dest EXCEPT ![u] = 0]
    /\ dropped' = IF ~Delta(p) /\ u \in live THEN dropped \cup {u} ELSE dropped \ {u}

\* DeleteEvent: a failure is logged.
Delete(p, u) ==
    /\ Applying(p) /\ batch[p] = Empty /\ u \in gone[p]
    /\ gone' = [gone EXCEPT ![p] = @ \ {u}]
    /\ \/ Works(p) /\ (IF Reaches(p, u) THEN Remove(p, u) ELSE GiveUp(p, u))
       \/ Fails(p, "delete") /\ GiveUp(p, u)
    /\ UNCHANGED <<source, token, pc, asked, batch, next, flags>>

Applied(p) == Applying(p) /\ batch[p] = Empty /\ gone[p] = {}

\* Mutant: the token that is stored covers changes made since the report.
FinishLate(p) ==
    /\ Applied(p)
    /\ token' = IF Delta(p) THEN now ELSE token
    /\ End(p)
    /\ UNCHANGED <<source, dest, dropped, faults>>

\* UpsertSyncState, which may fail and does not ask the context; a full sync
\* leaves the token alone.
Finish(p) ==
    /\ Applied(p)
    /\ \/ UNCHANGED faults /\ token' = IF Delta(p) THEN next[p] ELSE token
       \/ Delta(p) /\ Suffer("save") /\ UNCHANGED token
    /\ End(p)
    /\ UNCHANGED <<source, dest, dropped>>

-----------------------------------------------------------------------------
(* The environment.                                                        *)

\* Scheduler.Stop, or the 120 minutes of a sync are over.
Cancel(p) ==
    /\ pc[p] # "idle" /\ p \notin cancelled
    /\ Suffer("cancel")
    /\ cancelled' = cancelled \cup {p}
    /\ UNCHANGED <<source, dest, token, pc, locals, stray, dropped>>

Crash(p) ==
    /\ pc[p] # "idle"
    /\ Suffer("crash")
    /\ End(p)
    /\ UNCHANGED <<source, dest, token, dropped>>

\* Somebody creates, changes or deletes u on the source.
Change(u) ==
    /\ now < MaxChanges
    /\ now' = now + 1
    /\ ver' = [ver EXCEPT ![u] = now + 1]
    /\ \/ live' = live \cup {u}
       \/ u \in live /\ live' = live \ {u}
    /\ UNCHANGED <<oldest, dest, token, pc, locals, flags, dropped, faults>>

\* The source server forgets its older tokens.
Expire ==
    /\ Suffer("expire")
    /\ oldest < now /\ oldest' = now
    /\ UNCHANGED <<now, ver, live, dest, token, pc, locals, flags, dropped>>

\* APIUpdateSource with another destination: the token row stays as it is.
Repoint ==
    /\ Suffer("repoint")
    /\ dest' = Empty
    /\ stray' = {p \in Passes : pc[p] # "idle"}
    /\ dropped' = live
    /\ UNCHANGED <<source, token, pc, locals, cancelled>>

Step(p) ==
    \/ Begin(p) \/ Probe(p) \/ Report(p) \/ List(p) \/ Finish(p)
    \/ \E u \in Uids : Put(p, u) \/ Delete(p, u)

Next ==
    \/ \E p \in Passes : Step(p) \/ Cancel(p) \/ Crash(p)
    \/ \E u \in Uids : Change(u)
    \/ Expire \/ Repoint

Spec == Init /\ [][Next]_vars

\* The ticker starts pass after pass, and requests are answered or time out.
FairSpec == Spec /\ WF_vars(\E p \in Passes : Step(p))

-----------------------------------------------------------------------------
(* Properties.                                                             *)

TypeOK ==
    /\ now \in Versions /\ oldest \in Versions
    /\ ver \in [Uids -> Versions]
    /\ dest \in [Uids -> Versions]
    /\ live \subseteq Uids /\ dropped \subseteq Uids
    /\ token \in Versions \cup {NoToken}
    /\ pc \in [Passes -> {"idle", "probe", "report", "list", "delta", "full"}]
    /\ asked \in [Passes -> Versions \cup {NoToken}]
    /\ next \in [Passes -> Versions \cup {NoToken}]
    /\ batch \in [Passes -> [Uids -> Versions]]
    /\ gone \in [Passes -> SUBSET Uids]
    /\ cancelled \subseteq Passes /\ stray \subseteq Passes
    /\ faults \in 0 .. MaxFaults

Settled(u) == dest[u] = Wanted(u) \/ u \in dropped

Covers(t, u) == t # NoToken /\ ver[u] <= t

\* The token is a promise that what it covers need not be reported again.
\* It keeps the promise however a sync fails, falls back or dies and
\* whatever changes meanwhile, but for the changes that the code has seen
\* fail (sync.go:306, 316), could not see (data or deletions that no report
\* has), made elsewhere, or undid when it took an incomplete listing of the
\* source for the whole (sync.go:415, client.go:382, 447).
TokenHonest == \A u \in Uids : Covers(token, u) => Settled(u)

\* u has not changed since the stored token, or since the one pass p has.
Final(p, u) == Covers(token, u) \/ Covers(next[p], u)

\* One pass at a time; its token is the stored one, or will be once all the
\* batch is through.
PassInv ==
    /\ \A p, q \in Passes : pc[p] # "idle" /\ pc[q] # "idle" => p = q
    /\ \A p \in Passes :
          /\ pc[p] = "idle" => p \notin stray /\ p \notin cancelled
          /\ pc[p] # "idle" => asked[p] = token
          /\ ~Applying(p) => batch[p] = Empty /\ gone[p] = {}
          /\ ~Delta(p) => next[p] = NoToken
          /\ next[p] # NoToken => next[p] <= now /\ (token # NoToken => token <= next[p])
          /\ \A u \in Uids :
                /\ batch[p][u] # 0 =>
                      /\ batch[p][u] <= ver[u] /\ dest[u] <= batch[p][u]
                      /\ u \notin gone[p]
                      /\ Final(p, u) => batch[p][u] = Wanted(u)
                /\ Delta(p) /\ u \in gone[p] /\ Final(p, u) => u \notin live
                /\ Covers(next[p], u) => \/ batch[p][u] # 0 \/ u \in gone[p]
                                         \/ Settled(u)

ClockInv ==
    /\ oldest <= now
    /\ token # NoToken => token <= now
    /\ \A u \in Uids : ver[u] <= now /\ dest[u] <= ver[u]
    /\ \A u \in live : ver[u] # 0

IInv == TypeOK /\ ClockInv /\ PassInv /\ TokenHonest

\* An event is never overwritten with an older version of it, and the token
\* never goes back to an older one, through faults, fallbacks and crashes.
NoRegress ==
    [][/\ \A u \in Uids : dest'[u] # 0 => dest'[u] >= dest[u]
       /\ token # NoToken /\ token' # NoToken => token' >= token]_vars

\* Once people and faults are done, every event arrives and every deletion is
\* carried out, except for the changes that were given up or undone, or that
\* the fallback passes over or makes elsewhere.  "Fall through to
\* full sync if WebDAV-Sync fails" (sync.go:334): so they do although the
\* server does not accept the stored token any more, which nothing clears.
Settles == <>[](\A u \in Uids : Settled(u))
=============================================================================
