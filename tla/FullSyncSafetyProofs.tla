------------------------- MODULE FullSyncSafetyProofs -------------------------
(***************************************************************************)
(* Proofs about FullSync: what syncs never take away, and what a pass      *)
(* without faults or edits delivers.  They hold for every set of           *)
(* calendars and events and any number of edits and faults, under the      *)
(* assumptions the README discusses: no two events look alike, and for     *)
(* each result the directions and strategies it is meant for.              *)
(***************************************************************************)
EXTENDS FullSyncProofs

\* No calendar's sync looks for orphans, and no two events look alike.
Sparing ==
    /\ Strategy = "source_wins" => \A c \in Calendars : Direction[c] = "two_way"
    /\ Shared = {}

\* A listing shows all there is or fails.
Frank == Past = {} /\ Blank = {} /\ "partial" \notin Faults

\* Whatever a calendar holds, has listed or has recorded is its own, and the
\* loops that delete or record have only such events to visit.
OriginInv ==
    /\ \A c \in Calendars, u \in Uids :
          cal[c][u] # Gone \/ recs[c][u] # "none" => Home[u] = c
    /\ \A u \in Has(slist) : Home[u] = cur
    /\ pc = "delete" => \A u \in todo \cup forgetting : recs[cur][u] # "none"
    /\ pc = "orphans" /\ todo # {} => ~TwoWay /\ Strategy = "source_wins"
    /\ pc = "record" => todo \subseteq current

\* The sync writes on the destination only what belongs to its calendar.
OwnWrites ==
    BySync => \A u \in Uids : dest'[u] # dest[u] => Home[u] = cur

Owned == OriginInv' /\ OwnWrites

LEMMA InitOrigin == Init => OriginInv
  BY DEF Init, OriginInv, Has, Nothing

-----------------------------------------------------------------------------
(* One lemma per kind of step.                                             *)

\* Steps that leave the calendars, the records and the source listing alone,
\* and give no deleting or recording loop anything new to visit.
LEMMA OriginFrame ==
    ASSUME OriginInv, UNCHANGED <<cal, recs, slist, cur>>,
           \/ pc' \notin {"delete", "orphans", "record"}
           \/ /\ pc' = pc /\ todo' \subseteq todo /\ forgetting' = forgetting
              /\ current \subseteq current'
    PROVE  OriginInv'
  BY DEF OriginInv, Has, TwoWay

LEMMA BetweenOwned ==
    ASSUME IInv, OriginInv,
           BeginPass \/ EndPass \/ (\E c \in Calendars : NextCalendar(c))
    PROVE  Owned
  <1>1. UNCHANGED <<cal, dest, recs, slist>> /\ slist = Nothing /\ pc' \in {"idle", "next", "source"}
    BY DEF IInv, PassInv, BeginPass, EndPass, NextCalendar, world, views
  <1>. QED  BY <1>1 DEF Owned, OriginInv, OwnWrites, Has, Nothing

\* A listing shows nothing that is not there.
LEMMA ListingHas ==
    ASSUME NEW f, NEW missing, NEW u \in Uids, Listing(f, missing)[u] # Gone
    PROVE  f[u] # Gone
  BY DEF Listing

LEMMA FetchSourceOwned == ASSUME IInv, OriginInv, FetchSource PROVE Owned
  <1>1. UNCHANGED <<cal, dest, recs>> /\ pc' \in {"dest", "next"} /\ cur \in Calendars
    BY DEF FetchSource, world, IInv, PassInv
  <1>2. CASE DropLocals
    BY <1>1, <1>2 DEF DropLocals, Owned, OriginInv, OwnWrites, Has, Nothing
  <1>3. ASSUME NEW missing, slist' = Listing(cal[cur], missing), UNCHANGED cur
        PROVE  Owned
    <2>1. \A u \in Has(slist') : Home[u] = cur
      BY <1>1, <1>3, ListingHas DEF OriginInv, Has
    <2>. QED  BY <1>1, <1>3, <2>1 DEF Owned, OriginInv, OwnWrites, Has
  <1>. QED  BY <1>2, <1>3 DEF FetchSource

LEMMA DropOwned ==
    ASSUME IInv, OriginInv, Crash \/ EndCalendar
    PROVE  Owned
  <1>1. DropLocals /\ UNCHANGED <<cal, dest, recs>> /\ pc' \in {"idle", "next"}
    BY DEF Crash, EndCalendar, world
  <1>. QED  BY <1>1 DEF DropLocals, Owned, OriginInv, OwnWrites, Has, Nothing

LEMMA FetchDestOwned == ASSUME IInv, OriginInv, FetchDest PROVE Owned
  <1>1. UNCHANGED <<cal, dest, recs, slist, cur>> /\ pc' = "delete"
    BY DEF FetchDest, world
  <1>2. \A u \in todo' \cup forgetting' : recs[cur][u] # "none"
    BY DEF FetchDest, ToDelete, IInv, PassInv
  <1>. QED  BY <1>1, <1>2 DEF Owned, OriginInv, OwnWrites, Has

LEMMA DeleteStepOwned ==
    ASSUME IInv, OriginInv, NEW u \in Uids, DeleteStep(u)
    PROVE  Owned
  <1>0. /\ cur \in Calendars /\ pc = "delete" /\ pc' = "delete"
        /\ u \in todo /\ todo' = todo \ {u}
        /\ UNCHANGED <<cur, slist, current>>
    BY DEF DeleteStep, Visit, IInv, PassInv
  <1>1. Home[u] = cur
    BY <1>0 DEF OriginInv, IInv, TypeOK
  <1>2. /\ recs' = recs /\ forgetting' \subseteq {u}
        /\ cal' \in {cal, [cal EXCEPT ![cur][u] = Gone]}
        /\ dest' \in {dest, [dest EXCEPT ![u] = Gone]}
    BY DEF DeleteStep, DeleteFromDest, DeleteFromSource, DeletedOnBoth,
           KeepFresh, KeepBoth, world
  <1>3. \A c \in Calendars, w \in Uids :
          /\ cal'[c][w] \in {cal[c][w], Gone}
          /\ w # u => dest'[w] = dest[w]
    BY <1>0, <1>2 DEF IInv, TypeOK, Copies
  <1>4. OriginInv'
    BY <1>0, <1>2, <1>3 DEF OriginInv, Has, IInv, TypeOK
  <1>. QED  BY <1>0, <1>1, <1>3, <1>4 DEF Owned, OwnWrites

LEMMA ForgetStepOwned ==
    ASSUME IInv, OriginInv, NEW u \in Uids, ForgetStep(u)
    PROVE  Owned
  <1>0. /\ cur \in Calendars /\ pc = "delete" /\ u \in forgetting
        /\ u \notin todo /\ forgetting' = {}
        /\ UNCHANGED <<cal, dest, pc, cur, slist, current, todo>>
    BY DEF ForgetStep, views, IInv, PassInv
  <1>1. \A c \in Calendars, w \in Uids :
          /\ recs'[c][w] \in {recs[c][w], "none"}
          /\ w # u => recs'[c][w] = recs[c][w]
    BY <1>0 DEF ForgetStep, IInv, TypeOK
  <1>2. OriginInv'
    BY <1>0, <1>1 DEF OriginInv, Has, IInv, TypeOK
  <1>. QED  BY <1>0, <1>2 DEF Owned, OwnWrites

LEMMA PushStepOwned ==
    ASSUME IInv, OriginInv, NEW u \in Uids, PushStep(u)
    PROVE  Owned
  <1>0. /\ pc' = pc /\ todo' \subseteq todo /\ pc = "push" /\ u \in Has(slist)
        /\ UNCHANGED <<cal, recs, slist, cur>>
    BY DEF PushStep, Visit, IInv, PassInv
  <1>1. Home[u] = cur
    BY <1>0 DEF OriginInv
  <1>2. \A w \in Uids : w # u => dest'[w] = dest[w]
    BY DEF PushStep, SkipDuplicate, CreateOnDest, UpdateOnDest, Unchanged,
           PutOut, Put, IInv, TypeOK, Copies
  <1>3. OriginInv'
    BY <1>0, OriginFrame
  <1>. QED  BY <1>1, <1>2, <1>3 DEF Owned, OwnWrites

LEMMA PullStepOwned ==
    ASSUME IInv, OriginInv, NEW u \in Uids, PullStep(u)
    PROVE  Owned
  <1>0. /\ pc' = pc /\ pc = "pull" /\ u \in Has(slist) /\ cur \in Calendars
        /\ UNCHANGED <<dest, recs, slist, cur, current>>
    BY DEF PullStep, Visit, IInv, PassInv, TypeOK
  <1>1. Home[u] = cur
    BY <1>0 DEF OriginInv
  <1>2. \A c \in Calendars, w \in Uids :
          c # cur \/ w # u => cal'[c][w] = cal[c][w]
    BY <1>0 DEF PullStep, Put, IInv, TypeOK, Copies
  <1>3. OriginInv'
    BY <1>0, <1>1, <1>2 DEF OriginInv, Has
  <1>. QED  BY <1>0, <1>3 DEF Owned, OwnWrites

LEMMA RecordStepOwned ==
    ASSUME IInv, OriginInv, NEW u \in Uids, RecordStep(u)
    PROVE  Owned
  <1>0. /\ pc' = pc /\ pc = "record" /\ cur \in Calendars
        /\ u \in todo /\ todo' = todo \ {u}
        /\ UNCHANGED <<cal, dest, slist, cur, current>>
    BY DEF RecordStep, Visit, IInv, PassInv
  <1>1. u \in Has(slist) /\ Home[u] = cur
    BY <1>0 DEF OriginInv, IInv, TypeOK
  <1>2. \A c \in Calendars, w \in Uids :
          c # cur \/ w # u => recs'[c][w] = recs[c][w]
    BY <1>0 DEF RecordStep, IInv, TypeOK
  <1>3. OriginInv'
    BY <1>0, <1>1, <1>2 DEF OriginInv, Has
  <1>. QED  BY <1>0, <1>3 DEF Owned, OwnWrites

\* Then there are neither orphans nor duplicates to drop.
LEMMA NothingDropped ==
    ASSUME Sparing, IInv, OriginInv, NEW u \in Uids
    PROVE  ~OrphanStep(u) /\ ~SweepStep(u)
  BY DEF Sparing, TwoWay, IInv, PassInv, OriginInv, OrphanStep, SweepStep,
         DropFromDest, Visit

LEMMA StartOwned ==
    ASSUME IInv, OriginInv,
           FindDuplicates \/ StartPush \/ StartPull \/ StartOrphans
           \/ StartDedupe \/ StartRecord
    PROVE  Owned
  <1>1. UNCHANGED <<cal, dest, recs, slist, cur, current>>
    BY DEF FindDuplicates, StartPush, StartPull, StartOrphans, StartDedupe,
           StartRecord, NextLoop, world, views
  <1>2. CASE FindDuplicates \/ StartPush \/ StartPull \/ StartDedupe
    <2>1. pc' \in {"push", "pull", "dedupe", "sweep"}
      BY <1>2 DEF FindDuplicates, StartPush, StartPull, StartDedupe, NextLoop
    <2>. QED  BY <1>1, <2>1, OriginFrame DEF Owned, OwnWrites
  <1>3. CASE StartOrphans
    <2>1. pc' = "orphans" /\ (todo' # {} => ~TwoWay /\ Strategy = "source_wins")
      BY <1>3 DEF StartOrphans, NextLoop
    <2>. QED  BY <1>1, <2>1 DEF Owned, OwnWrites, OriginInv, Has, TwoWay
  <1>4. CASE StartRecord
    <2>1. pc' = "record" /\ todo' = current
      BY <1>4 DEF StartRecord, NextLoop
    <2>. QED  BY <1>1, <2>1 DEF Owned, OwnWrites, OriginInv, Has
  <1>. QED  BY <1>2, <1>3, <1>4

LEMMA EditOwned ==
    ASSUME IInv, OriginInv, NEW u \in Uids,
           EditDest(u) \/ \E c \in Calendars : EditSource(c, u)
    PROVE  Owned /\ ~BySync
  <1>1. ~BySync /\ UNCHANGED <<recs, pc, slist, cur, todo, forgetting, current>>
    BY DEF EditDest, EditSource, Edit, BySync, IInv, TypeOK, views, work
  <1>2. CASE EditDest(u)
    BY <1>1, <1>2, OriginFrame DEF EditDest, Owned, OwnWrites
  <1>3. ASSUME NEW c \in Calendars, EditSource(c, u) PROVE OriginInv'
    <2>1. \A d \in Calendars, w \in Uids :
            d # c \/ w # u => cal'[d][w] = cal[d][w]
      BY <1>3 DEF EditSource, IInv, TypeOK, Copies
    <2>2. Home[u] = c
      BY <1>3 DEF EditSource
    <2>. QED  BY <1>1, <2>1, <2>2 DEF OriginInv, Has, TwoWay
  <1>. QED  BY <1>1, <1>2, <1>3 DEF Owned, OwnWrites

LEMMA QuietOwned ==
    ASSUME IInv, OriginInv, IntervalPasses \/ UNCHANGED vars
    PROVE  Owned
  <1>1. UNCHANGED <<cal, dest, pc, slist, cur, todo, forgetting, current>>
    BY DEF IntervalPasses, vars, world, views, work
  <1>2. \A c \in Calendars, u \in Uids : recs'[c][u] = "none" <=> recs[c][u] = "none"
    BY DEF IntervalPasses, vars, world
  <1>3. pc = "delete" => UNCHANGED recs
    BY DEF IntervalPasses, vars, world
  <1>. QED  BY <1>1, <1>2, <1>3 DEF Owned, OwnWrites, OriginInv, Has, TwoWay

\* Dropping an orphan or a duplicate changes the destination alone.
LEMMA DropOrigin ==
    ASSUME OriginInv, NEW u \in Uids, OrphanStep(u) \/ SweepStep(u)
    PROVE  OriginInv'
  <1>1. /\ UNCHANGED <<cal, recs, slist, cur, current, forgetting>>
        /\ pc' = pc /\ todo' \subseteq todo
    BY DEF OrphanStep, SweepStep, DropFromDest, Visit
  <1>. QED  BY <1>1, OriginFrame

\* Every step but those keeps to its own calendar on both sides.
LEMMA StepOwned ==
    ASSUME IInv, OriginInv, [Next]_vars,
           \A u \in Uids : ~OrphanStep(u) /\ ~SweepStep(u)
    PROVE  Owned
  <1>1. CASE \E u \in Uids : \/ DeleteStep(u) \/ ForgetStep(u) \/ PushStep(u)
                            \/ PullStep(u) \/ RecordStep(u)
    BY <1>1, DeleteStepOwned, ForgetStepOwned, PushStepOwned, PullStepOwned,
       RecordStepOwned
  <1>2. CASE BeginPass \/ EndPass \/ (\E c \in Calendars : NextCalendar(c))
             \/ Crash \/ EndCalendar
    BY <1>2, BetweenOwned, DropOwned
  <1>3. CASE FetchSource \/ FetchDest
    BY <1>3, FetchSourceOwned, FetchDestOwned
  <1>4. CASE FindDuplicates \/ StartPush \/ StartPull \/ StartOrphans
             \/ StartDedupe \/ StartRecord
    BY <1>4, StartOwned
  <1>5. CASE \E u \in Uids : EditDest(u) \/ \E c \in Calendars : EditSource(c, u)
    BY <1>5, EditOwned
  <1>6. CASE IntervalPasses \/ UNCHANGED vars
    BY <1>6, QuietOwned
  <1>. QED  BY <1>1, <1>2, <1>3, <1>4, <1>5, <1>6 DEF Next, SyncStep

LEMMA NextOwned == ASSUME Sparing, IInv, OriginInv, [Next]_vars PROVE Owned
  BY StepOwned, NothingDropped

LEMMA OriginHolds == Spec => []OriginInv
  <1>1. IInv /\ OriginInv /\ [Next]_vars => OriginInv'
    BY StepOwned, DropOrigin DEF Owned
  <1>. QED  BY <1>1, InitOrigin, Invariance, PTL DEF Spec

-----------------------------------------------------------------------------
(* What follows for the destination.                                       *)

\* The sync of one calendar never takes an event from the destination that
\* another calendar of the source holds.
THEOREM OthersSafe == ASSUME Sparing PROVE Spec => OthersKept
  <1>1. IInv /\ OriginInv /\ [Next]_vars =>
          [BySync => \A c \in Calendars, u \in Uids :
             c # cur /\ cal[c][u] # Gone /\ dest[u] # Gone => dest'[u] # Gone]_vars
    BY NextOwned DEF Owned, OwnWrites, OriginInv
  <1>. QED  BY <1>1, OriginHolds, Invariance, PTL DEF Spec, OthersKept

\* An event that belongs to no calendar of the source stays on the
\* destination as it is, is never copied to the source and never recorded.
THEOREM ForeignSafe == ASSUME Sparing PROVE Spec => ForeignUntouched
  <1>1. IInv /\ OriginInv /\ [Next]_vars =>
          [BySync => \A u \in Uids : Home[u] = NoCalendar =>
             /\ dest'[u] = dest[u]
             /\ \A c \in Calendars : cal'[c][u] = Gone /\ recs'[c][u] = "none"]_vars
    <2>. SUFFICES ASSUME IInv, OriginInv, [Next]_vars, BySync, vars' # vars,
                         NEW u \in Uids, Home[u] = NoCalendar
                  PROVE  /\ dest'[u] = dest[u]
                         /\ \A c \in Calendars :
                               cal'[c][u] = Gone /\ recs'[c][u] = "none"
      OBVIOUS
    <2>1. Owned
      BY NextOwned
    <2>2. \A c \in Calendars : cal'[c][u] = Gone /\ recs'[c][u] = "none"
      BY <2>1, FullSyncAssumption DEF Owned, OriginInv
    <2>3. dest'[u] = dest[u]
      <3>1. CASE cur \in Calendars
        BY <2>1, <3>1, FullSyncAssumption DEF Owned, OwnWrites
      <3>2. CASE cur = NoCalendar
        <4>1. pc \in {"idle", "next"}
          BY <3>2, FullSyncAssumption DEF IInv, PassInv
        <4>2. ~(\E w \in Uids : EditDest(w) \/ \E c \in Calendars : EditSource(c, w))
          BY EditOwned
        <4>3. ~(\E w \in Uids : \/ DeleteStep(w) \/ ForgetStep(w) \/ PushStep(w)
                                \/ PullStep(w) \/ OrphanStep(w) \/ SweepStep(w)
                                \/ RecordStep(w))
          BY <4>1 DEF DeleteStep, ForgetStep, PushStep, PullStep, OrphanStep, SweepStep,
                      DropFromDest, RecordStep, Visit
        <4>. QED  BY <4>2, <4>3 DEF Next, SyncStep, BeginPass, EndPass,
                NextCalendar, Crash, FetchSource, FetchDest, FindDuplicates,
                StartPush, StartPull, StartOrphans, StartDedupe, StartRecord,
                NextLoop, EndCalendar, IntervalPasses, world, vars
      <3>. QED  BY <3>1, <3>2 DEF IInv, TypeOK
    <2>. QED  BY <2>2, <2>3
  <1>. QED  BY <1>1, OriginHolds, Invariance, PTL DEF Spec, ForeignUntouched

-----------------------------------------------------------------------------
(* The source side.                                                        *)

\* The UIDs that somebody, or a sync that then lost its way, has deleted on
\* the destination.
Excused == wiped \cup lapsed

\* What a record, the destination map or the list of events to record stands
\* for is on the destination, or excused; and so is what the deletion loop
\* misses there.
WitnessInv ==
    /\ \A c \in Calendars, u \in Uids :
          recs[c][u] # "none" => dest[u] # Gone \/ u \in Excused
    /\ \A u \in dmap \cup current : dest[u] # Gone \/ u \in Excused
    /\ pc = "delete" =>
          current = {} /\ \A u \in (todo \cap smap) \ dmap : u \in Excused

\* The sync takes from the source only what is excused.
JustLosses ==
    BySync => \A c \in Calendars, u \in Uids :
        cal[c][u] # Gone /\ cal'[c][u] = Gone => u \in Excused

Just == WitnessInv' /\ JustLosses

LEMMA InitWitness == Init => WitnessInv
  BY DEF Init, WitnessInv

\* Steps that take nothing from either side.
LEMMA WitnessFrame ==
    ASSUME IInv, WitnessInv, UNCHANGED cal,
           \A u \in Uids : dest[u] # Gone => dest'[u] # Gone,
           Excused \subseteq Excused',
           \A c \in Calendars, u \in Uids :
              recs'[c][u] # "none" => recs[c][u] # "none",
           \A u \in (dmap' \cup current') \ (dmap \cup current) : dest'[u] # Gone,
           pc' # "delete" \/ UNCHANGED <<pc, todo, smap, dmap, current>>
    PROVE  Just
  BY DEF Just, WitnessInv, JustLosses, IInv, TypeOK, Has

LEMMA FetchDestJust == ASSUME Frank, IInv, WitnessInv, FetchDest PROVE Just
  <1>1. /\ UNCHANGED <<cal, dest, recs, smap, current, wiped, lapsed>>
        /\ pc' = "delete" /\ current = {}
    BY DEF FetchDest, world, Suffer, IInv, PassInv
  <1>2. PICK missing \in SUBSET Has(dest),
             failed \in SUBSET {"fetch", "partial", "records"} :
          /\ "partial" \in failed <=> missing # {} /\ missing # Has(dest)
          /\ Suffer(failed)
          /\ dlist' = Listing(dest, missing)
          /\ dmap' = Has(dlist')
          /\ todo' = IF "records" \in failed THEN {} ELSE ToDelete(dmap')
    BY DEF FetchDest
  <1>3. dmap' \subseteq Has(dest)
    BY <1>2, ListingHas DEF Has
  <1>4. CASE missing = {}
    <2>1. dmap' = Has(dest)
      BY <1>2, <1>4 DEF Has, Listing, Frank
    <2>2. \A u \in todo' : \E c \in Calendars : recs[c][u] # "none"
      BY <1>2 DEF ToDelete, FetchDest, IInv, PassInv
    <2>. QED  BY <1>1, <1>3, <2>1, <2>2 DEF Just, WitnessInv, JustLosses, Excused,
              Has, IInv, TypeOK
  <1>5. CASE missing = Has(dest)
    <2>1. dmap' = {} /\ todo' = {}
      BY <1>2, <1>5 DEF Has, Listing, ToDelete
    <2>. QED  BY <1>1, <2>1 DEF Just, WitnessInv, JustLosses, Excused
  <1>. QED  BY <1>2, <1>4, <1>5 DEF Frank, Suffer

\* What the loop takes from the destination lapses until its record has gone.
LEMMA DeleteStepJust ==
    ASSUME IInv, WitnessInv, NEW u \in Uids, DeleteStep(u)
    PROVE  Just
  <1>0. /\ cur \in Calendars /\ pc = "delete" /\ pc' = "delete"
        /\ u \in todo /\ todo' = todo \ {u}
        /\ UNCHANGED <<current, wiped, recs>> /\ current = {}
    BY DEF DeleteStep, DeleteFromDest, DeleteFromSource, DeletedOnBoth,
           KeepFresh, KeepBoth, Suffer, Visit, world, IInv, PassInv, WitnessInv
  <1>1. smap' \in {smap, smap \ {u}} /\ dmap' \in {dmap, dmap \ {u}}
    BY DEF DeleteStep, DeleteFromDest, DeleteFromSource, DeletedOnBoth,
           KeepFresh, KeepBoth
  <1>2. CASE DeleteFromDest(u)
    <2>1. /\ UNCHANGED cal
          /\ \/ UNCHANGED <<dest, lapsed>>
             \/ dest' = [dest EXCEPT ![u] = Gone] /\ lapsed' = lapsed \cup {u}
      BY <1>2 DEF DeleteFromDest
    <2>2. \A w \in Uids : dest'[w] = dest[w] \/ w \in Excused'
      BY <2>1 DEF Excused, IInv, TypeOK, Copies
    <2>3. Excused \subseteq Excused'
      BY <1>0, <2>1 DEF Excused
    <2>. QED  BY <1>0, <1>1, <2>1, <2>2, <2>3
              DEF Just, WitnessInv, JustLosses, IInv, TypeOK, Has
  <1>3. CASE DeleteFromSource(u)
    <2>1. u \in Excused /\ Excused' = Excused /\ UNCHANGED <<dest, dmap>>
      BY <1>0, <1>3 DEF DeleteFromSource, WitnessInv, Excused
    <2>2. \A c \in Calendars, w \in Uids : w # u => cal'[c][w] = cal[c][w]
      BY <1>0, <1>3 DEF DeleteFromSource, IInv, TypeOK, Copies
    <2>. QED  BY <1>0, <1>1, <2>1, <2>2 DEF Just, WitnessInv, JustLosses
  <1>4. CASE DeletedOnBoth(u) \/ KeepFresh(u) \/ KeepBoth(u)
    <2>1. UNCHANGED <<cal, dest, lapsed, smap, dmap>>
      BY <1>4 DEF DeletedOnBoth, KeepFresh, KeepBoth, world
    <2>. QED  BY <1>0, <2>1 DEF Just, WitnessInv, JustLosses, Excused
  <1>. QED  BY <1>2, <1>3, <1>4 DEF DeleteStep

\* Without its record an event needs no excuse.
LEMMA ForgetStepJust ==
    ASSUME IInv, OriginInv, WitnessInv, NEW u \in Uids, ForgetStep(u)
    PROVE  Just
  <1>0. /\ cur \in Calendars /\ pc = "delete" /\ u \in forgetting
        /\ u \notin todo /\ u \notin dmap /\ current = {}
        /\ UNCHANGED <<cal, dest, pc, smap, dmap, current, todo, wiped>>
    BY DEF ForgetStep, Suffer, views, IInv, PassInv, WitnessInv
  <1>1. \A c \in Calendars : recs[c][u] # "none" => c = cur
    BY <1>0 DEF OriginInv, IInv, TypeOK
  <1>2. CASE UNCHANGED <<recs, lapsed>>
    BY <1>0, <1>2 DEF Just, WitnessInv, JustLosses, Excused
  <1>3. CASE recs' = [recs EXCEPT ![cur][u] = "none"] /\ lapsed' = lapsed \ {u}
    <2>1. \A c \in Calendars : recs'[c][u] = "none"
      BY <1>0, <1>1, <1>3 DEF IInv, TypeOK
    <2>2. \A c \in Calendars, w \in Uids : w # u => recs'[c][w] = recs[c][w]
      BY <1>0, <1>3 DEF IInv, TypeOK
    <2>3. \A w \in Uids : w # u => (w \in Excused' <=> w \in Excused)
      BY <1>0, <1>3 DEF Excused
    <2>. QED  BY <1>0, <2>1, <2>2, <2>3
              DEF Just, WitnessInv, JustLosses, IInv, TypeOK, Has
  <1>. QED  BY <1>2, <1>3 DEF ForgetStep

LEMMA PushStepJust ==
    ASSUME Frank, IInv, WitnessInv, NEW u \in Uids, PushStep(u)
    PROVE  Just
  <1>0. /\ pc' = pc /\ pc = "push" /\ slist[u] # Gone
        /\ dmap' = dmap \ {u}
        /\ UNCHANGED <<cal, recs, smap>>
    BY DEF PushStep, Visit, IInv, PassInv, Has
  <1>1. Excused' = Excused
    BY DEF PushStep, SkipDuplicate, CreateOnDest, UpdateOnDest, Unchanged, PutOut,
           Suffer, Excused
  <1>2. ASSUME NEW ks, PutOut(u, ks) PROVE Just
    <2>1. \/ dest' = [dest EXCEPT ![u] = slist[u]] /\ current' = current \cup {u}
          \/ UNCHANGED <<dest, current>>
      BY <1>2 DEF PutOut, Put, Frank
    <2>2. \A w \in Uids : dest'[w] \in {dest[w], slist[u]} /\ (current' # current => dest'[u] # Gone)
      BY <1>0, <2>1 DEF IInv, TypeOK, Copies
    <2>3. \A w \in Uids : dest[w] # Gone => dest'[w] # Gone
      BY <1>0, <2>2
    <2>. QED  BY <1>0, <1>1, <2>1, <2>2, <2>3 DEF Just, WitnessInv, JustLosses, IInv, TypeOK, Has
  <1>3. CASE SkipDuplicate(u)
    BY <1>0, <1>1, <1>3 DEF SkipDuplicate, Just, WitnessInv, JustLosses
  <1>4. CASE Unchanged(u)
    BY <1>0, <1>1, <1>4 DEF Unchanged, Just, WitnessInv, JustLosses
  <1>. QED  BY <1>2, <1>3, <1>4 DEF PushStep, CreateOnDest, UpdateOnDest

LEMMA PullStepJust ==
    ASSUME IInv, WitnessInv, NEW u \in Uids, PullStep(u)
    PROVE  Just
  <1>0. /\ pc' = pc /\ pc = "pull" /\ cur \in Calendars /\ dlist[u] # Gone
        /\ UNCHANGED <<dest, recs, smap, dmap, current, wiped, lapsed>>
    BY DEF PullStep, Visit, Suffer, IInv, PassInv, TypeOK, Has
  <1>1. \A c \in Calendars, w \in Uids : cal'[c][w] \in {cal[c][w], dlist[u]}
    BY <1>0 DEF PullStep, Put, IInv, TypeOK, Copies
  <1>. QED  BY <1>0, <1>1 DEF Just, WitnessInv, JustLosses, Excused

LEMMA RecordStepJust ==
    ASSUME IInv, OriginInv, WitnessInv, NEW u \in Uids, RecordStep(u)
    PROVE  Just
  <1>0. /\ pc' = pc /\ pc = "record" /\ cur \in Calendars /\ u \in current
        /\ UNCHANGED <<cal, dest, smap, dmap, current, wiped, lapsed>>
    BY DEF RecordStep, Visit, Suffer, IInv, PassInv, OriginInv
  <1>1. \A c \in Calendars, w \in Uids : w # u => recs'[c][w] = recs[c][w]
    BY <1>0 DEF RecordStep, IInv, TypeOK
  <1>. QED  BY <1>0, <1>1 DEF Just, WitnessInv, JustLosses, Excused

LEMMA EditJust ==
    ASSUME IInv, WitnessInv, NEW u \in Uids,
           EditDest(u) \/ \E c \in Calendars : EditSource(c, u)
    PROVE  Just
  <1>1. ~BySync /\ UNCHANGED <<recs, pc, smap, todo, dmap, current, lapsed>>
    BY DEF EditDest, EditSource, Edit, BySync, IInv, TypeOK, views, work
  <1>2. \A w \in Uids : (dest[w] # Gone => dest'[w] # Gone \/ w \in wiped')
                        /\ (w \in wiped => w \in wiped')
    BY DEF EditDest, EditSource, IInv, TypeOK, Copies
  <1>. QED  BY <1>1, <1>2 DEF Just, WitnessInv, JustLosses, Excused, IInv, TypeOK, Has

\* The steps that only look, and those of the passing of time.
LEMMA LookJust ==
    ASSUME IInv, WitnessInv,
           \/ BeginPass \/ EndPass \/ (\E c \in Calendars : NextCalendar(c))
           \/ FetchSource \/ FindDuplicates \/ StartPush \/ StartPull
           \/ StartOrphans \/ StartDedupe \/ StartRecord
           \/ Crash \/ EndCalendar \/ IntervalPasses \/ UNCHANGED vars
    PROVE  Just
  <1>1. UNCHANGED <<cal, dest, wiped, lapsed>>
    BY DEF BeginPass, EndPass, NextCalendar, FetchSource, FindDuplicates,
           StartPush, StartPull, StartOrphans, StartDedupe, StartRecord,
           NextLoop, Crash, EndCalendar, IntervalPasses, Suffer, vars, world,
           history
  <1>2. \A c \in Calendars, u \in Uids :
           recs'[c][u] # "none" => recs[c][u] # "none"
    BY DEF BeginPass, EndPass, NextCalendar, FetchSource, FindDuplicates,
           StartPush, StartPull, StartOrphans, StartDedupe, StartRecord,
           NextLoop, Crash, EndCalendar, IntervalPasses, vars, world
  <1>3. dmap' \in {dmap, {}} /\ current' \in {current, {}}
    BY DEF BeginPass, EndPass, NextCalendar, FetchSource, FindDuplicates,
           StartPush, StartPull, StartOrphans, StartDedupe, StartRecord,
           NextLoop, Crash, EndCalendar, IntervalPasses, vars, work, DropLocals
  <1>4. pc' # "delete" \/ UNCHANGED <<pc, todo, smap, dmap, current>>
    BY DEF BeginPass, EndPass, NextCalendar, FetchSource, FindDuplicates,
           StartPush, StartPull, StartOrphans, StartDedupe, StartRecord,
           NextLoop, Crash, EndCalendar, IntervalPasses, vars, work, views
  <1>5. Excused' = Excused
    BY <1>1 DEF Excused
  <1>. QED  BY <1>1, <1>2, <1>3, <1>4, <1>5, WitnessFrame

LEMMA NextJust ==
    ASSUME Sparing, Frank, IInv, OriginInv, WitnessInv, [Next]_vars
    PROVE  Just
  <1>1. CASE \E u \in Uids : \/ DeleteStep(u) \/ ForgetStep(u) \/ PushStep(u)
                            \/ PullStep(u) \/ RecordStep(u) \/ OrphanStep(u)
                            \/ SweepStep(u)
    BY <1>1, DeleteStepJust, ForgetStepJust, PushStepJust, PullStepJust,
       RecordStepJust, NothingDropped
  <1>2. CASE FetchDest
    BY <1>2, FetchDestJust
  <1>3. CASE \E u \in Uids : EditDest(u) \/ \E c \in Calendars : EditSource(c, u)
    BY <1>3, EditJust
  <1>. QED  BY <1>1, <1>2, <1>3, LookJust DEF Next, SyncStep

\* "SAFETY: Only delete from source if the event was synced" (sync.go:535):
\* whatever requests or database writes fail, whenever the process dies,
\* between a server's deletion and that of the record too, and however people
\* edit meanwhile, a two-way sync takes an event from the source only if
\* somebody has deleted it on the destination or a sync did, whose record of
\* it then stayed.
THEOREM SourceSafe == ASSUME Sparing, Frank PROVE Spec => SourceLossJustified
  <1>1. IInv /\ OriginInv /\ WitnessInv /\ [Next]_vars => WitnessInv'
    BY NextJust DEF Just
  <1>2. Spec => []WitnessInv
    BY <1>1, InitWitness, OriginHolds, Invariance, PTL DEF Spec
  <1>3. IInv /\ OriginInv /\ WitnessInv /\ [Next]_vars =>
          [BySync => \A c \in Calendars, u \in Uids :
             cal[c][u] # Gone /\ cal'[c][u] = Gone => u \in wiped \cup lapsed]_vars
    BY NextJust DEF Just, JustLosses, Excused
  <1>. QED  BY <1>2, <1>3, OriginHolds, Invariance, PTL DEF Spec, SourceLossJustified

-----------------------------------------------------------------------------
(* Events before the cutoff.                                               *)

\* The date filter has been over whatever the destination listing shows.
Dated == \A u \in Uids : dlist[u] \notin Past

LEMMA DatedNext == ASSUME IInv, Dated, [Next]_vars PROVE Dated'
  <1>1. CASE UNCHANGED dlist
    BY <1>1 DEF Dated
  <1>2. CASE DropLocals
    BY <1>2, FullSyncAssumption DEF DropLocals, Nothing, Dated
  <1>3. CASE FetchDest
    BY <1>3, FullSyncAssumption DEF FetchDest, Listing, Dated
  <1>4. CASE vars' = vars \/ IntervalPasses
             \/ (\E u \in Uids : EditDest(u) \/ \E c \in Calendars : EditSource(c, u))
    BY <1>1, <1>4 DEF vars, views, IntervalPasses, EditDest, EditSource, Edit
  <1>5. CASE \E u \in Uids : \/ DeleteStep(u) \/ ForgetStep(u) \/ PushStep(u)
                            \/ PullStep(u) \/ OrphanStep(u) \/ SweepStep(u)
                            \/ RecordStep(u)
    BY <1>1, <1>5 DEF DeleteStep, ForgetStep, views, PushStep, PullStep, OrphanStep,
       SweepStep, DropFromDest, RecordStep, Visit
  <1>6. CASE BeginPass \/ EndPass \/ (\E c \in Calendars : NextCalendar(c))
             \/ FindDuplicates
             \/ StartPush \/ StartPull \/ StartOrphans \/ StartDedupe \/ StartRecord
    BY <1>1, <1>6 DEF BeginPass, EndPass, NextCalendar, FindDuplicates,
       StartPush, StartPull, StartOrphans, StartDedupe, StartRecord, NextLoop, views
  <1>7. CASE FetchSource \/ Crash \/ EndCalendar
    BY <1>1, <1>2, <1>7 DEF FetchSource, Crash, EndCalendar
  <1>. QED  BY <1>3, <1>4, <1>5, <1>6, <1>7 DEF Next, SyncStep

\* What the date filter hides on the destination is not deleted there, by
\* syncs of any direction: a consequence of the refinement of the mirror,
\* whose writes take only what one of the listings holds.
THEOREM PastSafe == ASSUME Shared = {} PROVE Spec => PastKept
  <1>1. Init => Dated
    BY FullSyncAssumption DEF Init, Nothing, Dated
  <1>2. IInv /\ Dated /\ [Next]_vars => Dated'
    BY DatedNext
  <1>3. IInv /\ Dated /\ [Next]_vars =>
          [BySync => \A u \in Uids :
             dest[u] \in Past /\ dlist[u] \in Past \cup {Gone} => dest'[u] # Gone]_vars
    <2>. SUFFICES ASSUME IInv, Dated, [Next]_vars, BySync, NEW u \in Uids,
                         dest[u] # Gone, dlist[u] = Gone, dest'[u] = Gone
                  PROVE  FALSE
      BY FullSyncAssumption DEF Dated
    <2>1. [Mirror!Next]_(Mirror!mirrorVars)
      BY NextKept
    <2>2. edits' = edits /\ edits \in Nat
      BY DEF BySync, IInv, TypeOK
    <2>3. PICK w \in Uids : Mirror!CopyOut(w)
      BY <2>1, <2>2 DEF Mirror!Next, Mirror!mirrorVars, Mirror!Edit, Mirror!Take,
         Mirror!ReadSource, Mirror!ReadDestination, Mirror!CopyBack
    <2>. QED  BY <2>3 DEF Mirror!CopyOut, IInv, TypeOK, Copies
  <1>. QED  BY <1>1, <1>2, <1>3, Invariance, PTL DEF Spec, PastKept

-----------------------------------------------------------------------------
(* One-way calendars.                                                      *)

\* The sync writes nothing to a calendar that is synced one-way.
ReadOnlySources ==
    [][BySync => \A c \in Calendars :
         Direction[c] = "one_way" => cal'[c] = cal[c]]_vars

\* Whatever else is selected, looks alike, fails or is edited meanwhile.
THEOREM OneWayReadOnly == Spec => ReadOnlySources
  <1>1. IInv /\ [Next]_vars =>
          [BySync => \A c \in Calendars :
             Direction[c] = "one_way" => cal'[c] = cal[c]]_vars
    <2>. SUFFICES ASSUME IInv, [Next]_vars, BySync,
                         NEW c \in Calendars, Direction[c] = "one_way"
                  PROVE  cal'[c] = cal[c]
      OBVIOUS
    <2>1. ASSUME NEW u \in Uids, DeleteStep(u) \/ PullStep(u) PROVE cal'[c] = cal[c]
      <3>1. TwoWay /\ cur \in Calendars
        BY <2>1 DEF DeleteStep, PullStep, Visit, IInv, PassInv
      <3>2. cal' = cal \/ \E f : cal' = [cal EXCEPT ![cur] = f]
        BY <2>1 DEF DeleteStep, DeleteFromDest, DeleteFromSource, DeletedOnBoth,
           KeepFresh, KeepBoth, PullStep, world, IInv, TypeOK
      <3>. QED  BY <3>1, <3>2 DEF TwoWay, IInv, TypeOK
    <2>2. ~(\E u \in Uids : EditDest(u) \/ \E d \in Calendars : EditSource(d, u))
      BY DEF EditDest, EditSource, Edit, BySync, IInv, TypeOK
    <2>. QED  BY <2>1, <2>2 DEF Next, SyncStep, BeginPass, EndPass, NextCalendar,
                FetchSource, FetchDest, ForgetStep, PushStep, OrphanStep, SweepStep,
                DropFromDest, RecordStep, Visit, FindDuplicates, StartPush,
                StartPull, StartOrphans, StartDedupe, StartRecord, NextLoop,
                EndCalendar, Crash, IntervalPasses, world, vars
  <1>. QED  BY <1>1, Invariance, PTL DEF Spec, ReadOnlySources

-----------------------------------------------------------------------------
(* What a pass delivers.                                                   *)

\* No two events look alike, the pull loop has nothing to overwrite, and no
\* calendar takes the events of another one for orphans.
Delivering ==
    /\ Shared = {}
    /\ Strategy = "dest_wins" => \A c \in Calendars : Direction[c] = "one_way"
    /\ Sparing \/ \A c, d \in Calendars : c = d

\* What a listing does not show.
Unseen == Past \cup {Gone}

\* The source listing still shows all there is to show, but for what this
\* sync has deleted since.
Seen ==
    pc \notin {"idle", "next", "source"} =>
        \A u \in Uids : cal[cur][u] \notin Unseen => slist[u] = cal[cur][u]

\* The push loop has still to come to u.
Pending(u) == pc = "delete" \/ (pc = "push" /\ u \in todo)

\* A listed event, or what its ETag takes for it, is on the destination once
\* the push loop has been there; before, the destination is as it was listed, and no key stands in the way.
Pushed ==
    pc \notin {"idle", "next", "source", "dest"} =>
        \A u \in Has(slist) :
            /\ Pending(u) /\ u \in dmap => dest[u] = dlist[u]
            /\ Pending(u) /\ u \notin dmap => Keys(u, slist[u]) \cap keys = {}
            /\ ~Pending(u) => PassesFor(dest[u], slist[u]) \/ slist[u] \in Blank

NoPull == pc = "pull" /\ todo # {} => TwoWay /\ Strategy = "dest_wins"

Delivered(c) ==
    \A u \in Uids : cal[c][u] \notin Unseen =>
        PassesFor(dest[u], cal[c][u]) \/ cal[c][u] \in Blank

\* The calendars the pass is through with.
Through == {c \in Calendars \ queue : c # cur}

DeliveryInv ==
    clean => Seen /\ Pushed /\ NoPull /\ \A c \in Through : Delivered(c)

Deliverable == IInv /\ OriginInv /\ DeliveryInv

LEMMA InitDelivery == Init => DeliveryInv
  BY DEF Init, DeliveryInv

\* A step that leaves the pass clean has suffered nothing.
LEMMA CleanSuffer ==
    ASSUME NEW failed, Suffer(failed), clean' PROVE clean /\ failed = {}
  BY DEF Suffer

LEMMA BetweenDelivers ==
    ASSUME Deliverable,
           BeginPass \/ EndPass \/ (\E c \in Calendars : NextCalendar(c))
    PROVE  DeliveryInv'
  <1>. SUFFICES ASSUME clean'
                PROVE  Seen' /\ Pushed' /\ NoPull' /\ \A c \in Through' : Delivered(c)'
    BY DEF DeliveryInv
  <1>1. pc' \in {"idle", "next", "source"} /\ UNCHANGED <<cal, dest>>
    BY DEF BeginPass, EndPass, NextCalendar, world
  <1>2. Seen' /\ Pushed' /\ NoPull'
    BY <1>1 DEF Seen, Pushed, NoPull
  <1>3. CASE BeginPass
    BY <1>2, <1>3 DEF BeginPass, Through
  <1>4. CASE EndPass
    BY <1>1, <1>2, <1>4
       DEF EndPass, Through, Delivered, Deliverable, DeliveryInv, views, history
  <1>5. ASSUME NEW c \in Calendars, NextCalendar(c)
        PROVE  \A d \in Through' : Delivered(d)'
    <2>1. clean /\ cur = NoCalendar
      BY <1>5, CleanSuffer DEF NextCalendar, Deliverable, IInv, PassInv
    <2>2. Through' \subseteq Through
      BY <1>5, <2>1, FullSyncAssumption DEF NextCalendar, Through
    <2>. QED  BY <1>1, <2>1, <2>2 DEF Deliverable, DeliveryInv, Delivered
  <1>. QED  BY <1>2, <1>3, <1>4, <1>5

LEMMA FetchSourceDelivers == ASSUME Deliverable, FetchSource PROVE DeliveryInv'
  <1>. SUFFICES ASSUME clean'
                PROVE  Seen' /\ Pushed' /\ NoPull' /\ \A c \in Through' : Delivered(c)'
    BY DEF DeliveryInv
  <1>1. PICK missing : /\ Suffer(IF missing = {} THEN {} ELSE {"partial"})
                       /\ slist' = Listing(cal[cur], missing)
                       /\ pc' = "dest" /\ UNCHANGED <<cur, queue, cal, dest>>
    <2>1. ~Suffer({"fetch"})
      BY CleanSuffer
    <2>. QED  BY <2>1 DEF FetchSource, world
  <1>2. clean /\ missing = {}
    BY <1>1, CleanSuffer
  <1>3. Seen'
    BY <1>1, <1>2 DEF Seen, Listing, Unseen
  <1>4. Pushed' /\ NoPull'
    BY <1>1 DEF Pushed, NoPull
  <1>. QED  BY <1>1, <1>2, <1>3, <1>4
            DEF Deliverable, DeliveryInv, Through, Delivered

\* Without look-alikes the keys of different events differ.
LEMMA KeysApart ==
    ASSUME Shared = {}, NEW u, NEW w, u # w, NEW v, NEW x
    PROVE  Keys(u, v) \cap Keys(w, x) = {}
  BY DEF Keys

LEMMA FetchDestDelivers ==
    ASSUME Delivering, Deliverable, FetchDest PROVE DeliveryInv'
  <1>. SUFFICES ASSUME clean'
                PROVE  Seen' /\ Pushed' /\ NoPull' /\ \A c \in Through' : Delivered(c)'
    BY DEF DeliveryInv
  <1>1. PICK missing \in SUBSET Has(dest),
             failed \in SUBSET {"fetch", "partial", "records"} :
          /\ "partial" \in failed <=> missing # {} /\ missing # Has(dest)
          /\ "fetch" \in failed <=> missing # {} /\ missing = Has(dest)
          /\ Suffer(failed)
          /\ dlist' = Listing(dest, missing)
          /\ dmap' = Has(dlist')
          /\ keys' = UNION {Keys(w, dlist'[w]) : w \in Uids}
    BY DEF FetchDest
  <1>2. clean /\ missing = {}
    BY <1>1, CleanSuffer
  <1>3. /\ pc = "dest" /\ pc' = "delete"
        /\ UNCHANGED <<cal, dest, slist, cur, queue>>
    BY DEF FetchDest, world
  <1>4. Pushed'
    <2>. SUFFICES ASSUME NEW u \in Has(slist)
                  PROVE  /\ u \in dmap' => dest[u] = dlist'[u]
                         /\ u \notin dmap' => Keys(u, slist[u]) \cap keys' = {}
      BY <1>3 DEF Pushed, Has, Pending
    <2>1. u \in Uids
      BY DEF Has
    <2>2. u \in dmap' => dest[u] = dlist'[u]
      BY <1>1, <1>2, <2>1 DEF Has, Listing
    <2>3. ASSUME u \notin dmap', NEW k \in Keys(u, slist[u]), k \in keys'
          PROVE  FALSE
      <3>1. PICK w \in Uids : k \in Keys(w, dlist'[w])
        BY <1>1, <2>3
      <3>2. w = u
        BY <2>3, <3>1, KeysApart DEF Delivering
      <3>3. dlist'[u] = Gone
        BY <1>1, <2>1, <2>3 DEF Has
      <3>. QED  BY <3>1, <3>2, <3>3 DEF Keys
    <2>. QED  BY <2>2, <2>3
  <1>5. Seen' /\ NoPull'
    BY <1>2, <1>3 DEF Seen, NoPull, Deliverable, DeliveryInv
  <1>. QED  BY <1>2, <1>3, <1>4, <1>5
            DEF Deliverable, DeliveryInv, Through, Delivered

\* The deletion loop takes from the destination only what the source listing
\* lacks, and its own.
LEMMA DeleteStepDelivers ==
    ASSUME Deliverable, NEW u \in Uids, DeleteStep(u)
    PROVE  DeliveryInv'
  <1>. SUFFICES ASSUME clean'
                PROVE  Seen' /\ Pushed' /\ NoPull' /\ \A c \in Through' : Delivered(c)'
    BY DEF DeliveryInv
  <1>0. clean
    BY CleanSuffer DEF DeleteStep, DeleteFromDest, DeleteFromSource, DeletedOnBoth,
       KeepFresh, KeepBoth
  <1>1. /\ cur \in Calendars /\ pc = "delete" /\ pc' = "delete"
        /\ u \in todo
        /\ UNCHANGED <<cur, queue, slist, dlist, keys>>
    BY DEF DeleteStep, Visit, Deliverable, IInv, PassInv
  <1>2. Home[u] = cur
    BY <1>1 DEF Deliverable, OriginInv
  <1>3. cal' \in {cal, [cal EXCEPT ![cur][u] = Gone]}
    BY DEF DeleteStep, DeleteFromDest, DeleteFromSource, DeletedOnBoth,
       KeepFresh, KeepBoth, world
  <1>4. \A c \in Calendars, w \in Uids :
           cal'[c][w] \in {cal[c][w], Gone} /\ (c # cur => cal'[c][w] = cal[c][w])
    BY <1>1, <1>3 DEF Deliverable, IInv, TypeOK, Copies
  <1>5. \/ UNCHANGED <<dest, dmap>>
        \/ /\ u \notin smap /\ dmap' = dmap \ {u}
           /\ dest' \in {dest, [dest EXCEPT ![u] = Gone]}
    BY DEF DeleteStep, DeleteFromDest, DeleteFromSource, DeletedOnBoth,
       KeepFresh, KeepBoth, world
  <1>6. u \notin smap => u \notin Has(slist)
    BY <1>1 DEF Deliverable, IInv, PassInv
  <1>7. \A w \in Uids : w # u => dest'[w] = dest[w]
    BY <1>5 DEF Deliverable, IInv, TypeOK, Copies
  <1>8. Seen'
    BY <1>0, <1>1, <1>4 DEF Seen, Unseen, Deliverable, DeliveryInv
  <1>9. Pushed'
    BY <1>0, <1>1, <1>5, <1>6, <1>7
       DEF Pushed, Pending, Has, Deliverable, DeliveryInv
  <1>10. ASSUME NEW c \in Through' PROVE Delivered(c)'
    <2>1. c \in Through /\ c # cur /\ c \in Calendars
      BY <1>1, <1>10 DEF Through
    <2>2. cal[c][u] = Gone
      BY <1>2, <2>1 DEF Deliverable, OriginInv
    <2>. QED  BY <1>0, <1>4, <1>7, <2>1, <2>2
              DEF Delivered, Unseen, Deliverable, DeliveryInv
  <1>. QED  BY <1>1, <1>8, <1>9, <1>10 DEF NoPull

LEMMA PushStepDelivers ==
    ASSUME Delivering, Deliverable, NEW u \in Uids, PushStep(u)
    PROVE  DeliveryInv'
  <1>. SUFFICES ASSUME clean'
                PROVE  Seen' /\ Pushed' /\ NoPull' /\ \A c \in Through' : Delivered(c)'
    BY DEF DeliveryInv
  <1>0. clean /\ ~Suffer({"put"})
    BY CleanSuffer DEF PushStep, SkipDuplicate, CreateOnDest, UpdateOnDest,
       Unchanged, PutOut
  <1>1. /\ cur \in Calendars /\ pc = "push" /\ pc' = "push"
        /\ u \in todo /\ todo' = todo \ {u} /\ u \in Has(slist)
        /\ dmap' = dmap \ {u}
        /\ UNCHANGED <<cal, cur, queue, slist, dlist>>
    BY DEF PushStep, Visit, Deliverable, IInv, PassInv
  <1>2. Home[u] = cur
    BY <1>1 DEF Deliverable, OriginInv
  <1>3. Pushed
    BY <1>0 DEF Deliverable, DeliveryInv
  <1>4. ~SkipDuplicate(u)
    BY <1>1, <1>3 DEF Pushed, Pending, SkipDuplicate
  <1>5. dest' \in {dest, [dest EXCEPT ![u] = slist[u]]}
    BY <1>0, <1>4 DEF PushStep, CreateOnDest, UpdateOnDest, Unchanged, PutOut, Put
  <1>6. \A w \in Uids : w # u => dest'[w] = dest[w]
    BY <1>5 DEF Deliverable, IInv, TypeOK, Copies
  <1>7. PassesFor(dest'[u], slist[u]) \/ slist[u] \in Blank
    <2>1. CASE Unchanged(u)
      <3>1. dest'[u] = dlist[u] /\ u \in same
        BY <1>1, <1>3, <2>1 DEF Unchanged, Pushed, Pending
      <3>. QED  BY <3>1 DEF PassesFor, Deliverable, IInv, PassInv
    <2>2. CASE PutOut(u, {}) \/ PutOut(u, Keys(u, slist[u]))
      BY <1>0, <2>2 DEF PutOut, Put, PassesFor, Deliverable, IInv, TypeOK, Copies
    <2>. QED  BY <1>4, <2>1, <2>2 DEF PushStep, CreateOnDest, UpdateOnDest
  <1>8. keys' \in {keys, keys \cup Keys(u, slist[u])}
    BY <1>0, <1>4 DEF PushStep, CreateOnDest, UpdateOnDest, Unchanged, PutOut
  <1>9. Pushed'
    <2>. SUFFICES ASSUME NEW w \in Has(slist)
                  PROVE  /\ Pending(w)' /\ w \in dmap' => dest'[w] = dlist[w]
                         /\ Pending(w)' /\ w \notin dmap' =>
                              Keys(w, slist[w]) \cap keys' = {}
                         /\ ~Pending(w)' =>
                              PassesFor(dest'[w], slist[w]) \/ slist[w] \in Blank
      BY <1>1 DEF Pushed, Has
    <2>1. CASE w = u
      BY <1>1, <1>7, <2>1 DEF Pending
    <2>2. CASE w # u
      <3>1. Keys(w, slist[w]) \cap Keys(u, slist[u]) = {}
        BY <2>2, KeysApart DEF Delivering
      <3>2. w \in Uids /\ (Pending(w)' <=> Pending(w)) /\ (w \in dmap' <=> w \in dmap)
        BY <1>1, <2>2 DEF Pending, Has
      <3>. QED  BY <1>1, <1>3, <1>6, <1>8, <2>2, <3>1, <3>2 DEF Pushed
    <2>. QED  BY <2>1, <2>2
  <1>10. ASSUME NEW c \in Through' PROVE Delivered(c)'
    <2>1. c \in Through /\ c # cur /\ c \in Calendars
      BY <1>1, <1>10 DEF Through
    <2>2. cal[c][u] = Gone
      BY <1>2, <2>1 DEF Deliverable, OriginInv
    <2>. QED  BY <1>0, <1>1, <1>6, <2>1, <2>2
              DEF Delivered, Unseen, Deliverable, DeliveryInv
  <1>11. Seen'
    BY <1>0, <1>1 DEF Seen, Deliverable, DeliveryInv
  <1>. QED  BY <1>1, <1>9, <1>10, <1>11 DEF NoPull

\* Of the orphans only a lone calendar's sync takes any, and what it takes
\* the source listing lacks.
LEMMA OrphanStepDelivers ==
    ASSUME Delivering, Deliverable, NEW u \in Uids, OrphanStep(u)
    PROVE  DeliveryInv'
  <1>. SUFFICES ASSUME clean'
                PROVE  Seen' /\ Pushed' /\ NoPull' /\ \A c \in Through' : Delivered(c)'
    BY DEF DeliveryInv
  <1>0. clean
    BY CleanSuffer DEF OrphanStep, DropFromDest
  <1>1. /\ cur \in Calendars /\ pc = "orphans" /\ pc' = "orphans"
        /\ u \in todo /\ u \notin Has(slist)
        /\ dest' \in {dest, [dest EXCEPT ![u] = Gone]}
        /\ UNCHANGED <<cal, cur, queue, slist, dlist, dmap, keys>>
    BY DEF OrphanStep, DropFromDest, Visit, Deliverable, IInv, PassInv
  <1>2. Through' = {}
    <2>1. ~TwoWay /\ Strategy = "source_wins"
      BY <1>1 DEF Deliverable, OriginInv
    <2>2. \A c, d \in Calendars : c = d
      BY <1>1, <2>1 DEF Delivering, Sparing, TwoWay
    <2>. QED  BY <1>1, <2>2 DEF Through
  <1>3. Pushed'
    <2>1. \A w \in Uids : w # u => dest'[w] = dest[w]
      BY <1>1 DEF Deliverable, IInv, TypeOK, Copies
    <2>. QED  BY <1>0, <1>1, <2>1 DEF Pushed, Pending, Has, Deliverable, DeliveryInv
  <1>4. Seen' /\ NoPull'
    BY <1>0, <1>1 DEF Seen, NoPull, Deliverable, DeliveryInv
  <1>. QED  BY <1>2, <1>3, <1>4

\* The steps of a clean pass that never happen.
LEMMA NeverWhenClean ==
    ASSUME Delivering, Deliverable, clean', NEW u \in Uids
    PROVE  ~PullStep(u) /\ ~SweepStep(u)
  <1>1. ASSUME PullStep(u) PROVE FALSE
    <2>1. clean /\ pc = "pull" /\ u \in todo /\ cur \in Calendars
      BY <1>1, CleanSuffer DEF PullStep, Visit, Deliverable, IInv, PassInv
    <2>2. TwoWay /\ Strategy = "dest_wins"
      BY <2>1 DEF Deliverable, DeliveryInv, NoPull
    <2>. QED  BY <2>1, <2>2 DEF Delivering, TwoWay
  <1>2. ASSUME SweepStep(u) PROVE FALSE
    BY <1>2 DEF SweepStep, DropFromDest, Visit, Delivering, Deliverable, IInv, PassInv
  <1>. QED  BY <1>1, <1>2

LEMMA StartDelivers ==
    ASSUME Deliverable,
           \/ FindDuplicates \/ StartPush \/ StartPull \/ StartOrphans
           \/ StartDedupe \/ StartRecord
           \/ \E u \in Uids : RecordStep(u) \/ ForgetStep(u)
    PROVE  DeliveryInv'
  <1>. SUFFICES ASSUME clean'
                PROVE  Seen' /\ Pushed' /\ NoPull' /\ \A c \in Through' : Delivered(c)'
    BY DEF DeliveryInv
  <1>0. clean
    BY CleanSuffer DEF FindDuplicates, StartPush, StartPull, StartOrphans,
       StartDedupe, StartRecord, NextLoop, RecordStep, ForgetStep
  <1>1. UNCHANGED <<cal, dest, cur, queue, slist, dlist, keys, dmap>>
    BY DEF FindDuplicates, StartPush, StartPull, StartOrphans, StartDedupe,
           StartRecord, NextLoop, RecordStep, ForgetStep, Visit, world, views
  <1>2. pc \notin {"idle", "next", "source", "dest"}
    BY DEF FindDuplicates, StartPush, StartPull, StartOrphans, StartDedupe,
           StartRecord, NextLoop, RecordStep, ForgetStep, Visit
  <1>3. \A u \in Has(slist) : Pending(u)' <=> Pending(u)
    <2>1. CASE StartPush
      BY <1>1, <2>1 DEF StartPush, NextLoop, Pending
    <2>2. CASE ~StartPush
      BY <2>2 DEF FindDuplicates, StartPull, StartOrphans, StartDedupe,
           StartRecord, NextLoop, RecordStep, ForgetStep, Visit, Pending
    <2>. QED  BY <2>1, <2>2
  <1>4. Pushed'
    BY <1>0, <1>1, <1>2, <1>3 DEF Pushed, Has, Deliverable, DeliveryInv
  <1>5. Seen'
    BY <1>0, <1>1, <1>2 DEF Seen, Deliverable, DeliveryInv
  <1>6. NoPull'
    BY <1>1 DEF NoPull, FindDuplicates, StartPush, StartPull, StartOrphans,
       StartDedupe, StartRecord, NextLoop, RecordStep, ForgetStep, Visit, TwoWay
  <1>. QED  BY <1>0, <1>1, <1>4, <1>5, <1>6
            DEF Deliverable, DeliveryInv, Through, Delivered

\* What the calendar shows has been listed, and what was listed delivered.
LEMMA EndCalendarDelivers == ASSUME Deliverable, EndCalendar PROVE DeliveryInv'
  <1>. SUFFICES ASSUME clean'
                PROVE  Seen' /\ Pushed' /\ NoPull' /\ \A c \in Through' : Delivered(c)'
    BY DEF DeliveryInv
  <1>1. /\ clean /\ pc = "record" /\ pc' = "next" /\ UNCHANGED <<cal, dest, queue>>
    BY CleanSuffer DEF EndCalendar, world
  <1>2. Delivered(cur)
    BY <1>1, FullSyncAssumption
       DEF Delivered, Unseen, Seen, Pushed, Pending, Has, Deliverable, DeliveryInv
  <1>3. \A c \in Through' : c \in Through \/ c = cur
    BY <1>1 DEF Through
  <1>4. Seen' /\ Pushed' /\ NoPull'
    BY <1>1 DEF Seen, Pushed, NoPull
  <1>. QED  BY <1>1, <1>2, <1>3, <1>4 DEF Deliverable, DeliveryInv, Delivered

\* Outside a pass time may go by; a crash or an edit ends its being clean.
LEMMA QuietDelivers ==
    ASSUME Deliverable,
           \/ Crash \/ IntervalPasses \/ UNCHANGED vars
           \/ \E u \in Uids : EditDest(u) \/ \E c \in Calendars : EditSource(c, u)
    PROVE  DeliveryInv'
  <1>1. CASE Crash \/ \E u \in Uids : EditDest(u) \/ \E c \in Calendars : EditSource(c, u)
    <2>1. ~clean'
      BY <1>1 DEF Crash, Suffer, EditDest, EditSource, Edit
    <2>. QED  BY <2>1 DEF DeliveryInv
  <1>2. CASE IntervalPasses \/ UNCHANGED vars
    <2>1. UNCHANGED <<clean, cal, dest, pc, queue, cur, slist, dlist, dmap, keys, todo>>
      BY <1>2 DEF IntervalPasses, vars, world, views, work, history
    <2>2. clean => Seen' /\ Pushed' /\ NoPull'
      BY <2>1 DEF Deliverable, DeliveryInv, Seen, Pushed, Pending, NoPull, TwoWay, Has
    <2>. QED  BY <2>1, <2>2 DEF Deliverable, DeliveryInv, Through, Delivered
  <1>. QED  BY <1>1, <1>2

LEMMA NextDelivers ==
    ASSUME Delivering, Deliverable, [Next]_vars
    PROVE  DeliveryInv'
  <1>1. CASE BeginPass \/ EndPass \/ (\E c \in Calendars : NextCalendar(c))
    BY <1>1, BetweenDelivers
  <1>2. CASE FetchSource \/ FetchDest \/ EndCalendar
    BY <1>2, FetchSourceDelivers, FetchDestDelivers, EndCalendarDelivers
  <1>3. CASE \E u \in Uids : DeleteStep(u) \/ PushStep(u) \/ OrphanStep(u)
    BY <1>3, DeleteStepDelivers, PushStepDelivers, OrphanStepDelivers
  <1>4. CASE \E u \in Uids : PullStep(u) \/ SweepStep(u)
    BY <1>4, NeverWhenClean DEF DeliveryInv
  <1>5. CASE \/ FindDuplicates \/ StartPush \/ StartPull \/ StartOrphans
             \/ StartDedupe \/ StartRecord
             \/ \E u \in Uids : RecordStep(u) \/ ForgetStep(u)
    BY <1>5, StartDelivers
  <1>6. CASE \/ Crash \/ IntervalPasses \/ UNCHANGED vars
             \/ \E u \in Uids : EditDest(u) \/ \E c \in Calendars : EditSource(c, u)
    BY <1>6, QuietDelivers
  <1>. QED  BY <1>1, <1>2, <1>3, <1>4, <1>5, <1>6 DEF Next, SyncStep

LEMMA DeliveryHolds == ASSUME Delivering PROVE Spec => []DeliveryInv
  <1>1. IInv /\ OriginInv /\ DeliveryInv /\ [Next]_vars => DeliveryInv'
    BY NextDelivers DEF Deliverable
  <1>. QED  BY <1>1, InitDelivery, OriginHolds, Invariance, PTL DEF Spec

\* No calendar waits for a pass that is over.
Drained == pc = "idle" => queue = {}

LEMMA DrainedNext == ASSUME Drained, [Next]_vars PROVE Drained'
  <1>1. pc' = "idle" => queue' = {} \/ (pc = "idle" /\ UNCHANGED queue)
    BY DEF Next, SyncStep, BeginPass, EndPass, NextCalendar, Crash, FetchSource,
       FetchDest, DeleteStep, ForgetStep, PushStep, PullStep, OrphanStep, SweepStep,
       DropFromDest, RecordStep, Visit, FindDuplicates, StartPush, StartPull,
       StartOrphans, StartDedupe, StartRecord, NextLoop, EndCalendar,
       EditSource, EditDest, Edit, IntervalPasses, vars
  <1>. QED  BY <1>1 DEF Drained

LEMMA DrainedHolds == Spec => []Drained
  BY DrainedNext, PTL DEF Init, Spec, Drained

\* A pass is through with every calendar when it ends.
LEMMA AllThrough == ASSUME IInv, Drained, pc = "idle" PROVE Through = Calendars
  BY FullSyncAssumption DEF Through, Drained, IInv, PassInv

\* After a pass without faults or edits every event of every calendar that
\* the date filter lets through is on the destination, as the source has it
\* or with an ETag that may equal the source's: whatever else the pass
\* deletes, the next calendar's sync, the clean-up of duplicates and the
\* deletion of orphans take none of them back.
THEOREM NothingLost ==
    ASSUME Delivering, Blank = {} PROVE Spec => []NothingMissing
  <1>1. IInv /\ Drained /\ DeliveryInv => NothingMissing
    BY AllThrough DEF DeliveryInv, Delivered, Unseen, Visible, NothingMissing
  <1>. QED  BY <1>1, DeliveryHolds, DrainedHolds, Invariance, PTL

-----------------------------------------------------------------------------
(* What a pass clears away.                                                *)

\* The one calendar is synced one-way and wins; no two events look alike.
Solo ==
    /\ Shared = {}
    /\ Strategy = "source_wins"
    /\ \A c \in Calendars : Direction[c] = "one_way"
    /\ \A c, d \in Calendars : c = d

\* The source listing shows nothing else.
Hidden ==
    pc \notin {"idle", "next", "source"} =>
        \A u \in Uids : cal[cur][u] \in Unseen => slist[u] = Gone

\* What the destination shows and the source does not is still to be taken
\* for an orphan, or to be dropped as one.
Orphaned ==
    pc \notin {"idle", "next", "source", "dest"} =>
        \A u \in Uids \ Has(slist) :
            \/ dest[u] \in Unseen
            \/ pc \in {"delete", "push", "pull"} /\ u \in dmap
            \/ pc = "orphans" /\ u \in todo

Cleared(c) == \A u \in Uids : cal[c][u] \in Unseen => dest[u] \in Unseen

ClearInv == clean => Hidden /\ Orphaned /\ \A c \in Through : Cleared(c)

LEMMA InitClear == Init => ClearInv
  BY DEF Init, ClearInv

LEMMA BetweenClears ==
    ASSUME Solo, IInv, ClearInv,
           \/ BeginPass \/ EndPass \/ (\E c \in Calendars : NextCalendar(c))
           \/ FetchSource
    PROVE  ClearInv'
  <1>. SUFFICES ASSUME clean'
                PROVE  Hidden' /\ Orphaned' /\ \A c \in Through' : Cleared(c)'
    BY DEF ClearInv
  <1>1. CASE BeginPass
    BY <1>1 DEF BeginPass, Hidden, Orphaned, Through
  <1>2. CASE EndPass
    BY <1>2 DEF EndPass, Hidden, Orphaned, Through, Cleared, ClearInv, views, world,
       history
  <1>3. CASE \E c \in Calendars : NextCalendar(c)
    BY <1>3 DEF NextCalendar, Hidden, Orphaned, Through, Solo
  <1>4. CASE FetchSource
    <2>1. PICK missing : /\ Suffer(IF missing = {} THEN {} ELSE {"partial"})
                         /\ slist' = Listing(cal[cur], missing)
                         /\ pc' = "dest" /\ UNCHANGED <<cur, cal>>
      <3>1. ~Suffer({"fetch"})
        BY CleanSuffer
      <3>. QED  BY <1>4, <3>1 DEF FetchSource, world
    <2>2. missing = {} /\ cur \in Calendars
      BY <1>4, <2>1, CleanSuffer DEF FetchSource, IInv, PassInv
    <2>3. Through' = {}
      BY <2>1, <2>2 DEF Solo, Through
    <2>. QED  BY <2>1, <2>2, <2>3 DEF Hidden, Orphaned, Listing, Unseen
  <1>. QED  BY <1>1, <1>2, <1>3, <1>4

LEMMA FetchDestClears ==
    ASSUME Solo, IInv, ClearInv, FetchDest PROVE ClearInv'
  <1>. SUFFICES ASSUME clean'
                PROVE  Hidden' /\ Orphaned' /\ \A c \in Through' : Cleared(c)'
    BY DEF ClearInv
  <1>1. PICK missing \in SUBSET Has(dest),
             failed \in SUBSET {"fetch", "partial", "records"} :
          /\ "partial" \in failed <=> missing # {} /\ missing # Has(dest)
          /\ "fetch" \in failed <=> missing # {} /\ missing = Has(dest)
          /\ Suffer(failed)
          /\ dlist' = Listing(dest, missing)
          /\ dmap' = Has(dlist')
    BY DEF FetchDest
  <1>2. clean /\ missing = {}
    BY <1>1, CleanSuffer
  <1>3. /\ pc = "dest" /\ pc' = "delete" /\ cur \in Calendars
        /\ UNCHANGED <<cal, dest, slist, cur>>
    BY DEF FetchDest, world, IInv, PassInv
  <1>4. Orphaned'
    BY <1>1, <1>2, <1>3 DEF Orphaned, Has, Listing, Unseen
  <1>5. Hidden'
    BY <1>2, <1>3 DEF Hidden, ClearInv
  <1>6. Through' = {}
    BY <1>3 DEF Solo, Through
  <1>. QED  BY <1>4, <1>5, <1>6

\* A one-way sync takes nothing from either side before its orphans, and
\* nothing from the source at all.
LEMMA LoopClears ==
    ASSUME Solo, IInv, ClearInv, NEW u \in Uids,
           \/ DeleteStep(u) \/ ForgetStep(u) \/ PushStep(u) \/ PullStep(u)
           \/ OrphanStep(u) \/ SweepStep(u) \/ RecordStep(u)
    PROVE  ClearInv'
  <1>. SUFFICES ASSUME clean'
                PROVE  Hidden' /\ Orphaned' /\ \A c \in Through' : Cleared(c)'
    BY DEF ClearInv
  <1>1. clean
    BY CleanSuffer DEF DeleteStep, DeleteFromDest, DeleteFromSource, DeletedOnBoth,
       KeepFresh, KeepBoth, ForgetStep, PushStep, SkipDuplicate, CreateOnDest, UpdateOnDest, Unchanged,
       PutOut, PullStep, OrphanStep, SweepStep, DropFromDest, RecordStep
  <1>2. /\ cur \in Calendars /\ pc \notin {"idle", "next", "source", "dest"}
        /\ pc' = pc /\ UNCHANGED <<cur, slist>>
        /\ ForgetStep(u) \/ (u \in todo /\ todo' = todo \ {u})
    BY DEF DeleteStep, ForgetStep, views, PushStep, PullStep, OrphanStep, SweepStep, DropFromDest,
           RecordStep, Visit, IInv, PassInv
  <1>3. ~DeleteStep(u) /\ ~PullStep(u) /\ ~SweepStep(u)
    BY <1>2 DEF DeleteStep, PullStep, SweepStep, DropFromDest, Visit, TwoWay,
                Solo, IInv, PassInv
  <1>4. UNCHANGED cal
    BY <1>3 DEF ForgetStep, PushStep, OrphanStep, DropFromDest, RecordStep
  <1>5. Orphaned'
    <2>. SUFFICES ASSUME NEW w \in Uids, w \notin Has(slist)
                  PROVE  \/ dest'[w] \in Unseen
                         \/ pc \in {"delete", "push", "pull"} /\ w \in dmap'
                         \/ pc = "orphans" /\ w \in todo'
      BY <1>2 DEF Orphaned, Has, Unseen
    <2>1. \/ dest[w] \in Unseen
          \/ pc \in {"delete", "push", "pull"} /\ w \in dmap
          \/ pc = "orphans" /\ w \in todo
      BY <1>1, <1>2 DEF ClearInv, Orphaned
    <2>2. CASE PushStep(u)
      <3>1. u \in Has(slist) /\ w # u
        BY <2>2 DEF PushStep, Visit, IInv, PassInv
      <3>2. dest' \in {dest, [dest EXCEPT ![u] = slist[u]]} /\ dmap' = dmap \ {u}
        BY <2>2 DEF PushStep, SkipDuplicate, CreateOnDest, UpdateOnDest,
                    Unchanged, PutOut, Put
      <3>. QED  BY <1>2, <2>1, <2>2, <3>1, <3>2 DEF PushStep, Visit, IInv, TypeOK, Copies
    <2>3. CASE OrphanStep(u)
      <3>1. dest' = [dest EXCEPT ![u] = Gone] /\ pc = "orphans"
        BY <2>3, CleanSuffer DEF OrphanStep, DropFromDest, Visit
      <3>2. todo' = todo \ {u}
        BY <2>3 DEF OrphanStep, DropFromDest, Visit
      <3>. QED  BY <2>1, <3>1, <3>2 DEF Unseen, IInv, TypeOK, Copies
    <2>4. CASE RecordStep(u) \/ ForgetStep(u)
      BY <2>1, <2>4 DEF RecordStep, ForgetStep, Visit
    <2>. QED  BY <1>3, <2>2, <2>3, <2>4
  <1>6. Hidden'
    BY <1>1, <1>2, <1>4 DEF Hidden, ClearInv
  <1>7. Through' = {}
    BY <1>2 DEF Solo, Through
  <1>. QED  BY <1>5, <1>6, <1>7

LEMMA StartClears ==
    ASSUME Solo, IInv, ClearInv,
           \/ FindDuplicates \/ StartPush \/ StartPull \/ StartOrphans
           \/ StartDedupe \/ StartRecord
    PROVE  ClearInv'
  <1>. SUFFICES ASSUME clean'
                PROVE  Hidden' /\ Orphaned' /\ \A c \in Through' : Cleared(c)'
    BY DEF ClearInv
  <1>1. clean
    BY CleanSuffer DEF FindDuplicates, StartPush, StartPull, StartOrphans,
       StartDedupe, StartRecord, NextLoop
  <1>2. UNCHANGED <<cal, dest, cur, slist, dmap>> /\ cur \in Calendars
    BY DEF FindDuplicates, StartPush, StartPull, StartOrphans, StartDedupe,
           StartRecord, NextLoop, world, views, IInv, PassInv
  <1>3. Hidden'
    BY <1>1, <1>2 DEF Hidden, ClearInv, FindDuplicates, StartPush, StartPull,
       StartOrphans, StartDedupe, StartRecord, NextLoop
  <1>4. Orphaned'
    <2>1. CASE StartPush \/ StartPull
      BY <1>1, <1>2, <2>1 DEF StartPush, StartPull, NextLoop, Orphaned, ClearInv, Has, Unseen
    <2>2. CASE StartOrphans
      <3>1. pc = "pull" /\ pc' = "orphans" /\ todo' = dmap
        BY <1>2, <2>2 DEF StartOrphans, NextLoop, TwoWay, Solo
      <3>. QED  BY <1>1, <1>2, <3>1 DEF Orphaned, ClearInv, Has, Unseen
    <2>3. CASE FindDuplicates \/ StartDedupe \/ StartRecord
      BY <1>1, <1>2, <2>3 DEF FindDuplicates, StartDedupe, StartRecord, NextLoop,
         Orphaned, ClearInv, Has, Unseen
    <2>. QED  BY <2>1, <2>2, <2>3
  <1>5. Through' = {}
    BY <1>2 DEF Solo, Through
  <1>. QED  BY <1>3, <1>4, <1>5

\* What the listing of the source lacks has gone when its last loop is done.
LEMMA EndCalendarClears ==
    ASSUME Solo, IInv, ClearInv, EndCalendar PROVE ClearInv'
  <1>. SUFFICES ASSUME clean'
                PROVE  Hidden' /\ Orphaned' /\ \A c \in Through' : Cleared(c)'
    BY DEF ClearInv
  <1>1. /\ clean /\ pc = "record" /\ pc' = "next" /\ cur \in Calendars
        /\ UNCHANGED <<cal, dest>>
    BY CleanSuffer DEF EndCalendar, world, IInv, PassInv
  <1>2. Cleared(cur)
    BY <1>1 DEF Cleared, Hidden, Orphaned, Has, ClearInv
  <1>3. \A c \in Through' : c = cur
    BY <1>1 DEF Through, Solo
  <1>. QED  BY <1>1, <1>2, <1>3 DEF Hidden, Orphaned, Cleared

LEMMA QuietClears ==
    ASSUME ClearInv,
           \/ Crash \/ IntervalPasses \/ UNCHANGED vars
           \/ \E u \in Uids : EditDest(u) \/ \E c \in Calendars : EditSource(c, u)
    PROVE  ClearInv'
  <1>1. CASE Crash \/ \E u \in Uids : EditDest(u) \/ \E c \in Calendars : EditSource(c, u)
    <2>1. ~clean'
      BY <1>1 DEF Crash, Suffer, EditDest, EditSource, Edit
    <2>. QED  BY <2>1 DEF ClearInv
  <1>2. CASE IntervalPasses \/ UNCHANGED vars
    <2>1. UNCHANGED <<clean, cal, dest, pc, queue, cur, slist, dmap, todo>>
      BY <1>2 DEF IntervalPasses, vars, world, views, work, history
    <2>. QED  BY <2>1 DEF ClearInv, Hidden, Orphaned, Through, Cleared, Has
  <1>. QED  BY <1>1, <1>2

LEMMA NextClears ==
    ASSUME Solo, IInv, ClearInv, [Next]_vars PROVE ClearInv'
  <1>1. CASE \/ BeginPass \/ EndPass \/ (\E c \in Calendars : NextCalendar(c))
             \/ FetchSource
    BY <1>1, BetweenClears
  <1>2. CASE FetchDest \/ EndCalendar
    BY <1>2, FetchDestClears, EndCalendarClears
  <1>3. CASE \E u \in Uids : \/ DeleteStep(u) \/ ForgetStep(u) \/ PushStep(u)
                            \/ PullStep(u) \/ OrphanStep(u) \/ SweepStep(u)
                            \/ RecordStep(u)
    BY <1>3, LoopClears
  <1>4. CASE \/ FindDuplicates \/ StartPush \/ StartPull \/ StartOrphans
             \/ StartDedupe \/ StartRecord
    BY <1>4, StartClears
  <1>5. CASE \/ Crash \/ IntervalPasses \/ UNCHANGED vars
             \/ \E u \in Uids : EditDest(u) \/ \E c \in Calendars : EditSource(c, u)
    BY <1>5, QuietClears
  <1>. QED  BY <1>1, <1>2, <1>3, <1>4, <1>5 DEF Next, SyncStep

LEMMA ClearHolds == ASSUME Solo PROVE Spec => []ClearInv
  <1>1. IInv /\ ClearInv /\ [Next]_vars => ClearInv'
    BY NextClears
  <1>. QED  BY <1>1, InitClear, Invariance, PTL DEF Spec

\* A pass without faults or edits leaves the destination of a one-way,
\* source_wins sync of one calendar an exact copy of it, but for the events
\* before the cutoff, those that cannot be written and those whose ETags on
\* both servers are equal although they are not: whatever the
\* destination held, and whatever earlier passes lost or left half done.
THEOREM MirrorExact == ASSUME Solo PROVE Spec => []ExactMirror
  <1>1. Delivering
    BY DEF Solo, Delivering
  <1>2. IInv /\ Drained /\ DeliveryInv /\ ClearInv => ExactMirror
    BY AllThrough DEF DeliveryInv, Delivered, ClearInv, Cleared, Unseen, Visible,
       ExactMirror
  <1>3. Spec => []DeliveryInv
    BY <1>1, DeliveryHolds
  <1>4. Spec => []ClearInv
    BY ClearHolds
  <1>. QED  BY <1>2, <1>3, <1>4, DrainedHolds, Invariance, PTL

=============================================================================
