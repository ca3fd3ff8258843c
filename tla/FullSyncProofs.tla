--------------------------- MODULE FullSyncProofs ---------------------------
(***************************************************************************)
(* Proofs about FullSync for every set of calendars, events and contents,  *)
(* every direction and strategy, and any number of edits and faults.       *)
(***************************************************************************)
EXTENDS FullSync, FiniteSetTheorems, TLAPS

LEMMA KindsFinite ==
    ASSUME NEW failed \in SUBSET Faults
    PROVE  Cardinality(failed) \in Nat
  <1>1. IsFiniteSet(Kinds)
    <2>1. IsFiniteSet({"fetch", "partial"})
      <3>1. IsFiniteSet({"fetch"})
        BY FS_Singleton
      <3>2. {"fetch", "partial"} = {"fetch"} \cup {"partial"}
        OBVIOUS
      <3>. QED  BY <3>1, <3>2, FS_AddElement
    <2>2. IsFiniteSet({"put", "delete"})
      <3>1. IsFiniteSet({"put"})
        BY FS_Singleton
      <3>2. {"put", "delete"} = {"put"} \cup {"delete"}
        OBVIOUS
      <3>. QED  BY <3>1, <3>2, FS_AddElement
    <2>3. IsFiniteSet({"records", "crash"})
      <3>1. IsFiniteSet({"records"})
        BY FS_Singleton
      <3>2. {"records", "crash"} = {"records"} \cup {"crash"}
        OBVIOUS
      <3>. QED  BY <3>1, <3>2, FS_AddElement
    <2>4. Kinds = ({"fetch", "partial"} \cup {"put", "delete"}) \cup {"records", "crash"}
      BY DEF Kinds
    <2>. QED  BY <2>1, <2>2, <2>3, <2>4, FS_Union
  <1>2. failed \subseteq Kinds
    BY FullSyncAssumption
  <1>. QED  BY <1>1, <1>2, FS_Subset, FS_CardinalityType

\* A step of the sync keeps the counters and the histories well typed.
LEMMA SufferType ==
    ASSUME TypeOK, NEW failed, Suffer(failed)
    PROVE  /\ clean' \in BOOLEAN
           /\ faults' \in 0 .. MaxFaults
           /\ owed' \subseteq Uids
           /\ UNCHANGED <<wiped, edits>>
  <1>1. Cardinality(failed) \in Nat
    BY KindsFinite DEF Suffer
  <1>. QED  BY <1>1, FullSyncAssumption DEF Suffer, TypeOK

\* Without shared contents no two events look alike.
LEMMA NoDuplicates ==
    ASSUME Shared = {}, NEW L \in SUBSET Uids, NEW D \in SUBSET L, Duplicates(L, D)
    PROVE  D = {}
  <1>1. \A u, w \in Uids : SameKey(u, w) => u = w
    <2>. SUFFICES ASSUME NEW u \in Uids, NEW w \in Uids, SameKey(u, w)
                  PROVE  u = w
      OBVIOUS
    <2>1. PICK k : k \in Keys(u, dest[u]) /\ k \in Keys(w, dest[w])
      BY DEF SameKey
    <2>2. k = <<u, dest[u]>> /\ k = <<w, dest[w]>>
      BY <2>1 DEF Keys
    <2>. QED  BY <2>2
  <1>. SUFFICES ASSUME NEW u \in D PROVE FALSE
    OBVIOUS
  <1>2. PICK w \in L \ D : SameKey(u, w)
    BY DEF Duplicates
  <1>. QED  BY <1>1, <1>2

LEMMA InitIInv == Init => IInv
  <1>. SUFFICES ASSUME Init PROVE IInv
    OBVIOUS
  <1>1. TypeOK
    <2>1. cal \in [Calendars -> Copies] /\ dest \in Copies
      BY DEF Init
    <2>2. slist \in Copies /\ dlist \in Copies
      BY DEF Init, Copies, Nothing
    <2>3. recs \in [Calendars -> [Uids -> {"none", "fresh", "old"}]]
      BY DEF Init
    <2>4. edits \in 0 .. MaxEdits /\ faults \in 0 .. MaxFaults
      BY FullSyncAssumption DEF Init
    <2>. QED  BY <2>1, <2>2, <2>3, <2>4 DEF Init, TypeOK, Phases
  <1>2. PassInv
    BY DEF Init, PassInv, Nothing
  <1>. QED  BY <1>1, <1>2 DEF IInv

-----------------------------------------------------------------------------
(* One lemma per action: it keeps the invariant and is a step, or a        *)
(* stutter, of the mirror.                                                 *)

Kept == IInv' /\ [Mirror!Next]_(Mirror!mirrorVars)

LEMMA BeginPassKept == ASSUME IInv, BeginPass PROVE Kept
  <1>1. TypeOK'
    BY DEF IInv, TypeOK, BeginPass, world, views, work, Phases, Has
  <1>2. PassInv'
    BY DEF IInv, PassInv, BeginPass, world, views, work, TwoWay, Has
  <1>3. UNCHANGED Mirror!mirrorVars
    BY DEF BeginPass, world, views, Mirror!mirrorVars
  <1>. QED  BY <1>1, <1>2, <1>3 DEF Kept, IInv

LEMMA NextCalendarKept ==
    ASSUME IInv, NEW c \in Calendars, NextCalendar(c) PROVE Kept
  <1>. USE DEF IInv, NextCalendar, world, work
  <1>1. TypeOK'
    BY SufferType DEF TypeOK, Phases, Has
  <1>2. PassInv'
    BY DEF PassInv, TwoWay, Has, Nothing
  <1>3. Mirror!Take(c)
    BY DEF Suffer, PassInv, Mirror!Take, Nothing, Mirror!Nothing
  <1>. QED  BY <1>1, <1>2, <1>3 DEF Kept, Mirror!Next

LEMMA EndPassKept == ASSUME IInv, EndPass PROVE Kept
  <1>1. TypeOK'
    BY DEF IInv, TypeOK, EndPass, world, views, work, history, Phases, Has
  <1>2. PassInv'
    BY DEF IInv, PassInv, EndPass, world, views, work, TwoWay, Has
  <1>3. UNCHANGED Mirror!mirrorVars
    BY DEF EndPass, world, views, history, Mirror!mirrorVars
  <1>. QED  BY <1>1, <1>2, <1>3 DEF Kept, IInv

\* Whatever ends the sync of a calendar drops what it has read.
LEMMA DropLocalsKept ==
    ASSUME IInv, DropLocals, UNCHANGED world,
           pc' \in {"idle", "next"}, queue' \subseteq Calendars,
           NEW failed, Suffer(failed)
    PROVE  Kept
  <1>. USE DEF DropLocals, world
  <1>1. TypeOK'
    BY SufferType DEF IInv, TypeOK, Phases, Has, Copies, Nothing
  <1>2. PassInv'
    BY DEF PassInv
  <1>3. Mirror!Take(NoCalendar)
    BY DEF Suffer, Mirror!Take, Nothing, Mirror!Nothing
  <1>. QED  BY <1>1, <1>2, <1>3 DEF Kept, Mirror!Next, IInv

LEMMA CrashKept == ASSUME IInv, Crash PROVE Kept
  BY DropLocalsKept DEF Crash

LEMMA EndCalendarKept == ASSUME IInv, EndCalendar PROVE Kept
  <1>1. queue' \subseteq Calendars
    BY DEF EndCalendar, IInv, TypeOK
  <1>. QED  BY <1>1, DropLocalsKept DEF EndCalendar

\* A listing is a view of what is listed.
LEMMA ListingIsView ==
    ASSUME NEW f \in Copies, NEW missing
    PROVE  Listing(f, missing) \in Copies /\ Mirror!View(f, Listing(f, missing))
  BY DEF Listing, Copies, Mirror!View, Mirror!Copies

LEMMA FetchSourceKept == ASSUME IInv, FetchSource PROVE Kept
  <1>. USE DEF IInv
  <1>0. cur \in Calendars /\ cal[cur] \in Copies
    BY DEF FetchSource, PassInv, TypeOK
  <1>1. CASE Suffer({"fetch"}) /\ pc' = "next" /\ DropLocals /\ UNCHANGED <<world, queue>>
    BY <1>1, DropLocalsKept DEF TypeOK
  <1>2. ASSUME NEW missing, NEW failed, Suffer(failed),
               slist' = Listing(cal[cur], missing), smap' = Has(slist'),
               pc = "source", pc' = "dest",
               UNCHANGED <<cur, dlist, same, keys, work, world, queue>>
        PROVE  Kept
    <2>. USE DEF world, work
    <2>1. slist' \in Copies
      BY <1>0, <1>2, ListingIsView
    <2>2. TypeOK'
      BY <1>2, <2>1, SufferType DEF TypeOK, PassInv, Phases, Has
    <2>3. PassInv'
      BY <1>0, <1>2 DEF PassInv
    <2>4. Mirror!View(cal[cur], slist')
      BY <1>0, <1>2, ListingIsView
    <2>5. Mirror!ReadSource
      BY <1>0, <1>2, <2>4 DEF Suffer, Mirror!ReadSource, Mirror!View
    <2>. QED  BY <2>2, <2>3, <2>5 DEF Kept, Mirror!Next
  <1>. QED  BY <1>1, <1>2 DEF FetchSource

LEMMA FetchDestKept == ASSUME IInv, FetchDest PROVE Kept
  <1>. USE DEF IInv
  <1>0. cur \in Calendars /\ dest \in Copies
    BY DEF FetchDest, PassInv, TypeOK
  <1>1. PICK missing \in SUBSET Has(dest),
             failed \in SUBSET {"fetch", "partial", "records"} :
          /\ Suffer(failed)
          /\ dlist' = Listing(dest, missing)
          /\ dmap' = Has(dlist')
          /\ same' \in EqualTags(slist, dlist')
          /\ todo' = IF "records" \in failed THEN {} ELSE ToDelete(dmap')
    BY DEF FetchDest
  <1>2. dlist' \in Copies /\ Mirror!View(dest, dlist')
    BY <1>0, <1>1, ListingIsView
  <1>3. todo' \subseteq Uids /\ (todo' # {} => TwoWay)
    BY <1>1 DEF ToDelete
  <1>t. same' \subseteq Uids /\ \A u \in same' : <<slist[u], dlist'[u]>> \in Matching
    BY <1>1 DEF EqualTags, Has
  <1>. USE DEF FetchDest, world
  <1>4. TypeOK'
    BY <1>1, <1>2, <1>3, <1>t, SufferType DEF TypeOK, Phases, Has
  <1>5. smap = Has(slist)
    BY DEF PassInv
  <1>6. PassInv'
    BY <1>0, <1>1, <1>3, <1>5, <1>t DEF PassInv, TwoWay, Has
  <1>7. Mirror!ReadDestination
    BY <1>0, <1>1, <1>2 DEF Suffer, Mirror!ReadDestination, Mirror!View
  <1>. QED  BY <1>4, <1>6, <1>7 DEF Kept, Mirror!Next

-----------------------------------------------------------------------------
(* The loops.                                                              *)

LEMMA DeleteStepKept == ASSUME IInv, NEW u \in Uids, DeleteStep(u) PROVE Kept
  <1>. USE DEF IInv
  <1>0. /\ cur \in Calendars
        /\ pc = "delete" /\ u \in todo /\ TwoWay /\ forgetting = {}
        /\ slist[u] # Gone => u \in smap
        /\ dlist[u] # Gone => u \in dmap
        /\ u \in smap => slist[u] # Gone
        /\ u \in dmap => dlist[u] # Gone
    BY DEF DeleteStep, Visit, PassInv, TypeOK, Has
  <1>1. /\ todo' = todo \ {u}
        /\ UNCHANGED <<pc, queue, cur, slist, dlist, same, keys, current>>
    BY DEF DeleteStep, Visit
  <1>2. ASSUME smap' \subseteq smap, dmap' \subseteq dmap,
               smap \ {u} \subseteq smap', dmap \ {u} \subseteq dmap',
               \/ forgetting' = {}
               \/ forgetting' = {u} /\ u \notin dmap',
               cal' \in [Calendars -> Copies], dest' \in Copies,
               recs' = recs, lapsed' \subseteq Uids,
               NEW failed, Suffer(failed)
        PROVE  IInv'
    <2>1. TypeOK'
      BY <1>1, <1>2, SufferType DEF TypeOK, Has
    <2>2. PassInv'
      BY <1>0, <1>1, <1>2 DEF PassInv, TwoWay, Has
    <2>. QED  BY <2>1, <2>2
  <1>4. CASE DeleteFromDest(u)
    <2>1. PICK failed :
            /\ Suffer(failed)
            /\ dest' \in {dest, [dest EXCEPT ![u] = Gone]}
            /\ lapsed' \in {lapsed, lapsed \cup {u}}
      BY <1>4 DEF DeleteFromDest
    <2>2. slist[u] = Gone /\ dlist[u] # Gone
      BY <1>0, <1>4 DEF DeleteFromDest
    <2>3. dest' \in Copies /\ lapsed' \subseteq Uids
      BY <2>1 DEF TypeOK, Copies
    <2>5. IInv'
      BY <1>2, <1>4, <2>1, <2>3 DEF DeleteFromDest, TypeOK
    <2>4. Mirror!CopyOut(u) \/ UNCHANGED Mirror!mirrorVars
      BY <1>0, <1>1, <1>4, <2>1, <2>2 DEF Suffer, DeleteFromDest, Mirror!CopyOut, Mirror!mirrorVars
    <2>. QED  BY <2>5, <2>4 DEF Kept, Mirror!Next
  <1>6. CASE DeleteFromSource(u)
    <2>1. PICK failed : /\ Suffer(failed)
                        /\ cal' \in {cal, [cal EXCEPT ![cur][u] = Gone]}
      BY <1>6 DEF DeleteFromSource
    <2>2. slist[u] # Gone /\ dlist[u] = Gone
      BY <1>0, <1>6 DEF DeleteFromSource
    <2>3. cal' \in [Calendars -> Copies]
      <3>1. [cal[cur] EXCEPT ![u] = Gone] \in Copies
        BY <1>0 DEF TypeOK, Copies
      <3>. QED  BY <1>0, <2>1, <3>1 DEF TypeOK
    <2>4. IInv'
      BY <1>2, <1>6, <2>1, <2>3 DEF DeleteFromSource, TypeOK
    <2>5. Mirror!CopyBack(u) \/ UNCHANGED Mirror!mirrorVars
      BY <1>0, <1>1, <1>6, <2>1, <2>2
      DEF Suffer, DeleteFromSource, Mirror!CopyBack, Mirror!mirrorVars, TwoWay
    <2>. QED  BY <2>4, <2>5 DEF Kept, Mirror!Next
  <1>7. CASE DeletedOnBoth(u) \/ KeepFresh(u) \/ KeepBoth(u)
    <2>1. /\ UNCHANGED <<cal, dest, recs, lapsed, smap, dmap>> /\ Suffer({})
          /\ forgetting' = {} \/ (forgetting' = {u} /\ u \notin dmap')
      BY <1>0, <1>7 DEF DeletedOnBoth, KeepFresh, KeepBoth, world
    <2>2. IInv'
      BY <1>2, <2>1 DEF TypeOK
    <2>3. UNCHANGED Mirror!mirrorVars
      BY <1>1, <2>1 DEF Suffer, Mirror!mirrorVars
    <2>. QED  BY <2>2, <2>3 DEF Kept
  <1>. QED  BY <1>4, <1>6, <1>7 DEF DeleteStep

LEMMA ForgetStepKept == ASSUME IInv, NEW u \in Uids, ForgetStep(u) PROVE Kept
  <1>. USE DEF IInv, views
  <1>0. /\ cur \in Calendars /\ pc = "delete" /\ forgetting' = {}
        /\ UNCHANGED <<cal, dest, pc, queue, views, dmap, current, todo>>
    BY DEF ForgetStep, PassInv
  <1>1. PICK failed : /\ Suffer(failed)
                      /\ recs' \in {recs, [recs EXCEPT ![cur][u] = "none"]}
                      /\ lapsed' \in {lapsed, lapsed \ {u}}
    BY DEF ForgetStep
  <1>2. recs' \in [Calendars -> [Uids -> {"none", "fresh", "old"}]]
    <2>1. [recs[cur] EXCEPT ![u] = "none"] \in [Uids -> {"none", "fresh", "old"}]
      BY <1>0 DEF TypeOK
    <2>. QED  BY <1>0, <1>1, <2>1 DEF TypeOK
  <1>3. TypeOK'
    <2>1. lapsed' \subseteq Uids
      BY <1>1 DEF TypeOK
    <2>. QED  BY <1>0, <1>1, <1>2, <2>1, SufferType DEF TypeOK, Has
  <1>4. PassInv'
    BY <1>0 DEF PassInv, TwoWay, Has
  <1>5. UNCHANGED Mirror!mirrorVars
    BY <1>0, <1>1 DEF Suffer, Mirror!mirrorVars
  <1>. QED  BY <1>3, <1>4, <1>5 DEF Kept

LEMMA PushStepKept == ASSUME IInv, NEW u \in Uids, PushStep(u) PROVE Kept
  <1>. USE DEF IInv
  <1>0. /\ cur \in Calendars
        /\ pc = "push" /\ u \in todo
        /\ slist[u] \in Contents /\ u \in Has(slist)
    BY DEF PushStep, Visit, PassInv, TypeOK, Has, Copies
  <1>1. /\ todo' = todo \ {u} /\ dmap' = dmap \ {u}
        /\ UNCHANGED <<pc, queue, cur, slist, dlist, same, cal, recs, lapsed, smap,
                       forgetting>>
    BY DEF PushStep, Visit
  <1>2. ASSUME current' \in {current, current \cup {u}},
               dest' \in {dest, [dest EXCEPT ![u] = slist[u]]},
               NEW failed, Suffer(failed)
        PROVE  Kept
    <2>0. dest' \in Copies
      BY <1>0, <1>2 DEF TypeOK, Copies
    <2>1. TypeOK'
      BY <1>0, <1>1, <1>2, <2>0, SufferType DEF TypeOK, Has
    <2>2. PassInv'
      BY <1>0, <1>1 DEF PassInv, TwoWay, Has
    <2>3. Mirror!CopyOut(u) \/ UNCHANGED Mirror!mirrorVars
      BY <1>0, <1>1, <1>2 DEF Suffer, Mirror!CopyOut, Mirror!mirrorVars, Has
    <2>. QED  BY <2>1, <2>2, <2>3 DEF Kept, Mirror!Next
  <1>3. CASE SkipDuplicate(u)
    BY <1>2, <1>3 DEF SkipDuplicate
  <1>4. ASSUME NEW ks, PutOut(u, ks) PROVE Kept
    BY <1>2, <1>4 DEF PutOut, Put
  <1>5. CASE CreateOnDest(u) \/ UpdateOnDest(u)
    BY <1>4, <1>5 DEF CreateOnDest, UpdateOnDest
  <1>6. CASE Unchanged(u)
    BY <1>2, <1>6 DEF Unchanged
  <1>. QED  BY <1>3, <1>5, <1>6 DEF PushStep

LEMMA PullStepKept == ASSUME IInv, NEW u \in Uids, PullStep(u) PROVE Kept
  <1>. USE DEF IInv
  <1>0. /\ cur \in Calendars
        /\ pc = "pull" /\ u \in todo /\ TwoWay
        /\ slist[u] # Gone /\ dlist[u] \in Contents
    BY DEF PullStep, Visit, PassInv, TypeOK, Has, Copies
  <1>1. /\ todo' = todo \ {u}
        /\ UNCHANGED <<pc, queue, cur, slist, dlist, same, dest, recs, lapsed,
                       smap, dmap, keys, current, forgetting>>
    BY DEF PullStep, Visit
  <1>a. cal = [cal EXCEPT ![cur] = cal[cur]]
    BY <1>0 DEF TypeOK
  <1>2. PICK failed : /\ Suffer(failed)
                      /\ cal' \in {cal, [cal EXCEPT ![cur][u] = dlist[u]]}
    BY <1>a DEF PullStep, Put
  <1>3. cal' \in [Calendars -> Copies]
    <2>1. [cal[cur] EXCEPT ![u] = dlist[u]] \in Copies
      BY <1>0 DEF TypeOK, Copies
    <2>. QED  BY <1>0, <1>2, <2>1 DEF TypeOK
  <1>4. TypeOK'
    BY <1>1, <1>2, <1>3, SufferType DEF TypeOK, Has
  <1>5. PassInv'
    BY <1>0, <1>1 DEF PassInv, TwoWay, Has
  <1>6. Mirror!CopyBack(u) \/ UNCHANGED Mirror!mirrorVars
    BY <1>0, <1>1, <1>2 DEF Suffer, Mirror!CopyBack, Mirror!mirrorVars, TwoWay
  <1>. QED  BY <1>4, <1>5, <1>6 DEF Kept, Mirror!Next

LEMMA DropInv ==
    ASSUME IInv, NEW u \in Uids, OrphanStep(u) \/ SweepStep(u)
    PROVE  IInv'
  <1>. USE DEF IInv
  <1>0. cur \in Calendars /\ pc \in {"orphans", "sweep"}
    BY DEF OrphanStep, SweepStep, DropFromDest, Visit, PassInv
  <1>1. /\ todo' = todo \ {u}
        /\ UNCHANGED <<pc, queue, cur, slist, dlist, same, cal, recs, lapsed,
                       smap, dmap, keys, current, forgetting>>
    BY DEF OrphanStep, SweepStep, DropFromDest, Visit
  <1>2. PICK failed : /\ Suffer(failed)
                      /\ dest' \in {dest, [dest EXCEPT ![u] = Gone]}
    BY DEF OrphanStep, SweepStep, DropFromDest
  <1>3. dest' \in Copies
    BY <1>2 DEF TypeOK, Copies
  <1>4. TypeOK'
    BY <1>1, <1>2, <1>3, SufferType DEF TypeOK, Has
  <1>5. PassInv'
    BY <1>0, <1>1 DEF PassInv, TwoWay, Has
  <1>. QED  BY <1>4, <1>5

\* Nothing is swept when no two events look alike.
LEMMA DropMirrored ==
    ASSUME IInv, Shared = {}, NEW u \in Uids, OrphanStep(u) \/ SweepStep(u)
    PROVE  [Mirror!Next]_(Mirror!mirrorVars)
  <1>0. /\ cur \in Calendars
        /\ slist[u] = Gone /\ dlist[u] # Gone
    BY DEF IInv, OrphanStep, SweepStep, DropFromDest, Visit, PassInv, TypeOK, Has
  <1>1. UNCHANGED <<cur, slist, dlist, cal>>
    BY DEF OrphanStep, SweepStep, DropFromDest, Visit
  <1>2. dest' \in {dest, [dest EXCEPT ![u] = Gone]} /\ UNCHANGED edits
    BY DEF OrphanStep, SweepStep, DropFromDest, Suffer
  <1>3. Mirror!CopyOut(u) \/ UNCHANGED Mirror!mirrorVars
    BY <1>0, <1>1, <1>2 DEF Mirror!CopyOut, Mirror!mirrorVars
  <1>. QED  BY <1>3 DEF Mirror!Next

LEMMA RecordStepKept == ASSUME IInv, NEW u \in Uids, RecordStep(u) PROVE Kept
  <1>. USE DEF IInv
  <1>0. cur \in Calendars /\ pc = "record"
    BY DEF RecordStep, Visit, PassInv
  <1>1. /\ todo' = todo \ {u}
        /\ UNCHANGED <<pc, queue, cur, slist, dlist, same, cal, dest, lapsed,
                       smap, dmap, keys, current, forgetting>>
    BY DEF RecordStep, Visit
  <1>2. PICK failed : /\ Suffer(failed)
                      /\ recs' \in {recs, [recs EXCEPT ![cur][u] = "fresh"]}
    BY DEF RecordStep
  <1>3. recs' \in [Calendars -> [Uids -> {"none", "fresh", "old"}]]
    <2>1. [recs[cur] EXCEPT ![u] = "fresh"] \in [Uids -> {"none", "fresh", "old"}]
      BY <1>0 DEF TypeOK
    <2>. QED  BY <1>0, <1>2, <2>1 DEF TypeOK
  <1>4. TypeOK'
    BY <1>1, <1>2, <1>3, SufferType DEF TypeOK, Has
  <1>5. PassInv'
    BY <1>0, <1>1 DEF PassInv
  <1>6. UNCHANGED Mirror!mirrorVars
    BY <1>1, <1>2 DEF Suffer, Mirror!mirrorVars
  <1>. QED  BY <1>4, <1>5, <1>6 DEF Kept

LEMMA FindDuplicatesKept ==
    ASSUME IInv, FindDuplicates PROVE Kept
  <1>. USE DEF IInv, world, views
  <1>0. pc = "dedupe" /\ pc' = "sweep" /\ cur \in Calendars
    BY DEF FindDuplicates, PassInv
  <1>1. PICK failed : Suffer(failed)
    BY DEF FindDuplicates
  <1>2. todo' \subseteq Uids /\ (Shared = {} => todo' = {})
    <2>1. CASE todo' = {}
      BY <2>1
    <2>2. CASE todo' # {}
      <3>1. PICK missing \in SUBSET Has(dest) :
               \E D \in SUBSET (Has(dest) \ missing) :
                  Duplicates(Has(dest) \ missing, D) /\ todo' = D
        BY <2>2 DEF FindDuplicates
      <3>2. PICK D \in SUBSET (Has(dest) \ missing) :
               Duplicates(Has(dest) \ missing, D) /\ todo' = D
        BY <3>1
      <3>3. Has(dest) \ missing \in SUBSET Uids
        BY DEF Has
      <3>. QED  BY <3>2, <3>3, NoDuplicates
    <2>. QED  BY <2>1, <2>2
  <1>3. UNCHANGED <<world, queue, views, dmap, current, forgetting>>
    BY DEF FindDuplicates
  <1>4. TypeOK'
    BY <1>0, <1>1, <1>2, <1>3, SufferType DEF TypeOK, Phases, Has
  <1>5. PassInv'
    BY <1>0, <1>2, <1>3 DEF PassInv
  <1>6. UNCHANGED Mirror!mirrorVars
    BY <1>1, <1>3 DEF Suffer, Mirror!mirrorVars
  <1>. QED  BY <1>4, <1>5, <1>6 DEF Kept

\* From loop to loop: what the next loop visits is what it may touch.
LEMMA StartKept ==
    ASSUME IInv,
           StartPush \/ StartPull \/ StartOrphans \/ StartDedupe \/ StartRecord
    PROVE  Kept
  <1>. USE DEF IInv, world, views
  <1>0. cur \in Calendars /\ pc \in {"delete", "push", "pull", "orphans", "sweep"}
    BY DEF PassInv, StartPush, StartPull, StartOrphans, StartDedupe, StartRecord, NextLoop
  <1>1. /\ Suffer({}) /\ todo = {} /\ forgetting = {}
        /\ UNCHANGED <<world, queue, views, dmap, current, forgetting>>
    BY DEF StartPush, StartPull, StartOrphans, StartDedupe, StartRecord, NextLoop
  <1>2. \/ pc' = "push" /\ todo' = Has(slist)
        \/ /\ pc = "push" /\ pc' = "pull"
           /\ todo' \subseteq Has(dlist) \cap smap /\ (todo' # {} => TwoWay)
        \/ pc = "pull" /\ pc' = "orphans" /\ todo' \subseteq dmap
        \/ pc' = "dedupe" /\ todo' = {}
        \/ pc' = "record" /\ todo' = current
    BY DEF StartPush, StartPull, StartOrphans, StartDedupe, StartRecord, NextLoop
  <1>3. TypeOK'
    BY <1>1, <1>2, SufferType DEF TypeOK, Phases, Has
  <1>4. PassInv'
    BY <1>0, <1>1, <1>2 DEF PassInv, TwoWay, TypeOK, Has
  <1>5. UNCHANGED Mirror!mirrorVars
    BY <1>1 DEF Suffer, Mirror!mirrorVars
  <1>. QED  BY <1>3, <1>4, <1>5 DEF Kept

-----------------------------------------------------------------------------
(* The environment.                                                        *)

LEMMA EditKept ==
    ASSUME IInv, NEW u \in Uids,
           EditDest(u) \/ \E c \in Calendars : EditSource(c, u)
    PROVE  Kept
  <1>. USE DEF IInv, views, work
  <1>1. UNCHANGED <<recs, lapsed, pc, queue, views, work, faults>>
    BY DEF EditSource, EditDest, Edit
  <1>2. /\ edits' = edits + 1 /\ edits' \in 0 .. MaxEdits /\ clean' = FALSE
    BY FullSyncAssumption DEF EditSource, EditDest, Edit, TypeOK
  <1>3. \/ /\ \E v \in Contents \cup {Gone} : dest' = [dest EXCEPT ![u] = v]
           /\ wiped' \subseteq Uids /\ owed' \subseteq Uids /\ UNCHANGED cal
        \/ /\ \E c \in Calendars, v \in Contents \cup {Gone} : cal' = [cal EXCEPT ![c][u] = v]
           /\ owed' \subseteq Uids /\ UNCHANGED <<dest, wiped>>
    BY DEF EditSource, EditDest, TypeOK
  <1>4. dest' \in Copies /\ cal' \in [Calendars -> Copies]
    <2>1. CASE UNCHANGED cal
      BY <1>3, <2>1 DEF TypeOK, Copies
    <2>2. CASE UNCHANGED dest /\ ~UNCHANGED cal
      <3>1. PICK c \in Calendars, v \in Contents \cup {Gone} :
              cal' = [cal EXCEPT ![c][u] = v]
        BY <1>3, <2>2
      <3>2. [cal[c] EXCEPT ![u] = v] \in Copies
        BY DEF TypeOK, Copies
      <3>. QED  BY <2>2, <3>1, <3>2 DEF TypeOK
    <2>. QED  BY <1>3, <2>1, <2>2
  <1>5. TypeOK'
    BY <1>1, <1>2, <1>3, <1>4 DEF TypeOK, Has
  <1>6. PassInv'
    BY <1>1 DEF PassInv, TwoWay, Has
  <1>7. Mirror!Edit
    BY <1>1, <1>2, <1>3 DEF Mirror!Edit
  <1>. QED  BY <1>5, <1>6, <1>7 DEF Kept, Mirror!Next

LEMMA IntervalKept == ASSUME IInv, IntervalPasses PROVE Kept
  <1>. USE DEF IInv, IntervalPasses, views, work, history
  <1>1. TypeOK'
    BY DEF TypeOK, Has
  <1>2. PassInv'
    BY DEF PassInv, TwoWay, Has
  <1>3. UNCHANGED Mirror!mirrorVars
    BY DEF Mirror!mirrorVars
  <1>. QED  BY <1>1, <1>2, <1>3 DEF Kept

LEMMA StutterKept == ASSUME IInv, UNCHANGED vars PROVE Kept
  <1>. USE DEF IInv, vars, world, views, work, history
  <1>1. TypeOK'
    BY DEF TypeOK, Has
  <1>2. PassInv'
    BY DEF PassInv, TwoWay, Has
  <1>3. UNCHANGED Mirror!mirrorVars
    BY DEF Mirror!mirrorVars
  <1>. QED  BY <1>1, <1>2, <1>3 DEF Kept

-----------------------------------------------------------------------------
(* The theorems.                                                           *)

LEMMA NextKept ==
    ASSUME IInv, [Next]_vars
    PROVE  IInv' /\ (Shared = {} => [Mirror!Next]_(Mirror!mirrorVars))
  <1>1. CASE \E u \in Uids : OrphanStep(u) \/ SweepStep(u)
    BY <1>1, DropInv, DropMirrored
  <1>2. CASE \E u \in Uids : \/ DeleteStep(u) \/ ForgetStep(u) \/ PushStep(u)
                            \/ PullStep(u) \/ RecordStep(u)
    BY <1>2, DeleteStepKept, ForgetStepKept, PushStepKept, PullStepKept,
       RecordStepKept DEF Kept
  <1>3. CASE BeginPass \/ EndPass \/ (\E c \in Calendars : NextCalendar(c)) \/ EndCalendar
    BY <1>3, BeginPassKept, EndPassKept, NextCalendarKept, EndCalendarKept DEF Kept
  <1>4. CASE FetchSource \/ FetchDest \/ FindDuplicates
    BY <1>4, FetchSourceKept, FetchDestKept, FindDuplicatesKept DEF Kept
  <1>5. CASE StartPush \/ StartPull \/ StartOrphans \/ StartDedupe \/ StartRecord
    BY <1>5, StartKept DEF Kept
  <1>6. CASE \E u \in Uids : EditDest(u) \/ \E c \in Calendars : EditSource(c, u)
    BY <1>6, EditKept DEF Kept
  <1>7. CASE Crash \/ IntervalPasses \/ UNCHANGED vars
    BY <1>7, CrashKept, IntervalKept, StutterKept DEF Kept
  <1>. QED  BY <1>1, <1>2, <1>3, <1>4, <1>5, <1>6, <1>7 DEF Next, SyncStep

\* The inductive invariant holds in every run of the sync, however many
\* edits, faults and crashes: the loops only ever visit what the phase
\* before has left them.
THEOREM Invariance == Spec => []IInv
  <1>1. Init => IInv
    BY InitIInv
  <1>2. IInv /\ [Next]_vars => IInv'
    BY NextKept
  <1>. QED  BY <1>1, <1>2, PTL DEF Spec

\* Every variable keeps its type.
THEOREM TypeCorrect == Spec => []TypeOK
  <1>1. IInv => TypeOK
    BY DEF IInv
  <1>. QED  BY <1>1, Invariance, PTL

\* Unless two events look alike, the code implements the mirror: every
\* write of every sync, whatever fails, dies or is edited meanwhile, copies
\* one event from one view to the other side, never to a one-way source,
\* and nothing is copied to a source that its listing did not hold.
THEOREM MirrorRefined ==
    ASSUME Shared = {}
    PROVE  Spec => ImplementsMirror
  <1>1. Init => Mirror!Init
    BY DEF Init, Copies, Nothing, Mirror!Init, Mirror!Copies, Mirror!Nothing
  <1>2. IInv /\ [Next]_vars => [Mirror!Next]_(Mirror!mirrorVars)
    BY NextKept
  <1>. QED  BY <1>1, <1>2, Invariance, PTL DEF Spec, ImplementsMirror, Mirror!Spec
=============================================================================
