------------------------ MODULE CalendarListingProofs ------------------------
(***************************************************************************)
(* Proofs about CalendarListing, for any number of calendars, events,      *)
(* changes and faults and every batch size: whichever of its strategies    *)
(* and fallbacks a listing goes through, it is honest about what it found. *)
(***************************************************************************)
EXTENDS CalendarListing, FiniteSetTheorems, SequenceTheorems, TLAPS

-----------------------------------------------------------------------------
(* Sequences without repetition.                                           *)

\* A set as a sequence has every element once.
LEMMA SetListed ==
    ASSUME NEW S, IsFiniteSet(S)
    PROVE  /\ SetToSeq(S) \in Seq(S)
           /\ IsInjective(SetToSeq(S))
           /\ ToSet(SetToSeq(S)) = S
  <1>. DEFINE n == Cardinality(S)
              s == SetToSeq(S)
  <1>1. PICK m \in Nat : ExistsBijection(1 .. m, S)
    BY FS_NatBijection
  <1>2. n = m
    BY <1>1, FS_CountingElements
  <1>3. \E f \in [1 .. n -> S] : IsInjective(f)
    BY <1>1, <1>2 DEF ExistsBijection, Bijection, Injection
  <1>4. s \in [1 .. n -> S] /\ IsInjective(s)
    BY <1>3 DEF SetToSeq
  <1>5. s \in Seq(S)
    BY <1>2, <1>4, SeqDef
  <1>6. s \in Injection(1 .. n, S)
    BY <1>4 DEF Injection
  <1>7. Cardinality(1 .. n) = n
    BY <1>2, FS_Interval
  <1>8. s \in Surjection(1 .. n, S)
    BY <1>6, <1>7, FS_Injection
  <1>9. ToSet(s) = S
    BY <1>4, <1>8 DEF ToSet, Surjection
  <1>. QED  BY <1>4, <1>5, <1>9

LEMMA EmptyListed ==
    /\ ToSet(<<>>) = {} /\ IsInjective(<<>>)
    /\ \A S : <<>> \in Seq(S)
  <1>1. DOMAIN <<>> = {}
    BY EmptySeq, LenProperties
  <1>. QED  BY <1>1, EmptySeq DEF ToSet, IsInjective

\* Two sequences without repetition and without a common element make one.
LEMMA ConcatListed ==
    ASSUME NEW S, NEW s \in Seq(S), NEW t \in Seq(S),
           IsInjective(s), IsInjective(t), \A e \in ToSet(t) : e \notin ToSet(s)
    PROVE  /\ s \o t \in Seq(S)
           /\ IsInjective(s \o t)
           /\ ToSet(s \o t) = ToSet(s) \cup ToSet(t)
  <1>. DEFINE r == s \o t
  <1>1. /\ Len(s) \in Nat /\ DOMAIN s = 1 .. Len(s)
        /\ Len(t) \in Nat /\ DOMAIN t = 1 .. Len(t)
    BY LenProperties
  <1>2. /\ r \in Seq(S) /\ DOMAIN r = 1 .. Len(s) + Len(t)
        /\ \A i \in DOMAIN r : r[i] = IF i <= Len(s) THEN s[i] ELSE t[i - Len(s)]
    BY ConcatProperties, LenProperties
  <1>. HIDE DEF r
  <1>3. \A i \in DOMAIN r : IF i <= Len(s) THEN i \in DOMAIN s ELSE i - Len(s) \in DOMAIN t
    BY <1>1, <1>2
  <1>4. IsInjective(r)
    <2>. SUFFICES ASSUME NEW i \in DOMAIN r, NEW j \in DOMAIN r, r[i] = r[j]
                  PROVE  i = j
      BY DEF IsInjective
    <2>1. i \in Int /\ j \in Int /\ Len(s) \in Int
      BY <1>1, <1>2
    <2>2. i <= Len(s) <=> j <= Len(s)
      BY <1>2, <1>3 DEF ToSet
    <2>. QED  BY <1>2, <1>3, <2>1, <2>2 DEF IsInjective
  <1>5. ToSet(r) = ToSet(s) \cup ToSet(t)
    <2>1. ToSet(r) \subseteq ToSet(s) \cup ToSet(t)
      BY <1>2, <1>3 DEF ToSet
    <2>2. \A i \in DOMAIN s : i \in DOMAIN r /\ r[i] = s[i]
      BY <1>1, <1>2
    <2>3. \A i \in DOMAIN t : i + Len(s) \in DOMAIN r /\ r[i + Len(s)] = t[i]
      BY <1>1, <1>2
    <2>4. ToSet(s) \subseteq ToSet(r)
      BY <2>2 DEF ToSet
    <2>5. ToSet(t) \subseteq ToSet(r)
      BY <2>3 DEF ToSet
    <2>. QED  BY <2>1, <2>4, <2>5
  <1>. QED  BY <1>2, <1>4, <1>5 DEF r

LEMMA AppendListed ==
    ASSUME NEW S, NEW s \in Seq(S), NEW e \in S, IsInjective(s), e \notin ToSet(s)
    PROVE  /\ Append(s, e) \in Seq(S)
           /\ IsInjective(Append(s, e))
           /\ ToSet(Append(s, e)) = ToSet(s) \cup {e}
  <1>1. <<e>> \in Seq(S) /\ IsInjective(<<e>>) /\ ToSet(<<e>>) = {e}
    BY DEF IsInjective, ToSet
  <1>2. PICK t \in Seq(S) : t = <<e>> /\ IsInjective(t) /\ ToSet(t) = {e}
    BY <1>1
  <1>3. Append(s, e) = s \o t
    BY <1>2, AppendIsConcat
  <1>4. \A f \in ToSet(t) : f \notin ToSet(s)
    BY <1>2
  <1>5. /\ s \o t \in Seq(S)
        /\ IsInjective(s \o t)
        /\ ToSet(s \o t) = ToSet(s) \cup ToSet(t)
    BY <1>2, <1>4, ConcatListed
  <1>. QED  BY <1>2, <1>3, <1>5, Zenon

-----------------------------------------------------------------------------
(* The steps around a listing.                                             *)

Quiet == {"idle", "next", "clear", "query", "propfind"}

Emptied == paths' = <<>> /\ start' = 0 /\ single' = <<>> /\ events' = <<>> /\ collector' = {}

Kept == FetchInv' /\ ListingHonest'

LEMMA QuietKept == ASSUME pc' \in Quiet, Emptied PROVE Kept
  BY EmptyListed DEF Quiet, Emptied, Kept, FetchInv, ListingHonest

\* Steps that leave the listing alone, and of the store all that is steady.
LEMMA FrameKept ==
    ASSUME FetchInv, ListingHonest, UNCHANGED <<pc, cur, listing, missed>>,
           steady' \subseteq steady, \A e \in steady' : store'[e] = store[e]
    PROVE  Kept
  <1>. USE DEF listing
  <1>1. Fetched' = Fetched
    BY DEF Fetched, Reached, BatchEnd
  <1>2. FetchInv'
    BY <1>1 DEF FetchInv, Positioned, Placed, Reached, BatchEnd, Of
  <1>3. ListingHonest'
    BY DEF ListingHonest, Of, Decodes
  <1>. QED  BY <1>2, <1>3 DEF Kept

LEMMA SufferType ==
    ASSUME TypeOK, NoFault \/ \E kind : Suffer(kind)
    PROVE  faults' \in 0 .. MaxFaults
  BY ListingAssumption DEF TypeOK, NoFault, Suffer

\* The server's answers are finite.
LEMMA OfFinite == ASSUME NEW S \in SUBSET Events PROVE IsFiniteSet(S)
  BY FS_Subset, ListingAssumption

\* The steps of the pass outside a listing.
LEMMA PassKept ==
    ASSUME IInv,
           \/ BeginPass \/ Clear \/ EndPass \/ EndCalendar \/ Crash
           \/ \E c \in Calendars : NextCalendar(c) \/ SyncByReport(c)
    PROVE  TypeOK' /\ Kept
  <1>1. pc' \in Quiet /\ Emptied
    <2>1. CASE BeginPass \/ Clear \/ EndPass \/ \E c \in Calendars : NextCalendar(c) \/ SyncByReport(c)
      <3>1. pc \in Quiet /\ pc' \in Quiet /\ UNCHANGED listing
        BY <2>1 DEF BeginPass, Clear, EndPass, NextCalendar, SyncByReport, Quiet
      <3>. QED  BY <3>1 DEF IInv, FetchInv, Quiet, Emptied, listing
    <2>2. CASE EndCalendar \/ Crash
      BY <2>2 DEF EndCalendar, Crash, DropListing, Quiet, Emptied
    <2>. QED  BY <2>1, <2>2
  <1>2. faults' \in 0 .. MaxFaults
    BY SufferType DEF IInv, BeginPass, Clear, EndPass, EndCalendar, Crash,
       NextCalendar, SyncByReport, NoFault
  <1>3. {paths', single', events'} \subseteq Seq(Of(cur')) /\ start' \in Nat
        /\ collector' \subseteq Of(cur')
    BY <1>1, EmptyListed DEF Emptied
  <1>4. todo' \subseteq collector'
    BY <1>1 DEF IInv, TypeOK, FetchInv, BeginPass, Clear, EndPass, EndCalendar, Crash,
       NextCalendar, SyncByReport, listing, Quiet
  <1>5. /\ store' \in [Events -> KindsOfEvent] /\ rows' \subseteq Events
        /\ queue' \subseteq Calendars /\ cur' \in Calendars \cup {NoCalendar}
        /\ request' \in Events \cup {NoEvent} /\ valid' \in BOOLEAN
        /\ steady' \cup missed' \subseteq Events /\ edits' \in 0 .. MaxEdits
    BY DEF IInv, TypeOK, BeginPass, Clear, EndPass, EndCalendar, Crash,
       NextCalendar, SyncByReport, DropListing, person, history, Of
  <1>6. TypeOK'
    BY <1>1, <1>2, <1>3, <1>4, <1>5 DEF TypeOK, Quiet
  <1>. QED  BY <1>1, <1>6, QuietKept

\* People, and the storing of what was found.
LEMMA AsideKept ==
    ASSUME IInv,
           \/ \E e \in Events : Edit(e) \/ DeleteRead(e) \/ Save(e)
           \/ DeleteApply \/ DeleteAll \/ UNCHANGED vars
    PROVE  TypeOK' /\ Kept
  <1>1. UNCHANGED <<pc, queue, cur, listing, missed>> /\ steady' \subseteq steady
    BY DEF Edit, DeleteRead, Save, DeleteApply, DeleteAll, vars, history
  <1>2. store' \in [Events -> KindsOfEvent] /\ \A e \in steady' : store'[e] = store[e]
    <2>1. CASE UNCHANGED <<store, steady>>
      BY <2>1 DEF IInv, TypeOK
    <2>2. ASSUME NEW e \in Events, NEW k \in KindsOfEvent,
                 store' = [store EXCEPT ![e] = k], steady' = steady \ {e}
          PROVE  <1>2
      BY <2>2 DEF IInv, TypeOK
    <2>3. CASE \E e \in Events : Edit(e)
      BY <2>2, <2>3 DEF Edit
    <2>4. CASE DeleteApply
      BY <2>1, <2>2, <2>4 DEF DeleteApply, IInv, TypeOK, KindsOfEvent
    <2>. QED  BY <2>1, <2>3, <2>4 DEF DeleteRead, Save, DeleteAll, vars, history
  <1>3. faults' \in 0 .. MaxFaults /\ edits' \in 0 .. MaxEdits
    <2>1. CASE UNCHANGED edits
      BY <2>1, SufferType DEF IInv, TypeOK, DeleteRead, Save, DeleteApply,
         DeleteAll, vars, NoFault, Edit
    <2>2. CASE \E e \in Events : Edit(e)
      BY <2>2, ListingAssumption DEF Edit, IInv, TypeOK
    <2>. QED  BY <2>1, <2>2 DEF DeleteRead, Save, DeleteApply, DeleteAll, vars
  <1>4. /\ rows' \subseteq Events /\ todo' \subseteq collector
        /\ request' \in Events \cup {NoEvent} /\ valid' \in BOOLEAN
    BY DEF IInv, TypeOK, Edit, DeleteRead, Save, DeleteApply, DeleteAll, vars, person
  <1>5. TypeOK'
    BY <1>1, <1>2, <1>3, <1>4 DEF TypeOK, IInv, listing, Of
  <1>. QED  BY <1>1, <1>2, <1>5, FrameKept DEF IInv

-----------------------------------------------------------------------------
(* The listing.                                                            *)

LEMMA QueryKept == ASSUME IInv, Query PROVE TypeOK' /\ Kept
  <1>0. pc = "query" /\ events = <<>> /\ collector = {}
    BY DEF Query, IInv, FetchInv
  <1>1. /\ UNCHANGED <<store, rows, queue, cur, paths, start, single, request, valid,
                       steady, missed, edits>>
        /\ paths = <<>> /\ start = 0 /\ single = <<>>
    BY <1>0 DEF Query, person, history, IInv, FetchInv
  <1>2. faults' \in 0 .. MaxFaults
    BY SufferType DEF Query, IInv, NoFault
  <1>3. CASE pc' = "propfind" /\ UNCHANGED <<events, collector, todo>>
    <2>1. TypeOK'
      BY <1>1, <1>2, <1>3 DEF IInv, TypeOK, Of
    <2>2. Kept
      BY <1>0, <1>1, <1>3, QuietKept DEF Quiet, Emptied
    <2>. QED  BY <2>1, <2>2
  <1>4. CASE Return(SetToSeq(Present), {}) /\ \A e \in Present : Decodes(e)
    <2>1. /\ SetToSeq(Present) \in Seq(Present)
          /\ IsInjective(SetToSeq(Present))
          /\ ToSet(SetToSeq(Present)) = Present
      BY OfFinite, SetListed DEF Present, Of
    <2>2. pc' = "save" /\ events' = SetToSeq(Present) /\ collector' = {} /\ todo' = {}
      BY <1>4 DEF Return
    <2>3. Present \subseteq Of(cur)
      BY DEF Present
    <2>4. events' \in Seq(Of(cur))
      BY <2>1, <2>2, <2>3, SeqMonotonic
    <2>5. TypeOK'
      BY <1>1, <1>2, <2>2, <2>4 DEF IInv, TypeOK, Of
    <2>6. FetchInv'
      BY <1>1, <2>2, EmptyListed DEF FetchInv
    <2>7. ListingHonest'
      BY <1>1, <1>4, <2>1, <2>2 DEF ListingHonest, Present, Of, Decodes
    <2>. QED  BY <2>5, <2>6, <2>7 DEF Kept
  <1>. QED  BY <1>3, <1>4 DEF Query

LEMMA PropfindKept == ASSUME IInv, Propfind PROVE TypeOK' /\ Kept
  <1>0. /\ pc = "propfind" /\ start = 0 /\ single = <<>>
        /\ events = <<>> /\ collector = {}
        /\ UNCHANGED <<store, rows, queue, todo, request, valid, edits>>
    BY DEF Propfind, person, IInv, FetchInv
  <1>1. faults' \in 0 .. MaxFaults
    BY SufferType DEF Propfind, IInv, NoFault
  <1>2. CASE Suffer("propfind") /\ pc' = "next" /\ DropListing
    <2>1. TypeOK'
      BY <1>0, <1>1, <1>2, EmptyListed DEF IInv, TypeOK, DropListing
    <2>2. Kept
      BY <1>2, QuietKept DEF DropListing, Quiet, Emptied
    <2>. QED  BY <2>1, <2>2
  <1>3. CASE /\ \/ paths' = SetToSeq(Present) /\ missed' = missed
                \/ paths' = <<>> /\ missed' = Of(cur)
             /\ pc' = "fetch"
             /\ UNCHANGED <<cur, start, single, events, collector, steady>>
    <2>1. /\ SetToSeq(Present) \in Seq(Present)
          /\ IsInjective(SetToSeq(Present))
          /\ ToSet(SetToSeq(Present)) = Present
      BY OfFinite, SetListed DEF Present, Of
    <2>2. SetToSeq(Present) \in Seq(Of(cur))
      BY <2>1, SeqMonotonic DEF Present
    <2>3. /\ paths' \in Seq(Of(cur)) /\ IsInjective(paths')
          /\ \A e \in Of(cur) \cap steady :
                e \notin ToSet(paths') => store[e] = "gone" \/ e \in missed'
      BY <1>3, <2>1, <2>2, EmptyListed DEF Present
    <2>4. missed' \subseteq Events
      BY <1>3 DEF IInv, TypeOK, Of
    <2>5. TypeOK'
      BY <1>0, <1>1, <1>3, <2>3, <2>4 DEF IInv, TypeOK, Of
    <2>6. DOMAIN paths' \subseteq Nat \ {0}
      BY <2>3, LenProperties
    <2>7. Fetched' = {}
      BY <1>0, <1>3, <2>6 DEF Fetched, Reached
    <2>8. Placed'
      BY <1>0, <1>3, <2>3, <2>7, EmptyListed DEF Placed, Of
    <2>. QED  BY <1>3, <2>3, <2>5, <2>8 DEF Kept, FetchInv, ListingHonest
  <1>. QED  BY <1>2, <1>3 DEF Propfind

\* Fetching adds to what is placed the events of the paths N: G and B.
LEMMA PlacedGrows ==
    ASSUME IInv, Placed, UNCHANGED <<store, cur, paths, steady>>,
           missed \subseteq missed',
           NEW N, NEW G \in SUBSET N, NEW B \in SUBSET N,
           Fetched' = Fetched \cup N,
           IsInjective(events'), ToSet(events') = ToSet(events) \cup G,
           collector' = collector \cup B,
           \A e \in G : store[e] = "good",
           \A e \in B : store[e] \in {"blank", "broken"},
           \A e \in N \ missed' : /\ store[e] = "good" => e \in G
                                  /\ store[e] = "broken" => e \in B
    PROVE  Placed'
  <1>1. ToSet(events') \cup collector' \subseteq Fetched'
    BY DEF Placed
  <1>2. ASSUME NEW e \in Of(cur) \cap steady
        PROVE  /\ e \notin ToSet(paths) => store[e] = "gone" \/ e \in missed'
               /\ e \in ToSet(events') => store[e] = "good"
               /\ e \in collector' => store[e] \in {"blank", "broken"}
               /\ e \in Fetched' \ missed' =>
                     /\ store[e] = "good" => e \in ToSet(events')
                     /\ store[e] = "broken" => e \in collector'
    BY <1>2 DEF Placed
  <1>. QED  BY <1>1, <1>2 DEF Placed, Of

\* The next batch: paths that have not been asked for.
LEMMA BatchFacts ==
    ASSUME TypeOK, FetchInv, pc \in {"fetch", "single"}, start < Len(paths)
    PROVE  /\ start \in Nat /\ BatchEnd \in Nat /\ Len(paths) \in Nat
           /\ start < BatchEnd /\ BatchEnd <= Len(paths)
           /\ paths \in Seq(Of(cur)) /\ DOMAIN paths = 1 .. Len(paths)
           /\ Batch \in Seq(Of(cur)) /\ Len(Batch) = BatchEnd - start
           /\ ToSet(Batch) = {paths[i] : i \in start + 1 .. BatchEnd}
           /\ \A i \in DOMAIN paths : i <= start + BatchSize <=> i <= BatchEnd
  <1>1. /\ paths \in Seq(Of(cur)) /\ Len(paths) \in Nat
        /\ DOMAIN paths = 1 .. Len(paths)
        /\ \A i \in 1 .. Len(paths) : paths[i] \in Of(cur)
    BY LenProperties, ElementOfSeq DEF TypeOK
  <1>2. start \in Nat /\ BatchSize \in Nat \ {0}
    BY ListingAssumption DEF TypeOK
  <1>3. BatchEnd \in Nat /\ start < BatchEnd /\ BatchEnd <= Len(paths)
    BY <1>1, <1>2 DEF BatchEnd
  <1>4. /\ Batch \in Seq(Of(cur)) /\ Len(Batch) = BatchEnd - start
        /\ \A i \in 1 .. BatchEnd - start : Batch[i] = paths[start + i]
    <2>1. \A i \in start + 1 .. BatchEnd : paths[i] \in Of(cur)
      BY <1>1, <1>2, <1>3
    <2>2. start + 1 \in Int /\ BatchEnd \in Int
      BY <1>2, <1>3
    <2>3. /\ SubSeq(paths, start + 1, BatchEnd) \in Seq(Of(cur))
          /\ Len(SubSeq(paths, start + 1, BatchEnd)) =
               IF start + 1 <= BatchEnd THEN BatchEnd - (start + 1) + 1 ELSE 0
          /\ \A i \in 1 .. BatchEnd - (start + 1) + 1 :
                SubSeq(paths, start + 1, BatchEnd)[i] = paths[(start + 1) + i - 1]
      BY <2>1, <2>2, SubSeqProperties
    <2>. QED  BY <1>2, <1>3, <2>3 DEF Batch
  <1>5. DOMAIN Batch = 1 .. BatchEnd - start
    BY <1>4, LenProperties
  <1>6. ToSet(Batch) = {paths[i] : i \in start + 1 .. BatchEnd}
    <2>1. ToSet(Batch) \subseteq {paths[i] : i \in start + 1 .. BatchEnd}
      BY <1>2, <1>3, <1>4, <1>5 DEF ToSet
    <2>2. ASSUME NEW i \in start + 1 .. BatchEnd PROVE paths[i] \in ToSet(Batch)
      <3>1. i - start \in DOMAIN Batch /\ Batch[i - start] = paths[i]
        BY <1>2, <1>3, <1>4, <1>5
      <3>. QED  BY <3>1 DEF ToSet
    <2>. QED  BY <2>1, <2>2
  <1>7. \A i \in DOMAIN paths : i <= start + BatchSize <=> i <= BatchEnd
    BY <1>1, <1>2 DEF BatchEnd
  <1>. QED  BY <1>1, <1>2, <1>3, <1>4, <1>6, <1>7

LEMMA FetchBatchKept == ASSUME IInv, FetchBatch PROVE TypeOK' /\ Kept
  <1>0. /\ pc = "fetch" /\ start < Len(paths)
        /\ UNCHANGED <<store, rows, queue, cur, paths, todo, request, valid,
                       steady, missed, edits>>
    BY DEF FetchBatch, person, history
  <1>1. Placed /\ IsInjective(paths)
    BY <1>0 DEF IInv, FetchInv
  <1>. DEFINE got == {e \in ToSet(Batch) : store[e] # "gone"}
  <1>2. faults' \in 0 .. MaxFaults
    BY SufferType DEF FetchBatch, IInv, NoFault
  <1>3. /\ start \in Nat /\ BatchEnd \in Nat /\ Len(paths) \in Nat
        /\ start < BatchEnd /\ BatchEnd <= Len(paths)
        /\ DOMAIN paths = 1 .. Len(paths)
        /\ Batch \in Seq(Of(cur)) /\ Len(Batch) = BatchEnd - start
        /\ ToSet(Batch) = {paths[i] : i \in start + 1 .. BatchEnd}
        /\ \A i \in DOMAIN paths : i <= start + BatchSize <=> i <= BatchEnd
    BY <1>0, BatchFacts DEF IInv
  <1>4. ToSet(Batch) \subseteq Of(cur)
    BY <1>3, LenProperties DEF ToSet
  <1>5. CASE /\ \A e \in got : Decodes(e)
             /\ events' = events \o SetToSeq({e \in got : store[e] = "good"})
             /\ collector' = collector \cup {e \in got : store[e] = "blank"}
             /\ start' = start + BatchSize
             /\ UNCHANGED <<pc, single>>
    <2>. DEFINE G == {e \in got : store[e] = "good"}
                B == {e \in got : store[e] = "blank"}
    <2>1. SetToSeq(G) \in Seq(G) /\ IsInjective(SetToSeq(G)) /\ ToSet(SetToSeq(G)) = G
      BY <1>4, OfFinite, SetListed DEF Of
    <2>2. SetToSeq(G) \in Seq(Of(cur))
      BY <1>4, <2>1, SeqMonotonic
    <2>3. Fetched = {paths[i] : i \in {j \in DOMAIN paths : j <= start}}
      BY <1>0 DEF Fetched, Reached
    <2>4. \A e \in ToSet(Batch) : e \notin Fetched
      BY <1>1, <1>3, <2>3 DEF IsInjective
    <2>5. Fetched' = Fetched \cup ToSet(Batch)
      <3>1. Fetched' = {paths[i] : i \in {j \in DOMAIN paths : j <= BatchEnd}}
        BY <1>0, <1>3, <1>5 DEF Fetched, Reached
      <3>2. \A i \in DOMAIN paths : i <= BatchEnd <=> i <= start \/ i \in start + 1 .. BatchEnd
        BY <1>3
      <3>3. \A i \in start + 1 .. BatchEnd : i \in DOMAIN paths
        BY <1>3
      <3>. QED  BY <1>3, <2>3, <3>1, <3>2, <3>3
    <2>6. events \in Seq(Of(cur)) /\ IsInjective(events) /\ \A e \in G : e \notin ToSet(events)
      BY <1>1, <2>4 DEF IInv, TypeOK, Placed
    <2>7. /\ events' \in Seq(Of(cur)) /\ IsInjective(events')
          /\ ToSet(events') = ToSet(events) \cup G
      <3>. HIDE DEF G, B, got
      <3>1. PICK t \in Seq(Of(cur)) : /\ t = SetToSeq(G)
                                      /\ IsInjective(t) /\ ToSet(t) = G
        BY <2>1, <2>2
      <3>2. events' = events \o t
        BY <1>5, <3>1 DEF G, got
      <3>3. \A e \in ToSet(t) : e \notin ToSet(events)
        BY <2>6, <3>1
      <3>4. /\ events \o t \in Seq(Of(cur)) /\ IsInjective(events \o t)
            /\ ToSet(events \o t) = ToSet(events) \cup ToSet(t)
        BY <2>6, <3>1, <3>3, ConcatListed
      <3>. QED  BY <3>1, <3>2, <3>4
    <2>8. start' \in Nat
      BY <1>3, <1>5, ListingAssumption
    <2>9. collector' \subseteq Of(cur) /\ collector \subseteq collector'
      BY <1>4, <1>5 DEF IInv, TypeOK
    <2>10. TypeOK'
      BY <1>0, <1>2, <1>5, <2>7, <2>8, <2>9 DEF IInv, TypeOK, Of
    <2>11. Placed'
      <3>1. \A e \in ToSet(Batch) : store[e] \notin {"broken"} /\ (store[e] = "good" => e \in G)
        BY <1>5 DEF Decodes
      <3>2. \A e \in G : store[e] = "good"
        OBVIOUS
      <3>3. \A e \in B : store[e] \in {"blank", "broken"}
        OBVIOUS
      <3>4. G \in SUBSET ToSet(Batch) /\ B \in SUBSET ToSet(Batch)
        OBVIOUS
      <3>5. collector' = collector \cup B
        BY <1>5
      <3>. HIDE DEF G, B, got
      <3>. QED  BY <1>0, <1>1, <2>5, <2>7, <3>1, <3>2, <3>3, <3>4, <3>5, PlacedGrows
    <2>. QED  BY <1>0, <1>1, <1>5, <2>10, <2>11 DEF Kept, FetchInv, ListingHonest
  <1>6. CASE single' = Batch /\ pc' = "single" /\ UNCHANGED <<events, collector, start>>
    <2>1. TypeOK'
      BY <1>0, <1>2, <1>3, <1>6 DEF IInv, TypeOK, Of
    <2>2. BatchEnd' = BatchEnd /\ Reached' = start /\ Reached = start
      <3>1. BatchEnd' = BatchEnd
        BY <1>0, <1>6 DEF BatchEnd
      <3>2. Reached' = BatchEnd - (BatchEnd - start)
        BY <1>3, <1>6, <3>1 DEF Reached
      <3>. QED  BY <1>0, <1>3, <3>1, <3>2 DEF Reached
    <2>3. Fetched' = Fetched
      BY <1>0, <2>2 DEF Fetched
    <2>4. Placed'
      BY <1>0, <1>1, <1>6, <2>3 DEF Placed, Of
    <2>5. Positioned'
      <3>1. single' # <<>>
        BY <1>3, <1>6, EmptySeq
      <3>. QED  BY <1>0, <1>3, <1>6, <2>2, <3>1 DEF Positioned, Batch
    <2>. QED  BY <1>0, <1>1, <1>6, <2>1, <2>4, <2>5 DEF Kept, FetchInv, ListingHonest
  <1>. QED  BY <1>5, <1>6 DEF FetchBatch

\* The first of the paths to fetch one by one is the next of all.
LEMMA SingleFacts ==
    ASSUME TypeOK, FetchInv, pc = "single"
    PROVE  /\ Reached \in Nat /\ Reached < BatchEnd
           /\ Reached + 1 \in DOMAIN paths
           /\ Head(single) = paths[Reached + 1]
           /\ Head(single) \in Of(cur)
           /\ Tail(single) \in Seq(Of(cur))
           /\ Tail(single) = SubSeq(paths, (Reached + 1) + 1, BatchEnd)
           /\ Len(single) \in Nat \ {0} /\ Len(Tail(single)) = Len(single) - 1
           /\ Reached = BatchEnd - Len(single)
  <1>1. Positioned
    BY DEF FetchInv
  <1>2. /\ start \in Nat /\ BatchEnd \in Nat /\ Len(paths) \in Nat
        /\ BatchEnd <= Len(paths)
        /\ paths \in Seq(Of(cur)) /\ DOMAIN paths = 1 .. Len(paths)
    BY <1>1, BatchFacts DEF Positioned
  <1>3. single \in Seq(Of(cur)) /\ single # <<>>
    BY <1>1 DEF TypeOK, Positioned
  <1>4. Len(single) \in Nat \ {0}
    BY <1>3, EmptySeq
  <1>5. Reached = BatchEnd - Len(single) /\ start <= Reached
    BY <1>1 DEF Positioned, Reached
  <1>6. Reached \in Nat /\ Reached < BatchEnd
    BY <1>2, <1>4, <1>5
  <1>7. Reached + 1 \in 1 .. Len(paths) /\ BatchEnd \in Reached + 1 .. Len(paths)
    BY <1>2, <1>6
  <1>8. /\ Head(SubSeq(paths, Reached + 1, BatchEnd)) = paths[Reached + 1]
        /\ Tail(SubSeq(paths, Reached + 1, BatchEnd)) = SubSeq(paths, (Reached + 1) + 1, BatchEnd)
    BY <1>2, <1>7, HeadTailOfSubSeq
  <1>9. Head(single) \in Of(cur) /\ Tail(single) \in Seq(Of(cur))
        /\ Len(Tail(single)) = Len(single) - 1
    BY <1>3, HeadTailProperties
  <1>. QED  BY <1>1, <1>2, <1>4, <1>5, <1>6, <1>7, <1>8, <1>9 DEF Positioned

LEMMA FetchSingleKept == ASSUME IInv, FetchSingle PROVE TypeOK' /\ Kept
  <1>. DEFINE e == Head(single)
  <1>0. /\ pc = "single" /\ NextSingle
        /\ UNCHANGED <<store, rows, queue, cur, paths, todo, request, valid,
                       steady, edits>>
    BY DEF FetchSingle, person
  <1>1. Placed /\ Positioned /\ IsInjective(paths) /\ TypeOK /\ FetchInv
    BY <1>0 DEF IInv, FetchInv
  <1>2. faults' \in 0 .. MaxFaults
    BY SufferType DEF FetchSingle, IInv, NoFault
  <1>3. /\ Reached \in Nat /\ Reached < BatchEnd
        /\ Reached + 1 \in DOMAIN paths
        /\ e = paths[Reached + 1] /\ e \in Of(cur)
        /\ Tail(single) \in Seq(Of(cur))
        /\ Tail(single) = SubSeq(paths, (Reached + 1) + 1, BatchEnd)
        /\ Len(single) \in Nat \ {0} /\ Len(Tail(single)) = Len(single) - 1
        /\ Reached = BatchEnd - Len(single)
    BY <1>0, <1>1, SingleFacts
  <1>4. /\ start \in Nat /\ BatchEnd \in Nat /\ Len(paths) \in Nat
        /\ start < Len(paths) /\ DOMAIN paths = 1 .. Len(paths)
        /\ \A i \in DOMAIN paths : i <= start + BatchSize <=> i <= BatchEnd
    BY <1>0, <1>1, BatchFacts DEF Positioned
  <1>. HIDE DEF e
  <1>5. e \notin Fetched
    BY <1>1, <1>3, <1>4 DEF Fetched, IsInjective
  <1>6. /\ pc' \in {"fetch", "single"} /\ start' \in Nat
        /\ \A i \in DOMAIN paths : i <= Reached' <=> i <= Reached + 1
        /\ pc' = "single" => Positioned'
    <2>1. CASE Len(single) = 1
      <3>1. pc' = "fetch" /\ start' = start + BatchSize
        BY <1>0, <2>1 DEF NextSingle
      <3>2. Reached' = start + BatchSize /\ BatchEnd = Reached + 1
        BY <1>3, <1>4, <2>1, <3>1 DEF Reached
      <3>. QED  BY <1>4, <3>1, <3>2, ListingAssumption
    <2>2. CASE Len(single) # 1
      <3>1. pc' = "single" /\ start' = start /\ single' = Tail(single)
        BY <1>0, <2>2 DEF NextSingle
      <3>2. BatchEnd' = BatchEnd
        BY <1>0, <3>1 DEF BatchEnd
      <3>3. Reached' = BatchEnd - (Len(single) - 1)
        BY <1>3, <3>1, <3>2 DEF Reached
      <3>4. Reached' = Reached + 1
        BY <1>3, <1>4, <3>3
      <3>5. single' # <<>>
        <4>1. Len(single') # 0
          BY <1>3, <2>2, <3>1
        <4>. QED  BY <4>1, EmptySeq
      <3>6. start <= Reached
        BY <1>1 DEF Positioned
      <3>7. single' = SubSeq(paths, Reached' + 1, BatchEnd)
        BY <1>3, <3>1, <3>4
      <3>8. start' < Len(paths') /\ start' <= Reached'
        BY <1>0, <1>3, <1>4, <3>1, <3>4, <3>6
      <3>9. Positioned'
        BY <1>0, <3>2, <3>5, <3>7, <3>8 DEF Positioned
      <3>. QED  BY <1>4, <3>1, <3>4, <3>9
    <2>. QED  BY <2>1, <2>2
  <1>7. Fetched' = Fetched \cup {e}
    <2>1. Fetched' = {paths[i] : i \in {j \in DOMAIN paths : j <= Reached + 1}}
      BY <1>0, <1>6 DEF Fetched
    <2>2. \A j \in DOMAIN paths : j <= Reached + 1 <=> j <= Reached \/ j = Reached + 1
      BY <1>3, <1>4
    <2>. QED  BY <1>3, <2>1, <2>2 DEF Fetched
  <1>8. events \in Seq(Of(cur)) /\ IsInjective(events) /\ e \notin ToSet(events)
    BY <1>1, <1>5 DEF TypeOK, Placed
  <1>9. PICK G \in SUBSET {e}, B \in SUBSET {e} :
          /\ events' = IF e \in G THEN Append(events, e) ELSE events
          /\ collector' = collector \cup B
          /\ missed \subseteq missed' /\ missed' \subseteq Events
          /\ G # {} => store[e] = "good"
          /\ B # {} => store[e] \in {"blank", "broken"}
          /\ e \notin missed' => (store[e] = "good" => e \in G)
                                 /\ (store[e] = "broken" => e \in B)
    <2>1. CASE /\ events' = IF store[e] = "good" THEN Append(events, e) ELSE events
               /\ collector' = collector \cup {f \in {e} : store[f] \in {"blank", "broken"}}
               /\ UNCHANGED missed
      <3>1. missed' \subseteq Events
        BY <1>1, <2>1 DEF TypeOK
      <3>. WITNESS {f \in {e} : store[f] = "good"} \in SUBSET {e},
                   {f \in {e} : store[f] \in {"blank", "broken"}} \in SUBSET {e}
      <3>. QED  BY <2>1, <3>1
    <2>2. CASE missed' = missed \cup {e} /\ UNCHANGED <<events, collector>>
      <3>1. missed' \subseteq Events
        BY <1>1, <1>3, <2>2 DEF TypeOK, Of
      <3>. WITNESS {} \in SUBSET {e}, {} \in SUBSET {e}
      <3>. QED  BY <2>2, <3>1
    <2>. QED  BY <2>1, <2>2 DEF FetchSingle, e
  <1>10. /\ events' \in Seq(Of(cur)) /\ IsInjective(events')
         /\ ToSet(events') = ToSet(events) \cup G
    <2>1. CASE e \in G
      <3>1. G = {e} /\ events' = Append(events, e)
        BY <1>9, <2>1
      <3>. QED  BY <1>3, <1>8, <3>1, AppendListed
    <2>2. CASE e \notin G
      <3>1. G = {} /\ events' = events
        BY <1>9, <2>2
      <3>. QED  BY <1>8, <3>1
    <2>. QED  BY <2>1, <2>2
  <1>11. Placed'
    <2>1. \A f \in G : store[f] = "good"
      BY <1>9
    <2>2. \A f \in B : store[f] \in {"blank", "broken"}
      BY <1>9
    <2>3. \A f \in {e} \ missed' : /\ store[f] = "good" => f \in G
                                   /\ store[f] = "broken" => f \in B
      BY <1>9
    <2>. QED  BY <1>0, <1>1, <1>7, <1>9, <1>10, <2>1, <2>2, <2>3, PlacedGrows
  <1>12. single' \in Seq(Of(cur)) /\ collector' \subseteq Of(cur) /\ collector \subseteq collector'
    BY <1>0, <1>1, <1>3, <1>9 DEF NextSingle, TypeOK
  <1>13. TypeOK'
    BY <1>0, <1>1, <1>2, <1>6, <1>9, <1>10, <1>12 DEF TypeOK, Of
  <1>. QED  BY <1>0, <1>1, <1>6, <1>11, <1>13 DEF Kept, FetchInv, ListingHonest

\* When the batches are through every path has been asked for.
LEMMA EndFetchKept == ASSUME IInv, EndFetch PROVE TypeOK' /\ Kept
  <1>1. /\ pc = "fetch" /\ start >= Len(paths) /\ pc' = "save" /\ todo' = collector
        /\ UNCHANGED <<store, rows, queue, cur, paths, start, single, events, collector,
                       request, valid, steady, missed, edits, faults>>
    BY DEF EndFetch, Return, person, history
  <1>2. TypeOK /\ Placed /\ IsInjective(paths)
    BY <1>1 DEF IInv, FetchInv
  <1>3. Fetched = ToSet(paths)
    <2>1. DOMAIN paths = 1 .. Len(paths) /\ Len(paths) \in Nat /\ start \in Nat
      BY <1>2, LenProperties DEF TypeOK
    <2>2. \A i \in DOMAIN paths : i <= start
      BY <1>1, <2>1
    <2>. QED  BY <1>1, <2>2 DEF Fetched, Reached, ToSet
  <1>4. TypeOK'
    BY <1>1, <1>2 DEF TypeOK, Of
  <1>5. FetchInv'
    BY <1>1, <1>2 DEF FetchInv
  <1>6. ListingHonest'
    <2>1. \A e \in Of(cur) \cap steady :
             /\ store[e] = "good" /\ e \notin missed => e \in ToSet(events)
             /\ e \in ToSet(events) => store[e] = "good"
             /\ store[e] = "broken" /\ e \notin missed => e \in collector
             /\ e \in collector => store[e] \in {"blank", "broken"}
      BY <1>2, <1>3 DEF Placed
    <2>2. collector \subseteq Of(cur)
      BY <1>2 DEF TypeOK
    <2>3. \A e \in ToSet(events) : ~(e \in collector /\ e \in steady)
      BY <2>1, <2>2
    <2>4. ToSet(events) \cap collector \cap steady = {}
      BY <2>3
    <2>5. IsInjective(events)
      BY <1>2 DEF Placed
    <2>6. \A e \in Of(cur) \cap steady : e \in ToSet(events) => Decodes(e)
      BY <2>1 DEF Decodes
    <2>. QED  BY <1>1, <2>1, <2>4, <2>5, <2>6 DEF ListingHonest, Of, Decodes
  <1>. QED  BY <1>4, <1>5, <1>6 DEF Kept

-----------------------------------------------------------------------------
(* The theorems.                                                           *)

LEMMA InitIInv == Init => IInv
  <1>. SUFFICES ASSUME Init PROVE IInv
    OBVIOUS
  <1>1. TypeOK
    <2>1. {paths, single, events} \subseteq Seq(Of(cur)) /\ start \in Nat
      BY EmptyListed DEF Init
    <2>2. edits \in 0 .. MaxEdits /\ faults \in 0 .. MaxFaults
      BY ListingAssumption DEF Init
    <2>. QED  BY <2>1, <2>2 DEF Init, TypeOK
  <1>2. FetchInv /\ ListingHonest
    BY EmptyListed DEF Init, FetchInv, ListingHonest
  <1>. QED  BY <1>1, <1>2 DEF IInv

LEMMA NextKept == ASSUME IInv, [Next]_vars PROVE IInv'
  <1>1. TypeOK' /\ Kept
    <2>1. CASE \/ BeginPass \/ Clear \/ EndPass \/ EndCalendar \/ Crash
               \/ \E c \in Calendars : NextCalendar(c) \/ SyncByReport(c)
      BY <2>1, PassKept
    <2>2. CASE \/ \E e \in Events : Edit(e) \/ DeleteRead(e) \/ Save(e)
               \/ DeleteApply \/ DeleteAll \/ UNCHANGED vars
      BY <2>2, AsideKept
    <2>3. CASE Query \/ Propfind \/ FetchBatch \/ FetchSingle \/ EndFetch
      BY <2>3, QueryKept, PropfindKept, FetchBatchKept, FetchSingleKept, EndFetchKept
    <2>. QED  BY <2>1, <2>2, <2>3 DEF Next, SyncStep
  <1>. QED  BY <1>1 DEF Kept, IInv

LEMMA Invariance == Spec => []IInv
  BY InitIInv, NextKept, PTL DEF Spec

\* What GetEvents returns is honest, whatever the batch size, whichever
\* batches fall back to single fetches, and whatever changes or fails
\* meanwhile: of the events that stay as they are every good one is listed
\* once, unless its own fetch failed, and every one that does not decode in a
\* way the code knows is collected as malformed, and nothing else.
THEOREM ListingIsHonest == Spec => []ListingHonest
  BY Invariance, PTL DEF IInv

\* Every variable keeps its type.
THEOREM ListingTypeCorrect == Spec => []TypeOK
  BY Invariance, PTL DEF IInv

==============================================================================
