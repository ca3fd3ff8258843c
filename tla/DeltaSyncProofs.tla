-------------------------- MODULE DeltaSyncProofs --------------------------
(***************************************************************************)
(* Proofs about DeltaSync for every set of events and passes and any       *)
(* number of changes and faults: the stored token never claims more than   *)
(* the destination holds.                                                  *)
(***************************************************************************)
EXTENDS DeltaSync, TLAPS

LEMMA InitIInv == Init => IInv
  <1>. SUFFICES ASSUME Init PROVE IInv
    OBVIOUS
  <1>. USE DeltaSyncAssumption DEF Init
  <1>1. TypeOK
    BY DEF TypeOK, Versions, Empty
  <1>2. ClockInv
    BY DEF ClockInv, Empty
  <1>3. PassInv
    BY DEF PassInv, Applying, Delta, Final, Covers, Settled, Empty
  <1>4. TokenHonest
    BY DEF TokenHonest, Covers
  <1>. QED  BY <1>1, <1>2, <1>3, <1>4 DEF IInv

\* A fault keeps the count within its bound.
LEMMA FaultsType ==
    ASSUME TypeOK,
           UNCHANGED faults \/ (\E kind \in Kinds : Suffer(kind))
    PROVE  faults' \in 0 .. MaxFaults
  BY DeltaSyncAssumption DEF TypeOK, Suffer

\* What the end of a pass leaves behind.
LEMMA EndKept ==
    ASSUME IInv, NEW p \in Passes, pc[p] # "idle", End(p),
           UNCHANGED <<source, dest, dropped>>,
           faults' \in 0 .. MaxFaults,
           token' = token \/ (Delta(p) /\ Applied(p) /\ token' = next[p])
    PROVE  IInv'
  <1>. USE DEF IInv, source
  <1>0. \A q \in Passes : pc'[q] = "idle"
    BY DEF TypeOK, PassInv, End
  <1>1. TypeOK'
    BY DeltaSyncAssumption DEF TypeOK, End, Delta, Empty, Versions
  <1>2. ClockInv'
    BY DEF ClockInv, PassInv, Delta
  <1>3. PassInv'
    <2>1. \A q \in Passes : /\ batch'[q] = Empty /\ gone'[q] = {} /\ next'[q] = NoToken
                            /\ q \notin stray' /\ q \notin cancelled'
      BY DEF TypeOK, PassInv, Applying, Delta, End
    <2>. QED  BY <1>0, <2>1 DEF PassInv, Applying, Delta, Final, Covers, Empty
  <1>4. TokenHonest'
    <2>1. CASE token' = token
      BY <2>1 DEF TokenHonest, Final, Covers, Settled, Wanted
    <2>2. CASE Delta(p) /\ Applied(p) /\ token' = next[p]
      BY <2>2 DEF TokenHonest, PassInv, Applied, Applying, Delta, Final, Covers,
                  Settled, Wanted, Empty
    <2>. QED  BY <2>1, <2>2
  <1>. QED  BY <1>1, <1>2, <1>3, <1>4

-----------------------------------------------------------------------------
(* One lemma per action: it keeps the invariant.                           *)

\* A step that moves pass p from one place to another, and nothing else.
LEMMA MoveKept ==
    ASSUME IInv, NEW p \in Passes, pc[p] \in {"probe", "report"},
           NEW place \in {"report", "list"},
           pc' = [pc EXCEPT ![p] = place],
           UNCHANGED <<source, dest, token, locals, flags, dropped>>,
           faults' \in 0 .. MaxFaults
    PROVE  IInv'
  <1>. USE DEF IInv, source, locals, flags
  <1>0. \A q \in Passes : pc'[q] = IF q = p THEN place ELSE pc[q]
    BY DEF TypeOK
  <1>1. TypeOK'
    BY DEF TypeOK
  <1>2. ClockInv' /\ TokenHonest'
    BY DEF ClockInv, TokenHonest, Final, Covers, Settled, Wanted
  <1>3. PassInv'
    BY <1>0 DEF PassInv, Applying, Delta, Final, Covers, Settled, Wanted
  <1>. QED  BY <1>1, <1>2, <1>3

LEMMA BeginKept == ASSUME IInv, NEW p \in Passes, Begin(p) PROVE IInv'
  <1>. USE DEF IInv, source, flags
  <1>0. faults' \in 0 .. MaxFaults
    BY FaultsType DEF Begin, Kinds
  <1>1. CASE UNCHANGED <<pc, asked>>
    BY <1>0, <1>1 DEF Begin, TypeOK, ClockInv, PassInv, TokenHonest, Applying, Delta,
                      Final, Covers, Settled, Wanted, Empty
  <1>2. CASE /\ pc' = [pc EXCEPT ![p] = "probe"]
             /\ asked' = [asked EXCEPT ![p] = token]
    <2>0. \A q \in Passes : /\ pc'[q] = IF q = p THEN "probe" ELSE "idle"
                            /\ q = p => asked'[q] = token
      BY <1>2 DEF Begin, TypeOK
    <2>1. TypeOK'
      BY <1>0, <1>2 DEF Begin, TypeOK
    <2>2. ClockInv' /\ TokenHonest'
      BY DEF Begin, ClockInv, TokenHonest, Final, Covers, Settled, Wanted
    <2>3. PassInv'
      BY <2>0 DEF Begin, PassInv, Applying, Delta, Final, Covers, Settled, Wanted, Empty
    <2>. QED  BY <2>1, <2>2, <2>3
  <1>. QED  BY <1>1, <1>2 DEF Begin

LEMMA ProbeKept == ASSUME IInv, NEW p \in Passes, Probe(p) PROVE IInv'
  <1>1. faults' \in 0 .. MaxFaults
    BY FaultsType DEF Probe, Works, Fails, Kinds, IInv
  <1>. QED  BY <1>1, MoveKept DEF Probe

\* A report brings what the token does not cover.
LEMMA TakeReportKept ==
    ASSUME IInv, NEW p \in Passes, pc[p] = "report", NEW nodata \in SUBSET Uids,
           NEW t \in {now, NoToken}, TakeReport(p, nodata, t),
           UNCHANGED <<source, dest, token, asked, flags>>,
           faults' \in 0 .. MaxFaults
    PROVE  IInv'
  <1>. USE DEF IInv, source, flags
  <1>0. /\ \A q \in Passes : pc'[q] = IF q = p THEN "delta" ELSE pc[q]
        /\ \A q \in Passes \ {p} : /\ batch'[q] = batch[q]
                                  /\ gone'[q] = gone[q]
                                  /\ next'[q] = next[q]
        /\ batch'[p] = [u \in Uids |->
               IF u \in Changed(token) \ nodata THEN ver[u] ELSE 0]
        /\ gone'[p] = Deleted(token) /\ next'[p] = t
    BY DEF TakeReport, TypeOK, PassInv
  <1>a. \A q \in Passes \ {p} : pc[q] = "idle"
    BY DEF PassInv
  <1>1. TypeOK'
    <2>1. dropped' \subseteq Uids
      BY DEF TakeReport, TypeOK
    <2>2. batch'[p] \in [Uids -> Versions] /\ gone'[p] \in SUBSET Uids
      BY <1>0, DeltaSyncAssumption DEF TypeOK, Deleted, Versions
    <2>3. batch' \in [Passes -> [Uids -> Versions]] /\ gone' \in [Passes -> SUBSET Uids]
      BY <1>0, <2>2 DEF TakeReport, TypeOK
    <2>. QED  BY <2>1, <2>3 DEF TakeReport, TypeOK, Versions
  <1>2. ClockInv' /\ TokenHonest'
    BY DEF TakeReport, ClockInv, TokenHonest, Final, Covers, Settled, Wanted
  <1>3. PassInv'
    <2>1. \A u \in Uids : batch'[p][u] # 0 =>
            /\ batch'[p][u] = ver[u] /\ u \in live /\ u \notin gone'[p]
      BY <1>0 DEF Changed, Deleted
    <2>2. \A u \in Uids : u \in gone'[p] => u \notin live
      BY <1>0 DEF Deleted
    <2>3. \A u \in Uids : batch'[p][u] # 0 \/ u \in gone'[p] \/ Settled(u)'
      <3>. TAKE u \in Uids
      <3>1. CASE token # NoToken /\ ver[u] <= token
        BY <3>1 DEF TokenHonest, Final, Covers, Settled, Wanted, TakeReport
      <3>2. CASE ~(token # NoToken /\ ver[u] <= token)
        <4>1. Since(token, u)
          BY <3>2 DEF Since, TypeOK, Versions
        <4>2. CASE u \in live
          BY <1>0, <4>1, <4>2 DEF Changed, ClockInv, Settled, TakeReport
        <4>3. CASE u \notin live
          BY <1>0, <4>1, <4>3 DEF Deleted, Settled, Wanted, TakeReport, PassInv
        <4>. QED  BY <4>2, <4>3
      <3>. QED  BY <3>1, <3>2
    <2>4. \A q \in Passes \ {p} : batch'[q] = Empty /\ gone'[q] = {} /\ next'[q] = NoToken
      BY <1>0, <1>a DEF PassInv, Applying, Delta
    <2>5. \A q \in Passes : pc'[q] # "idle" => asked'[q] = token'
      BY <1>0 DEF PassInv
    <2>6. \A q \in Passes : next'[q] # NoToken =>
            next'[q] <= now' /\ (token' # NoToken => token' <= next'[q])
      BY <1>0, <2>4 DEF Delta, ClockInv, TypeOK, Versions
    <2>7. \A q, r \in Passes : pc'[q] # "idle" /\ pc'[r] # "idle" => q = r
      BY <1>0, <1>a
    <2>8. \A q \in Passes : pc'[q] = "idle" => q \notin stray' /\ q \notin cancelled'
      BY <1>0 DEF PassInv
    <2>9. ASSUME NEW u \in Uids
          PROVE  /\ batch'[p][u] # 0 =>
                       /\ batch'[p][u] <= ver'[u] /\ dest'[u] <= batch'[p][u]
                       /\ u \notin gone'[p]
                       /\ Final(p, u)' => batch'[p][u] = Wanted(u)'
                 /\ Delta(p)' /\ u \in gone'[p] /\ Final(p, u)' => u \notin live'
                 /\ Covers(next[p], u)' => \/ batch'[p][u] # 0 \/ u \in gone'[p]
                                           \/ Settled(u)'
      BY <2>1, <2>2, <2>3 DEF ClockInv, TypeOK, Versions, Wanted
    <2>. QED  BY <1>0, <1>a, <2>4, <2>5, <2>6, <2>7, <2>8, <2>9
              DEF PassInv, Applying, Delta, Covers, Empty
  <1>. QED  BY <1>1, <1>2, <1>3

LEMMA ReportKept == ASSUME IInv, NEW p \in Passes, Report(p) PROVE IInv'
  <1>1. faults' \in 0 .. MaxFaults
    BY FaultsType DEF Report, Works, Fails, Kinds, IInv
  <1>2. ASSUME NEW nodata \in SUBSET Uids, NEW t \in {now, NoToken},
               TakeReport(p, nodata, t)
        PROVE  IInv'
    BY <1>1, <1>2, TakeReportKept DEF Report
  <1>3. CASE pc' = [pc EXCEPT ![p] = "list"] /\ UNCHANGED <<batch, gone, next, dropped>>
    BY <1>1, <1>3, MoveKept DEF Report, locals
  <1>4. \A u \in Uids : {u} \in SUBSET Uids
    OBVIOUS
  <1>. QED  BY <1>2, <1>3, <1>4 DEF Report, Changed, IInv, TypeOK

\* What fullSync makes of any two listings, complete or not.
LEMMA CompareKept ==
    ASSUME IInv, NEW p \in Passes, pc[p] = "list",
           NEW listed \in SUBSET live, NEW shown \in SUBSET Uids, NEW left \in SUBSET Uids,
           Compare(p, listed, shown, left),
           UNCHANGED <<source, dest, token>>,
           faults' \in 0 .. MaxFaults
    PROVE  IInv'
  <1>. USE DEF IInv, source, flags
  <1>. DEFINE b == [u \in Uids |-> IF u \in listed \ left THEN ver[u] ELSE 0]
              g == IF Orphans THEN shown \ (listed \cup left) ELSE {}
  <1>0. /\ \A q \in Passes : pc'[q] = IF q = p THEN "full" ELSE "idle"
        /\ \A q \in Passes \ {p} : batch'[q] = batch[q] /\ gone'[q] = gone[q]
        /\ batch'[p] = b /\ gone'[p] = g /\ next'[p] = NoToken
        /\ next' = next /\ \A q \in Passes : ~Delta(q) /\ next[q] = NoToken
    BY DEF Compare, TypeOK, PassInv, Applying, Delta
  <1>1. TypeOK'
    <2>1. b \in [Uids -> Versions] /\ g \in SUBSET Uids
      BY DeltaSyncAssumption DEF TypeOK, Versions
    <2>. QED  BY <1>0, <2>1 DEF Compare, TypeOK
  <1>2. \A u \in Uids : Settled(u) => Settled(u)'
    BY DEF Compare, Settled, Wanted
  <1>3. ClockInv' /\ TokenHonest'
    BY <1>2 DEF ClockInv, TokenHonest, Covers
  <1>4. PassInv'
    <2>1. \A u \in Uids : b[u] # 0 => b[u] = ver[u] /\ u \in live /\ u \notin g
      OBVIOUS
    <2>2. \A q \in Passes \ {p} : batch'[q] = Empty /\ gone'[q] = {}
      BY <1>0 DEF PassInv, Applying
    <2>3. \A u \in Uids : batch'[p][u] # 0 =>
            /\ batch'[p][u] <= ver'[u] /\ dest'[u] <= batch'[p][u]
            /\ u \notin gone'[p]
            /\ batch'[p][u] = Wanted(u)'
      BY <1>0, <2>1 DEF ClockInv, TypeOK, Versions, Wanted
    <2>4. \A q \in Passes : ~Delta(q)' /\ next'[q] = NoToken
      BY <1>0 DEF Delta
    <2>5. \A q \in Passes :
            /\ pc'[q] = "idle" => q \notin stray' /\ q \notin cancelled'
            /\ pc'[q] # "idle" => asked'[q] = token'
            /\ ~Applying(q)' => batch'[q] = Empty /\ gone'[q] = {}
      BY <1>0, <2>2 DEF Compare, PassInv, Applying
    <2>. HIDE DEF b, g
    <2>. QED  BY <1>0, <2>2, <2>3, <2>4, <2>5 DEF PassInv, Covers, Empty
  <1>. QED  BY <1>1, <1>3, <1>4

LEMMA ListKept == ASSUME IInv, NEW p \in Passes, List(p) PROVE IInv'
  <1>0. faults' \in 0 .. MaxFaults
    BY FaultsType DEF List, ListHere, ListElsewhere, Works, Fails, Kinds, IInv
  <1>1. CASE End(p) /\ UNCHANGED dropped
    BY <1>0, <1>1, EndKept DEF List
  <1>2. ASSUME NEW listed \in SUBSET live, NEW shown \in SUBSET Uids,
               NEW left \in SUBSET Uids, Compare(p, listed, shown, left)
        PROVE  IInv'
    BY <1>0, <1>2, CompareKept DEF List
  <1>3. Shown \subseteq Uids /\ PassedOver \subseteq Uids
    BY DeltaSyncAssumption DEF Shown
  <1>4. CASE ListHere(p)
    BY <1>2, <1>3, <1>4 DEF ListHere
  <1>5. CASE ListElsewhere(p)
    BY <1>2, <1>5 DEF ListElsewhere
  <1>. QED  BY <1>1, <1>4, <1>5 DEF List

LEMMA PutKept ==
    ASSUME IInv, NEW p \in Passes, NEW u \in Uids, Put(p, u) PROVE IInv'
  <1>. USE DEF IInv, source, flags
  <1>0. faults' \in 0 .. MaxFaults
    BY FaultsType DEF Put, Works, Fails, Kinds
  <1>1. /\ Applying(p) /\ batch[p][u] \in Versions \ {0}
        /\ batch' = [batch EXCEPT ![p][u] = 0]
        /\ UNCHANGED <<source, token, pc, asked, gone, next, flags>>
    BY DEF Put, TypeOK
  <1>t. batch' \in [Passes -> [Uids -> Versions]]
    <2>1. [batch[p] EXCEPT ![u] = 0] \in [Uids -> Versions]
      BY DeltaSyncAssumption DEF TypeOK, Versions
    <2>. QED  BY <1>1, <2>1 DEF TypeOK
  <1>2. CASE GiveUp(p, u)
    <2>1. TypeOK'
      BY <1>0, <1>1, <1>2, <1>t DEF GiveUp, TypeOK
    <2>2. ClockInv' /\ TokenHonest'
      BY <1>1, <1>2 DEF GiveUp, ClockInv, TokenHonest, Final, Covers, Settled, Wanted
    <2>3. PassInv'
      BY <1>1, <1>2 DEF GiveUp, PassInv, TypeOK, Applying, Delta, Final, Covers, Settled, Wanted, Empty
    <2>. QED  BY <2>1, <2>2, <2>3
  <1>3. CASE Arrive(u, batch[p][u])
    <2>1. TypeOK'
      BY <1>0, <1>1, <1>3, <1>t DEF Arrive, TypeOK
    <2>2. ClockInv'
      BY <1>1, <1>3 DEF Arrive, ClockInv, TypeOK, PassInv
    <2>3. PassInv'
      BY <1>1, <1>3 DEF Arrive, PassInv, TypeOK, Applying, Delta, Final, Covers, Settled, Wanted, Empty
    <2>4. TokenHonest'
      BY <1>1, <1>3 DEF Arrive, PassInv, TokenHonest, TypeOK, Final, Covers, Settled, Wanted
    <2>. QED  BY <2>1, <2>2, <2>3, <2>4
  <1>. QED  BY <1>2, <1>3 DEF Put

LEMMA DeleteKept ==
    ASSUME IInv, NEW p \in Passes, NEW u \in Uids, Delete(p, u) PROVE IInv'
  <1>. USE DEF IInv, source, flags
  <1>0. faults' \in 0 .. MaxFaults
    BY FaultsType DEF Delete, Works, Fails, Kinds
  <1>1. /\ Applying(p) /\ batch[p] = Empty /\ u \in gone[p]
        /\ gone' = [gone EXCEPT ![p] = @ \ {u}]
        /\ UNCHANGED <<source, token, pc, asked, batch, next, flags>>
    BY DEF Delete
  <1>2. CASE GiveUp(p, u)
    <2>1. TypeOK'
      BY <1>0, <1>1, <1>2 DEF GiveUp, TypeOK
    <2>2. ClockInv' /\ TokenHonest'
      BY <1>1, <1>2 DEF GiveUp, ClockInv, TokenHonest, Final, Covers, Settled, Wanted
    <2>3. PassInv'
      BY <1>1, <1>2 DEF GiveUp, PassInv, TypeOK, Applying, Delta, Final, Covers, Settled, Wanted, Empty
    <2>. QED  BY <2>1, <2>2, <2>3
  <1>3. CASE Remove(p, u)
    <2>0. 0 \in Versions
      BY DeltaSyncAssumption DEF Versions
    <2>1. TypeOK'
      BY <1>0, <1>1, <1>3, <2>0 DEF Remove, TypeOK
    <2>2. ClockInv'
      BY <1>1, <1>3 DEF Remove, ClockInv, TypeOK, Versions
    <2>3. PassInv'
      BY <1>1, <1>3 DEF Remove, PassInv, TypeOK, Versions, Applying, Delta, Final, Covers,
                        Settled, Wanted, Empty
    <2>4. TokenHonest'
      BY <1>1, <1>3 DEF Remove, PassInv, TokenHonest, TypeOK, Final, Covers, Settled, Wanted
    <2>. QED  BY <2>1, <2>2, <2>3, <2>4
  <1>. QED  BY <1>2, <1>3 DEF Delete

LEMMA FinishKept == ASSUME IInv, NEW p \in Passes, Finish(p) PROVE IInv'
  <1>1. faults' \in 0 .. MaxFaults
    BY FaultsType DEF Finish, Kinds, IInv
  <1>. QED  BY <1>1, EndKept DEF Finish, Applied, Applying, Delta

LEMMA CancelKept == ASSUME IInv, NEW p \in Passes, Cancel(p) PROVE IInv'
  <1>1. faults' \in 0 .. MaxFaults
    BY FaultsType DEF Cancel, Kinds, IInv
  <1>. QED  BY <1>1 DEF Cancel, IInv, TypeOK, ClockInv, PassInv, TokenHonest,
                       source, locals, Applying, Delta, Final, Covers, Settled, Wanted

LEMMA CrashKept == ASSUME IInv, NEW p \in Passes, Crash(p) PROVE IInv'
  <1>1. faults' \in 0 .. MaxFaults
    BY FaultsType DEF Crash, Kinds, IInv
  <1>. QED  BY <1>1, EndKept DEF Crash

\* A change is newer than every token and every version there is.
LEMMA ChangeKept == ASSUME IInv, NEW u \in Uids, Change(u) PROVE IInv'
  <1>. USE DEF IInv, locals, flags
  <1>0. /\ now' = now + 1 /\ now' \in Versions /\ now \in Nat
        /\ ver' = [ver EXCEPT ![u] = now + 1]
        /\ live' \subseteq Uids /\ live' \ {u} = live \ {u}
        /\ UNCHANGED <<oldest, dest, token, pc, locals, flags, dropped, faults>>
    BY DeltaSyncAssumption DEF Change, TypeOK, Versions, source
  <1>1. TypeOK'
    BY <1>0 DEF TypeOK
  <1>2. ClockInv'
    BY <1>0, DeltaSyncAssumption DEF ClockInv, TypeOK, Versions
  <1>3. /\ ~Covers(token, u)'
        /\ \A q \in Passes : ~Covers(next[q], u)'
    BY <1>0, DeltaSyncAssumption DEF Covers, ClockInv, PassInv, Applying, Delta, TypeOK, Versions
  <1>4. \A x \in Uids \ {u} : /\ Settled(x)' <=> Settled(x)
                             /\ Wanted(x)' = Wanted(x)
                             /\ Covers(token, x)' <=> Covers(token, x)
                             /\ \A q \in Passes : Covers(next[q], x)' <=> Covers(next[q], x)
    BY <1>0 DEF Settled, Wanted, Covers, TypeOK
  <1>5. TokenHonest'
    <2>. SUFFICES ASSUME NEW x \in Uids, Covers(token, x)' PROVE Settled(x)'
      BY DEF TokenHonest
    <2>1. x # u
      BY <1>3
    <2>2. ver'[x] = ver[x] /\ (x \in live' <=> x \in live)
      BY <1>0, <2>1 DEF TypeOK
    <2>. QED  BY <1>0, <2>2 DEF TokenHonest, Covers, Settled, Wanted
  <1>6. PassInv'
    <2>1. \A x \in Uids : ver[x] <= ver'[x]
      BY <1>0 DEF TypeOK, ClockInv, Versions
    <2>2. \A q \in Passes, x \in Uids : batch[q][x] # 0 => batch[q][x] <= ver'[x]
      BY <1>0, <2>1 DEF PassInv, TypeOK, Versions
    <2>3. \A q \in Passes : next'[q] # NoToken =>
            next'[q] <= now' /\ (token' # NoToken => token' <= next'[q])
      BY <1>0 DEF PassInv, Applying, Delta, TypeOK, Versions
    <2>4. \A q \in Passes, x \in Uids :
            /\ batch[q][x] # 0 /\ Final(q, x)' => batch[q][x] = Wanted(x)'
            /\ Delta(q)' /\ x \in gone[q] /\ Final(q, x)' => x \notin live'
            /\ Covers(next[q], x)' => batch[q][x] # 0 \/ x \in gone[q] \/ Settled(x)'
      BY <1>0, <1>3, <1>4 DEF PassInv, Delta, Final, Covers, Settled, Wanted
    <2>. QED  BY <1>0, <2>2, <2>3, <2>4 DEF PassInv, Applying, Delta
  <1>. QED  BY <1>1, <1>2, <1>5, <1>6

LEMMA ExpireKept == ASSUME IInv, Expire PROVE IInv'
  <1>1. faults' \in 0 .. MaxFaults
    BY FaultsType DEF Expire, Kinds, IInv
  <1>. QED  BY <1>1 DEF Expire, IInv, TypeOK, ClockInv, PassInv, TokenHonest, locals,
                       flags, Applying, Delta, Final, Covers, Settled, Wanted, Versions

\* What the new destination lacks, the token has given up.
LEMMA RepointKept == ASSUME IInv, Repoint PROVE IInv'
  <1>. USE DEF IInv, source, locals
  <1>0. faults' \in 0 .. MaxFaults
    BY FaultsType DEF Repoint, Kinds
  <1>1. /\ dest' = Empty /\ dropped' = live /\ stray' = {p \in Passes : pc[p] # "idle"}
        /\ UNCHANGED <<source, token, pc, locals, cancelled>>
    BY DEF Repoint
  <1>2. TypeOK'
    <2>1. dest' \in [Uids -> Versions]
      BY <1>1, DeltaSyncAssumption DEF Empty, Versions
    <2>. QED  BY <1>0, <1>1, <2>1 DEF TypeOK
  <1>3. \A u \in Uids : Settled(u)' /\ dest'[u] = 0
    BY <1>1 DEF Settled, Wanted, Empty
  <1>4. ClockInv' /\ TokenHonest'
    BY <1>1, <1>3 DEF ClockInv, TokenHonest, TypeOK, Versions
  <1>5. PassInv'
    BY <1>1, <1>3 DEF PassInv, Applying, Delta, Final, Covers, Wanted, TypeOK, Versions
  <1>. QED  BY <1>2, <1>4, <1>5

LEMMA NextKept == ASSUME IInv, [Next]_vars PROVE IInv'
  <1>1. ASSUME NEW p \in Passes, Step(p) \/ Cancel(p) \/ Crash(p) PROVE IInv'
    BY <1>1, BeginKept, ProbeKept, ReportKept, ListKept, FinishKept, PutKept,
       DeleteKept, CancelKept, CrashKept DEF Step
  <1>2. CASE (\E u \in Uids : Change(u)) \/ Expire \/ Repoint
    BY <1>2, ChangeKept, ExpireKept, RepointKept
  <1>3. CASE UNCHANGED vars
    BY <1>3 DEF vars, source, locals, flags, IInv, TypeOK, ClockInv, PassInv,
                TokenHonest, Applying, Delta, Final, Covers, Settled, Wanted
  <1>. QED  BY <1>1, <1>2, <1>3 DEF Next

\* The inductive invariant: whatever a pass has asked for is in its batch,
\* settled, or changed again since, and nothing else is in flight.
THEOREM Invariance == Spec => []IInv
  <1>. QED  BY InitIInv, NextKept, PTL DEF Spec

\* Every variable keeps its type.
THEOREM TypeCorrect == Spec => []TypeOK
  <1>1. IInv => TypeOK
    BY DEF IInv
  <1>. QED  BY <1>1, Invariance, PTL

\* What the stored token covers is on the destination, or was given up, for
\* any number of events, changes, failures and restarts.
THEOREM TokenHonoured == Spec => []TokenHonest
  <1>1. IInv => TokenHonest
    BY DEF IInv
  <1>. QED  BY <1>1, Invariance, PTL

\* A step never puts an older version over a newer one, nor takes the token
\* back.
LEMMA StepForward ==
    ASSUME IInv, IInv', [Next]_vars
    PROVE  /\ \A u \in Uids : dest'[u] # 0 => dest'[u] >= dest[u]
           /\ token # NoToken /\ token' # NoToken => token' >= token
  <1>. USE DEF IInv
  <1>0. /\ dest \in [Uids -> Nat]
        /\ token # NoToken => token \in Nat
    BY DEF TypeOK, Versions
  <1>1. CASE UNCHANGED <<dest, token>>
    BY <1>0, <1>1
  <1>2. ASSUME NEW p \in Passes, NEW u \in Uids, Put(p, u) \/ Delete(p, u)
        PROVE  /\ \A x \in Uids : dest'[x] # 0 => dest'[x] >= dest[x]
               /\ UNCHANGED token
    <2>1. CASE UNCHANGED dest
      BY <1>0, <1>2, <2>1 DEF Put, Delete
    <2>2. CASE Put(p, u) /\ dest' = [dest EXCEPT ![u] = batch[p][u]]
      BY <1>0, <2>2 DEF Put, PassInv
    <2>3. CASE Delete(p, u) /\ dest' = [dest EXCEPT ![u] = 0]
      BY <1>0, <2>3 DEF Delete
    <2>. QED  BY <1>2, <2>1, <2>2, <2>3 DEF Put, Delete, Arrive, Remove, GiveUp
  <1>3. ASSUME NEW p \in Passes, Finish(p)
        PROVE  UNCHANGED dest /\ (token # NoToken /\ token' # NoToken => token' >= token)
    <2>1. CASE token' = token
      BY <1>0, <1>3, <2>1 DEF Finish
    <2>2. CASE Delta(p) /\ token' = next[p]
      BY <1>0, <1>3, <2>2 DEF Finish, Applied, PassInv, Applying, Delta, TypeOK, Versions
    <2>. QED  BY <1>3, <2>1, <2>2 DEF Finish
  <1>4. CASE Repoint
    BY <1>0, <1>4 DEF Repoint, Empty
  <1>5. ASSUME NEW p \in Passes,
               \/ Begin(p) \/ Probe(p) \/ Report(p) \/ List(p) \/ Cancel(p) \/ Crash(p)
        PROVE  UNCHANGED <<dest, token>>
    BY <1>5 DEF Begin, Probe, Report, List, Cancel, Crash
  <1>6. CASE (\E u \in Uids : Change(u)) \/ Expire \/ UNCHANGED vars
    BY <1>1, <1>6 DEF Change, Expire, vars
  <1>. QED  BY <1>0, <1>1, <1>2, <1>3, <1>4, <1>5, <1>6 DEF Next, Step

\* Neither an event nor the token ever goes back to an older version.
THEOREM NeverBack == Spec => NoRegress
  <1>1. IInv /\ IInv' /\ [Next]_vars =>
          [/\ \A u \in Uids : dest'[u] # 0 => dest'[u] >= dest[u]
           /\ token # NoToken /\ token' # NoToken => token' >= token]_vars
    BY StepForward
  <1>. QED  BY <1>1, Invariance, PTL DEF Spec, NoRegress
=============================================================================
