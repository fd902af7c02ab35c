-------------------------- MODULE VoucherCacheProofs --------------------------
(***************************************************************************)
(* Proofs about VoucherCache, for any runs, vouchers, builds and page size: *)
(* whom another build's rows can reach, and that what is served as fresh   *)
(* is complete but for the run whose own listing shifted.                  *)
(***************************************************************************)
EXTENDS VoucherCache, FiniteSetTheorems, TLAPS

WrittenBy(f, version) == \A v \in Vouchers : f[v] \in {0, version}

\* Every row in the cache, and every voucher a run holds, has the one version
\* that the run relies on at that point, but for what is mixed or torn.
OneVersion ==
  /\ ~mixed => WrittenBy(cached, sync.version)
  /\ \A r \in Requests :
       pc[r] \in {"fetch", "verify", "save", "commit"} => WrittenBy(ver[r], build[r])
  /\ \A r \in Requests \ torn :
       /\ pc[r] = "sync" => WrittenBy(ver[r], sync.version)
       /\ pc[r] = "count" => WrittenBy(ver[r], syncGot[r].version)
       /\ pc[r] \in {"fresh", "unverified"} => WrittenBy(ver[r], build[r])

\* The first n vouchers of a listing of P.
First(P, n) == {v \in P : Cardinality({u \in P : u <= v}) <= n}

\* What is held was posted; a count of the table is of what it holds, each
\* voucher once; and of a run whose listing has not shifted: after k pages it
\* holds the vouchers of these pages, each once, and what it verified, or is
\* about to serve as fresh, is what was last counted.
WholeRun(r) ==
  /\ Held(ver[r]) \subseteq posted
  /\ pc[r] # "fetch" => page[r] = 1
  /\ pc[r] \in {"sync", "count"} => len[r] = Cardinality(Held(ver[r]))
  /\ pc[r] = "fetch" => page[r] # 0 /\ (page[r] - 1) * PageSize <= Total
  /\ r \notin shifted =>
       /\ pc[r] \in {"fetch", "verify"} => len[r] = Cardinality(Held(ver[r]))
       /\ pc[r] = "fetch" => Held(ver[r]) = First(posted, (page[r] - 1) * PageSize)
       /\ pc[r] \in {"save", "commit", "fresh"} =>
            Held(ver[r]) = counted[r] /\ len[r] = Cardinality(counted[r])

WholePages ==
  /\ Held(cached) \subseteq posted
  /\ \A r \in Requests : WholeRun(r)

\* A count of vouchers is a natural number.
LEMMA Counts ==
  ASSUME NEW S \in SUBSET Vouchers
  PROVE  Cardinality(S) \in Nat
BY VouchersAssumption, FS_Subset, FS_CardinalityType

\* An empty cache, nobody reading it: well typed.
LEMMA InitTypeOK == Init => TypeOK
<1> SUFFICES ASSUME Init PROVE TypeOK
  OBVIOUS
<1>1. mixed \in BOOLEAN /\ torn \subseteq Requests /\ shifted \subseteq Requests /\ merging \in [Requests -> BOOLEAN]
  BY DEF Init
<1>2. /\ pc \in [Requests -> Returned \cup Working]
      /\ build \in [Requests -> Versions]
      /\ \A r \in Requests : pc[r] \in Working => build[r] \in Builds
  BY DEF Init, Returned, Working, Versions
<1>3. NoSync \in [version : Versions, total : Nat, aged : BOOLEAN]
  BY DEF NoSync, Versions
<1>4. Nothing \in [Vouchers -> Versions]
  BY DEF Nothing, Versions
<1>5. QED
  BY <1>1, <1>2, <1>3, <1>4 DEF Init, TypeOK

\* Every step of a run, of Fortnox and of the clock keeps the types.
LEMMA NextTypeOK == TypeOK /\ [Next]_vars => TypeOK'
<1> SUFFICES ASSUME TypeOK, [Next]_vars
             PROVE  TypeOK'
  OBVIOUS
<1>0. 0 \in Versions /\ Builds \subseteq Versions
  BY DEF Versions
<1> USE <1>0 DEF TypeOK, Returned, Working, tables, runVars, Go, Hold, Drop, Unshifted, Nothing,
        NoSync
<1>1. ASSUME NEW r \in Requests, LoadRows(r)
      PROVE  TypeOK'
  <2>1. Cardinality(Held(cached)) \in Nat
    BY Counts DEF Held
  <2>2. torn' \subseteq Requests /\ shifted' \subseteq Requests
    BY <1>1 DEF LoadRows
  <2>3. PICK b \in Builds : build' = [build EXCEPT ![r] = b]
    BY <1>1 DEF LoadRows
  <2>4. QED
    BY <1>1, <2>1, <2>2, <2>3 DEF LoadRows
<1>2. ASSUME NEW r \in Requests, LoadSync(r)
      PROVE  TypeOK'
  BY <1>2 DEF LoadSync
<1>3. ASSUME NEW r \in Requests, Count(r)
      PROVE  TypeOK'
  <2>1. counted' = [counted EXCEPT ![r] = posted]
    BY <1>3 DEF Count
  <2>2. CASE Go(r, "fresh") /\ UNCHANGED <<ver, len, page, torn, shifted>>
    BY <1>3, <2>1, <2>2 DEF Count, Assessed
  <2>3. CASE Refetch(r)
    BY <1>3, <2>1, <2>3 DEF Count, Assessed, Refetch
  <2>4. QED
    BY <1>3, <2>2, <2>3 DEF Count
<1>4. ASSUME NEW r \in Requests, CountFails(r)
      PROVE  TypeOK'
  <2>1. \E to \in {"error", "unverified", "fetch"} : pc' = [pc EXCEPT ![r] = to]
    BY <1>4 DEF CountFails, Refetch
  <2>2. Hold(r, [v \in Vouchers |-> 0], 0) \/ UNCHANGED <<ver, len>>
    BY <1>4 DEF CountFails, Refetch
  <2>3. UNCHANGED <<posted, tables, page, merging, counted, build, mixed>>
        /\ torn' \subseteq Requests /\ shifted' \subseteq Requests
    BY <1>4 DEF CountFails, Assessed, Refetch
  <2>4. syncGot' = [syncGot EXCEPT ![r] = NoSync]
    BY <1>4 DEF CountFails, Assessed
  <2>5. /\ pc' \in [Requests -> Returned \cup Working]
        /\ \A q \in Requests : pc'[q] \in Working => build'[q] \in Builds
    BY <1>4, <2>1, <2>3 DEF CountFails
  <2>6. ver' \in [Requests -> [Vouchers -> Versions]] /\ len' \in [Requests -> Nat]
    <3>1. CASE UNCHANGED <<ver, len>>
      BY <3>1
    <3>2. CASE Hold(r, [v \in Vouchers |-> 0], 0)
      <4> DEFINE None == [v \in Vouchers |-> 0]
      <4>1. None \in [Vouchers -> Versions]
        OBVIOUS
      <4>2. ver' = [ver EXCEPT ![r] = None] /\ len' = [len EXCEPT ![r] = 0]
        BY <3>2
      <4> HIDE DEF None
      <4>3. QED
        BY <4>1, <4>2
    <3>3. QED
      BY <2>2, <3>1, <3>2
  <2>7. QED
    BY <2>3, <2>4, <2>5, <2>6
<1>5. ASSUME NEW r \in Requests, FetchPage(r)
      PROVE  TypeOK'
  <2>1. Cardinality(OnPage(page[r])) \in Nat
    BY Counts DEF OnPage
  <2>2. ver' \in [Requests -> [Vouchers -> Versions]]
        /\ len' \in [Requests -> Nat]
    BY <1>5, <2>1 DEF FetchPage
  <2>3. page' \in [Requests -> Nat]
    <3>1. page' = [page EXCEPT ![r] = 1] \/ page' = [page EXCEPT ![r] = @ + 1]
      BY <1>5 DEF FetchPage
    <3>2. PICK n \in Nat : page' = [page EXCEPT ![r] = n]
      BY <3>1
    <3>3. QED
      BY <3>2
  <2>4. pc' \in [Requests -> Returned \cup Working]
    <3>1. pc' = [pc EXCEPT ![r] = "verify"] \/ pc' = [pc EXCEPT ![r] = "fetch"]
      BY <1>5 DEF FetchPage
    <3>2. QED
      BY <3>1
  <2>5. QED
    BY <1>5, <2>2, <2>3, <2>4 DEF FetchPage
<1>6. ASSUME NEW r \in Requests, Verify(r)
      PROVE  TypeOK'
  BY <1>6 DEF Verify
<1>7. ASSUME NEW r \in Requests, DeleteYear(r) \/ Fail(r)
      PROVE  TypeOK'
  <2>1. CASE DeleteYear(r)
    BY <2>1 DEF DeleteYear
  <2>2. CASE Fail(r)
    BY <2>2 DEF Fail
  <2>3. QED
    BY <1>7, <2>1, <2>2
<1>8. ASSUME NEW r \in Requests, Commit(r)
      PROVE  TypeOK'
  <2>1. cached' \in [Vouchers -> Versions]
    BY <1>8 DEF Commit
  <2>2. merging' \in [Requests -> BOOLEAN] /\ mixed' \in BOOLEAN
    BY <1>8, Zenon DEF Commit
  <2>3. torn' \subseteq Requests
    BY <1>8 DEF Commit
  <2>4. QED
    BY <1>8, <2>1, <2>2, <2>3 DEF Commit
<1>9. CASE Post \/ Age
  <2>1. CASE Post
    BY <2>1 DEF Post
  <2>2. CASE Age
    <3>1. sync # NoSync /\ sync' = [sync EXCEPT !.aged = TRUE]
      BY <2>2 DEF Age
    <3>q. QED BY <2>2, <3>1 DEF Age
  <2>3. QED
    BY <1>9, <2>1, <2>2
<1>10. CASE UNCHANGED vars
  BY <1>10 DEF vars
<1>11. QED
  BY <1>1, <1>2, <1>3, <1>4, <1>5, <1>6, <1>7, <1>8, <1>9, <1>10 DEF Next

\* Rows travel from the table through a run and back with their version.
LEMMA OneVersionNext ==
  ASSUME TypeOK, OneVersion, [Next]_vars
  PROVE  OneVersion'
<1> USE DEF TypeOK, OneVersion, WrittenBy, Returned, Working, Go, Hold, Drop,
        Nothing, tables, runVars
<1>1. ASSUME NEW r \in Requests, LoadRows(r)
      PROVE  OneVersion'
  BY <1>1 DEF LoadRows
<1>2. ASSUME NEW r \in Requests, LoadSync(r)
      PROVE  OneVersion'
  BY <1>2 DEF LoadSync
<1>3. ASSUME NEW r \in Requests, Refetch(r), Assessed(r)
      PROVE  OneVersion'
  <2>1. /\ pc' = [pc EXCEPT ![r] = "fetch"]
        /\ ver' = [ver EXCEPT ![r] = Nothing] /\ WrittenBy(Nothing, build[r])
        /\ torn' = torn \ {r} /\ syncGot' = [syncGot EXCEPT ![r] = NoSync]
        /\ UNCHANGED <<cached, sync, build, mixed>>
    BY <1>3 DEF Refetch, Assessed
  <2> QED
    BY <2>1
<1>4. ASSUME NEW r \in Requests, Count(r) \/ CountFails(r)
      PROVE  OneVersion'
  <2>1. pc[r] = "count" /\ Assessed(r)
    BY <1>4 DEF Count, CountFails
  <2>2. /\ syncGot' = [syncGot EXCEPT ![r] = NoSync]
        /\ UNCHANGED <<cached, sync, build, mixed>>
    BY <2>1 DEF Assessed
  <2>3. CASE /\ Trusted(r)
             /\ Go(r, "fresh") \/ Go(r, "unverified")
             /\ UNCHANGED <<ver, len, page, torn, shifted>>
    <3>1. r \notin torn => WrittenBy(ver[r], build[r])
      BY <2>1, <2>3 DEF Trusted
    <3>2. \A q \in Requests : q # r => pc'[q] = pc[q] /\ syncGot'[q] = syncGot[q]
      BY <2>2, <2>3
    <3>3. pc'[r] \in {"fresh", "unverified"}
      BY <2>3
    <3> QED
      BY <2>2, <2>3, <3>1, <3>2, <3>3
  <2>4. CASE Refetch(r)
    BY <1>3, <2>1, <2>4
  <2>5. CASE Go(r, "error") /\ Drop(r)
    BY <2>2, <2>5
  <2> QED
    BY <1>4, <2>3, <2>4, <2>5 DEF Count, CountFails
<1>5. ASSUME NEW r \in Requests, FetchPage(r)
      PROVE  OneVersion'
  BY <1>5 DEF FetchPage
<1>6. ASSUME NEW r \in Requests, Verify(r) \/ DeleteYear(r) \/ Fail(r)
      PROVE  OneVersion'
  <2>1. CASE Verify(r)
    <3>1. /\ pc[r] = "verify"
          /\ \E to \in {"save", "unverified"} : pc' = [pc EXCEPT ![r] = to]
          /\ UNCHANGED <<cached, sync, ver, syncGot, build, mixed, torn>>
      BY <2>1 DEF Verify
    <3>2. WrittenBy(ver[r], build[r])
      BY <3>1
    <3> QED
      BY <3>1, <3>2
  <2>2. CASE DeleteYear(r)
    BY <2>2 DEF DeleteYear
  <2>3. CASE Fail(r)
    BY <2>3 DEF Fail
  <2>4. QED
    BY <1>6, <2>1, <2>2, <2>3
<1>7. ASSUME NEW r \in Requests, Commit(r)
      PROVE  OneVersion'
  <2>1. pc[r] = "commit" /\ WrittenBy(ver[r], build[r])
        /\ UNCHANGED <<ver, build, syncGot>>
    BY <1>7 DEF Commit
  <2>2. sync'.version = build[r] /\ (~mixed' => WrittenBy(cached', build[r]))
    BY <1>7, <2>1 DEF Commit
  <2>3. ASSUME NEW q \in Requests, q \notin torn', pc'[q] = "sync"
        PROVE  q \notin torn /\ pc[q] = "sync" /\ sync.version = build[r]
    BY <1>7, <2>3 DEF Commit
  <2>4. /\ pc' = [pc EXCEPT ![r] = "fresh"]
        /\ torn \subseteq torn'
    BY <1>7 DEF Commit
  <2> QED
    BY <2>1, <2>2, <2>3, <2>4
<1>8. CASE Post
  BY <1>8 DEF Post
<1>9. CASE Age
  BY <1>9 DEF Age
<1>10. CASE UNCHANGED vars
  BY <1>10 DEF vars
<1>11. QED
  BY <1>1, <1>2, <1>3, <1>4, <1>5, <1>6, <1>7, <1>8, <1>9, <1>10 DEF Next

\* "Were these rows produced by the logic this binary uses?" They were, across
\* any number of upgrades and of runs at once, but for a run that read a year
\* which two builds had saved together, or which one saved between its queries.
THEOREM OnlyOwnRows == Spec => []ServedByThisBuild
<1>1. Init => OneVersion
  BY DEF Init, OneVersion, WrittenBy, Nothing
<1>2. TypeOK /\ OneVersion /\ [Next]_vars => OneVersion'
  BY OneVersionNext
<1>3. OneVersion => ServedByThisBuild
  BY DEF OneVersion, ServedByThisBuild, WrittenBy, Held
<1>4. QED
  BY <1>1, <1>2, <1>3, InitTypeOK, NextTypeOK, PTL DEF Spec

\* Every variable keeps its type, for any vouchers, builds and page size.
THEOREM TypeCorrect == Spec => []TypeOK
BY InitTypeOK, NextTypeOK, PTL DEF Spec
-----------------------------------------------------------------------------
\* An empty year, nobody reading it.
LEMMA WholePagesInit == Init => WholePages
<1> SUFFICES ASSUME Init PROVE WholePages
  OBVIOUS
<1>1. Held(cached) = {} /\ \A r \in Requests : Held(ver[r]) = {}
  BY DEF Init, Held, Nothing
<1>2. QED
  BY <1>1, FS_EmptySet DEF Init, WholeRun, WholePages

\* A voucher has a place from the first on, and the last is the total.
LEMMA Places ==
  ASSUME posted \subseteq Vouchers, NEW v \in posted
  PROVE  Place(v) \in Nat /\ 1 <= Place(v) /\ Place(v) <= Total
<1> DEFINE Before == {u \in posted : u <= v}
<1>1. IsFiniteSet(posted) /\ Before \subseteq posted
  BY VouchersAssumption, FS_Subset
<1>2. IsFiniteSet(Before) /\ Cardinality(Before) \in Nat /\ Total \in Nat
      /\ Cardinality(Before) <= Total
  BY <1>1, FS_Subset, FS_CardinalityType DEF Total
<1>3. v \in Before
  BY VouchersAssumption
<1>4. Cardinality(Before) # 0
  BY <1>2, <1>3, FS_EmptySet
<1>5. QED
  BY <1>2, <1>4 DEF Place

\* A page that is not the last one ends before the listing does; the vouchers
\* up to the end of a page are those before it and those on it.
LEMMA PageAppended ==
  ASSUME posted \subseteq Vouchers, NEW k \in Nat \ {0}
  PROVE  /\ First(posted, (k - 1) * PageSize) \cap OnPage(k) = {}
         /\ First(posted, k * PageSize) = First(posted, (k - 1) * PageSize) \cup OnPage(k)
<1>1. (k - 1) * PageSize \in Nat /\ k * PageSize \in Nat
      /\ (k - 1) * PageSize <= k * PageSize
  BY PageAssumption
<1>2. \A v \in posted : Place(v) \in Nat
  BY Places
<1>3. QED
  BY <1>1, <1>2 DEF First, OnPage, Place

\* Sets of vouchers without a common one are counted one after the other.
LEMMA Apart ==
  ASSUME NEW S \in SUBSET Vouchers, NEW T \in SUBSET Vouchers, S \cap T = {}
  PROVE  Cardinality(S \cup T) = Cardinality(S) + Cardinality(T)
<1>1. IsFiniteSet(S) /\ IsFiniteSet(T)
  BY VouchersAssumption, FS_Subset
<1>2. Cardinality(S \cap T) = 0
  BY FS_EmptySet
<1>3. Cardinality(S) \in Nat /\ Cardinality(T) \in Nat
  BY Counts
<1>4. Cardinality(S \cup T) = Cardinality(S) + Cardinality(T) - Cardinality(S \cap T)
  BY <1>1, FS_Union
<1>5. QED
  BY <1>2, <1>3, <1>4

\* Vouchers that are as many as were posted, and were posted, are all of them.
LEMMA AsManyAsPosted ==
  ASSUME posted \subseteq Vouchers, NEW S \in SUBSET posted, Cardinality(S) = Total
  PROVE  S = posted
BY VouchersAssumption, FS_Subset DEF Total

\* Fortnox listed one voucher more.
Joins(v) == v \in Vouchers \ posted /\ posted' = posted \cup {v}

\* The listing is one longer then.
LEMMA OneMore ==
  ASSUME posted \subseteq Vouchers, NEW v, Joins(v)
  PROVE  Total \in Nat /\ Total' = Total + 1
<1>1. IsFiniteSet(posted) /\ Total \in Nat
  BY VouchersAssumption, FS_Subset, FS_CardinalityType DEF Total
<1>2. QED
  BY <1>1, FS_AddElement DEF Total, Joins

\* It has the place after those listed before it.
LEMMA ItsPlace ==
  ASSUME posted \subseteq Vouchers, NEW v, Joins(v)
  PROVE  Place(v) \in Nat /\ Cardinality({w \in posted' : w <= v}) = Place(v) + 1
<1> DEFINE Before == {w \in posted : w <= v}
<1>1. IsFiniteSet(Before) /\ v \notin Before
  BY VouchersAssumption, FS_Subset DEF Joins
<1>2. {w \in posted' : w <= v} = Before \cup {v}
  BY VouchersAssumption DEF Joins
<1>3. QED
  BY <1>1, <1>2, FS_AddElement, FS_CardinalityType DEF Place

\* A voucher listed before it keeps its place; one listed after it has a place
\* after its, and moves no closer.
LEMMA OthersPlace ==
  ASSUME posted \subseteq Vouchers, NEW v, Joins(v), NEW u \in posted
  PROVE  /\ Place(u) \in Nat /\ Cardinality({w \in posted' : w <= u}) \in Nat
         /\ u < v => Cardinality({w \in posted' : w <= u}) = Place(u)
         /\ ~(u < v) => /\ Place(v) + 1 <= Place(u)
                        /\ Place(u) <= Cardinality({w \in posted' : w <= u})
<1> DEFINE Upto == {w \in posted : w <= u}
           Now == {w \in posted' : w <= u}
           Before == {w \in posted : w <= v}
<1>1. u \in Nat /\ v \in Nat /\ u # v /\ posted \subseteq Nat
  BY VouchersAssumption DEF Joins
<1>2. IsFiniteSet(Upto) /\ IsFiniteSet(Now) /\ IsFiniteSet(Before)
  BY VouchersAssumption, FS_Subset DEF Joins
<1>3. Cardinality(Upto) \in Nat /\ Cardinality(Now) \in Nat
  BY <1>2, FS_CardinalityType
<1>4. ASSUME u < v PROVE Now = Upto
  BY <1>1, <1>4 DEF Joins
<1>5. Cardinality(Upto) <= Cardinality(Now)
  <2>1. Upto \subseteq Now
    BY DEF Joins
  <2>2. QED
    BY <1>2, <2>1, FS_Subset
<1>6. ASSUME ~(u < v) PROVE Cardinality(Before) + 1 <= Cardinality(Upto)
  <2>1. u \notin Before /\ Before \cup {u} \subseteq Upto
    <3>1. v < u
      BY <1>1, <1>6
    <3>2. \A w \in posted : w <= v => w <= u
      BY <1>1, <3>1
    <3>3. ~(u <= v) /\ u <= u
      BY <1>1, <3>1
    <3>4. QED
      BY <3>2, <3>3
  <2>2. Cardinality(Before \cup {u}) = Cardinality(Before) + 1
    BY <1>2, <2>1, FS_AddElement
  <2>3. QED
    BY <1>2, <2>1, <2>2, FS_Subset
<1>7. QED
  BY <1>3, <1>4, <1>5, <1>6 DEF Place

\* Where it is listed after the first n, these stay the first n.
LEMMA ListedAfter ==
  ASSUME posted \subseteq Vouchers, NEW v, Joins(v), NEW n \in Nat, ~(Place(v) < n)
  PROVE  First(posted', n) = First(posted, n)
<1> DEFINE Now(u) == Cardinality({w \in posted' : w <= u})
<1>1. Place(v) \in Nat /\ n <= Place(v) /\ Now(v) = Place(v) + 1
  BY ItsPlace
<1>2. ~(Now(v) <= n)
  BY <1>1
<1>3. ASSUME NEW u \in posted
      PROVE  Now(u) <= n <=> Place(u) <= n
  <2>1. /\ Place(u) \in Nat /\ Now(u) \in Nat
        /\ u < v => Now(u) = Place(u)
        /\ ~(u < v) => Place(v) + 1 <= Place(u) /\ Place(u) <= Now(u)
    BY OthersPlace
  <2> HIDE DEF Now
  <2>2. QED
    BY <1>1, <2>1
<1>4. First(posted', n) = {u \in posted' : Now(u) <= n}
      /\ First(posted, n) = {u \in posted : Place(u) <= n}
  BY DEF First, Place
<1>5. posted' = posted \cup {v}
  BY DEF Joins
<1> HIDE DEF Now
<1>6. QED
  BY <1>2, <1>3, <1>4, <1>5

\* Each step of a run and of Fortnox keeps pages whole, however runs overlap.
LEMMA WholePagesNext ==
  ASSUME TypeOK, TypeOK', WholePages, [Next]_vars
  PROVE  WholePages'
<1> USE DEF TypeOK, Returned, Working, Go, Drop, Unshifted, tables, runVars
<1>0. posted \subseteq Vouchers /\ \A b \in Builds : b \in Nat /\ b > 0
  BY BuildsAssumption
<1>1. ASSUME NEW r \in Requests, LoadRows(r)
      PROVE  WholePages'
  <2>1. /\ ver' = [ver EXCEPT ![r] = cached]
        /\ len' = [len EXCEPT ![r] = Cardinality(Held(cached))]
        /\ pc' = [pc EXCEPT ![r] = "sync"]
        /\ pc[r] # "fetch"
        /\ counted' = [counted EXCEPT ![r] = {}]
        /\ UNCHANGED <<posted, cached, page>>
    BY <1>1 DEF LoadRows, Hold
  <2>2. /\ ver'[r] = cached /\ len'[r] = Cardinality(Held(cached))
        /\ pc'[r] = "sync" /\ page'[r] = 1
    BY <2>1 DEF WholeRun, WholePages
  <2>3. WholeRun(r)'
    BY <2>1, <2>2 DEF WholeRun, WholePages
  <2>4. ASSUME NEW q \in Requests, q # r
        PROVE  WholeRun(q)'
    <3>1. /\ ver'[q] = ver[q] /\ len'[q] = len[q] /\ pc'[q] = pc[q]
          /\ counted'[q] = counted[q] /\ page'[q] = page[q]
          /\ q \in shifted' <=> q \in shifted
      BY <1>1, <2>1, <2>4 DEF LoadRows
    <3>2. QED
      BY <2>1, <3>1 DEF WholeRun, WholePages, Total
  <2>5. QED
    BY <2>1, <2>3, <2>4 DEF WholePages
<1>2. ASSUME NEW r \in Requests, LoadSync(r)
      PROVE  WholePages'
  BY <1>2 DEF LoadSync, WholeRun, WholePages, Total
<1>3. ASSUME NEW r \in Requests, Refetch(r), pc[r] = "count",
             UNCHANGED <<posted, cached>>,
             \A q \in Requests : q # r => counted'[q] = counted[q]
      PROVE  WholePages'
  <2>1. /\ ver' = [ver EXCEPT ![r] = Nothing]
        /\ len' = [len EXCEPT ![r] = 0]
        /\ pc' = [pc EXCEPT ![r] = "fetch"]
        /\ UNCHANGED page
    BY <1>3 DEF Refetch, Hold
  <2>2. Held(Nothing) = {} /\ Cardinality({}) = 0 /\ Nothing \in [Vouchers -> Versions]
    BY FS_EmptySet DEF Held, Nothing, Versions
  <2>3. page[r] = 1 /\ (page[r] - 1) * PageSize = 0 /\ 0 <= Total
    BY <1>3, PageAssumption, Counts DEF WholeRun, WholePages, Total
  <2>4. First(posted, 0) = {}
    <3>1. \A v \in posted : Place(v) \in Nat /\ 1 <= Place(v)
      BY <1>0, Places
    <3>2. \A v \in posted : ~(Place(v) <= 0)
      BY <3>1
    <3>3. QED
      BY <3>2 DEF First, Place
  <2>5. /\ Held(ver'[r]) = {} /\ len'[r] = 0 /\ pc'[r] = "fetch" /\ page'[r] = 1
        /\ Held(ver'[r]) = First(posted, (page'[r] - 1) * PageSize)
        /\ (page'[r] - 1) * PageSize <= Total
    BY <2>1, <2>2, <2>3, <2>4
  <2>6. ASSUME NEW q \in Requests, q # r
        PROVE  /\ ver'[q] = ver[q] /\ len'[q] = len[q] /\ pc'[q] = pc[q]
               /\ page'[q] = page[q] /\ counted'[q] = counted[q]
               /\ q \in shifted' <=> q \in shifted
    BY <1>3, <2>1, <2>6 DEF Refetch
  <2>7. QED
    <3>1. Cardinality({}) = 0
      BY <2>2
    <3>2. {} \subseteq posted' /\ Total' = Total
      BY <1>3 DEF Total
    <3>3. WholeRun(r)'
      BY <1>3, <2>5, <3>1, <3>2 DEF WholeRun
    <3>4. \A q \in Requests : q # r => WholeRun(q)'
      BY <1>3, <2>6, <3>2 DEF WholeRun, WholePages
    <3>5. QED
      BY <1>3, <3>3, <3>4 DEF WholePages
<1>4. ASSUME NEW r \in Requests, Count(r)
      PROVE  WholePages'
  <2>1. CASE Refetch(r)
    BY <1>3, <1>4, <2>1 DEF Count, Assessed
  <2>2. CASE Total = len[r] /\ Go(r, "fresh") /\ UNCHANGED <<ver, len, page, torn, shifted>>
    <3>1. Held(ver[r]) = posted
      BY <1>0, <1>4, <2>2, AsManyAsPosted DEF Count, WholeRun, WholePages
    <3>2. /\ counted' = [counted EXCEPT ![r] = posted]
          /\ UNCHANGED <<posted, cached>>
      BY <1>4 DEF Count, Assessed
    <3>3. /\ pc'[r] = "fresh" /\ counted'[r] = posted /\ len'[r] = Cardinality(posted)
          /\ Held(ver'[r]) = posted /\ page'[r] = 1
      BY <1>4, <2>2, <3>1, <3>2 DEF Count, WholeRun, WholePages, Total
    <3>4. QED
      BY <1>4, <2>2, <3>2, <3>3 DEF WholeRun, WholePages, Total
  <2>3. QED
    BY <1>4, <2>1, <2>2 DEF Count
<1>5. ASSUME NEW r \in Requests, CountFails(r)
      PROVE  WholePages'
  <2>1. /\ pc[r] = "count"
        /\ UNCHANGED <<posted, cached, counted>>
    BY <1>5 DEF CountFails, Assessed
  <2>2. CASE Refetch(r)
    BY <1>3, <2>1, <2>2
  <2>3. CASE Go(r, "error") /\ Drop(r) /\ UNCHANGED page
    <3>1. Held(Nothing) = {}
      BY DEF Held, Nothing
    <3>2. QED
      BY <2>1, <2>3, <3>1 DEF WholeRun, WholePages, Total, Hold
  <2>4. CASE Go(r, "unverified") /\ UNCHANGED <<ver, len, page, torn, shifted>>
    BY <2>1, <2>4 DEF WholeRun, WholePages, Total
  <2>5. QED
    BY <1>5, <2>2, <2>3, <2>4 DEF CountFails
<1>6. ASSUME NEW r \in Requests, FetchPage(r)
      PROVE  WholePages'
  <2> DEFINE k == page[r]
             f == [v \in Vouchers |-> IF v \in OnPage(k) THEN build[r] ELSE ver[r][v]]
  <2>1. /\ pc[r] = "fetch" /\ k \in Nat \ {0} /\ build[r] \in Builds
        /\ Held(ver[r]) \subseteq posted
        /\ r \notin shifted => /\ Held(ver[r]) = First(posted, (k - 1) * PageSize)
                              /\ len[r] = Cardinality(Held(ver[r]))
    BY <1>6 DEF FetchPage, WholeRun, WholePages
  <2>2. Held(f) = Held(ver[r]) \cup OnPage(k) /\ Held(f) \subseteq posted
    BY <1>0, <2>1 DEF Held, OnPage
  <2>3. r \notin shifted => Held(f) = First(posted, k * PageSize)
    BY <1>0, <2>1, <2>2, PageAppended
  <2>4. r \notin shifted => Cardinality(Held(f)) = len[r] + Cardinality(OnPage(k))
    <3>1. SUFFICES ASSUME r \notin shifted
                   PROVE  Cardinality(Held(f)) = len[r] + Cardinality(OnPage(k))
      OBVIOUS
    <3>2. Held(ver[r]) \cap OnPage(k) = {}
      BY <1>0, <2>1, <3>1, PageAppended
    <3>3. Held(ver[r]) \subseteq Vouchers /\ OnPage(k) \subseteq Vouchers
      BY <1>0 DEF Held, OnPage
    <3>4. Cardinality(Held(ver[r]) \cup OnPage(k)) =
            Cardinality(Held(ver[r])) + Cardinality(OnPage(k))
      BY <3>2, <3>3, Apart
    <3>5. QED
      BY <2>1, <2>2, <3>1, <3>4
  <2>5. /\ ver' = [ver EXCEPT ![r] = f]
        /\ len' = [len EXCEPT ![r] = len[r] + Cardinality(OnPage(k))]
        /\ UNCHANGED <<posted, cached, counted, shifted>>
    BY <1>6 DEF FetchPage, Hold
  <2> HIDE DEF f
  <2>6. /\ Held(ver'[r]) \subseteq posted'
        /\ r \notin shifted' => /\ Held(ver'[r]) = First(posted', k * PageSize)
                               /\ len'[r] = Cardinality(Held(ver'[r]))
    BY <2>2, <2>3, <2>4, <2>5
  <2>7. ASSUME NEW q \in Requests, q # r
        PROVE  WholeRun(q)'
    <3>1. pc'[q] = pc[q] /\ page'[q] = page[q] /\ ver'[q] = ver[q] /\ len'[q] = len[q]
      BY <1>6, <2>5, <2>7 DEF FetchPage
    <3>2. QED
      BY <2>5, <3>1 DEF WholeRun, WholePages, Total
  <2>8. WholeRun(r)'
    <3>1. CASE k * PageSize >= Total /\ Go(r, "verify") /\ page' = [page EXCEPT ![r] = 1]
      BY <2>6, <3>1 DEF WholeRun
    <3>2. CASE ~(k * PageSize >= Total) /\ Go(r, "fetch") /\ page' = [page EXCEPT ![r] = k + 1]
      <4>1. Total \in Nat /\ k * PageSize \in Nat /\ (k + 1) - 1 = k
        BY <1>0, <2>1, Counts, PageAssumption DEF Total
      <4>2. page'[r] = k + 1 /\ page'[r] # 0 /\ page'[r] - 1 = k
        BY <2>1, <3>2, <4>1
      <4>3. k * PageSize <= Total'
        BY <2>5, <3>2, <4>1 DEF Total
      <4>4. pc'[r] = "fetch"
        BY <3>2
      <4>5. QED
        BY <2>6, <4>2, <4>3, <4>4 DEF WholeRun
    <3>3. QED
      BY <1>6, <3>1, <3>2 DEF FetchPage
  <2>9. QED
    BY <2>2, <2>5, <2>7, <2>8 DEF WholePages
<1>7. ASSUME NEW r \in Requests, Verify(r)
      PROVE  WholePages'
  <2>1. pc[r] = "verify" /\ UNCHANGED <<posted, cached, ver, len, page, shifted>>
    BY <1>7 DEF Verify
  <2>2. ASSUME NEW q \in Requests, q # r
        PROVE  WholeRun(q)'
    <3>1. pc'[q] = pc[q] /\ counted'[q] = counted[q]
      BY <1>7, <2>2 DEF Verify
    <3>2. QED
      BY <2>1, <3>1 DEF WholeRun, WholePages, Total
  <2>3. CASE Go(r, "unverified")
    <3>1. WholeRun(r)'
      BY <2>1, <2>3 DEF WholeRun, WholePages
    <3>2. QED
      BY <2>1, <2>2, <3>1 DEF WholePages
  <2>4. CASE Total = len[r] /\ Go(r, "save") /\ counted' = [counted EXCEPT ![r] = posted]
    <3>1. r \notin shifted => Held(ver[r]) = posted
      BY <1>0, <2>1, <2>4, AsManyAsPosted DEF WholeRun, WholePages
    <3>2. /\ pc'[r] = "save" /\ counted'[r] = posted /\ len[r] = Cardinality(posted)
          /\ page[r] = 1 /\ Held(ver[r]) \subseteq posted
      BY <2>1, <2>4 DEF WholeRun, WholePages, Total
    <3>3. WholeRun(r)'
      BY <2>1, <3>1, <3>2 DEF WholeRun
    <3>4. QED
      BY <2>1, <2>2, <3>3 DEF WholePages
  <2>5. QED
    BY <1>7, <2>3, <2>4 DEF Verify
<1>8. ASSUME NEW r \in Requests, DeleteYear(r)
      PROVE  WholePages'
  BY <1>8 DEF DeleteYear, WholeRun, WholePages, Total
<1>9. ASSUME NEW r \in Requests, Commit(r)
      PROVE  WholePages'
  <2>1. Held(cached') \subseteq Held(ver[r]) \cup Held(cached)
    BY <1>9 DEF Commit, Held
  <2>2. /\ pc[r] = "commit" /\ pc' = [pc EXCEPT ![r] = "fresh"]
        /\ UNCHANGED <<posted, ver, len, page, counted, shifted>>
    BY <1>9 DEF Commit
  <2>3. ASSUME NEW q \in Requests
        PROVE  WholeRun(q)'
    <3>1. CASE q = r
      BY <2>2, <3>1 DEF WholeRun, WholePages
    <3>2. CASE q # r
      BY <2>2, <3>2 DEF WholeRun, WholePages, Total
    <3>3. QED
      BY <3>1, <3>2
  <2>4. QED
    BY <2>1, <2>2, <2>3 DEF WholeRun, WholePages
<1>10. ASSUME NEW r \in Requests, Fail(r)
      PROVE  WholePages'
  <2>1. Held(Nothing) = {}
    BY DEF Held, Nothing
  <2>2. QED
    BY <1>10, <2>1 DEF Fail, Hold, WholeRun, WholePages, Total
<1>11. CASE Post
  <2>1. PICK v \in Vouchers \ posted :
          /\ posted' = posted \cup {v}
          /\ shifted' = shifted \cup
               {r \in Requests : pc[r] = "fetch" /\ Place(v) < (page[r] - 1) * PageSize}
    BY <1>11 DEF Post
  <2>2. Joins(v) /\ UNCHANGED <<cached, pc, ver, len, page, counted>>
    BY <1>11, <2>1 DEF Post, Joins
  <2>3. Total \in Nat /\ Total' = Total + 1 /\ shifted \subseteq shifted'
    BY <1>0, <2>1, <2>2, OneMore
  <2>4. ASSUME NEW r \in Requests, pc[r] = "fetch"
        PROVE  /\ (page'[r] - 1) * PageSize <= Total'
               /\ r \notin shifted' => Held(ver'[r]) = First(posted', (page'[r] - 1) * PageSize)
    <3> DEFINE n == (page[r] - 1) * PageSize
    <3>1. page[r] \in Nat \ {0} /\ n <= Total
          /\ (r \notin shifted => Held(ver[r]) = First(posted, n))
      BY <2>4 DEF WholeRun, WholePages
    <3>2. n \in Nat
      <4>1. page[r] - 1 \in Nat /\ PageSize \in Nat
        <5>1. page[r] \in Nat /\ page[r] # 0
          BY <3>1
        <5>2. QED
          BY <5>1, PageAssumption
      <4>2. QED
        BY <4>1
    <3>3. r \notin shifted' => ~(Place(v) < n)
      BY <2>1, <2>4
    <3> HIDE DEF n
    <3>4. r \notin shifted' => First(posted', n) = First(posted, n)
      BY <1>0, <2>2, <3>2, <3>3, ListedAfter
    <3>5. QED
      BY <2>2, <2>3, <3>1, <3>2, <3>4 DEF n
  <2>5. QED
    BY <2>1, <2>2, <2>3, <2>4 DEF WholeRun, WholePages
<1>12. CASE Age
  BY <1>12 DEF Age, WholeRun, WholePages, Total
<1>13. CASE UNCHANGED vars
  BY <1>13 DEF vars, WholeRun, WholePages, Total
<1>14. QED
  BY <1>1, <1>2, <1>4, <1>5, <1>6, <1>7, <1>8, <1>9, <1>10, <1>11, <1>12, <1>13 DEF Next

\* "Verified complete": what is served as fresh is every voucher posted when it
\* was last counted, each once, wherever new vouchers are listed, however many
\* runs overlap and whatever fails, but for the run whose own listing shifted:
\* what that one caches is read again, or counted again, by whoever comes next.
THEOREM FreshIsComplete == Spec => []FreshComplete
<1>1. TypeOK /\ WholePages /\ [Next]_vars => TypeOK' /\ WholePages'
  BY NextTypeOK, WholePagesNext
<1>2. WholePages => FreshComplete
  BY DEF WholeRun, WholePages, FreshComplete
<1>3. QED
  BY <1>1, <1>2, InitTypeOK, WholePagesInit, PTL DEF Spec
=============================================================================
