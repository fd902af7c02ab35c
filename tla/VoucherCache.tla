---------------------------- MODULE VoucherCache ----------------------------
(***************************************************************************)
(* The vouchers of one financial year: VoucherService, which serves them   *)
(* from PostgreSQL when Fortnox's own count proves the cache complete and  *)
(* re-reads the year when it does not, the cache's two tables, and the     *)
(* paginated listing of a year that may grow while it is read.             *)
(*                                                                         *)
(* A voucher is its place in the order Fortnox lists the year in, which    *)
(* nobody asks to be that of posting: numbers start anew in every series.  *)
(* Of its rows only the fetch version that produced them is kept.          *)
(***************************************************************************)
EXTENDS Naturals, FiniteSets

CONSTANTS
  Requests, \* runs of the overview: the nightly job, someone at a terminal
  Builds,   \* the VoucherFetchVersions they may be compiled with
  Vouchers, \* bound: the vouchers ever posted, 1..n in listing order
  PageSize  \* vouchers on a page of the listing

ASSUME BuildsAssumption == Builds \subseteq Nat \ {0}
ASSUME VouchersAssumption == Vouchers \subseteq Nat \ {0} /\ IsFiniteSet(Vouchers)
ASSUME PageAssumption == PageSize \in Nat \ {0}

VARIABLES
  posted,  \* Fortnox: the year's vouchers
  cached,  \* table of vouchers: the version that wrote each, 0 = no row
  sync,    \* sync row: [version, total, aged], or NoSync
  pc,      \* each run: where it is,
  build,   \*   the build it is, 0 before it started,
  ver,     \*   the vouchers it holds, as versions, 0 = not held,
  len,     \*   how many it counts them for (a listing can repeat one),
  syncGot, \*   the sync row it read,
  page,    \*   the next page of the listing,
  merging, \*   whether another SaveYear committed since its DELETE,
  counted, \*   and, for the properties, what was posted at its last count
  mixed,   \* history: the rows in the table are of SaveYears of two builds
  torn,    \* history: runs holding mixed rows, or rows older than their sync row
  shifted  \* history: runs that read on when a voucher joined pages they had read

tables == <<cached, sync>>
runVars == <<build, mixed, torn, shifted>>
vars == <<posted, tables, pc, ver, len, syncGot, page, merging, counted, runVars>>

NoSync == [version |-> 0, total |-> 0, aged |-> FALSE]
Versions == Builds \cup {0}
Held(f) == {v \in Vouchers : f[v] > 0}
Nothing == [v \in Vouchers |-> 0]

Returned == {"idle", "fresh", "unverified", "error"}
Working == {"sync", "count", "fetch", "verify", "save", "commit"}

\* Every variable keeps its type; rows carry the version of a build that runs.
TypeOK ==
  /\ posted \subseteq Vouchers
  /\ cached \in [Vouchers -> Versions]
  /\ sync \in [version : Versions, total : Nat, aged : BOOLEAN]
  /\ pc \in [Requests -> Returned \cup Working]
  /\ build \in [Requests -> Versions]
  /\ \A r \in Requests : pc[r] \in Working => build[r] \in Builds
  /\ ver \in [Requests -> [Vouchers -> Versions]]
  /\ len \in [Requests -> Nat]
  /\ syncGot \in [Requests -> [version : Versions, total : Nat, aged : BOOLEAN]]
  /\ page \in [Requests -> Nat]
  /\ merging \in [Requests -> BOOLEAN]
  /\ counted \in [Requests -> SUBSET Vouchers]
  /\ mixed \in BOOLEAN
  /\ torn \subseteq Requests /\ shifted \subseteq Requests

Init ==
  /\ posted = {}
  /\ cached = Nothing /\ sync = NoSync
  /\ pc = [r \in Requests |-> "idle"]
  /\ ver = [r \in Requests |-> Nothing]
  /\ len = [r \in Requests |-> 0]
  /\ syncGot = [r \in Requests |-> NoSync]
  /\ page = [r \in Requests |-> 1]
  /\ merging = [r \in Requests |-> FALSE]
  /\ build = [r \in Requests |-> 0]
  /\ counted = [r \in Requests |-> {}]
  /\ mixed = FALSE /\ torn = {} /\ shifted = {}

Go(r, to) == pc' = [pc EXCEPT ![r] = to]
Hold(r, f, n) == ver' = [ver EXCEPT ![r] = f] /\ len' = [len EXCEPT ![r] = n]
Unshifted(r) == shifted' = shifted \ {r}
Drop(r) == Hold(r, Nothing, 0) /\ torn' = torn \ {r} /\ Unshifted(r)
Total == Cardinality(posted)

(***************************************************************************)
(* Vouchers                                                                *)
(***************************************************************************)
\* LoadYear, first query: the voucher rows.
LoadRows(r) ==
  /\ pc[r] \in Returned
  /\ \E b \in Builds : build' = [build EXCEPT ![r] = b]
  /\ torn' = IF mixed THEN torn \cup {r} ELSE torn \ {r}
  /\ Unshifted(r)
  /\ Hold(r, cached, Cardinality(Held(cached)))
  /\ counted' = [counted EXCEPT ![r] = {}]
  /\ Go(r, "sync")
  /\ UNCHANGED <<posted, tables, syncGot, page, merging, mixed>>

\* LoadYear, second query: the sync row.
LoadSync(r) ==
  /\ pc[r] = "sync"
  /\ syncGot' = [syncGot EXCEPT ![r] = sync]
  /\ Go(r, "count")
  /\ UNCHANGED <<posted, tables, ver, len, page, merging, counted, runVars>>

\* Assess, for a cache that was synced by this build.
Trusted(r) == syncGot[r].version = build[r]

Assessed(r) ==
  /\ syncGot' = [syncGot EXCEPT ![r] = NoSync]
  /\ UNCHANGED <<posted, tables, merging, build, mixed>>

Refetch(r) ==
  /\ Go(r, "fetch")
  /\ Drop(r)
  /\ UNCHANGED page

MutAssessIgnoresVersion(r) ==
  /\ pc[r] = "count"
  /\ counted' = [counted EXCEPT ![r] = posted]
  /\ IF syncGot[r] # NoSync /\ Total = len[r] /\ ~syncGot[r].aged
     THEN Go(r, "fresh") /\ UNCHANGED <<ver, len, page, torn, shifted>>
     ELSE Refetch(r)
  /\ Assessed(r)

\* RemoteTotal answered: fresh when the counts agree and the sync is not old.
Count(r) ==
  /\ pc[r] = "count"
  /\ counted' = [counted EXCEPT ![r] = posted]
  /\ IF Trusted(r) /\ Total = len[r] /\ ~syncGot[r].aged
     THEN Go(r, "fresh") /\ UNCHANGED <<ver, len, page, torn, shifted>>
     ELSE Refetch(r)
  /\ Assessed(r)

\* RemoteTotal failed: nothing cached is an error, a cache this build wrote is
\* served unverified, any other is read again.
CountFails(r) ==
  /\ pc[r] = "count"
  /\ \/ /\ len[r] = 0
        /\ Go(r, "error") /\ Drop(r) /\ UNCHANGED page
     \/ /\ len[r] > 0 /\ Trusted(r)
        /\ Go(r, "unverified") /\ UNCHANGED <<ver, len, page, torn, shifted>>
     \/ len[r] > 0 /\ ~Trusted(r) /\ Refetch(r)
  /\ Assessed(r) /\ UNCHANGED counted

(***************************************************************************)
(* refresh                                                                 *)
(***************************************************************************)
Place(v) == Cardinality({u \in posted : u <= v})
OnPage(k) == {v \in posted : (k - 1) * PageSize < Place(v) /\ Place(v) <= k * PageSize}

\* GetAllPages, one page: the last when the total it reports says so. Each
\* voucher listed is then fetched with its rows, which do not change.
FetchPage(r) ==
  /\ pc[r] = "fetch"
  /\ Hold(r, [v \in Vouchers |-> IF v \in OnPage(page[r]) THEN build[r] ELSE ver[r][v]],
             len[r] + Cardinality(OnPage(page[r])))
  /\ IF page[r] * PageSize >= Total
     THEN Go(r, "verify") /\ page' = [page EXCEPT ![r] = 1]
     ELSE Go(r, "fetch") /\ page' = [page EXCEPT ![r] = @ + 1]
  /\ UNCHANGED <<posted, tables, syncGot, merging, counted, runVars>>

MutSkipRecount(r) ==
  /\ pc[r] = "verify"
  /\ Go(r, "save")
  /\ counted' = [counted EXCEPT ![r] = posted]
  /\ UNCHANGED <<posted, tables, ver, len, syncGot, page, merging, runVars>>

\* RemoteTotal once more: a read that does not match is served, not cached.
Verify(r) ==
  /\ pc[r] = "verify"
  /\ \/ /\ counted' = [counted EXCEPT ![r] = posted]
        /\ Go(r, IF Total = len[r] THEN "save" ELSE "unverified")
     \/ Go(r, "unverified") /\ UNCHANGED counted
  /\ UNCHANGED <<posted, tables, ver, len, syncGot, page, merging, runVars>>

(***************************************************************************)
(* SaveYear: one READ COMMITTED transaction, so its DELETE removes the     *)
(* rows committed when it ran and not those a concurrent SaveYear adds.    *)
(***************************************************************************)
DeleteYear(r) ==
  /\ pc[r] = "save"
  /\ merging' = [merging EXCEPT ![r] = FALSE]
  /\ Go(r, "commit")
  /\ UNCHANGED <<posted, tables, ver, len, syncGot, page, counted, runVars>>

Commit(r) ==
  /\ pc[r] = "commit"
  /\ cached' = [v \in Vouchers |->
                  IF v \in Held(ver[r]) THEN build[r]
                  ELSE IF merging[r] THEN cached[v] ELSE 0]
  /\ sync' = [version |-> build[r], total |-> len[r], aged |-> FALSE]
  /\ merging' = [q \in Requests |-> pc[q] = "commit" /\ q # r]
  /\ mixed' = (merging[r] /\ (mixed \/ sync.version # build[r]))
  /\ torn' = IF sync.version = build[r] THEN torn
             ELSE torn \cup {q \in Requests : pc[q] = "sync"}
  /\ Go(r, "fresh")
  /\ UNCHANGED <<posted, ver, len, syncGot, page, counted, build, shifted>>

\* A database or Fortnox error, or the process dies: a transaction rolls back.
Fail(r) ==
  /\ pc[r] \in Working \ {"count", "verify"}
  /\ Go(r, "error")
  /\ Drop(r)
  /\ page' = [page EXCEPT ![r] = 1]
  /\ syncGot' = [syncGot EXCEPT ![r] = NoSync]
  /\ UNCHANGED <<posted, tables, merging, counted, build, mixed>>

(***************************************************************************)
(* Fortnox and the clock                                                   *)
(***************************************************************************)
\* A voucher is posted, and listed anywhere. On a page a run has read it moves
\* the last of that page to the next, where the run reads it a second time.
Post ==
  /\ \E v \in Vouchers \ posted :
       /\ posted' = posted \cup {v}
       /\ shifted' = shifted \cup
            {r \in Requests : pc[r] = "fetch" /\ Place(v) < (page[r] - 1) * PageSize}
  /\ UNCHANGED <<tables, pc, ver, len, syncGot, page, merging, counted, build, mixed, torn>>

Age ==
  /\ sync # NoSync /\ ~sync.aged
  /\ sync' = [sync EXCEPT !.aged = TRUE]
  /\ UNCHANGED <<posted, cached, pc, ver, len, syncGot, page, merging, counted, runVars>>

-----------------------------------------------------------------------------
Next ==
  \/ \E r \in Requests :
       \/ LoadRows(r) \/ LoadSync(r) \/ Count(r) \/ CountFails(r)
       \/ FetchPage(r) \/ Verify(r) \/ DeleteYear(r) \/ Commit(r) \/ Fail(r)
  \/ Post \/ Age

Spec == Init /\ [][Next]_vars

-----------------------------------------------------------------------------
(***************************************************************************)
(* Properties                                                              *)
(***************************************************************************)

\* "Verified complete", however runs overlap and whatever they cached: what is
\* served as fresh is exactly what was posted when Fortnox was last asked for the
\* count, each voucher once. The exception is the run whose own reading shifted:
\* a voucher counted twice can make up for the one it missed. A run that serves
\* what such a run cached is none: the table counts a voucher once.
FreshComplete ==
  \A r \in Requests \ shifted : pc[r] = "fresh" =>
    Held(ver[r]) = counted[r] /\ len[r] = Cardinality(counted[r])

\* "Were these rows produced by the logic this binary uses?": across upgrades,
\* and however runs overlap, rows of another fetch version are never served,
\* fresh or unverified, but to a run that read a year two builds had saved
\* together, or that one saved between its two queries.
ServedByThisBuild ==
  \A r \in Requests \ torn : pc[r] \in {"fresh", "unverified"} =>
    \A v \in Held(ver[r]) : ver[r][v] = build[r]
=============================================================================
