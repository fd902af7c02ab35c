---------------------------- MODULE SupplierCache ----------------------------
(***************************************************************************)
(* CachingEnricher: the bank details of suppliers, kept for a while. The   *)
(* lock is held to look and to store, never while Fortnox is asked, so     *)
(* that an invalidation, or another lookup, can fall in between.           *)
(***************************************************************************)
EXTENDS Naturals

CONSTANTS
  SupplierKeys, \* tenant and supplier number
  Lookups,      \* calls of SupplierPaymentDetails under way
  TTL,          \* how long an entry is good for
  Timeout,      \* of the HTTP client: no lookup asks for longer
  MaxVersion,   \* bound: changes of a supplier's bank details
  MaxTime       \* bound: the clock

ASSUME CacheTimesAssumption == TTL \in Nat \ {0} /\ Timeout \in Nat
ASSUME CacheBoundsAssumption == MaxVersion \in Nat /\ MaxTime \in Nat

VARIABLES
  clock,    \* time
  details,  \* Fortnox: the version of each supplier's bank details, and
  replaced, \*   when each version was replaced
  entry,    \* cache: version and expiry of each supplier, 0 for no entry
  lookup,   \* each call: where it is, the supplier, its start, what it got
  raced,    \* history: suppliers invalidated while a lookup held an answer
  dropped   \* history: the version of each supplier when last invalidated

cacheVars == <<clock, details, replaced, entry, lookup, raced, dropped>>
Versions == 0..MaxVersion
Times == 0..MaxTime
NoEntry == [version |-> 0, expiresAt |-> 0]
NoLookup == [at |-> "none"]
Held == [version : Versions, expiresAt : 0..(MaxTime + TTL)]
Asked == [at : {"ask"}, key : SupplierKeys, since : Times]
Answered == [at : {"store"}, key : SupplierKeys, since : Times, got : Versions]
Asking(k) == [at |-> "ask", key |-> k, since |-> clock]

CacheTypeOK ==
  /\ clock \in Times
  /\ details \in [SupplierKeys -> Versions]
  /\ replaced \in [SupplierKeys \X Versions -> Times]
  /\ entry \in [SupplierKeys -> Held]
  /\ lookup \in [Lookups -> Asked \cup Answered \cup {NoLookup}]
  /\ raced \subseteq SupplierKeys
  /\ dropped \in [SupplierKeys -> Versions]

CacheInit ==
  /\ clock = 0
  /\ details = [k \in SupplierKeys |-> 0]
  /\ replaced = [v \in SupplierKeys \X Versions |-> 0]
  /\ entry = [k \in SupplierKeys |-> NoEntry]
  /\ lookup = [l \in Lookups |-> NoLookup]
  /\ raced = {}
  /\ dropped = [k \in SupplierKeys |-> 0]

InForce(k) == clock < entry[k].expiresAt

\* An entry in force is returned: nothing changes. Otherwise Fortnox is asked.
Lookup(l, k) ==
  /\ lookup[l].at = "none" /\ ~InForce(k)
  /\ lookup' = [lookup EXCEPT ![l] = Asking(k)]
  /\ UNCHANGED <<clock, details, replaced, entry, raced, dropped>>

\* Fortnox answers with the details of this moment, or fails.
Answer(l) ==
  /\ lookup[l].at = "ask"
  /\ \/ lookup' = [lookup EXCEPT ![l] = [at |-> "store", key |-> @.key, since |-> @.since,
                                         got |-> details[@.key]]]
     \/ lookup' = [lookup EXCEPT ![l] = NoLookup]
  /\ UNCHANGED <<clock, details, replaced, entry, raced, dropped>>

\* Whatever another call stored, or an invalidation removed, since it asked.
Store(l) ==
  /\ lookup[l].at = "store"
  /\ entry' = [entry EXCEPT ![lookup[l].key] =
                 [version |-> lookup[l].got, expiresAt |-> clock + TTL]]
  /\ lookup' = [lookup EXCEPT ![l] = NoLookup]
  /\ UNCHANGED <<clock, details, replaced, raced, dropped>>

MutNothingDeleted(k) == UNCHANGED entry
Delete(k) == entry' = [entry EXCEPT ![k] = NoEntry]

\* Meant for an event that a supplier changed.
Invalidate(k) ==
  /\ Delete(k)
  /\ dropped' = [dropped EXCEPT ![k] = details[k]]
  /\ raced' = IF \E l \in Lookups : lookup[l].at = "store" /\ lookup[l].key = k
              THEN raced \cup {k} ELSE raced
  /\ UNCHANGED <<clock, details, replaced, lookup>>

\* Fortnox (external): somebody edits the bank details of a supplier.
Edit(k) ==
  /\ details[k] < MaxVersion
  /\ details' = [details EXCEPT ![k] = @ + 1]
  /\ replaced' = [replaced EXCEPT ![<<k, details[k]>>] = clock]
  /\ UNCHANGED <<clock, entry, lookup, raced, dropped>>

\* No request outlives its timeout, and storing its answer takes no time.
Tick ==
  /\ clock < MaxTime
  /\ \A l \in Lookups : lookup[l].at # "none" => clock < lookup[l].since + Timeout
  /\ clock' = clock + 1
  /\ UNCHANGED <<details, replaced, entry, lookup, raced, dropped>>

-----------------------------------------------------------------------------
CacheNext ==
  \/ \E l \in Lookups, k \in SupplierKeys : Lookup(l, k)
  \/ \E l \in Lookups : Answer(l) \/ Store(l)
  \/ \E k \in SupplierKeys : Invalidate(k) \/ Edit(k)
  \/ Tick

CacheSpec == CacheInit /\ [][CacheNext]_cacheVars

-----------------------------------------------------------------------------
(***************************************************************************)
(* Properties                                                              *)
(***************************************************************************)

\* Details served from the cache were Fortnox's own at some moment of the last
\* TTL and one request: nothing renews an entry but a new answer, and lookups
\* that overtake one another add no more than the time they were under way.
ServedIsRecent ==
  \A k \in SupplierKeys : InForce(k) =>
    \/ entry[k].version = details[k]
    \/ replaced[<<k, entry[k].version>>] + TTL + Timeout >= clock

\* After an invalidation no older details are served, unless a lookup already
\* held its answer when the entry was deleted and stored it afterwards.
InvalidatedIsGone ==
  \A k \in SupplierKeys : InForce(k) => k \in raced \/ entry[k].version >= dropped[k]

\* What the cache may still do to a payment: the account it names was the
\* supplier's own a moment ago, and an edit through the app is seen at once.
CacheKeepsItsPromises == ServedIsRecent /\ InvalidatedIsGone
=============================================================================
