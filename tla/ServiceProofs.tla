---------------------------- MODULE ServiceProofs ----------------------------
(***************************************************************************)
(* Proofs about services and programs that keep to themselves: the         *)
(* supplier cache, for any suppliers, lookups and times; login, for any    *)
(* browsers, callbacks and logins; the review gate, for any rubric and     *)
(* pushes; the chat, for any turns and calls of a message; the fixtures of *)
(* the sandbox, for any fixtures and any number of runs; the receipts      *)
(* client, for any calls and attempts; the borrowed token, for any jobs,   *)
(* grants and rotations; and, with FigureProofs, all of them side by side. *)
(***************************************************************************)
EXTENDS Services, FigureProofs

-----------------------------------------------------------------------------
(***************************************************************************)
(* The supplier cache                                                      *)
(***************************************************************************)
\* What a lookup got was in force when it began, or has been replaced since;
\* no lookup outlives its timeout.
LookupInTime(l) ==
  lookup[l].at # "none" => lookup[l].since <= clock /\ clock <= lookup[l].since + Timeout

GotRecent(l) ==
  lookup[l].at = "store" =>
    \/ lookup[l].got = details[lookup[l].key]
    \/ replaced[<<lookup[l].key, lookup[l].got>>] >= lookup[l].since

\* The same of an entry, counted back from its expiry.
EntryRecent(k) ==
  /\ entry[k].expiresAt <= clock + TTL
  /\ entry[k].expiresAt > 0 =>
       \/ entry[k].version = details[k]
       \/ replaced[<<k, entry[k].version>>] + TTL + Timeout >= entry[k].expiresAt

\* Nothing older than the last invalidation is there or on its way.
SinceDropped(k) ==
  /\ dropped[k] <= details[k]
  /\ k \notin raced =>
       /\ entry[k].expiresAt > 0 => entry[k].version >= dropped[k]
       /\ \A l \in Lookups : lookup[l].at = "store" /\ lookup[l].key = k =>
            lookup[l].got >= dropped[k]

CacheInv ==
  /\ CacheTypeOK
  /\ \A l \in Lookups : LookupInTime(l) /\ GotRecent(l)
  /\ \A k \in SupplierKeys : EntryRecent(k) /\ SinceDropped(k)

LEMMA CacheInitInv == CacheInit => CacheInv
  BY CacheTimesAssumption, CacheBoundsAssumption
  DEF CacheInit, CacheInv, CacheTypeOK, LookupInTime, GotRecent, EntryRecent, SinceDropped,
      NoEntry, NoLookup, Held, Versions, Times

USE CacheTimesAssumption, CacheBoundsAssumption
    DEF Held, Asked, Answered, NoEntry, NoLookup, Versions, Times

LEMMA LookupKeeps ==
  ASSUME CacheInv, NEW l \in Lookups, NEW k \in SupplierKeys, Lookup(l, k)  PROVE CacheInv'
<1>1. CacheTypeOK'
  BY DEF CacheInv, CacheTypeOK, Lookup, Asking
<1>2. \A m \in Lookups : LookupInTime(m)' /\ GotRecent(m)'
  BY DEF CacheInv, CacheTypeOK, Lookup, Asking, LookupInTime, GotRecent
<1>3. \A j \in SupplierKeys : EntryRecent(j)' /\ SinceDropped(j)'
  BY DEF CacheInv, CacheTypeOK, Lookup, Asking, EntryRecent, SinceDropped
<1>q. QED BY <1>1, <1>2, <1>3 DEF CacheInv

LEMMA AnswerKeeps ==
  ASSUME CacheInv, NEW l \in Lookups, Answer(l)  PROVE CacheInv'
<1>0. lookup[l] \in Asked
  BY DEF CacheInv, CacheTypeOK, Answer
<1>1. CacheTypeOK'
  BY <1>0 DEF CacheInv, CacheTypeOK, Answer
<1>2. ASSUME NEW m \in Lookups  PROVE LookupInTime(m)' /\ GotRecent(m)'
  <2>1. LookupInTime(m) /\ GotRecent(m)
    BY <1>2 DEF CacheInv
  <2>2. CASE m = l
    BY <1>0, <2>1, <2>2 DEF CacheInv, CacheTypeOK, Answer, LookupInTime, GotRecent
  <2>3. CASE m # l
    BY <1>0, <2>1, <2>3 DEF CacheInv, CacheTypeOK, Answer, LookupInTime, GotRecent
  <2>q. QED BY <2>2, <2>3
<1>3. \A j \in SupplierKeys : EntryRecent(j)' /\ SinceDropped(j)'
  BY <1>0 DEF CacheInv, CacheTypeOK, Answer, EntryRecent, SinceDropped
<1>q. QED BY <1>1, <1>2, <1>3 DEF CacheInv

LEMMA StoreKeeps ==
  ASSUME CacheInv, NEW l \in Lookups, Store(l)  PROVE CacheInv'
<1>0. lookup[l] \in Answered
  BY DEF CacheInv, CacheTypeOK, Store
<1>1. CacheTypeOK'
  BY <1>0 DEF CacheInv, CacheTypeOK, Store
<1>2. \A m \in Lookups : LookupInTime(m)' /\ GotRecent(m)'
  BY <1>0 DEF CacheInv, CacheTypeOK, Store, LookupInTime, GotRecent
<1>3. ASSUME NEW j \in SupplierKeys  PROVE EntryRecent(j)'
  <2>1. LookupInTime(l) /\ GotRecent(l) /\ EntryRecent(j)
    BY <1>3 DEF CacheInv
  <2>2. CASE j = lookup[l].key
    BY <1>0, <2>1, <2>2 DEF CacheInv, CacheTypeOK, Store, LookupInTime, GotRecent, EntryRecent
  <2>3. CASE j # lookup[l].key
    BY <1>0, <2>1, <2>3 DEF CacheInv, CacheTypeOK, Store, EntryRecent
  <2>q. QED BY <2>2, <2>3
<1>4. \A j \in SupplierKeys : SinceDropped(j)'
  BY <1>0 DEF CacheInv, CacheTypeOK, Store, SinceDropped
<1>q. QED BY <1>1, <1>2, <1>3, <1>4 DEF CacheInv

LEMMA InvalidateKeeps ==
  ASSUME CacheInv, NEW k \in SupplierKeys, Invalidate(k)  PROVE CacheInv'
<1>1. CacheTypeOK'
  BY DEF CacheInv, CacheTypeOK, Invalidate, Delete
<1>2. \A m \in Lookups : LookupInTime(m)' /\ GotRecent(m)'
  BY DEF CacheInv, CacheTypeOK, Invalidate, Delete, LookupInTime, GotRecent
<1>3. \A j \in SupplierKeys : EntryRecent(j)' /\ SinceDropped(j)'
  BY DEF CacheInv, CacheTypeOK, Invalidate, Delete, EntryRecent, SinceDropped
<1>q. QED BY <1>1, <1>2, <1>3 DEF CacheInv

LEMMA EditKeeps ==
  ASSUME CacheInv, NEW k \in SupplierKeys, Edit(k)  PROVE CacheInv'
<1>1. CacheTypeOK'
  BY DEF CacheInv, CacheTypeOK, Edit
<1>2. ASSUME NEW m \in Lookups  PROVE LookupInTime(m)' /\ GotRecent(m)'
  <2>1. LookupInTime(m) /\ GotRecent(m)
    BY <1>2 DEF CacheInv
  <2>2. LookupInTime(m)'
    BY <2>1 DEF Edit, LookupInTime
  <2>3. CASE lookup[m].at = "store"
    <3>1. lookup[m] \in Answered
      BY <2>3 DEF CacheInv, CacheTypeOK
    <3>2. CASE lookup[m].key = k /\ lookup[m].got = details[k]
      BY <2>1, <2>3, <3>1, <3>2 DEF CacheInv, CacheTypeOK, Edit, LookupInTime, GotRecent
    <3>3. CASE ~(lookup[m].key = k /\ lookup[m].got = details[k])
      BY <2>1, <2>3, <3>1, <3>3 DEF CacheInv, CacheTypeOK, Edit, LookupInTime, GotRecent
    <3>q. QED BY <3>2, <3>3, <2>2
  <2>4. CASE lookup[m].at # "store"
    BY <2>2, <2>4 DEF Edit, GotRecent
  <2>q. QED BY <2>3, <2>4
<1>3. ASSUME NEW j \in SupplierKeys  PROVE EntryRecent(j)' /\ SinceDropped(j)'
  <2>1. EntryRecent(j) /\ SinceDropped(j)
    BY <1>3 DEF CacheInv
  <2>2. EntryRecent(j)'
    BY <2>1 DEF CacheInv, CacheTypeOK, Edit, EntryRecent
  <2>3. SinceDropped(j)'
    BY <2>1 DEF CacheInv, CacheTypeOK, Edit, SinceDropped
  <2>q. QED BY <2>2, <2>3
<1>q. QED BY <1>1, <1>2, <1>3 DEF CacheInv

LEMMA TickKeeps == ASSUME CacheInv, Tick PROVE CacheInv'
<1>1. CacheTypeOK'
  BY DEF CacheInv, CacheTypeOK, Tick
<1>2. \A m \in Lookups : LookupInTime(m)' /\ GotRecent(m)'
  BY DEF CacheInv, CacheTypeOK, Tick, LookupInTime, GotRecent
<1>3. \A j \in SupplierKeys : EntryRecent(j)' /\ SinceDropped(j)'
  BY DEF CacheInv, CacheTypeOK, Tick, EntryRecent, SinceDropped
<1>q. QED BY <1>1, <1>2, <1>3 DEF CacheInv

LEMMA CacheStep == CacheInv /\ [CacheNext]_cacheVars => CacheInv'
<1> SUFFICES ASSUME CacheInv, [CacheNext]_cacheVars PROVE CacheInv'
  OBVIOUS
<1>1. CASE CacheNext
  BY <1>1, LookupKeeps, AnswerKeeps, StoreKeeps, InvalidateKeeps, EditKeeps, TickKeeps DEF CacheNext
<1>2. CASE UNCHANGED cacheVars
  BY <1>2 DEF cacheVars, CacheInv, CacheTypeOK, LookupInTime, GotRecent, EntryRecent, SinceDropped
<1>q. QED BY <1>1, <1>2

LEMMA CacheInvHolds == CacheSpec => []CacheInv
  BY CacheInitInv, CacheStep, PTL DEF CacheSpec

LEMMA CacheInvPromises == CacheInv => CacheKeepsItsPromises
<1> SUFFICES ASSUME CacheInv, NEW k \in SupplierKeys, InForce(k)
             PROVE /\ \/ entry[k].version = details[k]
                      \/ replaced[<<k, entry[k].version>>] + TTL + Timeout >= clock
                   /\ k \in raced \/ entry[k].version >= dropped[k]
  BY DEF CacheKeepsItsPromises, ServedIsRecent, InvalidatedIsGone
<1>1. /\ entry[k].expiresAt \in Nat /\ entry[k].version \in Nat /\ clock \in Nat
      /\ \A v \in Versions : replaced[<<k, v>>] \in Nat
      /\ entry[k].version \in Versions
  BY DEF CacheInv, CacheTypeOK
<1>2. EntryRecent(k) /\ SinceDropped(k)
  BY DEF CacheInv
<1>q. QED BY <1>1, <1>2 DEF InForce, EntryRecent, SinceDropped

\* CachingEnricher, whatever calls overlap and for any lifetime of an entry:
\* what the cache serves was Fortnox's own within that lifetime and one
\* request, and an invalidation is undone only by a lookup that held its answer.
THEOREM CachePromises == CacheSpec => []CacheKeepsItsPromises
  BY CacheInvHolds, CacheInvPromises, PTL
-----------------------------------------------------------------------------
(***************************************************************************)
(* Login                                                                   *)
(***************************************************************************)
\* state and nonce of a browser, and those a callback took from it, are of a
\* login begun there; so is the identity it goes on with.
OwnCookies(b) == cookies[b] # 0 => cookies[b] \in Begun /\ begunBy[cookies[b]] = b

OwnRequest(c) ==
  /\ callback[c].at = "exchange" =>
       callback[c].nonce \in Begun /\ begunBy[callback[c].nonce] = callback[c].browser
  /\ callback[c].at \in {"mint", "read"} =>
       callback[c].login \in Begun /\ begunBy[callback[c].login] = callback[c].browser

OwnSession(b) ==
  session[b] # NoSession => session[b].login \in Begun /\ begunBy[session[b].login] = b

\* Addresses are stored as Normal leaves them; a login's id is that of one
\* address at most, once its code is spent and its callback has inserted it.
Minted(c) == callback[c].at \in {"mint", "read"}

IdsAreNew ==
  /\ \A c \in Callbacks : Minted(c) =>
       /\ Normal(callback[c].email) = callback[c].email
       /\ codes[callback[c].login] = Spent
       /\ callback[c].at = "read" => users[callback[c].email] # NoOwner
  /\ \A c, d \in Callbacks : Minted(c) /\ Minted(d) /\ callback[c].login = callback[d].login => c = d
  /\ \A e \in Spellings : users[e] # NoOwner =>
       /\ codes[users[e]] = Spent
       /\ \A c \in Callbacks : callback[c].at = "mint" => callback[c].login # users[e]
  /\ \A e, f \in Spellings : users[e] = users[f] /\ users[e] # NoOwner => e = f

OwnerKnown(b) ==
  session[b] # NoSession =>
    Normal(session[b].email) = session[b].email /\ users[session[b].email] = session[b].owner

LoginInv ==
  /\ LoginTypeOK
  /\ \A b \in Browsers : OwnCookies(b) /\ OwnSession(b) /\ OwnerKnown(b)
  /\ \A c \in Callbacks : OwnRequest(c)
  /\ IdsAreNew

USE MaxLoginsAssumption, NormalAssumption
    DEF Logins, NoOwner, NoSession, NoCode, Spent, Idle, Identities, Sessions, Requests, Identified

LEMMA KnownLogins ==
  ASSUME LoginTypeOK
  PROVE  /\ \A d \in Callbacks : Minted(d) => callback[d].login \in Logins
         /\ \A e \in Spellings : users[e] # NoOwner => users[e] \in Logins
<1>1. ASSUME NEW d \in Callbacks, Minted(d)  PROVE callback[d].login \in Logins
  <2>1. callback[d] \in Requests \cup Identified \cup {Idle}
    BY <1>1 DEF LoginTypeOK
  <2>2. callback[d] \in Identified
    BY <1>1, <2>1 DEF Minted
  <2>q. QED BY <2>2
<1>2. \A e \in Spellings : users[e] # NoOwner => users[e] \in Logins
  BY DEF LoginTypeOK
<1>q. QED BY <1>1, <1>2

LEMMA LoginInitInv == LoginInit => LoginInv
<1> SUFFICES ASSUME LoginInit PROVE LoginInv
  OBVIOUS
<1>1. LoginTypeOK
  <2>1. begunBy \in [1..0 -> Browsers]
    BY DEF LoginInit
  <2>2. 0 \in 0..MaxLogins
    OBVIOUS
  <2>q. QED BY <2>1, <2>2 DEF LoginInit, LoginTypeOK
<1>2. \A b \in Browsers : OwnCookies(b) /\ OwnSession(b) /\ OwnerKnown(b)
  BY DEF LoginInit, OwnCookies, OwnSession, OwnerKnown
<1>3. (\A c \in Callbacks : OwnRequest(c)) /\ IdsAreNew
  BY DEF LoginInit, OwnRequest, IdsAreNew, Minted
<1>q. QED BY <1>1, <1>2, <1>3 DEF LoginInv

\* The steps that begin no login and change no code keep what is said of the rest.
LEMMA LoginHandlerKeeps ==
  ASSUME LoginInv, NEW b \in Browsers, LoginHandler(b)  PROVE LoginInv'
<1>1. PICK n \in Logins :
        /\ Begun = 1..(n - 1)
        /\ begunBy' = [m \in 1..n |-> IF m = n THEN b ELSE begunBy[m]]
        /\ cookies' = [cookies EXCEPT ![b] = n]
        /\ UNCHANGED <<users, session, codes, callback>>
  BY DEF LoginHandler
<1>2. begunBy' \in [1..n -> Browsers]
  <2>1. PICK m \in 0..MaxLogins : begunBy \in [1..m -> Browsers]
    BY DEF LoginInv, LoginTypeOK
  <2>2. \A i \in 1..(n - 1) : begunBy[i] \in Browsers
    BY <1>1, <2>1 DEF Begun
  <2>q. QED BY <1>1, <2>2
<1>3. LoginTypeOK'
  <2>1. begunBy' \in UNION {[1..m -> Browsers] : m \in 0..MaxLogins}
    BY <1>2
  <2>q. QED BY <1>1, <2>1 DEF LoginInv, LoginTypeOK
<1>4. Begun' = 1..n /\ begunBy'[n] = b /\ \A m \in Begun : m \in Begun' /\ begunBy'[m] = begunBy[m]
  BY <1>1 DEF Begun
<1>5. ASSUME NEW d \in Browsers PROVE OwnCookies(d)' /\ OwnSession(d)' /\ OwnerKnown(d)'
  BY <1>1, <1>4, <1>5 DEF LoginInv, LoginTypeOK, OwnCookies, OwnSession, OwnerKnown
<1>6. ASSUME NEW c \in Callbacks PROVE OwnRequest(c)'
  BY <1>1, <1>4, <1>6 DEF LoginInv, OwnRequest
<1>7. IdsAreNew'
  BY <1>1 DEF LoginInv, IdsAreNew, Minted
<1>q. QED BY <1>3, <1>5, <1>6, <1>7 DEF LoginInv

LEMMA CallbackHandlerKeeps ==
  ASSUME LoginInv, NEW c \in Callbacks, NEW b \in Browsers, NEW state \in Logins, NEW code \in Logins,
         CallbackHandler(c, b, state, code)
  PROVE LoginInv'
<1>1. cookies[b] \in Begun /\ begunBy[cookies[b]] = b /\ cookies[b] \in Logins
  BY DEF LoginInv, LoginTypeOK, CallbackHandler, OwnCookies
<1>2. LoginTypeOK'
  BY <1>1 DEF LoginInv, LoginTypeOK, CallbackHandler
<1>3. \A d \in Browsers : OwnCookies(d)' /\ OwnSession(d)' /\ OwnerKnown(d)'
  BY DEF LoginInv, CallbackHandler, OwnCookies, OwnSession, OwnerKnown, Begun
<1>4. \A d \in Callbacks : OwnRequest(d)'
  BY <1>1 DEF LoginInv, LoginTypeOK, CallbackHandler, OwnRequest, Begun
<1>5. IdsAreNew'
  BY DEF LoginInv, LoginTypeOK, CallbackHandler, IdsAreNew, Minted
<1>q. QED BY <1>2, <1>3, <1>4, <1>5 DEF LoginInv

\* An answer that ends the request without a session.
LEMMA RefuseKeeps ==
  ASSUME LoginInv, NEW c \in Callbacks, callback[c] # Idle, Refuse(c),
         UNCHANGED <<users, begunBy>>,
         codes' \in [Logins -> Identities \cup {NoCode, Spent}],
         \A n \in Logins : codes[n] = Spent => codes'[n] = Spent
  PROVE LoginInv'
<1>1. callback[c].browser \in Browsers
  BY DEF LoginInv, LoginTypeOK
<1>2. LoginTypeOK'
  BY <1>1 DEF LoginInv, LoginTypeOK, Refuse, Respond
<1>3. \A d \in Browsers : OwnCookies(d)' /\ OwnSession(d)' /\ OwnerKnown(d)'
  BY <1>1 DEF LoginInv, LoginTypeOK, Refuse, Respond, OwnCookies, OwnSession, OwnerKnown, Begun
<1>4. \A d \in Callbacks : OwnRequest(d)'
  BY DEF LoginInv, LoginTypeOK, Refuse, Respond, OwnRequest, Begun
<1>5. IdsAreNew'
  <2>1. \A d \in Callbacks : callback'[d] = callback[d] \/ callback'[d] = Idle
    BY DEF LoginInv, LoginTypeOK, Refuse, Respond
  <2>2. /\ \A d \in Callbacks : Minted(d) => callback[d].login \in Logins
        /\ \A e \in Spellings : users[e] # NoOwner => users[e] \in Logins
    BY KnownLogins DEF LoginInv
  <2>3. \A d \in Callbacks : Minted(d)' =>
          /\ Normal(callback'[d].email) = callback'[d].email
          /\ codes'[callback'[d].login] = Spent
          /\ callback'[d].at = "read" => users'[callback'[d].email] # NoOwner
    BY <2>1, <2>2 DEF LoginInv, IdsAreNew, Minted
  <2>4. \A d, k \in Callbacks : (Minted(d) /\ Minted(k))' /\ callback'[d].login = callback'[k].login => d = k
    BY <2>1 DEF LoginInv, IdsAreNew, Minted
  <2>5. \A e \in Spellings : users'[e] # NoOwner =>
          /\ codes'[users'[e]] = Spent
          /\ \A d \in Callbacks : callback'[d].at = "mint" => callback'[d].login # users'[e]
    BY <2>1, <2>2 DEF LoginInv, IdsAreNew
  <2>6. \A e, g \in Spellings : users'[e] = users'[g] /\ users'[e] # NoOwner => e = g
    BY DEF LoginInv, IdsAreNew
  <2>q. QED BY <2>3, <2>4, <2>5, <2>6 DEF IdsAreNew
<1>q. QED BY <1>2, <1>3, <1>4, <1>5 DEF LoginInv

LEMMA ExchangeKeeps ==
  ASSUME LoginInv, NEW c \in Callbacks, Exchange(c)  PROVE LoginInv'
<1> DEFINE code == callback[c].code
<1>0. /\ callback[c] \in Requests /\ code \in Logins /\ callback[c].at = "exchange"
      /\ callback[c] # Idle
  BY DEF LoginInv, LoginTypeOK, Exchange
<1>1. CASE Refuse(c) /\ UNCHANGED codes
  BY <1>0, <1>1, RefuseKeeps DEF LoginInv, LoginTypeOK, Exchange
<1>2. CASE Refuse(c) /\ codes' = [codes EXCEPT ![code] = Spent]
  BY <1>0, <1>2, RefuseKeeps DEF LoginInv, LoginTypeOK, Exchange
<1>3. CASE /\ codes[code] \in Identities /\ NonceMatches(c)
           /\ callback' = [callback EXCEPT ![c] =
                [at |-> "mint", browser |-> @.browser, email |-> Normal(codes[code].email),
                 login |-> code]]
           /\ codes' = [codes EXCEPT ![code] = Spent]
           /\ UNCHANGED <<cookies, session, users, begunBy>>
  <2>1. Normal(codes[code].email) \in Spellings
        /\ Normal(Normal(codes[code].email)) = Normal(codes[code].email)
    BY <1>3
  <2>2. LoginTypeOK'
    BY <1>0, <1>3, <2>1 DEF LoginInv, LoginTypeOK
  <2>3. \A d \in Browsers : OwnCookies(d)' /\ OwnSession(d)' /\ OwnerKnown(d)'
    BY <1>3 DEF LoginInv, OwnCookies, OwnSession, OwnerKnown, Begun
  <2>4. \A d \in Callbacks : OwnRequest(d)'
    BY <1>0, <1>3 DEF LoginInv, LoginTypeOK, OwnRequest, NonceMatches, Begun
  <2>5. IdsAreNew'
    <3>1. codes[code] # Spent
      BY <1>3
    <3>2. /\ \A d \in Callbacks : Minted(d) => callback[d].login # code /\ callback[d].login \in Logins
          /\ \A e \in Spellings : users[e] # NoOwner => users[e] # code /\ users[e] \in Logins
      <4>1. /\ \A d \in Callbacks : Minted(d) => callback[d].login \in Logins
            /\ \A e \in Spellings : users[e] # NoOwner => users[e] \in Logins
        BY KnownLogins DEF LoginInv
      <4>2. /\ \A d \in Callbacks : Minted(d) => codes[callback[d].login] = Spent
            /\ \A e \in Spellings : users[e] # NoOwner => codes[users[e]] = Spent
        BY DEF LoginInv, IdsAreNew
      <4>q. QED BY <3>1, <4>1, <4>2
    <3>3. /\ callback'[c].at = "mint" /\ callback'[c].login = code
          /\ callback'[c].email = Normal(codes[code].email)
          /\ \A d \in Callbacks \ {c} : callback'[d] = callback[d]
          /\ codes'[code] = Spent /\ \A n \in Logins : codes[n] = Spent => codes'[n] = Spent
      BY <1>0, <1>3 DEF LoginInv, LoginTypeOK
    <3>4. \A d \in Callbacks \ {c} : Minted(d)' <=> Minted(d)
      BY <3>3 DEF Minted
    <3>5. users' = users
      BY <1>3
    <3>6. /\ \A d \in Callbacks : Minted(d) =>
                /\ Normal(callback[d].email) = callback[d].email
                /\ codes[callback[d].login] = Spent
                /\ callback[d].at = "read" => users[callback[d].email] # NoOwner
          /\ \A d, e \in Callbacks :
               Minted(d) /\ Minted(e) /\ callback[d].login = callback[e].login => d = e
      BY DEF LoginInv, IdsAreNew
    <3>7. ASSUME NEW d \in Callbacks, Minted(d)'
          PROVE  /\ Normal(callback'[d].email) = callback'[d].email
                 /\ codes'[callback'[d].login] = Spent
                 /\ callback'[d].at = "read" => users'[callback'[d].email] # NoOwner
      <4>1. CASE d = c
        BY <2>1, <3>3, <4>1
      <4>2. CASE d # c
        BY <3>2, <3>3, <3>4, <3>7, <3>5, <3>6, <4>2
      <4>q. QED BY <4>1, <4>2
    <3>8. ASSUME NEW d \in Callbacks, NEW e \in Callbacks, Minted(d)', Minted(e)',
                 callback'[d].login = callback'[e].login
          PROVE  d = e
      <4>1. CASE d # c /\ e # c
        BY <3>3, <3>4, <3>8, <3>6, <4>1
      <4>2. CASE d = c \/ e = c
        BY <3>2, <3>3, <3>4, <3>8, <4>2
      <4>q. QED BY <4>1, <4>2
    <3>q. QED BY <3>2, <3>3, <3>5, <3>7, <3>8 DEF LoginInv, IdsAreNew
  <2>q. QED BY <2>2, <2>3, <2>4, <2>5 DEF LoginInv
<1>q. QED BY <1>0, <1>1, <1>2, <1>3 DEF Exchange

LEMMA MintKeeps ==
  ASSUME LoginInv, NEW c \in Callbacks, Mint(c)  PROVE LoginInv'
<1> DEFINE e == callback[c].email
           id == callback[c].login
<1>0. /\ callback[c] \in Identified /\ callback[c].at = "mint" /\ callback[c] # Idle
      /\ e \in Spellings /\ id \in Logins
  BY DEF LoginInv, LoginTypeOK, Mint
<1>1. CASE Refuse(c) /\ UNCHANGED users
  BY <1>0, <1>1, RefuseKeeps DEF LoginInv, LoginTypeOK, Mint
<1>2. CASE /\ InsertUser(e, id)
           /\ callback' = [callback EXCEPT ![c].at = "read"]
           /\ UNCHANGED <<cookies, session, begunBy, codes>>
  <2>1. /\ users' \in [Spellings -> 0..MaxLogins]
        /\ users'[e] # NoOwner
        /\ \A f \in Spellings : users[f] # NoOwner => users'[f] = users[f]
        /\ \A f \in Spellings : f # e => users'[f] = users[f]
        /\ users[e] # NoOwner \/ users'[e] = id
    BY <1>0, <1>2 DEF LoginInv, LoginTypeOK, InsertUser
  <2>2. /\ callback'[c].at = "read" /\ callback'[c].login = id /\ callback'[c].email = e
        /\ callback'[c].browser = callback[c].browser
        /\ \A d \in Callbacks \ {c} : callback'[d] = callback[d]
        /\ callback' \in [Callbacks -> Requests \cup Identified \cup {Idle}]
    BY <1>0, <1>2 DEF LoginInv, LoginTypeOK
  <2>3. LoginTypeOK'
    BY <1>2, <2>1, <2>2 DEF LoginInv, LoginTypeOK
  <2>4. ASSUME NEW d \in Browsers PROVE OwnCookies(d)' /\ OwnSession(d)' /\ OwnerKnown(d)'
    <3>1. session[d] # NoSession => session[d].email \in Spellings /\ session[d].owner # NoOwner
      BY <2>4 DEF LoginInv, LoginTypeOK
    <3>q. QED BY <1>2, <2>1, <2>4, <3>1 DEF LoginInv, OwnCookies, OwnSession, OwnerKnown, Begun
  <2>5. \A d \in Callbacks : OwnRequest(d)'
    BY <1>0, <1>2, <2>2 DEF LoginInv, OwnRequest, Begun
  <2>6. IdsAreNew'
    <3>1. \A d \in Callbacks : callback'[d].at = "mint" =>
            d # c /\ callback[d].at = "mint" /\ callback[d].login # id
      BY <1>0, <2>2 DEF LoginInv, IdsAreNew, Minted
    <3>2. \A d \in Callbacks : callback'[d].email = callback[d].email
                               /\ callback'[d].login = callback[d].login
                               /\ (Minted(d)' <=> Minted(d))
      BY <1>0, <2>2 DEF Minted
    <3>3. \A d \in Callbacks : Minted(d) => callback[d].email \in Spellings
      BY DEF LoginInv, LoginTypeOK, Minted
    <3>4. \A d \in Callbacks : Minted(d)' =>
            /\ Normal(callback'[d].email) = callback'[d].email
            /\ codes'[callback'[d].login] = Spent
            /\ callback'[d].at = "read" => users'[callback'[d].email] # NoOwner
      BY <1>2, <2>1, <2>2, <3>2, <3>3 DEF LoginInv, IdsAreNew
    <3>5. \A d, k \in Callbacks : (Minted(d) /\ Minted(k))' /\ callback'[d].login = callback'[k].login => d = k
      BY <3>2 DEF LoginInv, IdsAreNew
    <3>6. Minted(c) /\ codes[id] = Spent /\ \A f \in Spellings : users[f] # NoOwner => users[f] # id
      BY <1>0 DEF LoginInv, IdsAreNew, Minted
    <3>7. \A f \in Spellings : users'[f] # NoOwner =>
            /\ codes'[users'[f]] = Spent
            /\ \A d \in Callbacks : callback'[d].at = "mint" => callback'[d].login # users'[f]
      BY <1>2, <2>1, <3>1, <3>2, <3>6 DEF LoginInv, IdsAreNew
    <3>8. \A f, g \in Spellings : users'[f] = users'[g] /\ users'[f] # NoOwner => f = g
      BY <2>1, <3>6 DEF LoginInv, IdsAreNew
    <3>q. QED BY <3>4, <3>5, <3>7, <3>8 DEF IdsAreNew
  <2>q. QED BY <2>3, <2>4, <2>5, <2>6 DEF LoginInv
<1>q. QED BY <1>1, <1>2 DEF Mint

LEMMA ReadOwnerKeeps ==
  ASSUME LoginInv, NEW c \in Callbacks, ReadOwner(c)  PROVE LoginInv'
<1>0. /\ callback[c] \in Identified /\ callback[c].at = "read" /\ callback[c] # Idle
      /\ callback[c].email \in Spellings /\ callback[c].login \in Logins
      /\ callback[c].browser \in Browsers
  BY DEF LoginInv, LoginTypeOK, ReadOwner
<1>1. CASE Refuse(c)
  BY <1>0, <1>1, RefuseKeeps DEF LoginInv, LoginTypeOK, ReadOwner
<1>2. CASE Respond(c) /\ session' = [session EXCEPT ![callback[c].browser] = NewSession(c)]
  <2>1. /\ users[callback[c].email] # NoOwner /\ Normal(callback[c].email) = callback[c].email
        /\ users[callback[c].email] \in Logins
    BY <1>0 DEF LoginInv, LoginTypeOK, IdsAreNew, Minted
  <2>2. NewSession(c) \in Sessions
    BY <1>0, <2>1 DEF NewSession
  <2>3. LoginTypeOK'
    BY <1>0, <1>2, <2>2 DEF LoginInv, LoginTypeOK, ReadOwner, Respond
  <2>4. ASSUME NEW d \in Browsers PROVE OwnCookies(d)' /\ OwnSession(d)' /\ OwnerKnown(d)'
    <3>1. OwnCookies(d)'
      BY <1>0, <1>2 DEF LoginInv, LoginTypeOK, ReadOwner, Respond, OwnCookies, Begun
    <3>2. CASE d = callback[c].browser
      <4>1. session'[d] = NewSession(c)
        BY <1>0, <1>2, <3>2 DEF LoginInv, LoginTypeOK
      <4>2. callback[c].login \in Begun /\ begunBy[callback[c].login] = d
        BY <1>0, <3>2 DEF LoginInv, OwnRequest
      <4>q. QED BY <2>1, <3>1, <4>1, <4>2 DEF ReadOwner, NewSession, OwnSession, OwnerKnown, Begun
    <3>3. CASE d # callback[c].browser
      <4>1. session'[d] = session[d]
        BY <1>0, <1>2, <3>3 DEF LoginInv, LoginTypeOK
      <4>2. OwnSession(d) /\ OwnerKnown(d)
        BY <2>4 DEF LoginInv
      <4>q. QED BY <3>1, <4>1, <4>2 DEF ReadOwner, OwnSession, OwnerKnown, Begun
    <3>q. QED BY <3>2, <3>3
  <2>5. \A d \in Callbacks : OwnRequest(d)'
    BY <1>2 DEF LoginInv, LoginTypeOK, ReadOwner, Respond, OwnRequest, Begun
  <2>6. IdsAreNew'
    <3>1. \A d \in Callbacks : callback'[d] = callback[d] \/ callback'[d] = Idle
      BY <1>2 DEF LoginInv, LoginTypeOK, Respond
    <3>q. QED BY <3>1 DEF LoginInv, IdsAreNew, Minted, ReadOwner
  <2>q. QED BY <2>3, <2>4, <2>5, <2>6 DEF LoginInv
<1>q. QED BY <1>1, <1>2 DEF ReadOwner

LEMMA BrowserKeeps ==
  ASSUME LoginInv, NEW b \in Browsers, LogoutHandler(b) \/ CookiesLapse(b)  PROVE LoginInv'
<1>1. LoginTypeOK'
  <2>1. CASE LogoutHandler(b)
    BY <2>1 DEF LoginInv, LoginTypeOK, LogoutHandler
  <2>2. CASE CookiesLapse(b)
    BY <2>2 DEF LoginInv, LoginTypeOK, CookiesLapse
  <2>q. QED BY <2>1, <2>2
<1>2. \A d \in Browsers : OwnCookies(d)' /\ OwnSession(d)' /\ OwnerKnown(d)'
  BY DEF LoginInv, LoginTypeOK, LogoutHandler, CookiesLapse, OwnCookies, OwnSession, OwnerKnown, Begun
<1>3. (\A c \in Callbacks : OwnRequest(c)') /\ IdsAreNew'
  BY DEF LoginInv, LogoutHandler, CookiesLapse, OwnRequest, IdsAreNew, Minted, Begun
<1>q. QED BY <1>1, <1>2, <1>3 DEF LoginInv

LEMMA RestartKeeps == ASSUME LoginInv, RestartServer PROVE LoginInv'
<1>1. LoginTypeOK'
  BY DEF LoginInv, LoginTypeOK, RestartServer
<1>2. \A d \in Browsers : OwnCookies(d)' /\ OwnSession(d)' /\ OwnerKnown(d)'
  BY DEF LoginInv, RestartServer, OwnCookies, OwnSession, OwnerKnown, Begun
<1>3. (\A c \in Callbacks : OwnRequest(c)') /\ IdsAreNew'
  BY DEF LoginInv, RestartServer, OwnRequest, IdsAreNew, Minted
<1>q. QED BY <1>1, <1>2, <1>3 DEF LoginInv

LEMMA AuthenticateKeeps ==
  ASSUME LoginInv, NEW n \in Logins, NEW i \in Identities, Authenticate(n, i)  PROVE LoginInv'
<1>1. LoginTypeOK'
  BY DEF LoginInv, LoginTypeOK, Authenticate
<1>2. \A d \in Browsers : OwnCookies(d)' /\ OwnSession(d)' /\ OwnerKnown(d)'
  BY DEF LoginInv, Authenticate, OwnCookies, OwnSession, OwnerKnown, Begun
<1>3. \A c \in Callbacks : OwnRequest(c)'
  BY DEF LoginInv, Authenticate, OwnRequest, Begun
<1>4. IdsAreNew'
  <2>1. \A m \in Logins : codes[m] = Spent => codes'[m] = Spent
    BY DEF LoginInv, LoginTypeOK, Authenticate
  <2>2. /\ \A d \in Callbacks : Minted(d) => callback[d].login \in Logins
        /\ \A e \in Spellings : users[e] # NoOwner => users[e] \in Logins
    BY KnownLogins DEF LoginInv
  <2>3. \A d \in Callbacks : Minted(d)' =>
          /\ Normal(callback'[d].email) = callback'[d].email
          /\ codes'[callback'[d].login] = Spent
          /\ callback'[d].at = "read" => users'[callback'[d].email] # NoOwner
    BY <2>1, <2>2 DEF LoginInv, IdsAreNew, Minted, Authenticate
  <2>4. \A d, k \in Callbacks : (Minted(d) /\ Minted(k))' /\ callback'[d].login = callback'[k].login => d = k
    BY <2>1 DEF LoginInv, IdsAreNew, Minted, Authenticate
  <2>5. \A e \in Spellings : users'[e] # NoOwner =>
          /\ codes'[users'[e]] = Spent
          /\ \A d \in Callbacks : callback'[d].at = "mint" => callback'[d].login # users'[e]
    BY <2>1, <2>2 DEF LoginInv, IdsAreNew, Authenticate
  <2>6. \A e, g \in Spellings : users'[e] = users'[g] /\ users'[e] # NoOwner => e = g
    BY DEF LoginInv, IdsAreNew, Authenticate
  <2>q. QED BY <2>3, <2>4, <2>5, <2>6 DEF IdsAreNew
<1>q. QED BY <1>1, <1>2, <1>3, <1>4 DEF LoginInv

LEMMA LoginStep == LoginInv /\ [LoginNext]_loginVars => LoginInv'
<1> SUFFICES ASSUME LoginInv, [LoginNext]_loginVars PROVE LoginInv'
  OBVIOUS
<1>1. CASE \E b \in Browsers : LoginHandler(b) \/ LogoutHandler(b) \/ CookiesLapse(b)
  BY <1>1, LoginHandlerKeeps, BrowserKeeps
<1>2. CASE \E c \in Callbacks : Exchange(c) \/ Mint(c) \/ ReadOwner(c)
  BY <1>2, ExchangeKeeps, MintKeeps, ReadOwnerKeeps
<1>3. CASE \E c \in Callbacks, b \in Browsers, state, code \in Logins : CallbackHandler(c, b, state, code)
  BY <1>3, CallbackHandlerKeeps
<1>4. CASE \E n \in Logins, i \in Identities : Authenticate(n, i)
  BY <1>4, AuthenticateKeeps
<1>5. CASE RestartServer
  BY <1>5, RestartKeeps
<1>6. CASE UNCHANGED loginVars
  BY <1>6 DEF loginVars, LoginInv, LoginTypeOK, OwnCookies, OwnSession, OwnerKnown, OwnRequest,
      IdsAreNew, Minted, Begun
<1>q. QED BY <1>1, <1>2, <1>3, <1>4, <1>5, <1>6 DEF LoginNext

LEMMA LoginInvHolds == LoginSpec => []LoginInv
  BY LoginInitInv, LoginStep, PTL DEF LoginSpec

\* UserDirectory: whatever first logins run at once, on however many servers,
\* and however an address is spelt, one person is one owner and two are two.
THEOREM OneOwner == LoginSpec => []OneOwnerEach
<1>1. LoginInv => OneOwnerEach
  <2> SUFFICES ASSUME LoginInv, NEW b \in Browsers, NEW d \in Browsers,
                      session[b] # NoSession, session[d] # NoSession
               PROVE session[b].owner = session[d].owner <=>
                       Normal(session[b].email) = Normal(session[d].email)
    BY DEF OneOwnerEach
  <2>1. /\ session[b].email \in Spellings /\ session[d].email \in Spellings
        /\ session[b].owner # NoOwner
    BY DEF LoginInv, LoginTypeOK
  <2>q. QED BY <2>1 DEF LoginInv, OwnerKnown, IdsAreNew
<1>q. QED BY <1>1, LoginInvHolds, PTL

\* OIDCHandler: a session's identity was given for a login begun in that
\* browser, whatever URLs it is sent to and whichever callbacks overlap.
THEOREM OwnLogin == LoginSpec => []SessionBegunHere
<1>1. LoginInv => SessionBegunHere
  BY DEF LoginInv, OwnSession, SessionBegunHere
<1>q. QED BY <1>1, LoginInvHolds, PTL

-----------------------------------------------------------------------------
(***************************************************************************)
(* The review gate                                                         *)
(***************************************************************************)
\* What run r has graded and read on its way to a verdict.
RunIsHonest(r) ==
  /\ granted[r] \subseteq conceded
  /\ stage[r] \in {"fetch", "list", "write", "green"} => Usable(answer[r])
  /\ stage[r] = "green" => Blocking(answer[r], granted[r]) = {}

\* One run is under way, the newest, and the one comment there is shows a run
\* no older than any that is green; what a run is about to edit is that comment.
OneThread ==
  /\ \A r \in Runs : /\ Under(r) => r = pushed
                     /\ pushed < r => stage[r] = "none"
                     /\ stage[r] # "late"
                     /\ stage[r] = "write" =>
                          IF target[r] = 0 THEN \A c \in Runs : comments[c] = 0
                          ELSE comments[target[r]] # 0
  /\ \A c \in Runs : comments[c] # 0 =>
       /\ \A d \in Runs : comments[d] # 0 => d = c
       /\ \A r \in Runs : stage[r] = "green" => comments[c] >= r

ReviewInv ==
  /\ ReviewTypeOK
  /\ accepting \subseteq conceded
  /\ \A r \in Runs : RunIsHonest(r)
  /\ overtaken \/ OneThread

HIDE DEF Logins, NoOwner, NoSession, NoCode, Spent, Idle, Identities, Sessions, Requests,
         Identified, Versions, Times, NoEntry, NoLookup, Held, Asked, Answered
USE ThresholdAssumption, StrangeAssumption, MaxRunsAssumption

LEMMA Least ==
  ASSUME NEW S \in SUBSET Nat, S # {}
  PROVE  \E x \in S : \A y \in S : x <= y
<1> DEFINE T == {0..x : x \in S}
<1>1. T \subseteq FiniteSubsetsOf(Nat) /\ T # {}
  <2>1. \A x \in S : IsFiniteSet(0..x)
    BY FS_Interval
  <2>2. ASSUME NEW x \in S PROVE 0..x \in FiniteSubsetsOf(Nat)
    BY <2>1 DEF FiniteSubsetsOf
  <2>q. QED BY <2>2
<1>2. PICK t \in T : \A u \in T : <<u, t>> \notin StrictSubsetOrdering(Nat)
  <2> HIDE DEF T
  <2>q. QED BY <1>1, WFMin, FS_StrictSubsetOrderingWellFounded
<1>3. PICK x \in S : t = 0..x
  OBVIOUS
<1>4. ASSUME NEW y \in S, y < x PROVE FALSE
  <2>1. 0..y \in SUBSET Nat /\ 0..x \in SUBSET Nat /\ 0..y \subseteq 0..x /\ 0..y # 0..x
    BY <1>4
  <2>2. <<0..y, 0..x>> \in StrictSubsetOrdering(Nat)
    BY <2>1 DEF StrictSubsetOrdering
  <2>q. QED BY <1>2, <1>3, <2>2
<1>q. QED BY <1>4

LEMMA ReviewInitInv == ReviewInit => ReviewInv
<1> SUFFICES ASSUME ReviewInit PROVE ReviewInv
  OBVIOUS
<1>1. NoAnswer \in Answers /\ 0 \in 0..MaxRuns
  BY DEF NoAnswer, Answers
<1>2. ReviewTypeOK
  BY <1>1 DEF ReviewInit, ReviewTypeOK
<1>3. (\A r \in Runs : RunIsHonest(r)) /\ OneThread
  BY DEF ReviewInit, RunIsHonest, OneThread, Under
<1>q. QED BY <1>2, <1>3 DEF ReviewInit, ReviewInv

LEMMA PushKeeps == ASSUME ReviewInv, Push PROVE ReviewInv'
<1>0. /\ pushed' = pushed + 1 /\ pushed + 1 \in Runs /\ pushed' \in 0..MaxRuns
      /\ UNCHANGED <<answer, granted, target, accepting, comments, conceded>>
  BY DEF Push, ReviewInv, ReviewTypeOK, Runs
<1>1. PICK late \in SUBSET {r \in Runs : stage[r] = "write"} :
        /\ stage' = [r \in Runs |-> IF r = pushed + 1 THEN "ask"
                                    ELSE IF r \in late THEN "late"
                                    ELSE IF Under(r) THEN "cancelled" ELSE stage[r]]
        /\ overtaken' = (overtaken \/ late # {})
  BY DEF Push
<1>2. ReviewTypeOK'
  <2>1. overtaken' \in BOOLEAN
    BY <1>1, Zenon DEF ReviewInv, ReviewTypeOK
  <2>q. QED BY <1>0, <1>1, <2>1 DEF ReviewInv, ReviewTypeOK
<1>3. ASSUME NEW r \in Runs PROVE RunIsHonest(r)'
  BY <1>0, <1>1 DEF ReviewInv, RunIsHonest, Blocking
<1>4. ASSUME ~overtaken' PROVE OneThread'
  <2>1. OneThread /\ late = {}
    BY <1>1, <1>4 DEF ReviewInv
  <2>2. pushed \in Nat
    BY DEF ReviewInv, ReviewTypeOK
  <2>3. ASSUME NEW r \in Runs
        PROVE  stage'[r] = IF r = pushed + 1 THEN "ask"
                           ELSE IF Under(r) THEN "cancelled" ELSE stage[r]
    BY <1>1, <2>1
  <2>q. QED BY <1>0, <2>1, <2>2, <2>3 DEF OneThread, Under, Runs
<1>q. QED BY <1>0, <1>2, <1>3, <1>4 DEF ReviewInv

LEMMA AskModelKeeps == ASSUME ReviewInv, NEW r \in Runs, AskModel(r) PROVE ReviewInv'
<1>0. /\ stage[r] = "ask" /\ \E to \in {"fetch", "red"} : Stage(r, to)
      /\ UNCHANGED <<pushed, granted, target, accepting, comments, conceded, overtaken>>
      /\ answer' \in [Runs -> Answers]
      /\ \A q \in Runs : q # r => answer'[q] = answer[q]
      /\ stage'[r] = "fetch" => Usable(answer'[r])
  BY DEF AskModel, ReviewInv, ReviewTypeOK, Stage
<1>1. ReviewTypeOK'
  BY <1>0 DEF ReviewInv, ReviewTypeOK, Stage
<1>2. ASSUME NEW q \in Runs PROVE RunIsHonest(q)'
  BY <1>0 DEF ReviewInv, ReviewTypeOK, RunIsHonest, Stage
<1>3. OneThread => OneThread'
  BY <1>0 DEF ReviewInv, ReviewTypeOK, OneThread, Under, Stage
<1>q. QED BY <1>0, <1>1, <1>2, <1>3 DEF ReviewInv

LEMMA FetchCommentsKeeps ==
  ASSUME ReviewInv, NEW r \in Runs, FetchComments(r)
  PROVE  ReviewInv'
<1>0. /\ stage[r] = "fetch" /\ \E to \in {"list", "red"} : Stage(r, to)
      /\ UNCHANGED <<pushed, answer, target, accepting, comments, conceded, overtaken>>
      /\ \A q \in Runs : granted'[q] = granted[q] \/ granted'[q] = accepting
      /\ granted' \in [Runs -> SUBSET Rules]
  BY DEF FetchComments, ReviewInv, ReviewTypeOK
<1>1. ReviewTypeOK'
  BY <1>0 DEF ReviewInv, ReviewTypeOK, Stage
<1>2. ASSUME NEW q \in Runs PROVE RunIsHonest(q)'
  <2>1. granted'[q] \subseteq conceded
    BY <1>0 DEF ReviewInv, RunIsHonest
  <2>2. CASE q = r
    BY <1>0, <2>1, <2>2 DEF ReviewInv, ReviewTypeOK, RunIsHonest, Stage
  <2>3. CASE q # r
    <3>1. granted'[q] = granted[q] /\ stage'[q] = stage[q]
      BY <1>0, <2>3 DEF FetchComments, ReviewInv, ReviewTypeOK, Stage
    <3>q. QED BY <1>0, <3>1 DEF ReviewInv, RunIsHonest
  <2>q. QED BY <2>2, <2>3
<1>3. OneThread => OneThread'
  BY <1>0 DEF ReviewInv, ReviewTypeOK, OneThread, Under, Stage
<1>q. QED BY <1>0, <1>1, <1>2, <1>3 DEF ReviewInv

LEMMA ListCommentsKeeps ==
  ASSUME ReviewInv, NEW r \in Runs, ListComments(r)
  PROVE  ReviewInv'
<1>0. /\ stage[r] = "list"
      /\ UNCHANGED <<pushed, answer, granted, accepting, comments, conceded, overtaken>>
  BY DEF ListComments
<1>1. \/ Stage(r, "red") /\ target' = target
      \/ /\ Stage(r, "write")
         /\ \/ Posted = {} /\ target' = [target EXCEPT ![r] = 0]
            \/ \E c \in Posted : target' = [target EXCEPT ![r] = c]
  <2>1. Posted \subseteq Nat
    BY DEF Posted, Runs
  <2>2. Posted # {} => (CHOOSE c \in Posted : \A d \in Posted : c <= d) \in Posted
    BY <2>1, Least
  <2>q. QED BY <2>2 DEF ListComments
<1>2. ReviewTypeOK'
  <2>1. Posted \subseteq 0..MaxRuns /\ 0 \in 0..MaxRuns
    BY DEF Posted, Runs
  <2>2. target' \in [Runs -> 0..MaxRuns]
    BY <1>1, <2>1 DEF ReviewInv, ReviewTypeOK
  <2>q. QED BY <1>0, <1>1, <2>2 DEF ReviewInv, ReviewTypeOK, Stage
<1>3. ASSUME NEW q \in Runs PROVE RunIsHonest(q)'
  BY <1>0, <1>1 DEF ReviewInv, ReviewTypeOK, RunIsHonest, Stage
<1>4. OneThread => OneThread'
  <2>1. CASE Stage(r, "red") /\ target' = target
    BY <1>0, <2>1 DEF ReviewInv, ReviewTypeOK, OneThread, Under, Stage
  <2>2. CASE Stage(r, "write") /\ Posted = {} /\ target' = [target EXCEPT ![r] = 0]
    BY <1>0, <2>2 DEF ReviewInv, ReviewTypeOK, OneThread, Under, Stage, Posted
  <2>3. ASSUME NEW c \in Posted, Stage(r, "write"), target' = [target EXCEPT ![r] = c]
        PROVE  OneThread => OneThread'
    <3>1. c \in Runs /\ comments[c] # 0 /\ c # 0
      BY DEF Posted, Runs
    <3>q. QED BY <1>0, <2>3, <3>1 DEF ReviewInv, ReviewTypeOK, OneThread, Under, Stage
  <2>q. QED BY <1>1, <2>1, <2>2, <2>3
<1>q. QED BY <1>0, <1>2, <1>3, <1>4 DEF ReviewInv

LEMMA WrittenTypes ==
  ASSUME ReviewInv, NEW r \in Runs, Written(r) \/ comments' = comments
  PROVE  comments' \in [Runs -> 0..MaxRuns]
<1>1. r \in 0..MaxRuns /\ comments \in [Runs -> 0..MaxRuns]
  BY DEF ReviewInv, ReviewTypeOK, Runs
<1>q. QED BY <1>1 DEF Written

LEMMA WriteCommentKeeps ==
  ASSUME ReviewInv, NEW r \in Runs, WriteComment(r)
  PROVE  ReviewInv'
<1>0. /\ stage[r] = "write" /\ \E to \in {"green", "red"} : Stage(r, to)
      /\ stage'[r] = "green" => Written(r) /\ Blocking(answer[r], granted[r]) = {}
      /\ Written(r) \/ comments' = comments
      /\ UNCHANGED <<pushed, answer, granted, target, accepting, conceded, overtaken>>
  BY DEF WriteComment, ReviewInv, ReviewTypeOK, Stage
<1> DEFINE c == IF target[r] = 0 THEN r ELSE target[r]
<1>1. c \in Runs /\ (Written(r) => comments' = [comments EXCEPT ![c] = r])
  BY DEF Written, ReviewInv, ReviewTypeOK, Runs
<1>2. ReviewTypeOK'
  <2>1. comments' \in [Runs -> 0..MaxRuns]
    BY <1>0, WrittenTypes
  <2>q. QED BY <1>0, <2>1 DEF ReviewInv, ReviewTypeOK, Stage
<1>3. ASSUME NEW q \in Runs PROVE RunIsHonest(q)'
  BY <1>0 DEF ReviewInv, ReviewTypeOK, RunIsHonest, Stage
<1>4. OneThread => OneThread'
  <2> SUFFICES ASSUME OneThread PROVE OneThread'
    OBVIOUS
  <2>1. ASSUME NEW q \in Runs
        PROVE  /\ Under(q)' => q = pushed
               /\ pushed < q => stage'[q] = "none"
               /\ stage'[q] # "late" /\ stage'[q] # "write"
    BY <1>0 DEF ReviewInv, ReviewTypeOK, OneThread, Under, Stage
  <2>2. r = pushed /\ \A q \in Runs : stage'[q] = "green" => q <= r
    <3>1. r = pushed
      BY <1>0 DEF OneThread, Under
    <3>2. ASSUME NEW q \in Runs, stage'[q] = "green" PROVE ~(r < q)
      BY <2>1, <3>1, <3>2
    <3>3. pushed \in Nat
      BY DEF ReviewInv, ReviewTypeOK
    <3>q. QED BY <3>1, <3>2, <3>3 DEF Runs
  <2>3. CASE Written(r)
    <3>1. \A d \in Runs : comments'[d] # 0 => d = c
      BY <1>0, <1>1, <2>3 DEF ReviewInv, ReviewTypeOK, OneThread
    <3>2. comments'[c] = r
      BY <1>1, <2>3 DEF ReviewInv, ReviewTypeOK
    <3>3. \A q \in Runs : stage'[q] = "green" => r >= q
      BY <2>2 DEF Runs
    <3>q. QED BY <1>0, <2>1, <3>1, <3>2, <3>3 DEF OneThread
  <2>4. CASE stage'[r] # "green" /\ comments' = comments
    <3>1. \A q \in Runs : stage'[q] = "green" => stage[q] = "green"
      BY <1>0, <2>4 DEF ReviewInv, ReviewTypeOK, Stage
    <3>q. QED BY <1>0, <2>1, <2>4, <3>1 DEF OneThread
  <2>q. QED BY <1>0, <2>3, <2>4
<1>q. QED BY <1>0, <1>2, <1>3, <1>4 DEF ReviewInv

LEMMA LateCommentKeeps ==
  ASSUME ReviewInv, NEW r \in Runs, LateComment(r)
  PROVE  ReviewInv'
<1>0. /\ overtaken /\ Stage(r, "cancelled")
      /\ UNCHANGED <<pushed, answer, granted, target, accepting, conceded, overtaken>>
  BY DEF LateComment, ReviewInv, OneThread
<1>1. ReviewTypeOK'
  <2>1. comments' \in [Runs -> 0..MaxRuns]
    BY WrittenTypes DEF LateComment
  <2>q. QED BY <1>0, <2>1 DEF ReviewInv, ReviewTypeOK, Stage
<1>2. ASSUME NEW q \in Runs PROVE RunIsHonest(q)'
  BY <1>0 DEF ReviewInv, ReviewTypeOK, RunIsHonest, Stage
<1>q. QED BY <1>0, <1>1, <1>2 DEF ReviewInv

LEMMA AcceptKeeps == ASSUME ReviewInv, NEW rule \in Rules, Accept(rule) PROVE ReviewInv'
<1>0. /\ UNCHANGED <<pushed, stage, answer, granted, target, comments, overtaken>>
      /\ accepting' \subseteq Rules /\ accepting' \subseteq conceded'
      /\ conceded \subseteq conceded' /\ conceded' \subseteq Rules
  BY DEF Accept, ReviewInv, ReviewTypeOK
<1>1. ReviewTypeOK'
  BY <1>0 DEF ReviewInv, ReviewTypeOK
<1>2. ASSUME NEW q \in Runs PROVE RunIsHonest(q)'
  BY <1>0 DEF ReviewInv, RunIsHonest
<1>3. OneThread => OneThread'
  BY <1>0 DEF OneThread, Under
<1>q. QED BY <1>0, <1>1, <1>2, <1>3 DEF ReviewInv

LEMMA ReviewInvHolds == ReviewSpec => []ReviewInv
<1>1. ReviewInv /\ [ReviewNext]_reviewVars => ReviewInv'
  <2> SUFFICES ASSUME ReviewInv, [ReviewNext]_reviewVars PROVE ReviewInv'
    OBVIOUS
  <2>1. CASE ReviewNext
    BY <2>1, PushKeeps, AskModelKeeps, FetchCommentsKeeps, ListCommentsKeeps, WriteCommentKeeps,
       LateCommentKeeps, AcceptKeeps DEF ReviewNext
  <2>2. CASE UNCHANGED reviewVars
    BY <2>2 DEF reviewVars, ReviewInv, ReviewTypeOK, RunIsHonest, OneThread, Under
  <2>q. QED BY <2>1, <2>2
<1>q. QED BY ReviewInitInv, <1>1, PTL DEF ReviewSpec

\* internal/review: whatever models answer and people write, a run is green only
\* with a readable review whose blocking findings somebody accepted.
THEOREM Earned == ReviewSpec => []GreenIsEarned
<1>1. ASSUME ReviewInv, NEW r \in Runs, stage[r] = "green"
      PROVE  /\ answer[r].list /\ answer[r].found \subseteq Rules
             /\ \A rule \in answer[r].found : Severity(rule) >= Threshold => rule \in conceded
  <2>1. /\ Usable(answer[r]) /\ Blocking(answer[r], granted[r]) = {}
        /\ granted[r] \subseteq conceded
    BY <1>1 DEF ReviewInv, RunIsHonest
  <2>2. answer[r].list /\ answer[r].found \subseteq Rules
    BY <2>1 DEF Usable
  <2>q. QED BY <2>1, <2>2 DEF Blocking
<1>2. ReviewInv => GreenIsEarned
  BY <1>1 DEF GreenIsEarned
<1>q. QED BY <1>2, ReviewInvHolds, PTL

\* upsertComment: however runs are pushed, cancelled and failing, there is one
\* comment, of the newest run that posted, until a cancelled run's is on its way.
THEOREM OneThreadOnly == ReviewSpec => []OneNewestVerdict
<1>1. ASSUME ReviewInv, OneThread
      PROVE  /\ Cardinality(Posted) <= 1
             /\ \A c \in Posted, r \in Runs : stage[r] = "green" => comments[c] >= r
  <2>1. CASE Posted = {}
    BY <2>1, FS_EmptySet
  <2>2. ASSUME NEW c \in Posted
        PROVE  Cardinality(Posted) = 1
    <3>1. Posted = {c}
      BY <1>1 DEF OneThread, Posted
    <3>q. QED BY <3>1, FS_Singleton
  <2>3. Cardinality(Posted) <= 1
    BY <2>1, <2>2, FS_EmptySet
  <2>q. QED BY <1>1, <2>3 DEF OneThread, Posted
<1>2. ReviewInv => OneNewestVerdict
  BY <1>1 DEF ReviewInv, OneNewestVerdict
<1>q. QED BY <1>2, ReviewInvHolds, PTL

-----------------------------------------------------------------------------
(***************************************************************************)
(* The chat                                                                *)
(***************************************************************************)
CallIds == Nat \X Nat
Spoken == {Says("user"), Says("assistant")}
Message ==
  Spoken \cup {Says("system")} \cup {Asks(ids) : ids \in Seq(CallIds)}
    \cup {ToolAnswer(id, failed) : id \in CallIds, failed \in BOOLEAN}

IsAsk(m) == m.role = "assistant" /\ "ids" \in DOMAIN m

\* The conversation of the page: it ends with an answer, and so does each
\* question in it.
QuestionsAnswered(c) ==
  /\ c \in Seq(Spoken) /\ \E n \in Nat : Len(c) = 2 * n
  /\ \A i \in 1..Len(c) : c[i].role = "user" => i < Len(c) /\ c[i + 1] = Says("assistant")

\* A request ms to the model: the conversation c between the instructions and
\* the question, and what the model and the tools said to it.
Transcript(ms, c) ==
  /\ ms \in Seq(Message) /\ Len(c) + 2 <= Len(ms)
  /\ ms[1] = Says("system") /\ ms[Len(c) + 2] = Says("user")
  /\ \A i \in 1..Len(c) : ms[i + 1] = c[i]
  /\ \A i \in 1..Len(ms) : Len(c) + 2 < i => ms[i].role # "user"

AskAnswered(ms, i) ==
  IsAsk(ms[i]) => \A k \in 1..Len(ms[i].ids) :
    i + k <= Len(ms) /\ ms[i + k].role = "tool" /\ ms[i + k].id = ms[i].ids[k]

AnswerAsked(ms, i) ==
  ms[i].role = "tool" => \E j \in 1..(i - 1) : IsAsk(ms[j]) /\ i <= j + Len(ms[j].ids)

AllAnswered(ms) == \A i \in 1..Len(ms) : AskAnswered(ms, i) /\ AnswerAsked(ms, i)

\* The calls of message l, of turn t, are being answered in their order: those
\* up to the end of the request are, and n are not.
Pending(ms, l, t, n) ==
  /\ IsAsk(ms[l]) /\ Len(ms) + n = l + Len(ms[l].ids)
  /\ \A k \in 1..Len(ms[l].ids) : ms[l].ids[k] = <<t, k>>
  /\ \A k \in 1..(Len(ms) - l) : ms[l + k].role = "tool" /\ ms[l + k].id = <<t, k>>
  /\ \A i \in 1..(l - 1) : AskAnswered(ms, i)
  /\ \A i \in 1..Len(ms) : AnswerAsked(ms, i)

ChatInv ==
  /\ ChatTypeOK
  /\ QuestionsAnswered(conversation)
  /\ calls \in Seq(Tools \cup {NoSuchTool}) /\ messages \in Seq(Message)
  /\ stream # "none" => Len(conversation) < 2 * MaxExchanges
  /\ stream \in {"model", "tools"} => Transcript(messages, conversation) /\ turn < MaxTurns
  /\ stream = "model" => AllAnswered(messages)
  /\ stream = "tools" => \E l \in 1..Len(messages) : Pending(messages, l, turn, Len(calls))

USE TurnsAssumption

LEMMA Roles ==
  /\ \A role : Says(role).role = role /\ ~IsAsk(Says(role))
  /\ \A ids : Asks(ids).role = "assistant" /\ Asks(ids).ids = ids /\ IsAsk(Asks(ids))
  /\ \A id, failed : /\ ToolAnswer(id, failed).role = "tool" /\ ToolAnswer(id, failed).id = id
                     /\ ~IsAsk(ToolAnswer(id, failed))
  BY DEF Says, Asks, ToolAnswer, IsAsk

LEMMA MessageRoles ==
  ASSUME NEW m \in Message
  PROVE  m.role \in {"system", "user", "assistant", "tool"}
  BY Roles DEF Message, Spoken

\* A message more: the ones before it stay, and an answer that was asked for is
\* so still.
LEMMA OneMoreMessage ==
  ASSUME NEW ms \in Seq(Message), NEW m \in Message
  PROVE  /\ Append(ms, m) \in Seq(Message) /\ Len(Append(ms, m)) = Len(ms) + 1
         /\ \A i \in 1..Len(ms) : Append(ms, m)[i] = ms[i]
         /\ Append(ms, m)[Len(ms) + 1] = m
         /\ \A i \in 1..Len(ms) : AskAnswered(ms, i) => AskAnswered(Append(ms, m), i)
         /\ \A i \in 1..Len(ms) : AnswerAsked(ms, i) => AnswerAsked(Append(ms, m), i)
<1> DEFINE more == Append(ms, m)
<1>1. /\ more \in Seq(Message) /\ Len(more) = Len(ms) + 1
      /\ \A i \in 1..Len(ms) : more[i] = ms[i]
      /\ more[Len(ms) + 1] = m
  BY AppendProperties
<1>2. Len(ms) \in Nat
  BY LenProperties
<1> HIDE DEF more
<1>3. ASSUME NEW i \in 1..Len(ms), AskAnswered(ms, i) PROVE AskAnswered(more, i)
  <2>1. more[i] = ms[i]
    BY <1>1
  <2> SUFFICES ASSUME IsAsk(ms[i]), NEW k \in 1..Len(ms[i].ids)
               PROVE  /\ i + k <= Len(more) /\ more[i + k].role = "tool"
                      /\ more[i + k].id = ms[i].ids[k]
    BY <2>1 DEF AskAnswered
  <2>2. i + k <= Len(ms) /\ ms[i + k].role = "tool" /\ ms[i + k].id = ms[i].ids[k]
    BY <1>3 DEF AskAnswered
  <2>3. i + k \in 1..Len(ms)
    BY <1>2, <2>2
  <2>q. QED BY <1>1, <1>2, <2>2, <2>3
<1>4. ASSUME NEW i \in 1..Len(ms), AnswerAsked(ms, i) PROVE AnswerAsked(more, i)
  <2>1. more[i] = ms[i] /\ \A j \in 1..(i - 1) : more[j] = ms[j]
    BY <1>1, <1>2
  <2>q. QED BY <1>4, <2>1 DEF AnswerAsked
<1>q. QED BY <1>1, <1>3, <1>4 DEF more

LEMMA TranscriptGrows ==
  ASSUME NEW ms, NEW c, QuestionsAnswered(c), Transcript(ms, c),
         NEW more \in Seq(Message), Len(more) = Len(ms) + 1,
         \A i \in 1..Len(ms) : more[i] = ms[i], more[Len(ms) + 1].role # "user"
  PROVE  Transcript(more, c)
<1>1. Len(c) \in Nat /\ Len(ms) \in Nat /\ Len(c) + 2 <= Len(ms)
  BY LenProperties DEF QuestionsAnswered, Transcript
<1>2. /\ 1 \in 1..Len(ms) /\ Len(c) + 2 \in 1..Len(ms)
      /\ \A i \in 1..Len(c) : i + 1 \in 1..Len(ms)
      /\ \A i \in 1..Len(more) : i = Len(ms) + 1 \/ i \in 1..Len(ms)
  BY <1>1
<1>3. \A i \in 1..Len(more) : Len(c) + 2 < i => more[i].role # "user"
  BY <1>2 DEF Transcript
<1>q. QED BY <1>1, <1>2, <1>3 DEF Transcript

LEMMA ChatInitInv == ChatInit => ChatInv
<1> SUFFICES ASSUME ChatInit PROVE ChatInv
  OBVIOUS
<1>1. /\ conversation = <<>> /\ messages = <<>> /\ calls = <<>> /\ stream = "none" /\ turn = 0
      /\ Len(conversation) = 0 /\ Len(calls) = 0 /\ DOMAIN conversation = {} /\ DOMAIN messages = {}
  BY DEF ChatInit
<1>2. ChatTypeOK
  BY <1>1 DEF ChatTypeOK
<1>3. QuestionsAnswered(conversation)
  <2>1. 0 = 2 * 0
    OBVIOUS
  <2>q. QED BY <1>1, <2>1 DEF QuestionsAnswered
<1>q. QED BY <1>1, <1>2, <1>3 DEF ChatInv

\* A conversation and one exchange more.
LEMMA OneMoreExchange ==
  ASSUME NEW c, QuestionsAnswered(c)
  PROVE  LET more == c \o <<Says("user"), Says("assistant")>>
         IN  QuestionsAnswered(more) /\ Len(more) = Len(c) + 2
<1> DEFINE pair == <<Says("user"), Says("assistant")>>
           more == c \o pair
<1>0. c \in Seq(Spoken) /\ Len(c) \in Nat
  BY LenProperties DEF QuestionsAnswered
<1>1. pair \in Seq(Spoken) /\ Len(pair) = 2 /\ pair[1] = Says("user") /\ pair[2] = Says("assistant")
  BY DEF Spoken
<1>2. /\ more \in Seq(Spoken) /\ Len(more) = Len(c) + 2
      /\ \A i \in 1..Len(more) : more[i] = IF i <= Len(c) THEN c[i] ELSE pair[i - Len(c)]
  BY <1>0, <1>1, ConcatProperties
<1> HIDE DEF pair, more
<1>3. \E n \in Nat : Len(more) = 2 * n
  <2>1. PICK n \in Nat : Len(c) = 2 * n
    BY DEF QuestionsAnswered
  <2>2. n + 1 \in Nat /\ Len(more) = 2 * (n + 1)
    BY <1>2, <2>1
  <2>q. QED BY <2>2
<1>4. ASSUME NEW i \in 1..Len(more), more[i].role = "user"
      PROVE  i < Len(more) /\ more[i + 1] = Says("assistant")
  <2>1. CASE i <= Len(c)
    <3>1. i < Len(c) /\ c[i + 1] = Says("assistant")
      BY <1>0, <1>2, <1>4, <2>1 DEF QuestionsAnswered
    <3>q. QED BY <1>0, <1>2, <3>1
  <2>2. CASE i = Len(c) + 1
    BY <1>0, <1>1, <1>2, <2>2
  <2>3. CASE i = Len(c) + 2
    <3>1. more[i] = Says("assistant")
      BY <1>0, <1>1, <1>2, <2>3
    <3>q. QED BY <1>4, <3>1 DEF Says
  <2>q. QED BY <1>0, <1>2, <2>1, <2>2, <2>3
<1>5. QuestionsAnswered(more)
  BY <1>2, <1>3, <1>4 DEF QuestionsAnswered
<1>q. QED BY <1>2, <1>5 DEF more, pair

LEMMA PageSendKeeps == ASSUME ChatInv, PageSend PROVE ChatInv'
<1> DEFINE c == conversation
           n == Len(conversation)
           front == <<Says("system")>> \o c
           ms == front \o <<Says("user")>>
<1>0. /\ c \in Seq(Spoken) /\ n \in Nat /\ n < 2 * MaxExchanges
      /\ messages' = ms /\ stream' = "model" /\ turn' = 0 /\ UNCHANGED <<conversation, calls>>
  BY LenProperties DEF ChatInv, QuestionsAnswered, PageSend
<1>1. c \in Seq(Message) /\ <<Says("system")>> \in Seq(Message) /\ <<Says("user")>> \in Seq(Message)
  <2>1. Spoken \subseteq Message /\ Says("system") \in Message /\ Says("user") \in Message
    BY DEF Message, Spoken
  <2>q. QED BY <1>0, <2>1, SeqMonotonic
<1>2. /\ front \in Seq(Message) /\ Len(front) = n + 1
      /\ front[1] = Says("system") /\ \A i \in 1..n : front[i + 1] = c[i]
  <2>1. /\ front \in Seq(Message) /\ Len(front) = 1 + n
        /\ \A i \in 1..(1 + n) : front[i] = IF i <= 1 THEN <<Says("system")>>[i] ELSE c[i - 1]
    BY <1>1, ConcatProperties
  <2>q. QED BY <1>0, <2>1
<1>3. /\ ms \in Seq(Message) /\ Len(ms) = n + 2 /\ ms[n + 2] = Says("user")
      /\ \A i \in 1..(n + 1) : ms[i] = front[i]
  <2>1. /\ ms \in Seq(Message) /\ Len(ms) = n + 1 + 1
        /\ \A i \in 1..(n + 1 + 1) : ms[i] = IF i <= n + 1 THEN front[i]
                                            ELSE <<Says("user")>>[i - (n + 1)]
    BY <1>1, <1>2, ConcatProperties
  <2>q. QED BY <1>0, <2>1
<1> HIDE DEF front, ms
<1>4. ms[1] = Says("system") /\ \A i \in 1..n : ms[i + 1] = c[i]
  BY <1>0, <1>2, <1>3
<1>5. Transcript(ms, c)
  BY <1>0, <1>3, <1>4 DEF Transcript
<1>6. AllAnswered(ms)
  <2>1. ASSUME NEW i \in 1..Len(ms)
        PROVE  \E role \in {"system", "user", "assistant"} : ms[i] = Says(role)
    <3>1. i = 1 \/ i = n + 2 \/ (i - 1 \in 1..n /\ (i - 1) + 1 = i)
      BY <1>0, <1>3
    <3>2. ASSUME NEW j \in 1..n PROVE c[j] \in Spoken
      BY <1>0, <3>2, ElementOfSeq
    <3>q. QED BY <1>3, <1>4, <3>1, <3>2 DEF Spoken
  <2>2. ASSUME NEW i \in 1..Len(ms) PROVE ~IsAsk(ms[i]) /\ ms[i].role # "tool"
    BY <2>1, Roles
  <2>q. QED BY <2>2 DEF AllAnswered, AskAnswered, AnswerAsked
<1>7. ChatTypeOK'
  <2>1. \A i \in DOMAIN ms : ms[i].role \in {"system", "user", "assistant", "tool"}
    BY <1>3, MessageRoles, ElementOfSeq, LenProperties
  <2>q. QED BY <1>0, <2>1 DEF ChatInv, ChatTypeOK
<1>q. QED BY <1>0, <1>3, <1>5, <1>6, <1>7 DEF ChatInv

\* The page forgets what is under way.
LEMMA PageForgets ==
  ASSUME ChatInv, stream' = "none", messages' = <<>>, turn' = 0, calls' = <<>>,
         \/ conversation' = conversation
         \/ conversation' = <<>>
         \/ stream # "none" /\ conversation' = conversation \o <<Says("user"), Says("assistant")>>
  PROVE  ChatInv'
<1>1. QuestionsAnswered(conversation') /\ Len(conversation') \in 0..(2 * MaxExchanges)
  <2>1. CASE conversation' = conversation
    BY <2>1 DEF ChatInv, ChatTypeOK
  <2>2. CASE conversation' = <<>>
    <3>1. 0 = 2 * 0 /\ Len(<<>>) = 0
      OBVIOUS
    <3>q. QED BY <2>2, <3>1 DEF QuestionsAnswered
  <2>3. CASE stream # "none" /\ conversation' = conversation \o <<Says("user"), Says("assistant")>>
    <3>1. QuestionsAnswered(conversation') /\ Len(conversation') = Len(conversation) + 2
      BY <2>3, OneMoreExchange DEF ChatInv
    <3>2. PICK n \in Nat : Len(conversation) = 2 * n
      BY DEF ChatInv, QuestionsAnswered
    <3>3. 2 * n < 2 * MaxExchanges
      BY <2>3, <3>2 DEF ChatInv
    <3>4. 2 * n + 2 <= 2 * MaxExchanges
      BY <3>3
    <3>q. QED BY <3>1, <3>2, <3>4
  <2>q. QED BY <2>1, <2>2, <2>3
<1>2. ASSUME NEW i \in DOMAIN conversation' PROVE conversation'[i].role \in {"user", "assistant"}
  <2>1. conversation' \in Seq(Spoken)
    BY <1>1 DEF QuestionsAnswered
  <2>2. conversation'[i] \in Spoken
    BY <1>2, <2>1, LenProperties, ElementOfSeq
  <2>q. QED BY <2>2, Roles DEF Spoken
<1>3. Len(<<>>) = 0 /\ DOMAIN <<>> = {}
  OBVIOUS
<1>4. ChatTypeOK'
  BY <1>1, <1>2, <1>3 DEF ChatTypeOK
<1>q. QED BY <1>1, <1>4 DEF ChatInv

LEMMA callLLMKeeps == ASSUME ChatInv, callLLM PROVE ChatInv'
<1>1. CASE Reply
  BY <1>1 DEF Reply, callLLM, ChatInv, ChatTypeOK
<1>2. ASSUME NEW asked \in Calls, calls' = asked, stream' = "tools",
             messages' = Append(messages, Asks([k \in DOMAIN asked |-> Id(k)])),
             UNCHANGED <<conversation, turn>>
      PROVE  ChatInv'
  <2> DEFINE ids == [k \in DOMAIN asked |-> Id(k)]
             m == Asks(ids)
             l == Len(messages) + 1
  <2>1. PICK n \in 0..MaxCalls : asked \in [1..n -> toolSchemas \cup {NoSuchTool}]
    BY DEF Calls
  <2>2. asked \in Seq(Tools \cup {NoSuchTool}) /\ Len(asked) = n
    BY <2>1 DEF toolSchemas
  <2>3. /\ ids \in Seq(CallIds) /\ Len(ids) = n /\ turn \in Nat
        /\ \A k \in 1..n : ids[k] = <<turn, k>>
    BY <2>1 DEF CallIds, Id, ChatInv, ChatTypeOK
  <2> HIDE DEF ids
  <2>4. m \in Message
    BY <2>3 DEF Message
  <2>5. /\ messages \in Seq(Message) /\ Transcript(messages, conversation) /\ turn < MaxTurns
        /\ AllAnswered(messages) /\ Len(messages) \in Nat
    BY LenProperties DEF ChatInv, callLLM
  <2> HIDE DEF m
  <2>6. /\ messages' \in Seq(Message) /\ Len(messages') = l
        /\ \A i \in 1..Len(messages) : messages'[i] = messages[i]
        /\ messages'[l] = m
        /\ \A i \in 1..Len(messages) : AskAnswered(messages', i) /\ AnswerAsked(messages', i)
    BY <1>2, <2>4, <2>5, OneMoreMessage DEF AllAnswered, m, ids
  <2>7. IsAsk(m) /\ m.ids = ids /\ m.role = "assistant"
    BY Roles DEF m
  <2>8. Transcript(messages', conversation')
    BY <1>2, <2>5, <2>6, <2>7, TranscriptGrows DEF ChatInv
  <2>9. Pending(messages', l, turn', Len(calls'))
    <3>1. AnswerAsked(messages', l)
      BY <2>6, <2>7 DEF AnswerAsked
    <3>2. \A i \in 1..Len(messages') : i = l \/ i \in 1..Len(messages)
      BY <2>5, <2>6
    <3>3. Len(messages') - l = 0 /\ Len(messages') + Len(calls') = l + Len(ids)
      BY <1>2, <2>2, <2>3, <2>5, <2>6
    <3>4. \A i \in 1..(l - 1) : AskAnswered(messages', i)
      BY <2>5, <2>6
    <3>5. \A i \in 1..Len(messages') : AnswerAsked(messages', i)
      BY <2>6, <3>1, <3>2
    <3>6. IsAsk(messages'[l]) /\ messages'[l].ids = ids
      BY <2>6, <2>7
    <3>7. \A k \in 1..Len(messages'[l].ids) : messages'[l].ids[k] = <<turn', k>>
      BY <1>2, <2>3, <3>6
    <3>8. Len(messages') + Len(calls') = l + Len(messages'[l].ids)
      BY <3>3, <3>6
    <3>9. \A k \in 1..(Len(messages') - l) : FALSE
      BY <3>3
    <3>q. QED BY <3>4, <3>5, <3>6, <3>7, <3>8, <3>9 DEF Pending
  <2>10. ChatTypeOK'
    <3>1. \A i \in DOMAIN messages' : messages'[i].role \in {"system", "user", "assistant", "tool"}
      BY <2>6, MessageRoles, ElementOfSeq, LenProperties
    <3>q. QED BY <1>2, <2>2, <3>1 DEF ChatInv, ChatTypeOK
  <2>11. l \in 1..Len(messages') /\ Len(conversation) < 2 * MaxExchanges
    BY <2>5, <2>6 DEF ChatInv, callLLM
  <2>q. QED BY <1>2, <2>2, <2>5, <2>6, <2>8, <2>9, <2>10, <2>11 DEF ChatInv
<1>q. QED BY <1>1, <1>2 DEF callLLM

\* The message whose calls are run is the last one that makes any.
LEMMA LastAskedIs ==
  ASSUME messages \in Seq(Message), NEW l \in 1..Len(messages), NEW n,
         Pending(messages, l, turn, n)
  PROVE  LastAsked = l
<1>0. Len(messages) \in Nat /\ DOMAIN messages = 1..Len(messages)
  BY LenProperties
<1>1. \A j \in DOMAIN messages : j > l => messages[j].role = "tool"
  <2>1. ASSUME NEW j \in DOMAIN messages, j > l PROVE j - l \in 1..(Len(messages) - l) /\ l + (j - l) = j
    BY <1>0, <2>1
  <2>q. QED BY <2>1 DEF Pending
<1>2. messages[l].role = "assistant" /\ "ids" \in DOMAIN messages[l]
  BY DEF Pending, IsAsk
<1>3. ASSUME NEW i \in DOMAIN messages, messages[i].role = "assistant",
             \A j \in DOMAIN messages : j > i => messages[j].role = "tool"
      PROVE  i = l
  BY <1>0, <1>1, <1>2, <1>3
<1>q. QED BY <1>0, <1>1, <1>2, <1>3 DEF LastAsked

LEMMA ExecuteToolKeeps == ASSUME ChatInv, ExecuteTool PROVE ChatInv'
<1>0. /\ stream = "tools" /\ calls # <<>> /\ calls' = Tail(calls)
      /\ UNCHANGED <<conversation, stream, turn>>
      /\ messages \in Seq(Message) /\ Transcript(messages, conversation) /\ turn < MaxTurns
      /\ turn \in Nat /\ Len(messages) \in Nat
  BY LenProperties DEF ExecuteTool, ChatInv, ChatTypeOK
<1>1. PICK l \in 1..Len(messages) : Pending(messages, l, turn, Len(calls))
  BY <1>0 DEF ChatInv
<1> DEFINE k == Len(messages) - l + 1
           now == Len(messages) + 1
<1>2. PICK failed \in BOOLEAN : messages' = Append(messages, ToolAnswer(<<turn, k>>, failed))
  <2>1. LastAsked = l
    BY <1>0, <1>1, LastAskedIs
  <2>2. \E failed \in dispatchTool(Head(calls)) :
          messages' = Append(messages, ToolAnswer(<<turn, k>>, failed))
    BY <2>1 DEF ExecuteTool, Id
  <2>3. dispatchTool(Head(calls)) \subseteq BOOLEAN
    BY DEF dispatchTool
  <2>q. QED BY <2>2, <2>3
<1> DEFINE m == ToolAnswer(<<turn, k>>, failed)
<1>3. k \in Nat /\ m \in Message
  BY <1>0 DEF Message, CallIds
<1>4. /\ calls' \in Seq(Tools \cup {NoSuchTool}) /\ Len(calls') = Len(calls) - 1
      /\ Len(calls) \in Nat /\ Len(calls) # 0
  BY <1>0, HeadTailProperties, LenProperties, EmptySeq DEF ChatInv
<1>5. m.role = "tool" /\ m.id = <<turn, k>>
  BY Roles
<1> HIDE DEF m
<1>6. /\ messages' \in Seq(Message) /\ Len(messages') = now
      /\ \A i \in 1..Len(messages) : messages'[i] = messages[i]
      /\ messages'[now] = m
      /\ \A i \in 1..Len(messages) : AskAnswered(messages, i) => AskAnswered(messages', i)
      /\ \A i \in 1..Len(messages) : AnswerAsked(messages, i) => AnswerAsked(messages', i)
  <2>1. messages \in Seq(Message) /\ m \in Message /\ messages' = Append(messages, m)
    BY <1>0, <1>2, <1>3 DEF m
  <2>q. QED BY <2>1, OneMoreMessage
<1>7. Transcript(messages', conversation')
  BY <1>0, <1>5, <1>6, TranscriptGrows DEF ChatInv
<1>8. Pending(messages', l, turn', Len(calls'))
  <2>1. messages'[l] = messages[l] /\ IsAsk(messages[l]) /\ Len(messages[l].ids) \in Nat
        /\ Len(messages) + Len(calls) = l + Len(messages[l].ids)
    <3>1. messages[l] \in Message
      BY <1>0, ElementOfSeq
    <3>2. Len(messages[l].ids) \in Nat
      BY <1>1, <3>1, Roles, LenProperties DEF Message, Pending, Spoken
    <3>q. QED BY <1>1, <1>6, <3>2 DEF Pending
  <2>2. AnswerAsked(messages', now)
    <3>1. l \in 1..(now - 1) /\ now <= l + Len(messages'[l].ids)
      BY <1>0, <1>4, <2>1
    <3>q. QED BY <1>6, <2>1, <3>1 DEF AnswerAsked
  <2>3. \A i \in 1..Len(messages') : i = now \/ i \in 1..Len(messages)
    BY <1>0, <1>6
  <2>4. ASSUME NEW j \in 1..(Len(messages') - l)
        PROVE  messages'[l + j].role = "tool" /\ messages'[l + j].id = <<turn, j>>
    <3>1. CASE j = k
      BY <1>0, <1>5, <1>6, <3>1
    <3>2. CASE j # k
      <4>1. j \in 1..(Len(messages) - l) /\ l + j \in 1..Len(messages)
        BY <1>0, <1>6, <3>2
      <4>q. QED BY <1>1, <1>6, <4>1 DEF Pending
    <3>q. QED BY <3>1, <3>2
  <2>5. Len(messages') + Len(calls') = l + Len(messages'[l].ids)
    <3>1. Len(messages') = Len(messages) + 1
      BY <1>6
    <3>2. Len(messages'[l].ids) = Len(messages[l].ids)
      BY <2>1
    <3>3. /\ Len(messages) \in Nat /\ Len(calls) \in Nat /\ Len(calls') = Len(calls) - 1
          /\ Len(messages) + Len(calls) = l + Len(messages[l].ids)
      BY <1>0, <1>4, <2>1
    <3>4. Len(messages') + Len(calls') = l + Len(messages[l].ids)
      BY <3>1, <3>3
    <3>q. QED BY <3>2, <3>4
  <2>6. \A i \in 1..(l - 1) : AskAnswered(messages', i)
    BY <1>0, <1>1, <1>6 DEF Pending
  <2>7. \A i \in 1..Len(messages') : AnswerAsked(messages', i)
    BY <1>1, <1>6, <2>2, <2>3 DEF Pending
  <2>8. \A j \in 1..Len(messages'[l].ids) : messages'[l].ids[j] = <<turn', j>>
    BY <1>0, <1>1, <2>1 DEF Pending
  <2>q. QED BY <1>0, <2>1, <2>4, <2>5, <2>6, <2>7, <2>8 DEF Pending
<1>9. ChatTypeOK'
  <2>1. \A i \in DOMAIN messages' : messages'[i].role \in {"system", "user", "assistant", "tool"}
    BY <1>6, MessageRoles, ElementOfSeq, LenProperties
  <2>q. QED BY <1>0, <1>4, <2>1 DEF ChatInv, ChatTypeOK
<1>10. l \in 1..Len(messages')
  BY <1>0, <1>6
<1>q. QED BY <1>0, <1>4, <1>6, <1>7, <1>8, <1>9, <1>10 DEF ChatInv

LEMMA NextTurnKeeps == ASSUME ChatInv, NextTurn PROVE ChatInv'
<1>0. /\ stream = "tools" /\ calls = <<>> /\ turn' = turn + 1
      /\ stream' = (IF turn' < MaxTurns THEN "model" ELSE "written")
      /\ UNCHANGED <<conversation, messages, calls>>
      /\ Transcript(messages, conversation) /\ turn < MaxTurns /\ turn \in Nat
      /\ messages \in Seq(Message) /\ Len(messages) \in Nat /\ Len(calls) = 0
  BY LenProperties, EmptySeq DEF NextTurn, ChatInv, ChatTypeOK
<1>1. PICK l \in 1..Len(messages) : Pending(messages, l, turn, Len(calls))
  BY <1>0 DEF ChatInv
<1>2. ASSUME NEW i \in 1..Len(messages) PROVE AskAnswered(messages, i)
  <2>1. CASE i < l
    BY <1>0, <1>1, <2>1 DEF Pending
  <2>2. CASE i = l
    <3>1. Len(messages) = l + Len(messages[l].ids)
      BY <1>0, <1>1 DEF Pending
    <3>2. ASSUME NEW k \in 1..Len(messages[l].ids)
          PROVE  k \in 1..(Len(messages) - l) /\ l + k <= Len(messages)
      <4>1. Len(messages[l].ids) \in Nat
        <5>1. messages[l] \in Message
          BY <1>0, ElementOfSeq
        <5>q. QED BY <1>1, <5>1, Roles, LenProperties DEF Message, Pending, Spoken
      <4>q. QED BY <3>1, <4>1
    <3>q. QED BY <1>1, <2>2, <3>2 DEF Pending, AskAnswered
  <2>3. CASE i > l
    <3>1. i - l \in 1..(Len(messages) - l) /\ l + (i - l) = i
      BY <1>0, <2>3
    <3>2. messages[i].role = "tool"
      BY <1>1, <3>1 DEF Pending
    <3>q. QED BY <3>2 DEF AskAnswered, IsAsk
  <2>q. QED BY <1>0, <2>1, <2>2, <2>3
<1>3. AllAnswered(messages)
  BY <1>1, <1>2 DEF AllAnswered, Pending
<1>4. ChatTypeOK'
  BY <1>0 DEF ChatInv, ChatTypeOK
<1>q. QED BY <1>0, <1>3, <1>4 DEF ChatInv

LEMMA ChatInvHolds == ChatSpec => []ChatInv
<1>1. ChatInv /\ [ChatNext]_chatVars => ChatInv'
  <2> SUFFICES ASSUME ChatInv, [ChatNext]_chatVars PROVE ChatInv'
    OBVIOUS
  <2>1. CASE PageReceive \/ PageLoad
    BY <2>1, PageForgets DEF PageReceive, PageLoad
  <2>2. CASE UNCHANGED chatVars
    BY <2>2 DEF chatVars, ChatInv, ChatTypeOK
  <2>q. QED BY <2>1, <2>2, PageSendKeeps, callLLMKeeps, ExecuteToolKeeps, NextTurnKeeps DEF ChatNext
<1>q. QED BY ChatInitInv, <1>1, PTL DEF ChatSpec

\* MessageHandler: whatever tools are asked for, missing or failing, and
\* whatever the page kept, the model never gets a call without its answer.
THEOREM CallsAnswered == ChatSpec => []EveryCallAnswered
<1>1. ASSUME ChatInv, stream = "model"
      PROVE  EveryCallAnswered
  <2>0. /\ messages \in Seq(Message) /\ Transcript(messages, conversation) /\ AllAnswered(messages)
        /\ Len(messages) \in Nat /\ DOMAIN messages = 1..Len(messages)
        /\ QuestionsAnswered(conversation) /\ Len(conversation) \in Nat
    BY <1>1, LenProperties DEF ChatInv, QuestionsAnswered
  <2>1. ASSUME NEW i \in DOMAIN messages, AsksTools(i), NEW k \in DOMAIN messages[i].ids
        PROVE  /\ i + k \in DOMAIN messages
               /\ messages[i + k].role = "tool" /\ messages[i + k].id = messages[i].ids[k]
    <3>1. IsAsk(messages[i])
      BY <2>1 DEF AsksTools, IsAsk
    <3>2. messages[i].ids \in Seq(CallIds)
      <4>1. messages[i] \in Message
        BY <2>0, <2>1, ElementOfSeq
      <4>q. QED BY <3>1, <4>1, Roles DEF Message, Spoken
    <3>3. k \in 1..Len(messages[i].ids) /\ Len(messages[i].ids) \in Nat
      BY <2>1, <3>2, LenProperties
    <3>4. i + k <= Len(messages) /\ messages[i + k].role = "tool" /\ messages[i + k].id = messages[i].ids[k]
      BY <2>0, <3>1, <3>3 DEF AllAnswered, AskAnswered
    <3>q. QED BY <2>0, <3>3, <3>4
  <2>2. ASSUME NEW i \in DOMAIN messages, messages[i].role = "tool"
        PROVE  \E j \in 1..(i - 1) : AsksTools(j) /\ i <= j + Len(messages[j].ids)
    BY <2>0, <2>2 DEF AllAnswered, AnswerAsked, AsksTools, IsAsk
  <2>3. ASSUME NEW i \in DOMAIN messages, messages[i].role = "user"
        PROVE  i = Len(conversation) + 2 \/ messages[i + 1] = Says("assistant")
    <3>1. CASE i = 1
      BY <2>0, <2>3, <3>1, Roles DEF Transcript
    <3>2. CASE i - 1 \in 1..Len(conversation)
      <4>1. (i - 1) + 1 = i /\ conversation[i - 1].role = "user"
        BY <2>0, <2>3, <3>2 DEF Transcript
      <4>2. i - 1 < Len(conversation) /\ conversation[i] = Says("assistant")
        BY <2>0, <3>2, <4>1 DEF QuestionsAnswered
      <4>3. i \in 1..Len(conversation)
        BY <2>0, <3>2, <4>2
      <4>q. QED BY <2>0, <4>2, <4>3 DEF Transcript
    <3>3. CASE i > Len(conversation) + 2
      BY <2>0, <2>3, <3>3 DEF Transcript
    <3>q. QED BY <2>0, <3>1, <3>2, <3>3
  <2>q. QED BY <2>1, <2>2, <2>3 DEF EveryCallAnswered
<1>2. ChatInv => EveryCallAnswered
  BY <1>1 DEF EveryCallAnswered
<1>q. QED BY <1>2, ChatInvHolds, PTL

-----------------------------------------------------------------------------
(***************************************************************************)
(* The fixtures of the sandbox                                             *)
(***************************************************************************)
\* The fixtures of a section, and those of the sections before it.
Names(section) ==
  CASE section = "suppliers" -> Suppliers [] section = "customers" -> Customers
    [] section = "projects" -> Projects [] section = "cost centres" -> CostCentres
    [] section = "assets" -> Assets [] OTHER -> {}

PassedBy(section) ==
  CASE section = "suppliers" -> {} [] section = "customers" -> Suppliers
    [] section = "projects" -> Suppliers \cup Customers
    [] section = "cost centres" -> Suppliers \cup Customers \cup Projects
    [] section = "assets" -> Suppliers \cup Customers \cup Projects \cup CostCentres
    [] OTHER -> Fixtures

\* What a listing shows of the records there are.
Shown(r) == IF r[1] \in Customers THEN record[r] = "active" ELSE record[r] # "none"

\* What excuses that a name has two records, that a fixture is gone again, and
\* that an open invoice is out of sight.
Twice == blind \/ beside["seed"] > 0
TornDown == beside["teardown"] > 0
Hides == blind \/ \E p \in Programs : beside[p] > 0

Standing(i) == TornDown \/ \E n \in 1..Copies : record[<<i, n>>] = "active"

InPlace(i) ==
  /\ Standing(i)
  /\ i \in Suppliers \cup Customers =>
       number[i] \in 1..Copies /\ (TornDown \/ record[<<i, number[i]>>] = "active")

\* Invoices are of suppliers and customers, and assets are deleted, not retired.
KindsKept ==
  \A r \in Records : /\ open[r] > 0 => r[1] \in Suppliers \cup Customers
                     /\ r[1] \in Assets => record[r] # "retired"

\* Where a seed is: what it has been through is in place, and what there is of
\* the rest of its loop it has been shown, unless it was shown less or another
\* seed came between; what it was shown is there, unless a teardown did.
SeedPlace == program = "seed" =>
  /\ \A i \in PassedBy(step[1]) : Standing(i)
  /\ step[2] \notin {"list", "complete"} => todo \subseteq Names(step[1])
  /\ step[2] = "records" =>
       /\ \A i \in Names(step[1]) \ todo : InPlace(i)
       /\ TornDown \/ \A r \in listed : Shown(r)
       /\ Twice \/ \A r, q \in listed : r[1] = q[1] => r = q
       /\ Twice \/ \A i \in todo, n \in 1..Copies : Shown(<<i, n>>) => <<i, n>> \in listed
  /\ step[2] \notin {"list", "records", "complete"} => \A i \in Names(step[1]) : InPlace(i)
  /\ step[2] = "bookkeep" => hand \in Records /\ hand[1] \in Names(step[1])
  /\ step[2] \in {"pay", "register", "bookkeep payment"} => hand \in Records

\* Where a teardown is: what it is about to remove is there, and open invoices
\* it has left were said.
LeftWasSaid(r) == open[r] > 0 => r \in warned

TeardownPlace == program = "teardown" =>
  /\ step[2] \in {"list", "invoices", "records", "complete"}
  /\ step[2] \in {"invoices", "records"} =>
       /\ todo \subseteq listed /\ listed \subseteq Names(step[1]) \X (1..Copies)
       /\ \A r \in listed : r[1] \in Assets \/ record[r] # "none"
  /\ ~Hides /\ step[2] = "invoices" => \A r \in listed \ todo : LeftWasSaid(r)
  /\ ~Hides /\ step[2] = "records" => \A r \in todo : LeftWasSaid(r)

BooksInv ==
  /\ SandboxTypeOK /\ KindsKept
  /\ SeedPlace /\ TeardownPlace
  /\ OneRecordEach /\ HiddenWasWarned /\ SaidPaidIsPaid

USE KindsAssumption, SettledAssumption, CopiesAssumption, BoundsAssumption

LEMMA NamesAre ==
  /\ Names("suppliers") = Suppliers /\ Names("customers") = Customers
  /\ Names("projects") = Projects /\ Names("cost centres") = CostCentres
  /\ Names("assets") = Assets
  BY DEF Names

LEMMA PassedAre ==
  /\ PassedBy("suppliers") = {}
  /\ PassedBy("customers") = PassedBy("suppliers") \cup Names("suppliers")
  /\ PassedBy("projects") = PassedBy("customers") \cup Names("customers")
  /\ PassedBy("cost centres") = PassedBy("projects") \cup Names("projects")
  /\ PassedBy("assets") = PassedBy("cost centres") \cup Names("cost centres")
  /\ PassedBy("none") = PassedBy("assets") \cup Names("assets")
  BY NamesAre DEF PassedBy, Fixtures

LEMMA NamesApart ==
  ASSUME NEW section \in Sections
  PROVE  /\ Names(section) \subseteq Fixtures
         /\ section # "assets" => Names(section) \cap Assets = {}
         /\ section # "customers" => Names(section) \cap Customers = {}
         /\ section \notin {"suppliers", "customers"} =>
              Names(section) \cap (Suppliers \cup Customers) = {}
  BY NamesAre DEF Sections, Fixtures

LEMMA RecordsAre ==
  /\ \A i \in Fixtures, n \in 1..Copies : <<i, n>> \in Records
  /\ \A r \in Records : r[1] \in Fixtures /\ r[2] \in 1..Copies /\ r = <<r[1], r[2]>>
  BY DEF Records

LEMMA BooksInitInv == SandboxInit => BooksInv
<1> SUFFICES ASSUME SandboxInit PROVE BooksInv
  OBVIOUS
<1>1. SandboxTypeOK
  <2>1. 0 \in 0..MaxOpen /\ 0 \in 0..Copies
    OBVIOUS
  <2>2. /\ record \in [Records -> {"none", "active", "retired"}] /\ open \in [Records -> 0..MaxOpen]
        /\ number \in [Fixtures -> 0..Copies] /\ beside \in [Programs -> Nat]
    BY <2>1 DEF SandboxInit
  <2>q. QED BY <2>2 DEF SandboxInit, SandboxTypeOK
<1>2. KindsKept /\ OneRecordEach /\ HiddenWasWarned
  BY DEF SandboxInit, KindsKept, OneRecordEach, HiddenWasWarned
<1>3. SeedPlace /\ TeardownPlace /\ SaidPaidIsPaid
  BY DEF SandboxInit, SeedPlace, TeardownPlace, SaidPaidIsPaid
<1>q. QED BY <1>1, <1>2, <1>3 DEF BooksInv

LEMMA BeginKeeps ==
  ASSUME BooksInv, NEW p \in Programs, Begin(p)
  PROVE  BooksInv'
<1>0. /\ program' = p /\ step' = <<"suppliers", "list">> /\ listed' = {} /\ inUse' = {}
      /\ todo' = {} /\ paid' = {} /\ said' = {} /\ number' = [i \in Fixtures |-> 0]
      /\ UNCHANGED <<record, open, hand, blind, warned, beside>>
  BY DEF Begin, Goto, books, history
<1>1. SandboxTypeOK'
  <2>1. step' \in Steps
    BY <1>0 DEF Steps, Sections
  <2>2. 0 \in 0..Copies
    OBVIOUS
  <2>3. number' \in [Fixtures -> 0..Copies]
    BY <1>0, <2>2
  <2>4. program' \in Programs \cup {"none"} /\ inUse' \subseteq listed'
    BY <1>0
  <2>q. QED BY <1>0, <2>1, <2>3, <2>4 DEF BooksInv, SandboxTypeOK
<1>2. KindsKept' /\ OneRecordEach' /\ HiddenWasWarned' /\ SaidPaidIsPaid'
  BY <1>0 DEF BooksInv, KindsKept, OneRecordEach, HiddenWasWarned, SaidPaidIsPaid
<1>3. SeedPlace' /\ TeardownPlace'
  BY <1>0, PassedAre DEF SeedPlace, TeardownPlace
<1>q. QED BY <1>1, <1>2, <1>3 DEF BooksInv

LEMMA ExitKeeps == ASSUME BooksInv, Exit PROVE BooksInv'
<1>0. /\ program' = "none" /\ step' = Rest /\ hand' = NoRecord /\ listed' = {} /\ inUse' = {}
      /\ todo' = {} /\ paid' = {} /\ said' = {} /\ number' = [i \in Fixtures |-> 0]
      /\ UNCHANGED <<record, open, blind, warned, beside>>
  BY DEF Exit, books, history
<1>1. SandboxTypeOK'
  BY <1>0 DEF BooksInv, SandboxTypeOK
<1>2. KindsKept' /\ OneRecordEach' /\ HiddenWasWarned' /\ SaidPaidIsPaid'
  BY <1>0 DEF BooksInv, KindsKept, OneRecordEach, HiddenWasWarned, SaidPaidIsPaid
<1>3. SeedPlace' /\ TeardownPlace'
  BY <1>0 DEF SeedPlace, TeardownPlace
<1>q. QED BY <1>1, <1>2, <1>3 DEF BooksInv

\* What a listing that is answered shows.
Shows(section) == {r \in Names(section) \X (1..Copies) : Shown(r)}

LEMMA ListingsShow ==
  /\ ListSuppliers = Shows("suppliers") /\ ListCustomers = Shows("customers")
  /\ ListProjectsByPrefix = Shows("projects") /\ ListCostCentersByPrefix = Shows("cost centres")
  /\ ListAssetsByPrefix = Shows("assets")
  BY NamesAre DEF ListSuppliers, ListCustomers, ListProjectsByPrefix, ListCostCentersByPrefix,
     ListAssetsByPrefix, Shows, Shown, Present

LEMMA SeedListKeeps ==
  ASSUME BooksInv, NEW section \in Sections, SeedList(section, Shows(section), Names(section))
  PROVE  BooksInv'
<1>0. /\ program = "seed" /\ step = <<section, "list">> /\ step' = <<section, "records">>
      /\ todo' = Names(section) /\ listed' \subseteq Shows(section) /\ inUse' \subseteq listed'
      /\ blind' \/ (~blind /\ listed' = Shows(section))
      /\ blind' \in BOOLEAN /\ (blind => blind')
      /\ UNCHANGED <<record, open, program, number, hand, paid, said, warned, beside>>
  BY Zenon DEF SeedList, Listing, OnePage, Goto, books, invoice, BooksInv, SandboxTypeOK
<1>1. SandboxTypeOK'
  BY <1>0, NamesApart DEF BooksInv, SandboxTypeOK, Steps, Shows, Records
<1>2. KindsKept' /\ OneRecordEach' /\ HiddenWasWarned' /\ SaidPaidIsPaid' /\ TeardownPlace'
  BY <1>0 DEF BooksInv, KindsKept, OneRecordEach, HiddenWasWarned, SaidPaidIsPaid, TeardownPlace
<1>3. SeedPlace'
  <2>1. ASSUME ~Twice', NEW r \in listed', NEW q \in listed', r[1] = q[1] PROVE r = q
    <3>1. /\ ~blind /\ ~(beside["seed"] > 0)
          /\ r \in Records /\ q \in Records /\ Shown(r) /\ Shown(q)
      BY <1>0, <2>1, NamesApart DEF Shows, Records, Twice
    <3>q. QED BY <2>1, <3>1 DEF BooksInv, OneRecordEach, Shown
  <2>2. ASSUME ~Twice', NEW i \in todo', NEW n \in 1..Copies, Shown(<<i, n>>)'
        PROVE  <<i, n>> \in listed'
    BY <1>0, <2>2 DEF Shows, Shown, Twice
  <2>3. \A r \in listed' : Shown(r)'
    BY <1>0 DEF Shows, Shown
  <2>4. \A i \in PassedBy(section) : Standing(i)'
    BY <1>0 DEF BooksInv, SeedPlace, Standing, TornDown
  <2>q. QED BY <1>0, <2>1, <2>2, <2>3, <2>4 DEF SeedPlace
<1>q. QED BY <1>1, <1>2, <1>3 DEF BooksInv

LEMMA TeardownListKeeps ==
  ASSUME BooksInv, NEW section \in Sections, NEW part,
         TeardownList(section, part, Shows(section)),
         part = IF section \in {"suppliers", "customers"} THEN "invoices" ELSE "records"
  PROVE  BooksInv'
<1>0. /\ program = "teardown" /\ step = <<section, "list">> /\ step' = <<section, part>>
      /\ listed' \subseteq Shows(section) /\ inUse' \subseteq listed'
      /\ blind' \in BOOLEAN /\ (blind => blind')
      /\ UNCHANGED <<record, open, program, number, hand, paid, said, warned, beside>>
  BY Zenon DEF TeardownList, Listing, OnePage, Goto, books, invoice, BooksInv, SandboxTypeOK
<1>t. /\ todo' \subseteq listed'
      /\ section \in {"suppliers", "customers"} => todo' = listed'
  BY <1>0 DEF TeardownList
<1>1. SandboxTypeOK'
  BY <1>0, <1>t, NamesApart DEF BooksInv, SandboxTypeOK, Steps, Shows, Records
<1>2. KindsKept' /\ OneRecordEach' /\ HiddenWasWarned' /\ SaidPaidIsPaid' /\ SeedPlace'
  BY <1>0 DEF BooksInv, KindsKept, OneRecordEach, HiddenWasWarned, SaidPaidIsPaid, SeedPlace
<1>3. TeardownPlace'
  <2>1. listed' \subseteq Names(section) \X (1..Copies)
    BY <1>0 DEF Shows
  <2>2. ASSUME NEW r \in listed' PROVE r \in Records /\ r[1] \in Names(section) /\ record'[r] # "none"
    BY <1>0, <2>2, NamesApart DEF Shows, Records, Shown
  <2>3. ASSUME part = "records", NEW r \in todo' PROVE LeftWasSaid(r)'
    <3>1. r \in Records /\ r[1] \in Names(section)
      BY <1>t, <2>2, <2>3
    <3>2. r[1] \notin Suppliers \cup Customers
      BY <2>3, <3>1, NamesApart
    <3>q. QED BY <1>0, <3>1, <3>2 DEF LeftWasSaid, BooksInv, KindsKept
  <2>q. QED BY <1>0, <1>t, <2>1, <2>2, <2>3 DEF TeardownPlace
<1>q. QED BY <1>1, <1>2, <1>3 DEF BooksInv

\* A loop of the seed is through: all it was about is in place.
LEMMA SeedThrough ==
  ASSUME BooksInv, program = "seed", NEW section \in Sections, NEW part \in {"records", "invoices"},
         NEW next \in Steps \cup {Complete}, NEW names \in SUBSET Fixtures,
         Through(section, part, next, names),
         \/ /\ part = "records" /\ next = <<section, "invoices">> /\ names = Names(section)
         \/ /\ next[2] \in {"list", "complete"}
            /\ PassedBy(next[1]) = PassedBy(section) \cup Names(section)
  PROVE  BooksInv'
<1>0. /\ step = <<section, part>> /\ todo = {} /\ step' = next /\ todo' = names
      /\ UNCHANGED <<record, open, program, listed, inUse, number, hand, paid, said>>
      /\ UNCHANGED <<blind, warned, beside>>
  BY DEF Through, books, invoice, history
<1>1. SandboxTypeOK'
  BY <1>0 DEF BooksInv, SandboxTypeOK
<1>2. KindsKept' /\ OneRecordEach' /\ HiddenWasWarned' /\ SaidPaidIsPaid' /\ TeardownPlace'
  BY <1>0 DEF BooksInv, KindsKept, OneRecordEach, HiddenWasWarned, SaidPaidIsPaid, TeardownPlace
<1>3. /\ \A i \in PassedBy(section) : Standing(i)'
      /\ \A i \in Names(section) : InPlace(i)'
  <2>1. /\ \A i \in PassedBy(section) : Standing(i)
        /\ \A i \in Names(section) : InPlace(i)
    BY <1>0 DEF BooksInv, SeedPlace
  <2>q. QED BY <1>0, <2>1 DEF Standing, InPlace, TornDown
<1>4. SeedPlace'
  <2>1. CASE next = <<section, "invoices">> /\ names = Names(section)
    BY <1>0, <1>3, <2>1 DEF SeedPlace
  <2>2. CASE /\ next[2] \in {"list", "complete"}
             /\ PassedBy(next[1]) = PassedBy(section) \cup Names(section)
    BY <1>0, <1>3, <2>2 DEF SeedPlace, InPlace
  <2>q. QED BY <2>1, <2>2
<1>q. QED BY <1>1, <1>2, <1>4 DEF BooksInv

\* A loop of the teardown is through: of every record it listed, what is open of
\* it was said, and only those that are there go on.
LEMMA TeardownThrough ==
  ASSUME BooksInv, program = "teardown", NEW section \in Sections,
         NEW part \in {"records", "invoices"},
         NEW next \in Steps \cup {Complete}, NEW names, Through(section, part, next, names),
         \/ part = "invoices" /\ next = <<section, "records">> /\ names = inUse
         \/ next[2] \in {"list", "complete"} /\ names = {}
  PROVE  BooksInv'
<1>0. /\ step = <<section, part>> /\ todo = {} /\ step' = next /\ todo' = names
      /\ UNCHANGED <<record, open, program, listed, inUse, number, hand, paid, said>>
      /\ UNCHANGED <<blind, warned, beside>>
  BY DEF Through, books, invoice, history
<1>1. names \subseteq listed /\ listed \subseteq Records
  BY DEF BooksInv, SandboxTypeOK
<1>2. SandboxTypeOK'
  BY <1>0, <1>1 DEF BooksInv, SandboxTypeOK
<1>3. KindsKept' /\ OneRecordEach' /\ HiddenWasWarned' /\ SaidPaidIsPaid' /\ SeedPlace'
  BY <1>0 DEF BooksInv, KindsKept, OneRecordEach, HiddenWasWarned, SaidPaidIsPaid, SeedPlace
<1>4. TeardownPlace'
  <2>1. CASE part = "invoices" /\ next = <<section, "records">> /\ names = inUse
    <3>1. /\ listed \subseteq Names(section) \X (1..Copies)
          /\ \A r \in listed : r[1] \in Assets \/ record[r] # "none"
      BY <1>0, <2>1 DEF BooksInv, TeardownPlace
    <3>2. Hides \/ \A r \in listed : LeftWasSaid(r)
      BY <1>0, <2>1 DEF BooksInv, TeardownPlace
    <3>q. QED BY <1>0, <1>1, <2>1, <3>1, <3>2 DEF TeardownPlace, LeftWasSaid, Hides
  <2>2. CASE next[2] \in {"list", "complete"} /\ names = {}
    BY <1>0, <2>2 DEF TeardownPlace
  <2>q. QED BY <2>1, <2>2
<1>q. QED BY <1>2, <1>3, <1>4 DEF BooksInv

\* One record of a loop of the seed, as all five set it up: one that was listed,
\* or the first there is. Of a customer there may be others, all retired; an
\* asset that was listed is taken to be there.
SetsUp(section, i, n) ==
  /\ program = "seed" /\ step = <<section, "records">> /\ i \in Names(section)
  /\ i \in todo /\ todo' = todo \ {i} /\ n \in 1..Copies
  /\ <<i, n>> \in listed \/ Found(i) = {}
  /\ \/ record' = [record EXCEPT ![<<i, n>>] = "active"]
     \/ TornDown /\ UNCHANGED record
  /\ \/ number' = [number EXCEPT ![i] = n]
     \/ i \notin Suppliers \cup Customers /\ UNCHANGED number
  /\ UNCHANGED <<open, program, step, listed, inUse, hand, paid, said, blind, warned, beside>>

LEMMA SetsUpKeeps ==
  ASSUME BooksInv, NEW section \in Sections, NEW i, NEW n, SetsUp(section, i, n)
  PROVE  BooksInv'
<1> DEFINE s == <<i, n>>
<1>0. /\ program = "seed" /\ step = <<section, "records">> /\ i \in Names(section)
      /\ i \in todo /\ todo' = todo \ {i} /\ n \in 1..Copies /\ i \in Fixtures /\ s \in Records
      /\ UNCHANGED <<open, program, step, listed, inUse, hand, paid, said, blind, warned, beside>>
  BY NamesApart, RecordsAre DEF SetsUp
<1>1. /\ record \in [Records -> {"none", "active", "retired"}]
      /\ record' \in [Records -> {"none", "active", "retired"}]
      /\ record'[s] = "active" \/ (TornDown /\ record'[s] = record[s])
      /\ \A r \in Records : r # s => record'[r] = record[r]
  BY <1>0 DEF SetsUp, BooksInv, SandboxTypeOK
<1>2. /\ number' \in [Fixtures -> 0..Copies]
      /\ \A j \in Fixtures : j # i => number'[j] = number[j]
      /\ i \in Suppliers \cup Customers => number'[i] = n
  BY <1>0 DEF SetsUp, BooksInv, SandboxTypeOK
<1>3. /\ \A j \in Names(section) \ todo : InPlace(j)
      /\ TornDown \/ \A r \in listed : Shown(r)
      /\ Twice \/ \A r, q \in listed : r[1] = q[1] => r = q
      /\ Twice \/ \A j \in todo, m \in 1..Copies : Shown(<<j, m>>) => <<j, m>> \in listed
      /\ todo \subseteq Names(section)
      /\ \A j \in PassedBy(section) : Standing(j)
  BY <1>0 DEF BooksInv, SeedPlace
<1>4. PassedBy(section) \subseteq Fixtures /\ Names(section) \subseteq Fixtures
  BY PassedAre, NamesApart DEF Sections
<1>5. SandboxTypeOK'
  BY <1>0, <1>1, <1>2 DEF BooksInv, SandboxTypeOK
<1>6. KindsKept' /\ SaidPaidIsPaid' /\ TeardownPlace'
  BY <1>0, <1>1 DEF BooksInv, KindsKept, SaidPaidIsPaid, TeardownPlace
<1>7. HiddenWasWarned'
  BY <1>0, <1>1 DEF BooksInv, HiddenWasWarned
<1>e. (Twice' <=> Twice) /\ (TornDown' <=> TornDown)
  BY <1>0 DEF Twice, TornDown
<1>8. SeedPlace'
  <2>1. ASSUME NEW j \in Fixtures, NEW m \in 1..Copies
        PROVE  record[<<j, m>>] = "active" => record'[<<j, m>>] = "active"
    BY <1>1, RecordsAre
  <2>2. ASSUME NEW j \in Fixtures, Standing(j) PROVE Standing(j)'
    BY <1>e, <2>1, <2>2 DEF Standing
  <2>3. ASSUME NEW j \in Names(section) \ todo' PROVE InPlace(j)'
    <3>1. CASE j = i
      <4>1. TornDown \/ record'[<<i, n>>] = "active"
        BY <1>1
      <4>q. QED BY <1>0, <1>2, <1>e, <3>1, <4>1 DEF InPlace, Standing
    <3>2. CASE j # i
      <4>1. j \in Names(section) \ todo /\ j \in Fixtures /\ number'[j] = number[j]
        BY <1>0, <1>2, <1>4, <3>2
      <4>q. QED BY <1>3, <1>e, <2>1, <2>2, <4>1 DEF InPlace
    <3>q. QED BY <3>1, <3>2
  <2>4. ASSUME ~TornDown, NEW r \in listed PROVE Shown(r)'
    <3>1. r \in Records
      BY DEF BooksInv, SandboxTypeOK
    <3>q. QED BY <1>1, <1>3, <2>4, <3>1 DEF Shown
  <2>5. ASSUME ~Twice, NEW j \in todo', NEW m \in 1..Copies, Shown(<<j, m>>)'
        PROVE  <<j, m>> \in listed
    <3>1. <<j, m>> \in Records /\ <<j, m>> # s /\ j \in todo
      BY <1>0, <1>3, <1>4, RecordsAre
    <3>q. QED BY <1>1, <1>3, <2>5, <3>1 DEF Shown
  <2>q. QED BY <1>0, <1>3, <1>4, <1>e, <2>2, <2>3, <2>4, <2>5 DEF SeedPlace
<1>9. OneRecordEach'
  <2> SUFFICES ASSUME ~Twice, NEW r \in Records, NEW q \in Records, r # q, r[1] = q[1],
                      record'[r] # "none", record'[q] # "none"
               PROVE  r[1] \in Customers /\ (record'[r] = "retired" \/ record'[q] = "retired")
    BY <1>0 DEF OneRecordEach, Twice
  <2>0. OneRecordEach /\ ~blind /\ ~(beside["seed"] > 0)
    BY DEF BooksInv, Twice
  <2>1. ASSUME NEW x \in Records, x # s, x[1] = i PROVE ~Shown(x)
    <3>1. x = <<i, x[2]>> /\ x[2] \in 1..Copies
      BY <2>1, RecordsAre
    <3>2. Shown(x) => x \in listed
      BY <1>0, <1>3, <3>1
    <3>3. s \in listed \/ Found(i) = {}
      BY DEF SetsUp
    <3>4. Found(i) = {} => x \notin listed
      BY <3>1 DEF Found
    <3>5. s \in listed /\ x \in listed => x = s
      BY <1>3, <2>1
    <3>q. QED BY <2>1, <3>2, <3>3, <3>4, <3>5
  <2>2. ASSUME NEW x \in Records, x # s, x[1] = i, record'[x] # "none"
        PROVE  i \in Customers /\ record'[x] = "retired"
    BY <1>1, <2>1, <2>2 DEF Shown
  <2>3. CASE r[1] = i
    BY <2>2, <2>3
  <2>4. CASE r[1] # i
    BY <1>1, <2>0, <2>4 DEF OneRecordEach
  <2>q. QED BY <2>3, <2>4
<1>q. QED BY <1>5, <1>6, <1>7, <1>8, <1>9 DEF BooksInv

\* What the seed does to one record of each kind is that.
LEMMA SetUpsAre ==
  ASSUME BooksInv
  PROVE  /\ \A i \in Suppliers : SetUpSupplier(i) => \E n : SetsUp("suppliers", i, n)
         /\ \A i \in Customers : SetUpCustomer(i) => \E n : SetsUp("customers", i, n)
         /\ \A i \in Projects : SetUpProject(i) => \E n : SetsUp("projects", i, n)
         /\ \A i \in CostCentres : SetUpCostCenter(i) => \E n : SetsUp("cost centres", i, n)
         /\ \A i \in Assets : SetUpAsset(i) => \E n : SetsUp("assets", i, n)
<1> DEFINE Uses(i, n) == \/ number' = [number EXCEPT ![i] = n]
                         \/ i \notin Suppliers \cup Customers /\ UNCHANGED number
           Sets(i, n) == /\ \/ record' = [record EXCEPT ![<<i, n>>] = "active"]
                            \/ TornDown /\ UNCHANGED record
                         /\ Uses(i, n)
<1>1. ASSUME NEW section \in Sections, NEW i \in Names(section), SetUp(section, i),
             \/ \E n \in Found(i) : Sets(i, n)
             \/ Found(i) = {} /\ \E n \in 1..Copies : Sets(i, n)
      PROVE  \E n : SetsUp(section, i, n)
  <2>1. \A n \in Found(i) : n \in 1..Copies /\ <<i, n>> \in listed
    BY DEF Found
  <2>q. QED BY <1>1, <2>1 DEF SetUp, Seeding, Each, SetsUp, invoice, history
<1>2. ASSUME NEW i \in Suppliers, SetUpSupplier(i) PROVE \E n : SetsUp("suppliers", i, n)
  BY <1>1, <1>2, NamesAre DEF SetUpSupplier, ActivateSupplier, CreateSupplier, Set, Use, Sections
<1>3. ASSUME NEW i \in Customers, SetUpCustomer(i) PROVE \E n : SetsUp("customers", i, n)
  BY <1>1, <1>3, NamesAre DEF SetUpCustomer, SetCustomerActive, CreateCustomer, Set, Use, Sections
<1>4. ASSUME NEW i \in Projects, SetUpProject(i) PROVE \E n : SetsUp("projects", i, n)
  <2>1. i \notin Suppliers \cup Customers
    OBVIOUS
  <2>q. QED BY <1>1, <1>4, <2>1, NamesAre DEF SetUpProject, SetProjectStatus, CreateProject, Set, Sections
<1>5. ASSUME NEW i \in CostCentres, SetUpCostCenter(i) PROVE \E n : SetsUp("cost centres", i, n)
  <2>1. i \notin Suppliers \cup Customers
    OBVIOUS
  <2>q. QED
    BY <1>1, <1>5, <2>1, NamesAre DEF SetUpCostCenter, SetCostCenterActive, CreateCostCenter, Set, Sections
<1>6. ASSUME NEW i \in Assets, SetUpAsset(i) PROVE \E n : SetsUp("assets", i, n)
  <2>1. i \notin Suppliers \cup Customers
    OBVIOUS
  <2>2. ASSUME NEW n \in Found(i), UNCHANGED record, ~TornDown
        PROVE  record' = [record EXCEPT ![<<i, n>>] = "active"]
    <3>1. <<i, n>> \in Records /\ <<i, n>> \in listed /\ i \notin Customers
      BY <2>2, RecordsAre DEF Found, Fixtures
    <3>2. Shown(<<i, n>>)
      BY <1>6, <2>2, <3>1 DEF BooksInv, SeedPlace, SetUpAsset, SetUp, Seeding
    <3>3. record[<<i, n>>] = "active"
      BY <1>6, <3>1, <3>2 DEF Shown, BooksInv, KindsKept, SandboxTypeOK
    <3>q. QED BY <1>6, <2>2, <3>1, <3>3 DEF BooksInv, SandboxTypeOK
  <2>q. QED BY <1>1, <1>6, <2>1, <2>2, NamesAre DEF SetUpAsset, CreateAsset, Set, Sections
<1>q. QED BY <1>2, <1>3, <1>4, <1>5, <1>6

\* An invoice of a record the loop has set up.
LEMMA InvoiceKeeps ==
  ASSUME BooksInv, NEW section \in {"suppliers", "customers"}, NEW i \in Names(section),
         Seeding(section, "invoices"), i \in todo, todo' = todo \ {i},
         hand' = <<i, number[i]>>, Open(hand'), step' = <<section, "bookkeep">>,
         UNCHANGED <<record, program, listed, inUse, number, paid, said, history>>
  PROVE  BooksInv'
<1>0. /\ program = "seed" /\ step = <<section, "invoices">> /\ section \in Sections
      /\ UNCHANGED <<blind, warned, beside>> /\ i \in Suppliers \cup Customers /\ i \in Fixtures
  BY NamesAre DEF Seeding, history, Sections, Fixtures
<1>1. /\ todo \subseteq Names(section) /\ \A j \in Names(section) : InPlace(j)
      /\ \A j \in PassedBy(section) : Standing(j)
  BY <1>0 DEF BooksInv, SeedPlace
<1>2. hand' \in Records /\ hand'[1] = i /\ (Hides \/ record[hand'] = "active")
  <2>1. number[i] \in 1..Copies /\ (TornDown \/ record[<<i, number[i]>>] = "active")
    BY <1>0, <1>1 DEF InPlace
  <2>2. TornDown => Hides
    BY DEF TornDown, Hides, Programs
  <2>q. QED BY <1>0, <2>1, <2>2, RecordsAre
<1>3. /\ open \in [Records -> 0..MaxOpen] /\ open' = [open EXCEPT ![hand'] = @ + 1]
      /\ open[hand'] < MaxOpen
  BY DEF Open, BooksInv, SandboxTypeOK
<1>4. /\ open' \in [Records -> 0..MaxOpen] /\ open'[hand'] > 0
      /\ \A r \in Records : r # hand' => open'[r] = open[r]
  <2>1. open[hand'] + 1 \in 0..MaxOpen /\ open[hand'] + 1 > 0
    BY <1>2, <1>3
  <2>q. QED BY <1>2, <1>3, <2>1
<1>5. SandboxTypeOK'
  BY <1>0, <1>2, <1>4 DEF BooksInv, SandboxTypeOK, Steps
<1>6. KindsKept' /\ HiddenWasWarned'
  BY <1>0, <1>2, <1>4 DEF BooksInv, KindsKept, HiddenWasWarned, Hides
<1>7. OneRecordEach' /\ SaidPaidIsPaid' /\ TeardownPlace'
  BY <1>0 DEF BooksInv, OneRecordEach, SaidPaidIsPaid, TeardownPlace
<1>8. SeedPlace'
  <2>1. (\A j \in PassedBy(section) : Standing(j)') /\ (\A j \in Names(section) : InPlace(j)')
    BY <1>0, <1>1 DEF Standing, InPlace, TornDown
  <2>q. QED BY <1>0, <1>1, <1>2, <2>1 DEF SeedPlace
<1>q. QED BY <1>5, <1>6, <1>7, <1>8 DEF BooksInv

\* It is booked.
LEMMA BookkeepKeeps ==
  ASSUME BooksInv, NEW section \in {"suppliers", "customers"}, Seeding(section, "bookkeep"),
         Closed(hand), hand' = NoRecord \/ (hand' = hand /\ step' = <<section, "pay">>),
         step' \in {<<section, "invoices">>, <<section, "pay">>}, hand' = NoRecord => step'[2] # "pay",
         UNCHANGED <<record, program, loop, paid, said, history>>
  PROVE  BooksInv'
<1>0. /\ program = "seed" /\ step = <<section, "bookkeep">> /\ section \in Sections
      /\ UNCHANGED <<listed, inUse, number, todo, blind, warned, beside>>
  BY DEF Seeding, history, loop, Sections
<1>1. /\ todo \subseteq Names(section) /\ \A j \in Names(section) : InPlace(j)
      /\ \A j \in PassedBy(section) : Standing(j)
      /\ hand \in Records /\ open[hand] > 0
  BY <1>0 DEF BooksInv, SeedPlace, Closed
<1>2. /\ open' \in [Records -> 0..MaxOpen]
      /\ \A r \in Records : open'[r] > 0 => open[r] > 0
  <2>1. open \in [Records -> 0..MaxOpen] /\ open' = [open EXCEPT ![hand] = @ - 1]
    BY DEF Closed, BooksInv, SandboxTypeOK
  <2>2. open[hand] - 1 \in 0..MaxOpen
    BY <1>1, <2>1
  <2>q. QED BY <1>1, <2>1, <2>2
<1>3. SandboxTypeOK'
  <2>1. step' \in Steps
    <3>1. <<section, "invoices">> \in Steps /\ <<section, "pay">> \in Steps
      BY <1>0 DEF Steps
    <3>q. QED BY <3>1
  <2>2. hand' \in Records \cup {NoRecord}
    BY <1>1
  <2>q. QED BY <1>0, <1>2, <2>1, <2>2 DEF BooksInv, SandboxTypeOK
<1>4. KindsKept' /\ HiddenWasWarned'
  BY <1>0, <1>2 DEF BooksInv, KindsKept, HiddenWasWarned
<1>5. OneRecordEach' /\ SaidPaidIsPaid' /\ TeardownPlace'
  BY <1>0 DEF BooksInv, OneRecordEach, SaidPaidIsPaid, TeardownPlace
<1>6. SeedPlace'
  <2>1. step'[1] = section /\ step'[2] \in {"invoices", "pay"}
    BY <1>0
  <2>2. step'[2] = "pay" => hand' \in Records
    BY <1>1, <2>1
  <2>3. (\A j \in PassedBy(section) : Standing(j)') /\ (\A j \in Names(section) : InPlace(j)')
    BY <1>0, <1>1 DEF Standing, InPlace, TornDown
  <2>q. QED BY <1>0, <1>1, <2>1, <2>2, <2>3 DEF SeedPlace
<1>q. QED BY <1>3, <1>4, <1>5, <1>6 DEF BooksInv

\* The payment of a customer's invoice: nothing but where it is and what is paid.
LEMMA PaymentKeeps ==
  ASSUME BooksInv, ReadBalance \/ RegisterPayment \/ BookkeepPayment
  PROVE  BooksInv'
<1>0. /\ program = "seed" /\ step[1] = "customers"
      /\ step[2] \in {"pay", "register", "bookkeep payment"}
      /\ UNCHANGED <<record, open, program, listed, inUse, number, todo, warned, beside>>
  <2>1. CASE ReadBalance
    BY <2>1 DEF ReadBalance, Seeding, Reported, books, loop, history
  <2>2. CASE RegisterPayment
    BY <2>2 DEF RegisterPayment, Seeding, Reported, books, loop, history
  <2>3. CASE BookkeepPayment
    BY <2>3 DEF BookkeepPayment, Seeding, Reported, books, loop, history
  <2>q. QED BY <2>1, <2>2, <2>3
<1>1. \/ /\ step' = <<"customers", "invoices">> /\ hand' = NoRecord
         /\ paid' \in {paid, paid \cup {hand}} /\ said' \in {said, said \cup {hand}}
         /\ said' = said \/ blind' = TRUE \/ paid' = paid \cup {hand}
         /\ blind' = blind \/ blind' = TRUE
      \/ /\ step' \in {<<"customers", "register">>, <<"customers", "bookkeep payment">>}
         /\ UNCHANGED <<hand, paid, said, blind>>
  BY DEF ReadBalance, RegisterPayment, BookkeepPayment, Reported, Goto, invoice, history
<1>2. /\ todo \subseteq Names("customers") /\ \A j \in Names("customers") : InPlace(j)
      /\ \A j \in PassedBy("customers") : Standing(j)
      /\ hand \in Records
  BY <1>0 DEF BooksInv, SeedPlace
<1>3. SandboxTypeOK'
  <2>1. step' \in Steps
    <3>1. /\ <<"customers", "invoices">> \in Steps /\ <<"customers", "register">> \in Steps
          /\ <<"customers", "bookkeep payment">> \in Steps
      BY DEF Steps, Sections
    <3>q. QED BY <1>1, <3>1
  <2>2. blind' \in BOOLEAN
    BY <1>1, Zenon DEF BooksInv, SandboxTypeOK
  <2>q. QED BY <1>0, <1>1, <1>2, <2>1, <2>2 DEF BooksInv, SandboxTypeOK
<1>4. blind => blind'
  BY <1>1
<1>5. KindsKept' /\ HiddenWasWarned' /\ OneRecordEach' /\ TeardownPlace'
  BY <1>0, <1>4 DEF BooksInv, KindsKept, HiddenWasWarned, OneRecordEach, TeardownPlace, Hides
<1>6. SaidPaidIsPaid'
  BY <1>1, <1>4 DEF BooksInv, SaidPaidIsPaid
<1>7. SeedPlace'
  <2>1. /\ step'[1] = "customers"
        /\ step'[2] \in {"invoices", "register", "bookkeep payment"}
        /\ step'[2] # "invoices" => hand' \in Records
    <3>1. CASE step' = <<"customers", "invoices">>
      BY <3>1
    <3>2. CASE step' = <<"customers", "register">> /\ hand' = hand
      BY <1>2, <3>2
    <3>3. CASE step' = <<"customers", "bookkeep payment">> /\ hand' = hand
      BY <1>2, <3>3
    <3>q. QED BY <1>1, <3>1, <3>2, <3>3
  <2>2. (\A j \in PassedBy("customers") : Standing(j)') /\ (\A j \in Names("customers") : InPlace(j)')
    BY <1>0, <1>2 DEF Standing, InPlace, TornDown
  <2>q. QED BY <1>0, <1>2, <2>1, <2>2 DEF SeedPlace
<1>q. QED BY <1>3, <1>5, <1>6, <1>7 DEF BooksInv

\* The invoices of one record, as the teardown goes through them.
LEMMA CancelKeeps ==
  ASSUME BooksInv, NEW section \in {"suppliers", "customers"}, NEW r \in Records,
         CancelInvoices(section, r),
         \/ \E shown \in 0..open[r] : \E kept \in 0..shown :
               Cancelled(r, shown, kept) /\ Warn(r, kept > 0)
         \/ UNCHANGED <<open, blind>> /\ Warn(r, TRUE)
  PROVE  BooksInv'
<1>0. /\ program = "teardown" /\ step = <<section, "invoices">> /\ section \in Sections
      /\ r \in todo /\ todo' = todo \ {r}
      /\ UNCHANGED <<record, program, step, listed, inUse, number, hand, paid, said, beside>>
  BY DEF CancelInvoices, TearingDown, Each, invoice, Sections
<1>1. /\ todo \subseteq listed /\ listed \subseteq Names(section) \X (1..Copies)
      /\ \A q \in listed : q[1] \in Assets \/ record[q] # "none"
      /\ Hides \/ \A q \in listed \ todo : LeftWasSaid(q)
  BY <1>0 DEF BooksInv, TeardownPlace
<1>2. /\ open \in [Records -> 0..MaxOpen] /\ warned \subseteq Records /\ listed \subseteq Records
  BY DEF BooksInv, SandboxTypeOK
<1>3. /\ open' \in [Records -> 0..MaxOpen] /\ warned' \subseteq Records
      /\ \A q \in Records : open'[q] > 0 => open[q] > 0
      /\ \A q \in Records : q # r => open'[q] = open[q] /\ (q \in warned' <=> q \in warned)
      /\ blind' = TRUE \/ (blind' = blind /\ LeftWasSaid(r)')
  <2>1. ASSUME NEW shown \in 0..open[r], NEW kept \in 0..shown,
               Cancelled(r, shown, kept), Warn(r, kept > 0)
        PROVE  /\ open' \in [Records -> 0..MaxOpen] /\ warned' \subseteq Records
               /\ \A q \in Records : open'[q] > 0 => open[q] > 0
               /\ \A q \in Records : q # r => open'[q] = open[q] /\ (q \in warned' <=> q \in warned)
               /\ blind' = TRUE \/ (blind' = blind /\ LeftWasSaid(r)')
    <3>1. /\ open[r] - shown + kept \in 0..MaxOpen /\ open[r] \in 0..MaxOpen
          /\ open[r] - shown + kept <= open[r]
          /\ shown = open[r] => open[r] - shown + kept = kept
      BY <1>2
    <3>2. open' \in [Records -> 0..MaxOpen] /\ open'[r] = open[r] - shown + kept
      BY <1>2, <2>1, <3>1 DEF Cancelled
    <3>3. \A q \in Records : q # r => open'[q] = open[q] /\ (q \in warned' <=> q \in warned)
      BY <1>2, <2>1 DEF Warn, Cancelled
    <3>4. open'[r] > 0 => open[r] > 0
      BY <3>1, <3>2
    <3>5. warned' \subseteq Records
      BY <1>2, <2>1 DEF Warn
    <3>6. shown = open[r] => LeftWasSaid(r)'
      BY <2>1, <3>1, <3>2 DEF LeftWasSaid, Warn
    <3>7. blind' = TRUE \/ (blind' = blind /\ shown = open[r])
      BY <2>1, Zenon DEF Cancelled, BooksInv, SandboxTypeOK
    <3>q. QED BY <3>2, <3>3, <3>4, <3>5, <3>6, <3>7
  <2>2. CASE UNCHANGED <<open, blind>> /\ Warn(r, TRUE)
    BY <1>2, <2>2 DEF Warn, LeftWasSaid
  <2>q. QED BY <2>1, <2>2
<1>4. SandboxTypeOK'
  <2>1. blind' \in BOOLEAN
    BY <1>3, Zenon DEF BooksInv, SandboxTypeOK
  <2>q. QED BY <1>0, <1>3, <2>1 DEF BooksInv, SandboxTypeOK
<1>5. (blind => blind') /\ (Hides => Hides')
  BY <1>0, <1>3 DEF Hides
<1>6. KindsKept' /\ OneRecordEach' /\ SaidPaidIsPaid' /\ SeedPlace'
  BY <1>0, <1>3, <1>5 DEF BooksInv, KindsKept, OneRecordEach, SaidPaidIsPaid, SeedPlace
<1>7. HiddenWasWarned'
  <2> SUFFICES ASSUME ~Hides', NEW q \in Records, open'[q] > 0, record[q] = "retired"
               PROVE  q \in warned'
    BY <1>0 DEF HiddenWasWarned, Hides
  <2>0. ~blind' /\ ~Hides
    BY <1>5 DEF Hides
  <2>1. CASE q = r
    BY <1>3, <2>0, <2>1 DEF LeftWasSaid
  <2>2. CASE q # r
    BY <1>3, <2>0, <2>2 DEF BooksInv, HiddenWasWarned, Hides
  <2>q. QED BY <2>1, <2>2
<1>8. TeardownPlace'
  <2>1. ASSUME ~Hides', NEW q \in listed \ todo' PROVE LeftWasSaid(q)'
    <3>0. ~blind' /\ ~Hides
      BY <1>5, <2>1 DEF Hides
    <3>1. CASE q = r
      BY <1>3, <3>0, <3>1
    <3>2. CASE q # r
      BY <1>0, <1>1, <1>2, <1>3, <2>1, <3>0, <3>2 DEF LeftWasSaid
    <3>q. QED BY <3>1, <3>2
  <2>q. QED BY <1>0, <1>1, <2>1 DEF TeardownPlace
<1>q. QED BY <1>4, <1>6, <1>7, <1>8 DEF BooksInv

\* One record of a loop of the teardown.
LEMMA TakeOutKeeps ==
  ASSUME BooksInv, NEW section \in Sections, NEW r \in Records, TakeOut(section, r),
         NEW to \in {"none", "retired"}, section = "assets" <=> to = "none",
         Set(r, to) \/ UNCHANGED record
  PROVE  BooksInv'
<1>0. /\ program = "teardown" /\ step = <<section, "records">>
      /\ r \in todo /\ todo' = todo \ {r}
      /\ UNCHANGED <<open, program, step, listed, inUse, number, hand, paid, said>>
      /\ UNCHANGED <<blind, warned, beside>>
  BY DEF TakeOut, TearingDown, Each, invoice, history
<1>1. /\ todo \subseteq listed /\ listed \subseteq Names(section) \X (1..Copies)
      /\ \A q \in listed : q[1] \in Assets \/ record[q] # "none"
      /\ Hides \/ \A q \in todo : LeftWasSaid(q)
  BY <1>0 DEF BooksInv, TeardownPlace
<1>2. /\ record' \in [Records -> {"none", "active", "retired"}]
      /\ record'[r] \in {record[r], to} /\ \A q \in Records : q # r => record'[q] = record[q]
      /\ todo \subseteq Records
  BY <1>0, <1>1 DEF Set, BooksInv, SandboxTypeOK
<1>3. /\ r[1] \in Names(section) /\ (to = "retired" => record[r] # "none")
      /\ r[1] \in Assets => to = "none"
      /\ Hides \/ LeftWasSaid(r)
  BY <1>0, <1>1, NamesApart
<1>4. SandboxTypeOK'
  BY <1>0, <1>2 DEF BooksInv, SandboxTypeOK
<1>5. KindsKept'
  BY <1>0, <1>2, <1>3, NamesApart DEF BooksInv, KindsKept
<1>6. OneRecordEach'
  BY <1>0, <1>2, <1>3 DEF BooksInv, OneRecordEach
<1>7. HiddenWasWarned'
  BY <1>0, <1>2, <1>3 DEF BooksInv, HiddenWasWarned, LeftWasSaid, Hides
<1>8. SaidPaidIsPaid' /\ SeedPlace'
  BY <1>0 DEF BooksInv, SaidPaidIsPaid, SeedPlace
<1>9. TeardownPlace'
  <2>1. ASSUME NEW q \in listed PROVE q[1] \in Assets \/ record'[q] # "none"
    <3>1. q \in Records
      BY DEF BooksInv, SandboxTypeOK
    <3>q. QED BY <1>1, <1>2, <1>3, <3>1, NamesApart, NamesAre
  <2>q. QED BY <1>0, <1>1, <1>2, <2>1 DEF TeardownPlace, LeftWasSaid, Hides
<1>q. QED BY <1>4, <1>5, <1>6, <1>7, <1>8, <1>9 DEF BooksInv

LEMMA SeedKeeps == ASSUME BooksInv, Seed PROVE BooksInv'
<1>1. CASE \E section \in Sections : SeedList(section, Shows(section), Names(section))
  BY <1>1, SeedListKeeps
<1>2. CASE \E section \in Sections : \E i, n : SetsUp(section, i, n)
  BY <1>2, SetsUpKeeps
<1>3. CASE \E i \in Suppliers : InvoiceSupplier(i)
  <2>1. PICK i \in Suppliers : InvoiceSupplier(i)
    BY <1>3
  <2>2. i \in Names("suppliers") /\ "suppliers" \in {"suppliers", "customers"}
    BY NamesAre
  <2>q. QED
    BY <2>1, <2>2, InvoiceKeeps DEF InvoiceSupplier, CreateSupplierInvoice, Each, Goto
<1>4. CASE \E i \in Customers : InvoiceCustomer(i)
  <2>1. PICK i \in Customers : InvoiceCustomer(i)
    BY <1>4
  <2>2. i \in Names("customers") /\ "customers" \in {"suppliers", "customers"}
    BY NamesAre
  <2>q. QED
    BY <2>1, <2>2, InvoiceKeeps DEF InvoiceCustomer, CreateCustomerInvoice, Each, Goto
<1>5. CASE BookkeepAP
  <2>1. "suppliers" \in {"suppliers", "customers"}
    OBVIOUS
  <2>2. step' = <<"suppliers", "invoices">> /\ hand' = NoRecord /\ step'[2] # "pay"
    BY <1>5 DEF BookkeepAP, Goto
  <2>q. QED BY <1>5, <2>1, <2>2, BookkeepKeeps DEF BookkeepAP, BookkeepSupplierInvoice
<1>6. CASE BookkeepAR
  <2>1. "customers" \in {"suppliers", "customers"}
    OBVIOUS
  <2>2. \/ step' = <<"customers", "pay">> /\ hand' = hand
        \/ step' = <<"customers", "invoices">> /\ hand' = NoRecord
    BY <1>6 DEF BookkeepAR, Goto
  <2>3. hand \in Records
    BY <1>6 DEF BookkeepAR, Seeding, BooksInv, SeedPlace
  <2>4. hand # NoRecord
    BY <2>3, RecordsAre DEF NoRecord
  <2>5. hand' = NoRecord => step'[2] # "pay"
    BY <2>2, <2>4
  <2>q. QED BY <1>6, <2>1, <2>2, <2>5, BookkeepKeeps DEF BookkeepAR, BookkeepCustomerInvoice
<1>7. CASE ReadBalance \/ RegisterPayment \/ BookkeepPayment
  BY <1>7, PaymentKeeps
<1>8. ASSUME program = "seed",
             NEW section \in Sections, NEW next \in Sections \cup {"none"}, NEW part \in {"records", "invoices"},
             NEW to \in {"list", "complete"}, next = "none" <=> to = "complete",
             PassedBy(next) = PassedBy(section) \cup Names(section),
             Through(section, part, <<next, to>>, {})
      PROVE  BooksInv'
  <2>1. <<next, to>> \in Steps \cup {Complete}
    BY <1>8 DEF Steps, Complete
  <2>2. <<next, to>>[1] = next /\ <<next, to>>[2] \in {"list", "complete"}
    OBVIOUS
  <2>q. QED BY <1>8, <2>1, <2>2, SeedThrough
<1>9. ASSUME program = "seed", NEW section \in {"suppliers", "customers"},
             Through(section, "records", <<section, "invoices">>, Names(section))
      PROVE  BooksInv'
  <2>1. section \in Sections /\ Names(section) \in SUBSET Fixtures
    BY NamesApart DEF Sections
  <2>2. <<section, "invoices">> \in Steps \cup {Complete} /\ "records" \in {"records", "invoices"}
    BY <2>1 DEF Steps
  <2>q. QED BY <1>9, <2>1, <2>2, SeedThrough
<1>10. CASE \/ SeedList("suppliers", ListSuppliers, Suppliers)
            \/ SeedList("customers", ListCustomers, Customers)
            \/ SeedList("projects", ListProjectsByPrefix, Projects)
            \/ SeedList("cost centres", ListCostCentersByPrefix, CostCentres)
            \/ SeedList("assets", ListAssetsByPrefix, Assets)
  BY <1>1, <1>10, ListingsShow, NamesAre DEF Sections
<1>11. CASE \/ \E i \in Suppliers : SetUpSupplier(i)
            \/ \E i \in Customers : SetUpCustomer(i)
            \/ \E i \in Projects : SetUpProject(i)
            \/ \E i \in CostCentres : SetUpCostCenter(i)
            \/ \E i \in Assets : SetUpAsset(i)
  BY <1>2, <1>11, SetUpsAre DEF Sections
<1>12. CASE program = "seed" /\
         \/ Through("suppliers", "records", <<"suppliers", "invoices">>, Suppliers)
         \/ Through("customers", "records", <<"customers", "invoices">>, Customers)
  BY <1>9, <1>12, NamesAre
<1>13. CASE program = "seed" /\
         \/ Through("suppliers", "invoices", <<"customers", "list">>, {})
         \/ Through("customers", "invoices", <<"projects", "list">>, {})
         \/ Through("projects", "records", <<"cost centres", "list">>, {})
         \/ Through("cost centres", "records", <<"assets", "list">>, {})
         \/ Through("assets", "records", Complete, {})
  BY <1>8, <1>13, PassedAre DEF Sections, Complete
<1>q. QED
  BY <1>3, <1>4, <1>5, <1>6, <1>7, <1>10, <1>11, <1>12, <1>13 DEF Seed

LEMMA TeardownKeeps == ASSUME BooksInv, Teardown PROVE BooksInv'
<1>1. CASE \/ TeardownList("suppliers", "invoices", ListSuppliers)
           \/ TeardownList("customers", "invoices", ListCustomers)
           \/ TeardownList("projects", "records", ListProjectsByPrefix)
           \/ TeardownList("cost centres", "records", ListCostCentersByPrefix)
           \/ TeardownList("assets", "records", ListAssetsByPrefix)
  BY <1>1, ListingsShow, TeardownListKeeps DEF Sections
<1>2. CASE \E r \in Records : CancelSupplierInvoices(r) \/ CancelCustomerInvoices(r)
  <2>1. PICK r \in Records : CancelSupplierInvoices(r) \/ CancelCustomerInvoices(r)
    BY <1>2
  <2>2. \E section \in {"suppliers", "customers"} : CancelInvoices(section, r)
    BY <2>1 DEF CancelSupplierInvoices, CancelCustomerInvoices
  <2>3. \/ \E shown \in 0..open[r] : \E kept \in 0..shown :
              Cancelled(r, shown, kept) /\ Warn(r, kept > 0)
        \/ UNCHANGED <<open, blind>> /\ Warn(r, TRUE)
    BY <2>1 DEF CancelSupplierInvoices, CancelCustomerInvoices,
       ListSupplierInvoicesBySupplier, ListCustomerInvoicesByCustomer
  <2>q. QED BY <2>2, <2>3, CancelKeeps
<1>3. CASE \E r \in Records : \/ TearDownAP(r) \/ TearDownAR(r) \/ TearDownProject(r)
                             \/ TearDownCostCenter(r) \/ TearDownAsset(r)
  <2>1. PICK r \in Records : \/ TearDownAP(r) \/ TearDownAR(r) \/ TearDownProject(r)
                            \/ TearDownCostCenter(r) \/ TearDownAsset(r)
    BY <1>3
  <2>2. CASE TearDownAsset(r)
    BY <2>2, TakeOutKeeps DEF TearDownAsset, DeleteAsset, Sections
  <2>3. CASE \E section \in Sections \ {"assets"} :
               TakeOut(section, r) /\ (Set(r, "retired") \/ UNCHANGED record)
    BY <2>3, TakeOutKeeps
  <2>q. QED
    BY <2>1, <2>2, <2>3 DEF TearDownAP, TearDownAR, TearDownProject, TearDownCostCenter, Sections,
       DeactivateSupplier, SetCustomerActive, SetProjectStatus, SetCostCenterActive
<1>4. ASSUME program = "teardown", NEW section \in {"suppliers", "customers"},
             Through(section, "invoices", <<section, "records">>, inUse)
      PROVE  BooksInv'
  <2>1. /\ section \in Sections /\ <<section, "records">> \in Steps \cup {Complete}
        /\ "invoices" \in {"records", "invoices"}
    BY DEF Sections, Steps
  <2>q. QED BY <1>4, <2>1, TeardownThrough
<1>5. ASSUME program = "teardown", NEW section \in Sections,
             NEW next \in {<<s, "list">> : s \in Sections} \cup {Complete},
             Through(section, "records", next, {})
      PROVE  BooksInv'
  <2>1. /\ next \in Steps \cup {Complete} /\ next[2] \in {"list", "complete"}
        /\ "records" \in {"records", "invoices"}
    <3>1. CASE next = Complete
      BY <3>1 DEF Complete
    <3>2. ASSUME NEW s \in Sections, next = <<s, "list">> PROVE next \in Steps /\ next[2] = "list"
      BY <3>2 DEF Steps
    <3>q. QED BY <3>1, <3>2
  <2>q. QED BY <1>5, <2>1, TeardownThrough
<1>6. CASE program = "teardown" /\
         \/ Through("suppliers", "invoices", <<"suppliers", "records">>, inUse)
         \/ Through("customers", "invoices", <<"customers", "records">>, inUse)
  BY <1>4, <1>6
<1>7. CASE program = "teardown" /\
         \/ Through("suppliers", "records", <<"customers", "list">>, {})
         \/ Through("customers", "records", <<"projects", "list">>, {})
         \/ Through("projects", "records", <<"cost centres", "list">>, {})
         \/ Through("cost centres", "records", <<"assets", "list">>, {})
         \/ Through("assets", "records", Complete, {})
  BY <1>5, <1>7 DEF Sections
<1>q. QED BY <1>1, <1>2, <1>3, <1>6, <1>7 DEF Teardown

\* A request of the seed of another job: one record more or one that is active
\* again, or one invoice more or fewer.
LEMMA SeedRequestKeeps ==
  ASSUME BooksInv, NEW r \in Records, Beside("seed"), SeedRequest(r)
  PROVE  BooksInv'
<1>0. /\ UNCHANGED <<program, step, listed, inUse, number, todo, hand, paid, said, blind, warned>>
      /\ "seed" \in Programs
  BY DEF Beside, loop, invoice, Programs
<1>1. /\ beside' \in [Programs -> Nat] /\ Twice' /\ Hides' /\ (TornDown' <=> TornDown)
  <2>1. beside \in [Programs -> Nat] /\ beside' = [beside EXCEPT !["seed"] = @ + 1]
    BY DEF Beside, BooksInv, SandboxTypeOK
  <2>2. beside["seed"] + 1 \in Nat /\ beside["seed"] + 1 > 0
    BY <1>0, <2>1
  <2>3. /\ beside' \in [Programs -> Nat] /\ beside'["seed"] > 0
        /\ beside'["teardown"] = beside["teardown"]
    BY <1>0, <2>1, <2>2
  <2>q. QED BY <1>0, <2>3 DEF Twice, Hides, TornDown
<1>2. /\ record' \in [Records -> {"none", "active", "retired"}]
      /\ \A q \in Records : record'[q] = record[q] \/ (q = r /\ record'[q] = "active")
  <2>1. record' = record \/ Set(r, "active")
    BY DEF SeedRequest, CreateSupplier, CreateCustomer, CreateProject, CreateCostCenter, CreateAsset,
       ActivateSupplier, SetCustomerActive, SetProjectStatus, SetCostCenterActive
  <2>q. QED BY <2>1 DEF Set, BooksInv, SandboxTypeOK
<1>3. /\ open' \in [Records -> 0..MaxOpen]
      /\ \A q \in Records : open'[q] = open[q] \/ q[1] \in Suppliers \cup Customers
  <2>1. open' = open \/ (r[1] \in Suppliers \cup Customers /\ (Open(r) \/ Closed(r)))
    BY DEF SeedRequest, CreateSupplierInvoice, BookkeepSupplierInvoice, CreateCustomerInvoice,
       BookkeepCustomerInvoice
  <2>2. open \in [Records -> 0..MaxOpen]
    BY DEF BooksInv, SandboxTypeOK
  <2>q. QED BY <2>1, <2>2 DEF Open, Closed
<1>4. SandboxTypeOK'
  BY <1>0, <1>1, <1>2, <1>3 DEF BooksInv, SandboxTypeOK
<1>5. KindsKept'
  BY <1>2, <1>3 DEF BooksInv, KindsKept
<1>6. OneRecordEach' /\ HiddenWasWarned' /\ SaidPaidIsPaid'
  BY <1>0, <1>1 DEF BooksInv, OneRecordEach, HiddenWasWarned, SaidPaidIsPaid, Twice, Hides
<1>7. SeedPlace'
  <2>1. ASSUME NEW i \in Fixtures PROVE (Standing(i) => Standing(i)') /\ (InPlace(i) => InPlace(i)')
    <3>1. \A n \in 1..Copies : record[<<i, n>>] = "active" => record'[<<i, n>>] = "active"
      BY <1>2, RecordsAre
    <3>q. QED BY <1>0, <1>1, <3>1 DEF Standing, InPlace
  <2>2. ASSUME NEW q \in listed PROVE Shown(q) => Shown(q)'
    <3>1. q \in Records
      BY DEF BooksInv, SandboxTypeOK
    <3>q. QED BY <1>2, <3>1 DEF Shown
  <2>3. \A part : PassedBy(part) \subseteq Fixtures /\ Names(part) \subseteq Fixtures
    BY DEF PassedBy, Names, Fixtures
  <2>q. QED BY <1>0, <1>1, <2>1, <2>2, <2>3 DEF BooksInv, SeedPlace
<1>8. TeardownPlace'
  <2>1. ASSUME NEW q \in listed, record[q] # "none" PROVE record'[q] # "none"
    <3>1. q \in Records
      BY DEF BooksInv, SandboxTypeOK
    <3>q. QED BY <1>2, <2>1, <3>1
  <2>q. QED BY <1>0, <1>1, <2>1 DEF BooksInv, TeardownPlace
<1>q. QED BY <1>4, <1>5, <1>6, <1>7, <1>8 DEF BooksInv

\* A request of the teardown of another job: a record less in use, or an invoice
\* fewer that is open.
LEMMA TeardownRequestKeeps ==
  ASSUME BooksInv, NEW r \in Records, Beside("teardown"), TeardownRequest(r)
  PROVE  BooksInv'
<1>0. /\ UNCHANGED <<program, step, listed, inUse, number, todo, hand, paid, said, blind, warned>>
      /\ "teardown" \in Programs
  BY DEF Beside, loop, invoice, Programs
<1>1. /\ beside' \in [Programs -> Nat] /\ TornDown' /\ Hides' /\ (Twice' <=> Twice)
  <2>1. beside \in [Programs -> Nat] /\ beside' = [beside EXCEPT !["teardown"] = @ + 1]
    BY DEF Beside, BooksInv, SandboxTypeOK
  <2>2. beside["teardown"] + 1 \in Nat /\ beside["teardown"] + 1 > 0
    BY <1>0, <2>1
  <2>3. /\ beside' \in [Programs -> Nat] /\ beside'["teardown"] > 0
        /\ beside'["seed"] = beside["seed"]
    BY <1>0, <2>1, <2>2
  <2>q. QED BY <1>0, <2>3 DEF Twice, Hides, TornDown
<1>2. /\ record' \in [Records -> {"none", "active", "retired"}]
      /\ \A q \in Records :
           \/ record'[q] = record[q]
           \/ record[q] # "none" /\ record'[q] = "retired" /\ q[1] \notin Assets
           \/ q[1] \in Assets /\ record'[q] = "none"
  <2>1. \/ record' = record
        \/ r[1] \notin Assets /\ record[r] # "none" /\ Set(r, "retired")
        \/ r[1] \in Assets /\ Set(r, "none")
    BY DEF TeardownRequest, DeactivateSupplier, SetCustomerActive, SetProjectStatus,
       SetCostCenterActive, DeleteAsset
  <2>q. QED BY <2>1 DEF Set, BooksInv, SandboxTypeOK
<1>3. /\ open' \in [Records -> 0..MaxOpen]
      /\ \A q \in Records : open'[q] = open[q] \/ q[1] \in Suppliers \cup Customers
  <2>1. open' = open \/ (r[1] \in Suppliers \cup Customers /\ Closed(r))
    BY DEF TeardownRequest, CancelSupplierInvoice, CancelCustomerInvoice
  <2>2. open \in [Records -> 0..MaxOpen]
    BY DEF BooksInv, SandboxTypeOK
  <2>q. QED BY <2>1, <2>2 DEF Closed
<1>4. SandboxTypeOK'
  BY <1>0, <1>1, <1>2, <1>3 DEF BooksInv, SandboxTypeOK
<1>5. KindsKept'
  BY <1>2, <1>3 DEF BooksInv, KindsKept
<1>6. HiddenWasWarned' /\ SaidPaidIsPaid'
  BY <1>0, <1>1 DEF BooksInv, HiddenWasWarned, SaidPaidIsPaid, Hides
<1>7. OneRecordEach'
  <2> SUFFICES ASSUME ~Twice, NEW q \in Records, NEW x \in Records, q # x, q[1] = x[1],
                      record'[q] # "none", record'[x] # "none"
               PROVE  q[1] \in Customers /\ (record'[q] = "retired" \/ record'[x] = "retired")
    BY <1>1 DEF OneRecordEach, Twice
  <2>1. record[q] # "none" /\ record[x] # "none"
    BY <1>2
  <2>2. q[1] \in Customers /\ (record[q] = "retired" \/ record[x] = "retired")
    BY <2>1 DEF BooksInv, OneRecordEach, Twice
  <2>q. QED BY <1>2, <2>2
<1>8. SeedPlace'
  <2>1. ASSUME NEW i PROVE Standing(i)' /\ (InPlace(i) => InPlace(i)')
    BY <1>0, <1>1 DEF Standing, InPlace
  <2>2. ASSUME NEW i \in Fixtures, NEW n \in 1..Copies, Shown(<<i, n>>)' PROVE Shown(<<i, n>>)
    BY <1>2, <2>2, RecordsAre DEF Shown
  <2>3. \A part : Names(part) \subseteq Fixtures
    BY DEF Names, Fixtures
  <2>q. QED BY <1>0, <1>1, <2>1, <2>2, <2>3 DEF BooksInv, SeedPlace
<1>9. TeardownPlace'
  <2>1. ASSUME NEW q \in listed, q[1] \in Assets \/ record[q] # "none"
        PROVE  q[1] \in Assets \/ record'[q] # "none"
    <3>1. q \in Records
      BY DEF BooksInv, SandboxTypeOK
    <3>q. QED BY <1>2, <2>1, <3>1
  <2>q. QED BY <1>0, <1>1, <2>1 DEF BooksInv, TeardownPlace
<1>q. QED BY <1>4, <1>5, <1>6, <1>7, <1>8, <1>9 DEF BooksInv

LEMMA BooksInvHolds == SandboxSpec => []BooksInv
<1>1. BooksInv /\ [SandboxNext]_sandboxVars => BooksInv'
  <2> SUFFICES ASSUME BooksInv, [SandboxNext]_sandboxVars PROVE BooksInv'
    OBVIOUS
  <2>1. CASE \E p \in Programs : Begin(p)
    BY <2>1, BeginKeeps
  <2>2. CASE Seed
    BY <2>2, SeedKeeps
  <2>3. CASE Teardown
    BY <2>3, TeardownKeeps
  <2>4. CASE Exit
    BY <2>4, ExitKeeps
  <2>5. CASE UNCHANGED sandboxVars
    <3>0. /\ UNCHANGED <<record, open, program, step, listed, inUse, number, todo>>
          /\ UNCHANGED <<hand, paid, said, blind, warned, beside>>
      BY <2>5 DEF sandboxVars, books, loop, invoice, history
    <3>1. SandboxTypeOK' /\ KindsKept' /\ OneRecordEach' /\ HiddenWasWarned' /\ SaidPaidIsPaid'
      BY <3>0 DEF BooksInv, SandboxTypeOK, KindsKept, OneRecordEach, HiddenWasWarned, SaidPaidIsPaid
    <3>2. SeedPlace'
      BY <3>0 DEF BooksInv, SeedPlace, InPlace, Standing, Shown, Twice, TornDown
    <3>3. TeardownPlace'
      BY <3>0 DEF BooksInv, TeardownPlace, LeftWasSaid, Hides
    <3>q. QED BY <3>1, <3>2, <3>3 DEF BooksInv
  <2>6. CASE OtherJob
    BY <2>6, SeedRequestKeeps, TeardownRequestKeeps DEF OtherJob
  <2>q. QED BY <2>1, <2>2, <2>3, <2>4, <2>5, <2>6 DEF SandboxNext
<1>q. QED BY <1>1, BooksInitInv, PTL DEF SandboxSpec

\* However many runs of the seed and the teardown there were and wherever each
\* of them stopped, the tests that look a fixture up by its name find one record
\* and never two, unless a listing showed less than there was or the seed of
\* another job came between; all of them once a seed has run to its end, unless
\* the teardown of another job did; and what the seed reported as paid is paid.
THEOREM FixturesFound == SandboxSpec => []FixturesInPlace
<1>1. BooksInv => FixturesInPlace
  <2> SUFFICES ASSUME BooksInv, program = "seed", step = Complete, NEW i \in Fixtures
               PROVE  Standing(i)
    BY DEF FixturesInPlace, SeedComplete, BooksInv, Standing, TornDown
  <2>1. PassedBy(step[1]) = Fixtures
    BY PassedAre, NamesAre DEF Complete, Fixtures
  <2>q. QED BY <2>1 DEF BooksInv, SeedPlace
<1>q. QED BY <1>1, BooksInvHolds, PTL

\* No teardown hides a customer who still has an open invoice without having
\* said that it could not cancel it, unless it was shown less than there was or
\* another job came between.
THEOREM HiddenSaid == SandboxSpec => []HiddenWasWarned
<1>1. BooksInv => HiddenWasWarned
  BY DEF BooksInv
<1>q. QED BY <1>1, BooksInvHolds, PTL
-----------------------------------------------------------------------------
(***************************************************************************)
(* The receipts client                                                     *)
(***************************************************************************)
\* A call has an attempt left until it ends; of the answers that were lost one at
\* most ended it; a voucher more than those is what success is.
CallCounts(p) ==
  /\ post[p] # "error" => tries[p] < MaxTries
  /\ lostAnswers[p] <= tries[p] + (IF post[p] = "error" THEN 1 ELSE 0)
  /\ vouchers[p] = IF post[p] = "ok" THEN lostAnswers[p] + 1 ELSE lostAnswers[p]
  /\ post[p] = "save" => loaded[p] < MaxRotation

\* While refreshes are serialised: one call has the token, and file and Fortnox
\* agree but for what it is about to save.
Serial ==
  /\ ~revoked
  /\ \A p, q \in Posts : Refreshing(p) /\ Refreshing(q) => p = q
  /\ \A p \in Posts : post[p] = "refresh" => loaded[p] = liveToken
  /\ \A p \in Posts : post[p] = "save" => loaded[p] + 1 = liveToken
  /\ (\A p \in Posts : post[p] # "save") => tokenFile.place = liveToken

PostInv ==
  /\ PostTypeOK
  /\ \A p \in Posts : CallCounts(p)
  /\ unserialised \/ Serial

USE TriesAssumption

LEMMA PostInitInv == ASSUME PostInit PROVE PostInv
<1>1. 0 \in 0..MaxTries /\ 0 \in 0..MaxRotation /\ 0 < MaxTries
  BY SMT
<1>2. PostTypeOK
  BY <1>1 DEF PostInit, PostTypeOK
<1>3. ASSUME NEW p \in Posts PROVE CallCounts(p)
  <2>1. post[p] = "new" /\ tries[p] = 0 /\ lostAnswers[p] = 0 /\ vouchers[p] = 0
    BY DEF PostInit
  <2>q. QED BY <1>1, <2>1 DEF CallCounts
<1>4. Serial
  BY DEF PostInit, Serial, Refreshing
<1>q. QED BY <1>2, <1>3, <1>4 DEF PostInv

LEMMA CreateVoucherKeeps ==
  ASSUME PostInv, NEW p \in Posts, CreateVoucher(p)  PROVE PostInv'
<1>1. PostTypeOK'
  BY DEF PostInv, PostTypeOK, CreateVoucher, GoPost, token
<1>2. \A q \in Posts : CallCounts(q)'
  BY DEF PostInv, PostTypeOK, CallCounts, CreateVoucher, GoPost, token
<1>3. (unserialised \/ Serial)'
  BY DEF PostInv, PostTypeOK, Serial, Refreshing, CreateVoucher, GoPost, token
<1>q. QED BY <1>1, <1>2, <1>3 DEF PostInv

LEMMA AttachTokenKeeps ==
  ASSUME PostInv, NEW p \in Posts, AttachToken(p)  PROVE PostInv'
<1>1. PostTypeOK'
  BY DEF PostInv, PostTypeOK, AttachToken, GoPost, Refreshing
<1>2. \A q \in Posts : CallCounts(q)'
  BY DEF PostInv, PostTypeOK, CallCounts, AttachToken, GoPost
<1>3. (unserialised \/ Serial)'
  <2>1. CASE post' \in {[post EXCEPT ![p] = to] : to \in {"send", "error"}} /\ UNCHANGED unserialised
    <3>1. post[p] = "attach" /\ UNCHANGED <<tokenFile, liveToken, revoked>>
      BY DEF AttachToken
    <3>2. \A q \in Posts \ {p} : post'[q] = post[q] /\ loaded'[q] = loaded[q]
      BY <2>1 DEF PostInv, PostTypeOK, AttachToken
    <3>3. post'[p] \in {"send", "error"}
      BY <2>1 DEF PostInv, PostTypeOK
    <3>q. QED BY <2>1, <3>1, <3>2, <3>3 DEF PostInv, Serial, Refreshing
  <2>2. CASE /\ post' = [post EXCEPT ![p] = "refresh"]
             /\ unserialised' = (unserialised \/ \E q \in Posts : Refreshing(q))
    <3> SUFFICES ASSUME ~unserialised, \A q \in Posts : ~Refreshing(q)  PROVE Serial'
      BY <2>2
    <3>0. \A q \in Posts : ~Refreshing(q)
      OBVIOUS
    <3>1. Serial /\ tokenFile.place = liveToken
      BY DEF PostInv, Serial, Refreshing
    <3>2. post'[p] = "refresh" /\ UNCHANGED <<tokenFile, liveToken, revoked>>
      BY <2>2 DEF PostInv, PostTypeOK, AttachToken
    <3>3. loaded' = [loaded EXCEPT ![p] = tokenFile.place]
      BY <3>2 DEF PostInv, PostTypeOK, AttachToken, GoPost
    <3>4. loaded'[p] = tokenFile.place
      BY <3>3 DEF PostInv, PostTypeOK
    <3>5. \A q \in Posts \ {p} : post'[q] = post[q] /\ post[q] \notin {"refresh", "save"}
      BY <2>2, <3>0 DEF PostInv, PostTypeOK, Refreshing
    <3>q. QED BY <3>1, <3>2, <3>4, <3>5 DEF Serial, Refreshing
  <2>q. QED BY <2>1, <2>2 DEF AttachToken, GoPost
<1>q. QED BY <1>1, <1>2, <1>3 DEF PostInv

LEMMA RefreshTokenKeeps ==
  ASSUME PostInv, NEW p \in Posts, RefreshToken(p)  PROVE PostInv'
<1>1. PostTypeOK'
  <2>1. liveToken' \in 0..MaxRotation
    BY DEF PostInv, PostTypeOK, RefreshToken
  <2>0. revoked' \in BOOLEAN /\ unserialised' \in BOOLEAN
    BY Zenon DEF PostInv, PostTypeOK, RefreshToken
  <2>2. \E to \in {"save", "error"} : GoPost(p, to)
    BY DEF RefreshToken
  <2>3. post' \in [Posts -> {"new", "attach", "refresh", "save", "send", "wait", "ok", "error"}]
    BY <2>2 DEF PostInv, PostTypeOK, GoPost
  <2>q. QED BY <2>0, <2>1, <2>3 DEF PostInv, PostTypeOK, RefreshToken
<1>2. \A q \in Posts : CallCounts(q)'
  BY DEF PostInv, PostTypeOK, CallCounts, RefreshToken, GoPost
<1>3. (unserialised \/ Serial)'
  BY DEF PostInv, PostTypeOK, Serial, Refreshing, RefreshToken, GoPost
<1>q. QED BY <1>1, <1>2, <1>3 DEF PostInv

LEMMA SaveTokenKeeps ==
  ASSUME PostInv, NEW p \in Posts, SaveToken(p)  PROVE PostInv'
<1>0. loaded[p] + 1 \in 0..MaxRotation
  <2>1. post[p] = "save" /\ loaded[p] \in 0..MaxRotation
    BY DEF PostInv, PostTypeOK, SaveToken
  <2>2. loaded[p] < MaxRotation
    BY <2>1 DEF PostInv, CallCounts
  <2>q. QED BY <2>1, <2>2
<1>1. PostTypeOK'
  <2>1. [place |-> loaded[p] + 1, expired |-> FALSE] \in [place : 0..MaxRotation, expired : BOOLEAN]
    BY <1>0
  <2>2. tokenFile' \in [place : 0..MaxRotation, expired : BOOLEAN] /\ unserialised' \in BOOLEAN
    BY <2>1, Zenon DEF PostInv, PostTypeOK, SaveToken
  <2>3. \E to \in {"send", "error"} : GoPost(p, to)
    BY DEF SaveToken
  <2>4. post' \in [Posts -> {"new", "attach", "refresh", "save", "send", "wait", "ok", "error"}]
    BY <2>3 DEF PostInv, PostTypeOK, GoPost
  <2>q. QED BY <2>2, <2>4 DEF PostInv, PostTypeOK, SaveToken
<1>2. \A q \in Posts : CallCounts(q)'
  BY DEF PostInv, PostTypeOK, CallCounts, SaveToken, GoPost
<1>3. (unserialised \/ Serial)'
  BY DEF PostInv, PostTypeOK, Serial, Refreshing, SaveToken, GoPost
<1>q. QED BY <1>1, <1>2, <1>3 DEF PostInv

LEMMA SendKeeps ==
  ASSUME PostInv, NEW p \in Posts, Send(p)  PROVE PostInv'
<1>0. /\ tries[p] \in Nat /\ vouchers[p] \in Nat /\ lostAnswers[p] \in Nat
      /\ tries[p] < MaxTries /\ lostAnswers[p] <= tries[p] /\ vouchers[p] = lostAnswers[p]
  BY DEF PostInv, PostTypeOK, CallCounts, Send
<1>1. PostTypeOK'
  BY <1>0 DEF PostInv, PostTypeOK, Send, Created, Repeat, GoPost, token
<1>2. \A q \in Posts : CallCounts(q)'
  BY <1>0 DEF PostInv, PostTypeOK, CallCounts, Send, Created, Repeat, GoPost, token
<1>3. (unserialised \/ Serial)'
  <2>1. \A q \in Posts : post'[q] = post[q] \/ (q = p /\ post'[q] \in {"ok", "wait", "error"})
    BY DEF PostInv, PostTypeOK, Send, Repeat, GoPost
  <2>2. post[p] = "send" /\ UNCHANGED <<token, loaded>>
    BY DEF Send
  <2>q. QED BY <2>1, <2>2 DEF PostInv, Serial, Refreshing, token
<1>q. QED BY <1>1, <1>2, <1>3 DEF PostInv

LEMMA ResumeKeeps ==
  ASSUME PostInv, NEW p \in Posts, Resume(p)  PROVE PostInv'
<1>1. PostTypeOK'
  BY DEF PostInv, PostTypeOK, Resume, GoPost, token
<1>2. \A q \in Posts : CallCounts(q)'
  BY DEF PostInv, PostTypeOK, CallCounts, Resume, GoPost, token
<1>3. (unserialised \/ Serial)'
  BY DEF PostInv, PostTypeOK, Serial, Refreshing, Resume, GoPost, token
<1>q. QED BY <1>1, <1>2, <1>3 DEF PostInv

LEMMA ExpiryKeeps == ASSUME PostInv, AccessTokenExpires PROVE PostInv'
<1>1. PostTypeOK' /\ tokenFile'.place = tokenFile.place
  BY DEF PostInv, PostTypeOK, AccessTokenExpires
<1>2. (\A q \in Posts : CallCounts(q)') /\ (unserialised \/ Serial)'
  BY <1>1 DEF PostInv, CallCounts, Serial, Refreshing, AccessTokenExpires
<1>q. QED BY <1>1, <1>2 DEF PostInv

LEMMA PostInvHolds == PostSpec => []PostInv
<1>1. PostInv /\ [PostNext]_postVars => PostInv'
  <2> SUFFICES ASSUME PostInv, [PostNext]_postVars PROVE PostInv'
    OBVIOUS
  <2>1. CASE PostNext
    BY <2>1, CreateVoucherKeeps, AttachTokenKeeps, RefreshTokenKeeps, SaveTokenKeeps, SendKeeps,
       ResumeKeeps, ExpiryKeeps DEF PostNext
  <2>2. CASE UNCHANGED postVars
    BY <2>2 DEF postVars, PostInv, PostTypeOK, CallCounts, Serial, Refreshing
  <2>q. QED BY <2>1, <2>2
<1>q. QED BY PostInitInv, <1>1, PTL DEF PostSpec

\* doWithRetry: however often a POST is repeated, a second voucher is there
\* only where an answer was lost.
THEOREM ExtraVouchers == PostSpec => []ExtraVoucherMeansLost
<1>1. ASSUME PostInv, NEW p \in Posts
      PROVE  /\ vouchers[p] <= lostAnswers[p] + 1
             /\ post[p] = "ok" => vouchers[p] = lostAnswers[p] + 1
  <2>1. lostAnswers[p] \in 0..MaxTries
    BY <1>1 DEF PostInv, PostTypeOK
  <2>2. vouchers[p] = IF post[p] = "ok" THEN lostAnswers[p] + 1 ELSE lostAnswers[p]
    BY <1>1 DEF PostInv, CallCounts
  <2>q. QED BY <2>1, <2>2
<1>2. PostInv => ExtraVoucherMeansLost
  BY <1>1 DEF ExtraVoucherMeansLost
<1>q. QED BY <1>2, PostInvHolds, PTL

\* refreshToken: the grant is lost only if two calls refresh at once, or a
\* rotated token is not saved.
THEOREM OneAtATime == PostSpec => []GrantNeedsOneAtATime
<1>1. PostInv => GrantNeedsOneAtATime
  BY DEF PostInv, Serial, GrantNeedsOneAtATime
<1>q. QED BY <1>1, PostInvHolds, PTL

-----------------------------------------------------------------------------
(***************************************************************************)
(* The borrowed token                                                      *)
(***************************************************************************)
\* A rotated token that job j has not written back yet, of the grant in use.
Ahead(j) == at[j] = "running" /\ file[j] # old[j] /\ file[j][1] = row[1]

\* A job works on the grant it fetched, never behind what it fetched and never
\* ahead of Fortnox; what it fetched is no newer than the row.
JobPlace(j) ==
  /\ file[j][1] = old[j][1] /\ old[j][2] <= file[j][2] /\ file[j][2] <= head[file[j][1]]
  /\ old[j][1] <= row[1]
  /\ old[j][1] = row[1] => old[j][2] <= row[2]

ServerPlace ==
  server # NoRefresh => /\ server[2] = Successor(server[1])
                        /\ server[2][2] <= head[server[1][1]]
                        /\ server[1][1] <= row[1]

Places ==
  /\ row[2] <= head[row[1]]
  /\ \A j \in Jobs : JobPlace(j)
  /\ ServerPlace

\* A grant nobody has had yet.
Untouched ==
  /\ \A g \in 1..MaxGrant : g > row[1] => head[g] = 0 /\ g \notin dead
  /\ \A g \in missed : g <= row[1]

\* As long as the grant lives, whoever has rotated it holds what the row is to
\* be replaced by, and is alone in that.
Alone ==
  /\ \A j \in Jobs : Ahead(j) => row = old[j]
  /\ \A j, k \in Jobs : Ahead(j) /\ Ahead(k) => j = k
  /\ server # NoRefresh /\ server[1][1] = row[1] =>
       row = server[1] /\ \A j \in Jobs : ~Ahead(j)

BorrowInv ==
  /\ BorrowTypeOK /\ Places /\ Untouched
  /\ row[1] \in dead \/ Alone
  /\ LostWasSaid
  /\ MissMeansRevoked

USE BorrowBoundsAssumption

LEMMA SameToken ==
  ASSUME NEW t \in BorrowToken, NEW u \in BorrowToken, t[1] = u[1], t[2] = u[2]
  PROVE  t = u
  BY DEF BorrowToken

LEMMA BorrowTypes ==
  ASSUME BorrowTypeOK
  PROVE  /\ row \in BorrowToken /\ row[1] \in 1..MaxGrant /\ row[2] \in 0..MaxGen
         /\ \A j \in Jobs : /\ file[j] \in BorrowToken /\ file[j][1] \in 1..MaxGrant
                            /\ file[j][2] \in 0..MaxGen
                            /\ old[j] \in BorrowToken /\ old[j][1] \in 1..MaxGrant
                            /\ old[j][2] \in 0..MaxGen
         /\ server # NoRefresh =>
              /\ server[1] \in BorrowToken /\ server[1][1] \in 1..MaxGrant
              /\ server[1][2] \in 0..MaxGen /\ server[2] \in BorrowToken
         /\ \A g \in 1..MaxGrant : head[g] \in 0..MaxGen
  BY DEF BorrowTypeOK, BorrowToken, NoRefresh

\* A job that presents the live token of the grant in use fetched the row, and
\* nobody else has rotated it.
LEMMA LiveFile ==
  ASSUME BorrowInv, NEW j \in Jobs, at[j] = "running", IsLive(file[j]), file[j][1] = row[1]
  PROVE  /\ row = old[j]
         /\ \A k \in Jobs : Ahead(k) => k = j
         /\ server = NoRefresh \/ server[1][1] # row[1]
<1>0. Alone /\ row[1] \notin dead /\ head[row[1]] = file[j][2]
  BY DEF BorrowInv, IsLive
<1>1. CASE Ahead(j)
  BY <1>0, <1>1 DEF Alone
<1>2. CASE file[j] = old[j]
  <2>1. row = old[j]
    BY <1>0, <1>2, BorrowTypes, SameToken DEF BorrowInv, Places, JobPlace
  <2>2. ASSUME NEW k \in Jobs, Ahead(k) PROVE FALSE
    <3>1. row = old[k] /\ file[k] # old[k]
      BY <1>0, <2>2 DEF Alone, Ahead
    <3>2. file[k][1] = old[k][1] /\ file[k][2] # old[k][2]
      BY <3>1, BorrowTypes, SameToken DEF BorrowInv, Places, JobPlace
    <3>q. QED BY <1>0, <1>2, <2>1, <3>1, <3>2, BorrowTypes DEF BorrowInv, Places, JobPlace
  <2>3. ASSUME server # NoRefresh, server[1][1] = row[1] PROVE FALSE
    <3>1. row = server[1]
      BY <1>0, <2>3 DEF Alone
    <3>2. server[2][2] = row[2] + 1 /\ server[2][2] <= head[row[1]]
      BY <2>3, <3>1 DEF BorrowInv, Places, ServerPlace, Successor
    <3>q. QED BY <1>0, <1>2, <2>1, <3>2, BorrowTypes DEF BorrowInv
  <2>q. QED BY <2>1, <2>2, <2>3
<1>q. QED BY <1>1, <1>2 DEF Ahead

\* While the row holds the live token nobody has rotated it.
LEMMA LiveRow ==
  ASSUME BorrowInv, IsLive(row)
  PROVE  /\ \A k \in Jobs : ~Ahead(k)
         /\ server = NoRefresh \/ server[1][1] # row[1]
<1>0. Alone /\ row[1] \notin dead /\ head[row[1]] = row[2]
  BY DEF BorrowInv, IsLive
<1>1. ASSUME NEW k \in Jobs, Ahead(k) PROVE FALSE
  <2>1. row = old[k] /\ file[k] # old[k]
    BY <1>0, <1>1 DEF Alone, Ahead
  <2>2. file[k][1] = old[k][1] /\ file[k][2] # old[k][2]
    BY <2>1, BorrowTypes, SameToken DEF BorrowInv, Places, JobPlace
  <2>q. QED BY <1>0, <2>1, <2>2, BorrowTypes DEF BorrowInv, Places, JobPlace
<1>2. ASSUME server # NoRefresh, server[1][1] = row[1] PROVE FALSE
  <2>1. row = server[1]
    BY <1>0, <1>2 DEF Alone
  <2>2. server[2][2] = row[2] + 1 /\ server[2][2] <= head[row[1]]
    BY <1>2, <2>1 DEF BorrowInv, Places, ServerPlace, Successor
  <2>q. QED BY <1>0, <2>2, BorrowTypes DEF BorrowInv
<1>q. QED BY <1>1, <1>2

LEMMA BorrowInitInv == ASSUME BorrowInit PROVE BorrowInv
<1>1. <<1, 0>> \in BorrowToken /\ 1 \in 1..MaxGrant /\ 0 \in 0..MaxGen
  BY DEF BorrowToken
<1>2. BorrowTypeOK
  BY <1>1 DEF BorrowInit, BorrowTypeOK, NoRefresh
<1>3. Places /\ Untouched
  BY <1>1 DEF BorrowInit, Places, JobPlace, ServerPlace, Untouched
<1>4. Alone /\ LostWasSaid /\ MissMeansRevoked
  BY <1>1 DEF BorrowInit, Alone, Ahead, LostWasSaid, MissMeansRevoked, IsNext, IsLive
<1>q. QED BY <1>2, <1>3, <1>4 DEF BorrowInv

LEMMA FetchKeeps == ASSUME BorrowInv, NEW j \in Jobs, Fetch(j) PROVE BorrowInv'
<1>0. /\ UNCHANGED <<row, head, dead, server, unsaved, missed>>
      /\ file'[j] = row /\ old'[j] = row /\ at'[j] = "running" /\ at[j] # "running"
      /\ \A k \in Jobs \ {j} : file'[k] = file[k] /\ old'[k] = old[k] /\ at'[k] = at[k]
  BY DEF BorrowInv, BorrowTypeOK, Fetch
<1>1. BorrowTypeOK'
  BY DEF BorrowInv, BorrowTypeOK, Fetch
<1>2. Places'
  BY <1>0, BorrowTypes DEF BorrowInv, Places, JobPlace, ServerPlace, Successor
<1>3. Untouched' /\ MissMeansRevoked'
  BY <1>0 DEF BorrowInv, Untouched, MissMeansRevoked
<1>4. \A k \in Jobs : Ahead(k)' => k # j /\ Ahead(k) /\ old'[k] = old[k]
  BY <1>0 DEF Ahead
<1>5. (row[1] \in dead \/ Alone)'
  BY <1>0, <1>4 DEF BorrowInv, Alone
<1>6. LostWasSaid'
  BY <1>0 DEF BorrowInv, LostWasSaid, IsNext, IsLive
<1>q. QED BY <1>1, <1>2, <1>3, <1>5, <1>6 DEF BorrowInv

\* Fortnox revokes a grant: what was true of it while it lived no longer counts.
LEMMA RevokedKeeps ==
  ASSUME BorrowInv, NEW t \in BorrowToken, Reused(t), t[1] <= row[1],
         UNCHANGED <<row, server, at, file, old, unsaved, missed>>
  PROVE  BorrowInv'
<1>1. BorrowTypeOK'
  BY DEF BorrowInv, BorrowTypeOK, Reused, BorrowToken
<1>2. Places'
  BY DEF BorrowInv, Places, JobPlace, ServerPlace, Reused, Successor
<1>3. Untouched' /\ MissMeansRevoked'
  BY BorrowTypes DEF BorrowInv, BorrowToken, Untouched, MissMeansRevoked, Reused
<1>4. Alone => Alone'
  BY DEF Alone, Ahead
<1>5. (row[1] \in dead \/ Alone)'
  BY <1>4 DEF BorrowInv, Reused
<1>6. LostWasSaid'
  <2>1. CASE t[1] = row[1]
    BY <2>1 DEF Reused, LostWasSaid
  <2>2. CASE t[1] # row[1]
    BY <2>2 DEF BorrowInv, Reused, LostWasSaid, IsNext, IsLive
  <2>q. QED BY <2>1, <2>2
<1>q. QED BY <1>1, <1>2, <1>3, <1>5, <1>6 DEF BorrowInv

\* The rotation of a grant by a job, saved in its file or not.
LEMMA JobRotates ==
  ASSUME BorrowInv, NEW j \in Jobs, at[j] = "running", Rotate(file[j]),
         \/ file' = [file EXCEPT ![j] = Successor(@)] /\ UNCHANGED unsaved
         \/ unsaved' = unsaved \cup {file[j][1]} /\ UNCHANGED file,
         UNCHANGED <<row, server, at, old, missed>>
  PROVE  BorrowInv'
<1> DEFINE g == file[j][1]
<1>0. /\ g \in 1..MaxGrant /\ g <= row[1] /\ file[j][2] + 1 \in 0..MaxGen
      /\ head[g] = file[j][2] /\ g \notin dead /\ dead' = dead
      /\ head'[g] = file[j][2] + 1
      /\ \A h \in 1..MaxGrant \ {g} : head'[h] = head[h]
  <2>1. g \in 1..MaxGrant /\ file[j][2] \in 0..MaxGen /\ g <= row[1]
    BY BorrowTypes DEF BorrowInv, Places, JobPlace
  <2>2. head[g] = file[j][2] /\ g \notin dead /\ dead' = dead /\ file[j][2] < MaxGen
    BY DEF Rotate, IsLive
  <2>3. head \in [1..MaxGrant -> 0..MaxGen] /\ head' = [head EXCEPT ![g] = @ + 1]
    BY DEF BorrowInv, BorrowTypeOK, Rotate
  <2>4. \A h \in 1..MaxGrant : head'[h] = IF h = g THEN head[h] + 1 ELSE head[h]
    BY <2>3
  <2>5. head'[g] = file[j][2] + 1
    BY <2>1, <2>2, <2>4
  <2>6. file[j][2] + 1 \in 0..MaxGen
    BY <2>1, <2>2
  <2>q. QED BY <2>1, <2>2, <2>4, <2>5, <2>6
<1>1. \A k \in Jobs : file'[k] = file[k] \/ (k = j /\ file'[k] = Successor(file[k]))
  BY DEF BorrowInv, BorrowTypeOK
<1>2. BorrowTypeOK'
  <2>1. Successor(file[j]) \in BorrowToken
    BY <1>0 DEF Successor, BorrowToken
  <2>2. file' \in [Jobs -> BorrowToken] /\ unsaved' \subseteq 1..MaxGrant
    BY <1>0, <2>1 DEF BorrowInv, BorrowTypeOK
  <2>3. head' \in [1..MaxGrant -> 0..MaxGen]
    BY <1>0 DEF BorrowInv, BorrowTypeOK, Rotate
  <2>q. QED BY <1>0, <2>2, <2>3 DEF BorrowInv, BorrowTypeOK
<1>3. \A h \in 1..MaxGrant : head[h] <= head'[h]
  BY <1>0, BorrowTypes DEF BorrowInv
<1>4. Places'
  <2>1. row'[2] <= head'[row'[1]]
    <3>1. row[1] \in 1..MaxGrant /\ row[2] \in 0..MaxGen /\ head[row[1]] \in 0..MaxGen
      BY BorrowTypes DEF BorrowInv
    <3>2. head'[row[1]] \in 0..MaxGen /\ row' = row
      BY <1>2, <3>1 DEF BorrowTypeOK
    <3>3. row[2] <= head[row[1]] /\ head[row[1]] <= head'[row[1]]
      BY <1>3, <3>1 DEF BorrowInv, Places
    <3>q. QED BY <3>1, <3>2, <3>3
  <2>2. ASSUME NEW k \in Jobs PROVE JobPlace(k)'
    <3>1. CASE file'[k] = file[k]
      <4>1. file[k][1] \in 1..MaxGrant /\ head'[file[k][1]] \in 0..MaxGen
        BY <1>2, BorrowTypes DEF BorrowInv, BorrowTypeOK
      <4>q. QED BY <1>3, <3>1, <4>1, BorrowTypes DEF BorrowInv, Places, JobPlace
    <3>2. CASE k = j /\ file'[k] = Successor(file[k])
      BY <1>0, <3>2, BorrowTypes DEF BorrowInv, Places, JobPlace, Successor
    <3>q. QED BY <1>1, <3>1, <3>2
  <2>3. ServerPlace'
    <3> SUFFICES ASSUME server # NoRefresh PROVE ServerPlace'
      BY DEF ServerPlace
    <3>1. /\ server[1][1] \in 1..MaxGrant /\ head'[server[1][1]] \in 0..MaxGen
          /\ head[server[1][1]] \in 0..MaxGen /\ server[2][2] \in 0..MaxGen
      BY <1>2, BorrowTypes DEF BorrowInv, BorrowTypeOK, BorrowToken
    <3>q. QED BY <1>3, <3>1 DEF BorrowInv, Places, ServerPlace, Successor
  <2>q. QED BY <2>1, <2>2, <2>3 DEF Places
<1>5. Untouched' /\ MissMeansRevoked'
  BY <1>0, BorrowTypes DEF BorrowInv, Untouched, MissMeansRevoked
<1>6. (row[1] \in dead \/ Alone)'
  <2>1. CASE g # row[1]
    <3>1. \A k \in Jobs : Ahead(k)' => Ahead(k)
      BY <1>1, <2>1 DEF Ahead, Successor
    <3>q. QED BY <1>0, <3>1 DEF BorrowInv, Alone
  <2>2. CASE g = row[1]
    <3>1. /\ row = old[j] /\ \A k \in Jobs : Ahead(k) => k = j
          /\ server = NoRefresh \/ server[1][1] # row[1]
      BY <2>2, LiveFile DEF Rotate
    <3>2. \A k \in Jobs : Ahead(k)' => k = j
      BY <1>1, <3>1 DEF Ahead
    <3>q. QED BY <3>1, <3>2 DEF Alone
  <2>q. QED BY <2>1, <2>2
<1>7. LostWasSaid'
  <2>1. CASE g = row[1]
    <3>1. CASE unsaved' = unsaved \cup {g}
      BY <2>1, <3>1 DEF LostWasSaid
    <3>2. CASE file' = [file EXCEPT ![j] = Successor(@)]
      <4>1. file'[j] = Successor(file[j])
        BY <3>2 DEF BorrowInv, BorrowTypeOK
      <4>2. IsNext(file[j])'
        BY <1>0, <2>1, <4>1 DEF IsNext, IsLive, Successor
      <4>q. QED BY <4>2 DEF LostWasSaid
    <3>q. QED BY <3>1, <3>2
  <2>2. CASE g # row[1]
    <3>1. row[1] \in 1..MaxGrant /\ head'[row[1]] = head[row[1]]
      BY <1>0, <2>2, BorrowTypes DEF BorrowInv
    <3>2. ASSUME NEW t, IsNext(t) PROVE IsNext(t)'
      BY <1>0, <3>1, <3>2 DEF IsNext, IsLive
    <3>3. \A k \in Jobs : IsNext(file[k]) => file'[k] = file[k]
      BY <1>1, <2>2 DEF IsNext
    <3>q. QED BY <1>0, <3>1, <3>3 DEF BorrowInv, LostWasSaid, IsNext, IsLive
  <2>q. QED BY <2>1, <2>2
<1>q. QED BY <1>2, <1>4, <1>5, <1>6, <1>7 DEF BorrowInv

LEMMA LoadValidTokenKeeps ==
  ASSUME BorrowInv, NEW j \in Jobs, LoadValidToken(j)  PROVE BorrowInv'
<1>1. file[j] \in BorrowToken /\ file[j][1] <= row[1]
  BY BorrowTypes DEF BorrowInv, Places, JobPlace
<1>2. CASE Reused(file[j]) /\ UNCHANGED <<file, unsaved>>
  BY <1>1, <1>2, RevokedKeeps DEF LoadValidToken
<1>3. CASE Rotate(file[j])
  BY <1>3, JobRotates DEF LoadValidToken, Reused, Rotate
<1>q. QED BY <1>2, <1>3 DEF LoadValidToken

LEMMA ServerRefreshKeeps == ASSUME BorrowInv, ServerRefresh PROVE BorrowInv'
<1>0. row \in BorrowToken /\ row[1] \in 1..MaxGrant /\ row[2] \in 0..MaxGen
  BY BorrowTypes DEF BorrowInv
<1>1. CASE Reused(row) /\ UNCHANGED server
  BY <1>0, <1>1, RevokedKeeps DEF ServerRefresh
<1>2. CASE Rotate(row) /\ server' = <<row, Successor(row)>>
  <2>0. /\ UNCHANGED <<row, at, file, old, unsaved, missed, dead>>
        /\ head[row[1]] = row[2] /\ head'[row[1]] = row[2] + 1 /\ row[2] + 1 \in 0..MaxGen
        /\ row[1] \notin dead
        /\ \A h \in 1..MaxGrant \ {row[1]} : head'[h] = head[h]
        /\ \A k \in Jobs : ~Ahead(k)
    <3>1. /\ IsLive(row) /\ row[2] + 1 \in 0..MaxGen /\ dead' = dead
          /\ head' = [head EXCEPT ![row[1]] = @ + 1]
          /\ UNCHANGED <<row, at, file, old, unsaved, missed>>
      BY <1>0, <1>2 DEF Rotate, IsLive, ServerRefresh
    <3>2. head \in [1..MaxGrant -> 0..MaxGen] /\ head[row[1]] = row[2] /\ row[1] \notin dead
      BY <3>1 DEF BorrowInv, BorrowTypeOK, IsLive
    <3>3. \A k \in Jobs : ~Ahead(k)
      BY <3>1, LiveRow
    <3>q. QED BY <1>0, <3>1, <3>2, <3>3
  <2>1. BorrowTypeOK'
    <3>1. Successor(row) \in BorrowToken
      BY <1>0, <2>0 DEF Successor, BorrowToken
    <3>2. head' \in [1..MaxGrant -> 0..MaxGen]
      BY <1>0, <1>2, <2>0 DEF BorrowInv, BorrowTypeOK, Rotate
    <3>q. QED BY <1>0, <1>2, <2>0, <3>1, <3>2 DEF BorrowInv, BorrowTypeOK
  <2>2. \A h \in 1..MaxGrant : head[h] <= head'[h] /\ head'[h] \in 0..MaxGen
    BY <1>0, <2>0, BorrowTypes DEF BorrowInv
  <2>3. Places'
    <3>1. row'[2] <= head'[row'[1]]
      BY <1>0, <2>0
    <3>2. ASSUME NEW k \in Jobs PROVE JobPlace(k)'
      BY <2>0, <2>2, BorrowTypes DEF BorrowInv, Places, JobPlace
    <3>3. ServerPlace'
      BY <1>0, <1>2, <2>0 DEF ServerPlace, Successor
    <3>q. QED BY <3>1, <3>2, <3>3 DEF Places
  <2>4. Untouched' /\ MissMeansRevoked'
    BY <1>0, <2>0 DEF BorrowInv, Untouched, MissMeansRevoked
  <2>5. Alone'
    BY <1>2, <2>0 DEF Alone, Ahead
  <2>6. LostWasSaid'
    <3>1. server' # NoRefresh /\ server'[2] = Successor(row)
      BY <1>2 DEF NoRefresh
    <3>2. IsNext(server[2])'
      BY <2>0, <3>1 DEF IsNext, IsLive, Successor
    <3>q. QED BY <3>1, <3>2 DEF LostWasSaid
  <2>q. QED BY <2>1, <2>3, <2>4, <2>5, <2>6 DEF BorrowInv
<1>q. QED BY <1>1, <1>2 DEF ServerRefresh

LEMMA ReconnectKeeps == ASSUME BorrowInv, Reconnect PROVE BorrowInv'
<1>0. /\ row'[1] = row[1] + 1 /\ row'[2] = 0 /\ row[1] \in 1..MaxGrant
      /\ row'[1] \in 1..MaxGrant /\ row' \in BorrowToken
      /\ UNCHANGED <<head, dead, server, at, file, old, unsaved, missed>>
  BY BorrowTypes DEF BorrowInv, Reconnect, BorrowToken
<1>1. BorrowTypeOK'
  BY <1>0 DEF BorrowInv, BorrowTypeOK
<1>2. head[row'[1]] = 0 /\ row'[1] \notin dead
  BY <1>0 DEF BorrowInv, Untouched
<1>3. Places'
  BY <1>0, <1>2, BorrowTypes DEF BorrowInv, Places, JobPlace, ServerPlace, Successor
<1>4. Untouched' /\ MissMeansRevoked'
  <2>1. \A g \in missed : g \in 1..MaxGrant /\ g <= row[1]
    BY DEF BorrowInv, BorrowTypeOK, Untouched
  <2>2. \A g \in 1..MaxGrant : g > row'[1] => head[g] = 0 /\ g \notin dead
    BY <1>0 DEF BorrowInv, Untouched
  <2>q. QED BY <1>0, <2>1, <2>2 DEF Untouched, MissMeansRevoked
<1>5. Alone'
  <2>1. \A k \in Jobs : ~Ahead(k)'
    BY <1>0, BorrowTypes DEF BorrowInv, Places, JobPlace, Ahead
  <2>2. server' # NoRefresh => server'[1][1] # row'[1]
    BY <1>0, BorrowTypes DEF BorrowInv, Places, ServerPlace
  <2>q. QED BY <2>1, <2>2 DEF Alone
<1>6. LostWasSaid'
  BY <1>0, <1>2 DEF LostWasSaid, IsNext, IsLive
<1>q. QED BY <1>1, <1>3, <1>4, <1>5, <1>6 DEF BorrowInv

\* A row replaced by a rotation of what it holds: the live token is then the one
\* it holds, or still on its way with whoever has rotated it.
LEMMA ServerSaveKeeps == ASSUME BorrowInv, ServerSave PROVE BorrowInv'
<1> DEFINE s == server[1]
<1>0. /\ server # NoRefresh /\ server' = NoRefresh
      /\ UNCHANGED <<head, dead, at, file, old, missed>>
  BY DEF ServerSave
<1>1. /\ s \in BorrowToken /\ s[1] \in 1..MaxGrant /\ s[2] \in 0..MaxGen
      /\ server[2] \in BorrowToken /\ server[2][1] = s[1] /\ server[2][2] = s[2] + 1
      /\ s[2] + 1 <= head[s[1]] /\ s[1] <= row[1]
  BY <1>0, BorrowTypes DEF BorrowInv, Places, ServerPlace, Successor
<1>2. CASE row = s /\ row' = server[2] /\ UNCHANGED unsaved
  <2>1. row'[1] = row[1] /\ row'[2] = row[2] + 1 /\ row' \in BorrowToken
    BY <1>1, <1>2
  <2>2. BorrowTypeOK'
    BY <1>0, <1>2, <2>1 DEF BorrowInv, BorrowTypeOK
  <2>3. Places'
    BY <1>0, <1>1, <1>2, <2>1, BorrowTypes DEF BorrowInv, Places, JobPlace, ServerPlace
  <2>4. Untouched' /\ MissMeansRevoked'
    BY <1>0, <2>1 DEF BorrowInv, Untouched, MissMeansRevoked
  <2>5. \A k \in Jobs : Ahead(k)' <=> Ahead(k)
    BY <1>0, <2>1 DEF Ahead
  <2>6. (row[1] \in dead \/ Alone)'
    <3> SUFFICES ASSUME row[1] \notin dead, Alone PROVE Alone'
      BY <1>0, <2>1 DEF BorrowInv
    <3>1. \A k \in Jobs : ~Ahead(k)
      BY <1>0, <1>2 DEF Alone
    <3>q. QED BY <1>0, <2>5, <3>1 DEF Alone
  <2>7. LostWasSaid'
    <3> SUFFICES ASSUME row[1] \notin dead, row[1] \notin unsaved PROVE LostWasSaid'
      BY <1>0, <1>2, <2>1 DEF LostWasSaid
    <3>1. CASE IsNext(server[2])
      BY <1>0, <1>2, <2>1, <3>1 DEF LostWasSaid, IsNext, IsLive
    <3>2. CASE IsNext(row)
      BY <1>1, <1>2, <3>2, BorrowTypes DEF BorrowInv, IsNext, IsLive
    <3>3. ASSUME NEW k \in Jobs, at[k] = "running", IsNext(file[k]) PROVE LostWasSaid'
      BY <1>0, <2>1, <3>3 DEF LostWasSaid, IsNext, IsLive
    <3>q. QED BY <3>1, <3>2, <3>3 DEF BorrowInv, LostWasSaid
  <2>q. QED BY <2>2, <2>3, <2>4, <2>6, <2>7 DEF BorrowInv
<1>3. CASE row # s /\ row' = row /\ UNCHANGED unsaved
  <2>1. BorrowTypeOK' /\ Places' /\ Untouched' /\ MissMeansRevoked'
    BY <1>0, <1>3 DEF BorrowInv, BorrowTypeOK, Places, JobPlace, ServerPlace, Untouched,
       MissMeansRevoked
  <2>2. (row[1] \in dead \/ Alone)'
    BY <1>0, <1>3 DEF BorrowInv, Alone, Ahead
  <2>3. IsNext(server[2]) => FALSE
    BY <1>0, <1>1, <1>3 DEF BorrowInv, Alone, IsNext, IsLive
  <2>4. LostWasSaid'
    BY <1>0, <1>3, <2>3 DEF BorrowInv, LostWasSaid, IsNext, IsLive
  <2>q. QED BY <2>1, <2>2, <2>4 DEF BorrowInv
<1>4. CASE unsaved' = unsaved \cup {s[1]} /\ UNCHANGED row
  <2>1. BorrowTypeOK' /\ Places' /\ Untouched' /\ MissMeansRevoked'
    BY <1>0, <1>1, <1>4 DEF BorrowInv, BorrowTypeOK, Places, JobPlace, ServerPlace, Untouched,
       MissMeansRevoked
  <2>2. (row[1] \in dead \/ Alone)'
    BY <1>0, <1>4 DEF BorrowInv, Alone, Ahead
  <2>3. IsNext(server[2]) => row[1] \in unsaved'
    BY <1>1, <1>4 DEF IsNext
  <2>4. LostWasSaid'
    BY <1>0, <1>4, <2>3 DEF BorrowInv, LostWasSaid, IsNext, IsLive
  <2>q. QED BY <2>1, <2>2, <2>4 DEF BorrowInv
<1>q. QED BY <1>2, <1>3, <1>4 DEF ServerSave

LEMMA PersistKeeps ==
  ASSUME BorrowInv, NEW j \in Jobs, Persist(j)  PROVE BorrowInv'
<1>0. /\ UNCHANGED <<head, dead, server, file, old>> /\ at[j] = "running"
      /\ \E to \in {"green", "red"} : at' = [at EXCEPT ![j] = to]
  BY DEF Persist
<1>1. /\ at' \in [Jobs -> {"idle", "running", "green", "red"}] /\ at'[j] # "running"
      /\ \A k \in Jobs \ {j} : at'[k] = at[k]
  BY <1>0 DEF BorrowInv, BorrowTypeOK
<1>2. file[j] \in BorrowToken /\ old[j] \in BorrowToken /\ JobPlace(j)
  BY BorrowTypes DEF BorrowInv, Places
<1>3. CASE row = old[j] /\ row' = file[j] /\ UNCHANGED <<missed, unsaved>> /\ file[j] # old[j]
  <2>1. /\ row'[1] = row[1] /\ row[2] <= row'[2] /\ row' \in BorrowToken
        /\ row'[2] <= head[row[1]] /\ Ahead(j)
    BY <1>0, <1>2, <1>3 DEF JobPlace, Ahead
  <2>2. BorrowTypeOK'
    BY <1>0, <1>1, <1>3, <2>1 DEF BorrowInv, BorrowTypeOK
  <2>3. Places'
    BY <1>0, <2>1, BorrowTypes DEF BorrowInv, Places, JobPlace, ServerPlace, Successor, BorrowToken
  <2>4. Untouched' /\ MissMeansRevoked'
    BY <1>0, <1>3, <2>1 DEF BorrowInv, Untouched, MissMeansRevoked
  <2>5. \A k \in Jobs : Ahead(k)' => k # j /\ Ahead(k)
    BY <1>0, <1>1, <2>1 DEF Ahead
  <2>6. (row[1] \in dead \/ Alone)'
    <3> SUFFICES ASSUME row[1] \notin dead, Alone PROVE Alone'
      BY <1>0, <2>1 DEF BorrowInv
    <3>1. \A k \in Jobs : ~Ahead(k)'
      BY <2>1, <2>5 DEF Alone
    <3>2. ~(server # NoRefresh /\ server[1][1] = row[1])
      BY <2>1 DEF Alone
    <3>q. QED BY <1>0, <2>1, <3>1, <3>2 DEF Alone
  <2>7. LostWasSaid'
    <3> SUFFICES ASSUME row[1] \notin dead, row[1] \notin unsaved PROVE LostWasSaid'
      BY <1>0, <1>3, <2>1 DEF LostWasSaid
    <3>1. CASE server # NoRefresh /\ IsNext(server[2])
      BY <1>0, <2>1, <3>1 DEF LostWasSaid, IsNext, IsLive
    <3>2. CASE IsNext(row)
      BY <2>1, <3>2, LiveRow DEF IsNext
    <3>3. ASSUME NEW k \in Jobs, at[k] = "running", IsNext(file[k]), k # j PROVE LostWasSaid'
      BY <1>0, <1>1, <2>1, <3>3 DEF LostWasSaid, IsNext, IsLive
    <3>4. CASE IsNext(file[j])
      BY <1>0, <1>3, <2>1, <3>4 DEF LostWasSaid, IsNext, IsLive
    <3>q. QED BY <3>1, <3>2, <3>3, <3>4 DEF BorrowInv, LostWasSaid
  <2>q. QED BY <2>2, <2>3, <2>4, <2>6, <2>7 DEF BorrowInv
<1>4. ASSUME UNCHANGED row, missed' \subseteq 1..MaxGrant, unsaved' \subseteq 1..MaxGrant,
             unsaved \subseteq unsaved',
             IsNext(file[j]) => LostWasSaid',
             \A g \in missed' : g \in missed \/ (g <= row[1] /\ (g \in dead \/ g # row[1]))
      PROVE  BorrowInv'
  <2>1. BorrowTypeOK' /\ Places' /\ Untouched' /\ MissMeansRevoked'
    BY <1>0, <1>1, <1>4 DEF BorrowInv, BorrowTypeOK, Places, JobPlace, ServerPlace, Untouched,
       MissMeansRevoked
  <2>2. \A k \in Jobs : Ahead(k)' => Ahead(k)
    BY <1>0, <1>1, <1>4 DEF Ahead
  <2>3. (row[1] \in dead \/ Alone)'
    BY <1>0, <1>4, <2>2 DEF BorrowInv, Alone
  <2>4. LostWasSaid'
    BY <1>0, <1>1, <1>4 DEF BorrowInv, LostWasSaid, IsNext, IsLive
  <2>q. QED BY <2>1, <2>3, <2>4 DEF BorrowInv
<1>5. CASE /\ row # old[j] /\ missed' = missed \cup {old[j][1]} /\ UNCHANGED <<row, unsaved>>
           /\ file[j] # old[j]
  <2>1. old[j][1] = row[1] => row[1] \in dead
    BY <1>0, <1>2, <1>5 DEF BorrowInv, Alone, Ahead, JobPlace
  <2>2. IsNext(file[j]) => FALSE
    BY <1>2, <2>1 DEF IsNext, IsLive, JobPlace
  <2>3. old[j][1] \in 1..MaxGrant /\ old[j][1] <= row[1]
    BY <1>2, BorrowTypes DEF BorrowInv, JobPlace
  <2>q. QED BY <1>4, <1>5, <2>1, <2>2, <2>3 DEF BorrowInv, BorrowTypeOK
<1>6. CASE file[j] = old[j] /\ UNCHANGED <<row, missed, unsaved>>
  <2>1. ASSUME IsNext(file[j]) PROVE LostWasSaid'
    <3>1. row = file[j]
      <4>1. file[j][1] = row[1] /\ IsLive(file[j])
        BY <2>1 DEF IsNext
      <4>q. QED BY <1>0, <1>6, <4>1, LiveFile
    <3>q. QED BY <1>0, <1>6, <2>1, <3>1 DEF LostWasSaid, IsNext, IsLive
  <2>q. QED BY <1>4, <1>6, <2>1 DEF BorrowInv, BorrowTypeOK
<1>7. CASE unsaved' = unsaved \cup {file[j][1]} /\ UNCHANGED <<row, missed>>
  <2>1. IsNext(file[j]) => LostWasSaid'
    BY <1>7 DEF IsNext, LostWasSaid
  <2>2. file[j][1] \in 1..MaxGrant
    BY BorrowTypes DEF BorrowInv
  <2>q. QED BY <1>4, <1>7, <2>1, <2>2 DEF BorrowInv, BorrowTypeOK
<1>q. QED BY <1>3, <1>5, <1>6, <1>7 DEF Persist, ShouldWriteBack, WriteBack

LEMMA BorrowInvHolds == BorrowSpec => []BorrowInv
<1>1. BorrowInv /\ [BorrowNext]_borrowVars => BorrowInv'
  <2> SUFFICES ASSUME BorrowInv, [BorrowNext]_borrowVars PROVE BorrowInv'
    OBVIOUS
  <2>1. CASE BorrowNext
    BY <2>1, FetchKeeps, LoadValidTokenKeeps, PersistKeeps, ServerRefreshKeeps, ServerSaveKeeps,
       ReconnectKeeps DEF BorrowNext
  <2>2. CASE UNCHANGED borrowVars
    BY <2>2 DEF borrowVars, BorrowInv, BorrowTypeOK, Places, JobPlace, ServerPlace, Untouched,
       Alone, Ahead, LostWasSaid, MissMeansRevoked, IsNext, IsLive
  <2>q. QED BY <2>1, <2>2
<1>q. QED BY BorrowInitInv, <1>1, PTL DEF BorrowSpec

\* e2e-token persist: however jobs and the server overlap, a rotation gets lost
\* only with a failure that is reported somewhere, or with the grant.
THEOREM LostSaid == BorrowSpec => []LostWasSaid
<1>1. BorrowInv => LostWasSaid
  BY DEF BorrowInv
<1>q. QED BY <1>1, BorrowInvHolds, PTL

\* e2e-token persist: a write-back that matches no row has lost the grant, or
\* met a new connection.
THEOREM MissRevokes == BorrowSpec => []MissMeansRevoked
<1>1. BorrowInv => MissMeansRevoked
  BY DEF BorrowInv
<1>q. QED BY <1>1, BorrowInvHolds, PTL

\* The stored token never goes back to an older one.
THEOREM RowNeverOlder == BorrowSpec => NeverOlder
<1>1. BorrowInv /\ [BorrowNext]_borrowVars
        => [row'[1] > row[1] \/ (row'[1] = row[1] /\ row'[2] >= row[2])]_row
  <2> SUFFICES ASSUME BorrowInv, BorrowNext, row' # row
               PROVE  row'[1] > row[1] \/ (row'[1] = row[1] /\ row'[2] >= row[2])
    BY DEF borrowVars
  <2>0. row[1] \in 1..MaxGrant /\ row[2] \in 0..MaxGen
    BY BorrowTypes DEF BorrowInv
  <2>1. ASSUME NEW j \in Jobs, Fetch(j) \/ LoadValidToken(j) PROVE FALSE
    BY <2>1 DEF Fetch, LoadValidToken
  <2>2. ASSUME NEW j \in Jobs, Persist(j) PROVE row'[1] = row[1] /\ row'[2] >= row[2]
    <3>1. row = old[j] /\ row' = file[j]
      BY <2>2 DEF Persist, WriteBack
    <3>q. QED BY <3>1, BorrowTypes DEF BorrowInv, Places, JobPlace
  <2>3. CASE ServerSave
    <3>1. row = server[1] /\ row' = server[2] /\ server # NoRefresh
      BY <2>3 DEF ServerSave
    <3>q. QED BY <2>0, <3>1 DEF BorrowInv, Places, ServerPlace, Successor
  <2>4. CASE Reconnect
    BY <2>0, <2>4 DEF Reconnect
  <2>5. ~ServerRefresh
    BY DEF ServerRefresh
  <2>q. QED BY <2>1, <2>2, <2>3, <2>4, <2>5 DEF BorrowNext
<1>q. QED BY <1>1, BorrowInvHolds, PTL DEF BorrowSpec, NeverOlder
-----------------------------------------------------------------------------
(***************************************************************************)
(* Side by side                                                            *)
(***************************************************************************)
\* A step of Services is a step of one unit, and the others stand still.
LEMMA OneUnitSteps ==
  ASSUME [Next]_<<unit, programVars, serviceVars, figureVars>>
  PROVE  /\ [SandboxNext]_sandboxVars /\ [BorrowNext]_borrowVars /\ [PostNext]_postVars
         /\ [ReviewNext]_reviewVars /\ [LoginNext]_loginVars /\ [CacheNext]_cacheVars
         /\ [ChatNext]_chatVars /\ [ToolNext]_toolVars /\ [FileNext]_fileVars
         /\ [LedgerNext]_ledgerVars /\ [OverviewNext]_overviewVars
<1>1. /\ [SandboxNext]_sandboxVars /\ [BorrowNext]_borrowVars /\ [PostNext]_postVars
      /\ [ReviewNext]_reviewVars
  BY DEF Next, Program, programVars
<1>2. /\ [LoginNext]_loginVars /\ [CacheNext]_cacheVars /\ [ChatNext]_chatVars
  BY DEF Next, Service, serviceVars
<1>3. /\ [ToolNext]_toolVars /\ [FileNext]_fileVars /\ [LedgerNext]_ledgerVars
      /\ [OverviewNext]_overviewVars
  BY DEF Next, Figure, figureVars
<1>q. QED BY <1>1, <1>2, <1>3

\* A behaviour of Services is one of each unit's own specification: what is
\* checked and proved of a unit alone holds of it there too.
THEOREM EachUnit ==
  Spec => /\ SandboxSpec /\ BorrowSpec /\ PostSpec /\ ReviewSpec
          /\ LoginSpec /\ CacheSpec /\ ChatSpec
          /\ ToolSpec /\ FileSpec /\ LedgerSpec /\ OverviewSpec
<1>1. Init => /\ SandboxInit /\ BorrowInit /\ PostInit /\ ReviewInit
              /\ LoginInit /\ CacheInit /\ ChatInit
              /\ ToolInit /\ FileInit /\ LedgerInit /\ OverviewInit
  BY DEF Init
<1>q. QED BY <1>1, OneUnitSteps, PTL DEF Spec, SandboxSpec, BorrowSpec, PostSpec, ReviewSpec, LoginSpec,
              CacheSpec, ChatSpec, ToolSpec, FileSpec, LedgerSpec, OverviewSpec

\* Every variable of every unit keeps its type: no call is repeated more often than it
\* may, no list is read past its end, and no count exceeds what there was to count.
THEOREM AllTyped == Spec => []TypesOK
<1>1. /\ BooksInv => SandboxTypeOK
      /\ BorrowInv => BorrowTypeOK
      /\ PostInv => PostTypeOK
      /\ ReviewInv => ReviewTypeOK
      /\ LoginInv => LoginTypeOK
      /\ CacheInv => CacheTypeOK
      /\ ChatInv => ChatTypeOK
  BY DEF BooksInv, BorrowInv, PostInv, ReviewInv, LoginInv, CacheInv, ChatInv
<1>2. /\ SandboxTypeOK /\ BorrowTypeOK /\ PostTypeOK /\ ReviewTypeOK
      /\ LoginTypeOK /\ CacheTypeOK /\ ChatTypeOK
      /\ ToolTypeOK /\ FileTypeOK /\ LedgerTypeOK /\ OverviewTypeOK
      => TypesOK
  BY DEF TypesOK
<1>q. QED BY <1>1, <1>2, EachUnit, BooksInvHolds, BorrowInvHolds, PostInvHolds, ReviewInvHolds,
              LoginInvHolds, CacheInvHolds, ChatInvHolds, ToolTypes, FileTypes, LedgerTypes, OverviewTypes, PTL
=============================================================================
