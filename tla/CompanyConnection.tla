-------------------------- MODULE CompanyConnection --------------------------
(***************************************************************************)
(* Connecting Fortnox companies: the browser tabs of one owner, the        *)
(* session cookie they share (there is no session table: every request     *)
(* carries a copy and a response replaces the whole of it), the tenant     *)
(* rows and tokens keyed by mode and organisation number, and the          *)
(* companies at Fortnox, which can share a number and change their name.   *)
(*                                                                         *)
(* A token is the company it opens; its refreshes are TokenRefresh's       *)
(* subject.                                                                *)
(***************************************************************************)
EXTENDS Naturals

CONSTANTS
  Tabs,        \* concurrent requests of the owner
  Modes,       \* sandbox and production
  Companies,   \* Fortnox companies the owner can authorize
  Orgs,        \* organisation numbers, as CompanyKey normalises them
  OrgOf,       \* the number of each company: not always a different one
  Names,       \* bound: the names companies ever have
  FirstName,   \* the name each of them starts with
  AllowedIn,   \* AllowedCompanies of each mode
  NoCompany, NoOrg, NoName,
  MaxConnects  \* bound: authorizations started

ASSUME OrgAssumption == OrgOf \in [Companies -> Orgs] /\ NoOrg \notin Orgs
ASSUME NameAssumption ==
  /\ FirstName \in [Companies -> Names] /\ NoName \notin Names
  /\ \A c, d \in Companies : FirstName[c] = FirstName[d] => c = d
ASSUME AllowedAssumption == AllowedIn \in [Modes -> SUBSET Names]
ASSUME CompanyAssumption == NoCompany \notin Companies
ASSUME ConnectsAssumption == MaxConnects \in Nat

VARIABLES
  nameOf,  \* Fortnox: the name of each company
  owner,   \* history: the only company that ever had each name
  row,     \* tenant rows: the name, or NoName
  token,   \* stored tokens: the company they open, or NoCompany
  cookie,  \* the browser's cd_session
  consent, \* consent screens that are open: the state parameter they return
  issued,  \* nonces issued, 1..issued
  used,    \* history: nonces of callbacks that succeeded
  pc,      \* each tab: where its request is,
  snap,    \*   the session the request arrived with,
  auth,    \*   the authorization it handles,
  name,    \*   the company's name, as Fortnox gave it
  savedAs, \* history: the name a tenant's token was last saved under
  contested, \* history: tenants a callback went on to write that had another name
  revived    \* history: nonces used while a request that would write them back ran

fortnox == <<nameOf, owner>>
database == <<row, token, savedAs>>
request == <<pc, snap, auth, name>>
history == <<contested, revived>>
vars == <<fortnox, database, cookie, consent, issued, used, request, history>>

Tenants == Modes \X Orgs
Session == [mode : Modes, company : Orgs \cup {NoOrg}, nonce : 0..MaxConnects, fresh : BOOLEAN]
Authorization == [nonce : 1..MaxConnects, mode : Modes, company : Companies]
Callback == {"identify", "lookup", "upsert", "save", "finish"}

\* Every variable keeps its type.
TypeOK ==
  /\ nameOf \in [Companies -> Names]
  /\ owner \in [Names -> Companies \cup {NoCompany}]
  /\ row \in [Tenants -> Names \cup {NoName}]
  /\ token \in [Tenants -> Companies \cup {NoCompany}]
  /\ savedAs \in [Tenants -> Names \cup {NoName}]
  /\ cookie \in Session
  /\ consent \subseteq [nonce : 1..MaxConnects, mode : Modes]
  /\ issued \in 0..MaxConnects
  /\ used \subseteq 1..MaxConnects
  /\ pc \in [Tabs -> {"idle", "select"} \cup Callback]
  /\ snap \in [Tabs -> Session]
  /\ auth \in [Tabs -> Authorization]
  /\ name \in [Tabs -> Names]
  /\ contested \subseteq Tenants /\ revived \subseteq 1..MaxConnects

NewSession(m) == [mode |-> m, company |-> NoOrg, nonce |-> 0, fresh |-> FALSE]

Init ==
  /\ nameOf = FirstName
  /\ owner \in [Names -> Companies \cup {NoCompany}]
  /\ \A c \in Companies, n \in Names : owner[n] = c <=> FirstName[c] = n
  /\ row = [t \in Tenants |-> NoName]
  /\ token = [t \in Tenants |-> NoCompany]
  /\ savedAs = [t \in Tenants |-> NoName]
  /\ \E m \in Modes : cookie = NewSession(m)
  /\ consent = {} /\ issued = 0 /\ used = {}
  /\ pc = [p \in Tabs |-> "idle"]
  /\ snap = [p \in Tabs |-> cookie]
  /\ auth \in [Tabs -> Authorization]
  /\ \A p, q \in Tabs : auth[p] = auth[q]
  /\ name = [p \in Tabs |-> nameOf[auth[p].company]]
  /\ contested = {} /\ revived = {}

Go(p, to) == pc' = [pc EXCEPT ![p] = to]
Stop(p) == Go(p, "idle")
\* TenantKey of the authorization a callback handles.
TenantOf(p) == <<auth[p].mode, OrgOf[auth[p].company]>>

(***************************************************************************)
(* connectHandler                                                          *)
(***************************************************************************)
\* A nonce into the cookie, and with the mode into the state parameter.
Connect ==
  /\ issued < MaxConnects
  /\ issued' = issued + 1
  /\ cookie' = [cookie EXCEPT !.nonce = issued + 1, !.fresh = TRUE]
  /\ \E m \in Modes : consent' = consent \cup {[nonce |-> issued + 1, mode |-> m]}
  /\ UNCHANGED <<fortnox, database, used, request, history>>

(***************************************************************************)
(* callbackHandler                                                         *)
(***************************************************************************)
\* The user approves a company and the browser comes back. The nonce must be
\* the one in the session the request carries, and not older than ten minutes.
Returns(p) ==
  /\ pc[p] = "idle"
  /\ \E s \in consent, c \in Companies :
       /\ consent' = consent \ {s}
       /\ IF cookie.fresh /\ cookie.nonce = s.nonce
          THEN /\ Go(p, "identify")
               /\ snap' = [snap EXCEPT ![p] = cookie]
               /\ auth' = [auth EXCEPT ![p] =
                             [nonce |-> s.nonce, mode |-> s.mode, company |-> c]]
          ELSE Stop(p) /\ UNCHANGED <<snap, auth>>
  /\ UNCHANGED <<fortnox, database, cookie, issued, used, name, history>>

\* The code for a token, and the company behind the token. Its name must be
\* allowed in the mode of the authorization. Either call may fail.
Identify(p) ==
  /\ pc[p] = "identify"
  /\ \/ /\ name' = [name EXCEPT ![p] = nameOf[auth[p].company]]
        /\ Go(p, IF name'[p] \in AllowedIn[auth[p].mode] THEN "lookup" ELSE "idle")
     \/ Stop(p) /\ UNCHANGED name
  /\ UNCHANGED <<fortnox, database, cookie, consent, issued, used, snap, auth, history>>

MutLookupSkipped(p) ==
  /\ pc[p] = "lookup"
  /\ Go(p, "upsert")
  /\ UNCHANGED <<fortnox, database, cookie, consent, issued, used, snap, auth, name, history>>

\* The number is held under another name, or is about to be.
Held(p) == row[TenantOf(p)] \notin {NoName, name[p]}
Clashes(p) ==
  \/ Held(p)
  \/ \E q \in Tabs \ {p} :
       pc[q] \in {"upsert", "save"} /\ TenantOf(q) = TenantOf(p) /\ name[q] # name[p]

\* Refused when the number is held under another name. A row that cannot be
\* read counts as none, and what another callback is about to write is not seen.
Lookup(p) ==
  /\ pc[p] = "lookup"
  /\ \/ Held(p) /\ Stop(p) /\ UNCHANGED contested
     \/ /\ Go(p, "upsert")
        /\ contested' = IF Clashes(p) THEN contested \cup {TenantOf(p)} ELSE contested
  /\ UNCHANGED <<fortnox, database, cookie, consent, issued, used, snap, auth, name, revived>>

MutUpsertOnce(p) ==
  /\ pc[p] = "upsert"
  /\ UNCHANGED row
  /\ Go(p, "save")
  /\ UNCHANGED <<fortnox, token, savedAs, cookie, consent, issued, used, snap, auth, name, history>>

UpsertTenant(p) ==
  /\ pc[p] = "upsert"
  /\ \/ row' = [row EXCEPT ![TenantOf(p)] = name[p]] /\ Go(p, "save")
     \/ Stop(p) /\ UNCHANGED row
  /\ UNCHANGED <<fortnox, token, savedAs, cookie, consent, issued, used, snap, auth, name, history>>

Save(p) ==
  /\ pc[p] = "save"
  /\ \/ /\ token' = [token EXCEPT ![TenantOf(p)] = auth[p].company]
        /\ savedAs' = [savedAs EXCEPT ![TenantOf(p)] = name[p]]
        /\ Go(p, "finish")
     \/ Stop(p) /\ UNCHANGED <<token, savedAs>>
  /\ UNCHANGED <<fortnox, row, cookie, consent, issued, used, snap, auth, name, history>>

MutModeStays(p) ==
  /\ pc[p] = "finish"
  /\ cookie' = [snap[p] EXCEPT !.company = OrgOf[auth[p].company],
                               !.nonce = 0, !.fresh = FALSE]
  /\ used' = used \cup {auth[p].nonce}
  /\ Stop(p)
  /\ UNCHANGED <<fortnox, database, consent, issued, snap, auth, name, history>>

\* The session moves to the mode and the company, and the nonce is consumed.
Finish(p) ==
  /\ pc[p] = "finish"
  /\ cookie' = [snap[p] EXCEPT !.mode = auth[p].mode,
                               !.company = OrgOf[auth[p].company],
                               !.nonce = 0, !.fresh = FALSE]
  /\ used' = used \cup {auth[p].nonce}
  /\ revived' = IF \E q \in Tabs : pc[q] = "select" /\ snap[q].nonce = auth[p].nonce
                THEN revived \cup {auth[p].nonce} ELSE revived
  /\ Stop(p)
  /\ UNCHANGED <<fortnox, database, consent, issued, snap, auth, name, contested>>

(***************************************************************************)
(* The other handlers                                                      *)
(***************************************************************************)
\* disconnectHandler: the token goes, the tenant row stays.
Disconnect ==
  /\ \E t \in Tenants :
       /\ token[t] # NoCompany
       /\ token' = [token EXCEPT ![t] = NoCompany]
  /\ UNCHANGED <<fortnox, row, savedAs, cookie, consent, issued, used, request, history>>

\* selectCompanyHandler: only a company whose token loads. Which company is
\* carried as the snapshot that will become the cookie.
SelectCompany(p) ==
  /\ pc[p] = "idle"
  /\ \E o \in Orgs :
       /\ token[<<cookie.mode, o>>] # NoCompany
       /\ snap' = [snap EXCEPT ![p] = [cookie EXCEPT !.company = o]]
  /\ Go(p, "select")
  /\ UNCHANGED <<fortnox, database, cookie, consent, issued, used, auth, name, history>>

Selected(p) ==
  /\ pc[p] = "select"
  /\ cookie' = snap[p]
  /\ Stop(p)
  /\ UNCHANGED <<fortnox, database, consent, issued, used, snap, auth, name, history>>

\* modeHandler: the mode alone.
SwitchMode ==
  /\ \E m \in Modes : cookie' = [cookie EXCEPT !.mode = m]
  /\ UNCHANGED <<fortnox, database, consent, issued, used, request, history>>

\* A new login: NewSession in the default mode.
Login ==
  /\ \E m \in Modes : cookie' = NewSession(m)
  /\ UNCHANGED <<fortnox, database, consent, issued, used, request, history>>

(***************************************************************************)
(* Time and Fortnox                                                        *)
(***************************************************************************)
NonceExpires ==
  /\ cookie.fresh
  /\ cookie' = [cookie EXCEPT !.fresh = FALSE]
  /\ UNCHANGED <<fortnox, database, consent, issued, used, request, history>>

\* Bound: nobody takes a name somebody had.
Rename ==
  /\ \E c \in Companies, n \in Names :
       /\ owner[n] = NoCompany
       /\ owner' = [owner EXCEPT ![n] = c]
       /\ nameOf' = [nameOf EXCEPT ![c] = n]
  /\ UNCHANGED <<database, cookie, consent, issued, used, request, history>>

-----------------------------------------------------------------------------
Next ==
  \/ \E p \in Tabs :
       \/ Returns(p) \/ Identify(p) \/ Lookup(p) \/ UpsertTenant(p)
       \/ Save(p) \/ Finish(p) \/ SelectCompany(p) \/ Selected(p)
  \/ Connect \/ Disconnect \/ SwitchMode \/ Login
  \/ NonceExpires \/ Rename

Spec == Init /\ [][Next]_vars

-----------------------------------------------------------------------------
(***************************************************************************)
(* Properties                                                              *)
(***************************************************************************)

\* "The row exists to say which company this is": it names the company whose
\* token is stored with it, also after a save that failed and however requests
\* interleave, unless a callback of this tenant got past a row it could not read
\* or met another under way for a company of another name.
RowNamesTheToken ==
  \A t \in Tenants \ contested : token[t] # NoCompany => row[t] = savedAs[t]

\* Two companies can share an organisation number; the second authorization is
\* refused and never replaces the first company's token, with the same
\* exception.
CompanyKept ==
  [][\A t \in Tenants \ contested :
       token[t] # NoCompany => token'[t] \in {token[t], NoCompany}]_token

\* "The mode labelled 'Safe to experiment'" holds no token of a company that
\* is not allowed there, whichever mode the session was in.
HoldsOnlyAllowed ==
  \A t \in Tenants : token[t] # NoCompany => savedAs[t] \in AllowedIn[t[1]]

\* "The pair is what derives the tenant key": when the session moves to another
\* company, that company has been connected in the session's mode.
ChosenWasConnected ==
  [][(cookie'.company \notin {cookie.company, NoOrg})
       => savedAs[<<cookie'.mode, cookie'.company>>] # NoName]_cookie

\* "Single-use: cleared on a successful callback, so a replay fails", unless
\* just then a company was being selected in a session that still had the nonce.
NonceSingleUse == cookie.nonce \notin used \ revived
=============================================================================
