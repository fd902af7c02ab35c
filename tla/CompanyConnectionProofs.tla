----------------------- MODULE CompanyConnectionProofs -----------------------
(***************************************************************************)
(* Proofs about CompanyConnection, for any tabs, modes, companies, names   *)
(* and organisation numbers: what a mode holds is allowed in it and a      *)
(* session moves only to a company connected in its mode, whatever         *)
(* overlaps and fails; of every tenant but those where a callback got past *)
(* another name, the row names the company whose token is stored and no    *)
(* token is replaced by another company's; and a nonce works once unless a *)
(* company was being selected while it was used.                           *)
(***************************************************************************)
EXTENDS CompanyConnection, TLAPS

USE OrgAssumption, NameAssumption, AllowedAssumption, CompanyAssumption, ConnectsAssumption

\* A request handles a tenant: its mode, and the number of its company.
LEMMA TenantExists == ASSUME TypeOK, NEW p \in Tabs PROVE TenantOf(p) \in Tenants
  BY DEF TypeOK, TenantOf, Tenants, Authorization

\* A session of a new login is one, and stays one with any of its fields
\* replaced.
LEMMA NewSessionType == ASSUME NEW m \in Modes PROVE NewSession(m) \in Session
  <1>1. 0 \in 0..MaxConnects
    OBVIOUS
  <1>2. FALSE \in BOOLEAN
    OBVIOUS
  <1> QED BY <1>1, <1>2, Zenon DEF NewSession, Session

LEMMA SessionUpdate ==
  ASSUME NEW s \in Session, NEW m \in Modes, NEW o \in Orgs,
         NEW n \in 0..MaxConnects, NEW b \in BOOLEAN
  PROVE  [s EXCEPT !.mode = m, !.company = o, !.nonce = n, !.fresh = b] \in Session
  BY DEF Session

\* The initial values have their types.
LEMMA TypeInit == ASSUME Init PROVE TypeOK
  <1>1. PICK m \in Modes : cookie = NewSession(m)
    BY DEF Init
  <1>2. cookie \in Session
    BY <1>1, NewSessionType
  <1>3. name \in [Tabs -> Names]
    BY DEF Init, Authorization
  <1>4. pc \in [Tabs -> {"idle", "select"} \cup Callback]
    BY DEF Init
  <1>5. contested = {} /\ revived = {}
    BY DEF Init
  <1>6. consent = {} /\ issued = 0 /\ used = {} /\ snap \in [Tabs -> Session]
    BY <1>2 DEF Init
  <1>7. /\ nameOf \in [Companies -> Names]
        /\ owner \in [Names -> Companies \cup {NoCompany}]
        /\ auth \in [Tabs -> Authorization]
    BY DEF Init
  <1>8. /\ row \in [Tenants -> Names \cup {NoName}]
        /\ token \in [Tenants -> Companies \cup {NoCompany}]
        /\ savedAs \in [Tenants -> Names \cup {NoName}]
    BY DEF Init
  <1> QED BY <1>2, <1>3, <1>4, <1>5, <1>6, <1>7, <1>8 DEF TypeOK

\* Every step of one tab keeps the types.
LEMMA TypeStep == ASSUME TypeOK, [Next]_vars PROVE TypeOK'
  <1> USE DEF TypeOK, Go, Stop, Callback
  <1>1. ASSUME NEW p \in Tabs, Returns(p) PROVE TypeOK'
    <2>1. PICK s \in consent, c \in Companies :
            /\ consent' = consent \ {s}
            /\ \/ /\ Go(p, "identify")
                  /\ snap' = [snap EXCEPT ![p] = cookie]
                  /\ auth' = [auth EXCEPT ![p] =
                                [nonce |-> s.nonce, mode |-> s.mode, company |-> c]]
               \/ Stop(p) /\ UNCHANGED <<snap, auth>>
      BY <1>1 DEF Returns
    <2>2. [nonce |-> s.nonce, mode |-> s.mode, company |-> c] \in Authorization
      BY DEF Authorization
    <2>3. auth' \in [Tabs -> Authorization] /\ snap' \in [Tabs -> Session]
      BY <2>1, <2>2
    <2>4. pc' \in [Tabs -> {"idle", "select"} \cup Callback]
      BY <2>1
    <2> QED BY <1>1, <2>1, <2>3, <2>4 DEF Returns, fortnox, database, history
  <1>2. ASSUME NEW p \in Tabs, Identify(p) PROVE TypeOK'
    <2>1. nameOf[auth[p].company] \in Names
      BY DEF Authorization
    <2>2. name' \in [Tabs -> Names]
      BY <1>2, <2>1 DEF Identify
    <2>3. pc' \in [Tabs -> {"idle", "select"} \cup Callback]
      BY <1>2 DEF Identify
    <2> QED BY <1>2, <2>2, <2>3 DEF Identify, fortnox, database, history
  <1>3. ASSUME NEW p \in Tabs, Lookup(p) PROVE TypeOK'
    <2>1. contested' \subseteq Tenants
      BY <1>3, TenantExists DEF Lookup
    <2> QED BY <1>3, <2>1 DEF Lookup, fortnox, database
  <1>4. ASSUME NEW p \in Tabs, UpsertTenant(p) PROVE TypeOK'
    BY <1>4, TenantExists DEF UpsertTenant, fortnox, history
  <1>5. ASSUME NEW p \in Tabs, Save(p) PROVE TypeOK'
    <2>1. auth[p].company \in Companies
      BY DEF Authorization
    <2> QED BY <1>5, <2>1, TenantExists DEF Save, fortnox, history
  <1>6. ASSUME NEW p \in Tabs, Finish(p) PROVE TypeOK'
    <2>1. /\ auth[p].mode \in Modes /\ OrgOf[auth[p].company] \in Orgs
          /\ auth[p].nonce \in 1..MaxConnects
      BY DEF Authorization
    <2>2. cookie' = [snap[p] EXCEPT !.mode = auth[p].mode,
                                    !.company = OrgOf[auth[p].company],
                                    !.nonce = 0, !.fresh = FALSE]
      BY <1>6 DEF Finish
    <2>3. snap[p] \in Session /\ 0 \in 0..MaxConnects /\ FALSE \in BOOLEAN
      OBVIOUS
    <2>4. cookie' \in Session
      BY <2>1, <2>2, <2>3, SessionUpdate
    <2>5. revived' \subseteq 1..MaxConnects
      BY <1>6, <2>1 DEF Finish
    <2> QED BY <1>6, <2>1, <2>4, <2>5 DEF Finish, fortnox, database
  <1>7. ASSUME NEW p \in Tabs, SelectCompany(p) PROVE TypeOK'
    <2>1. PICK o \in Orgs : snap' = [snap EXCEPT ![p] = [cookie EXCEPT !.company = o]]
      BY <1>7 DEF SelectCompany
    <2>2. [cookie EXCEPT !.company = o] \in Session
      BY DEF Session
    <2> QED BY <1>7, <2>1, <2>2 DEF SelectCompany, fortnox, database, history
  <1>8. ASSUME NEW p \in Tabs, Selected(p) PROVE TypeOK'
    BY <1>8 DEF Selected, fortnox, database, history
  <1>9. CASE Connect
    <2>1. PICK m \in Modes : consent' = consent \cup {[nonce |-> issued + 1, mode |-> m]}
      BY <1>9 DEF Connect
    <2>2. issued' \in 0..MaxConnects /\ issued + 1 \in 1..MaxConnects
      BY <1>9 DEF Connect
    <2>3. [nonce |-> issued + 1, mode |-> m] \in [nonce : 1..MaxConnects, mode : Modes]
      BY <2>2
    <2>4. consent' \subseteq [nonce : 1..MaxConnects, mode : Modes]
      BY <2>1, <2>3
    <2>5. cookie' \in Session
      BY <1>9, <2>2 DEF Connect, Session
    <2> QED BY <1>9, <2>2, <2>4, <2>5 DEF Connect, fortnox, database, request, history
  <1>10. CASE Disconnect
    BY <1>10 DEF Disconnect, fortnox, request, history
  <1>11. CASE SwitchMode \/ Login \/ NonceExpires
    <2>1. CASE SwitchMode
      BY <2>1 DEF SwitchMode, Session, fortnox, database, request, history
    <2>2. CASE Login
      BY <2>2, NewSessionType DEF Login, fortnox, database, request, history
    <2>3. CASE NonceExpires
      BY <2>3 DEF NonceExpires, Session, fortnox, database, request, history
    <2> QED BY <1>11, <2>1, <2>2, <2>3
  <1>12. CASE Rename
    BY <1>12 DEF Rename, database, request, history
  <1>13. CASE UNCHANGED vars
    BY <1>13 DEF vars, fortnox, database, request, history
  <1> QED
    BY <1>1, <1>2, <1>3, <1>4, <1>5, <1>6, <1>7, <1>8, <1>9, <1>10, <1>11, <1>12, <1>13 DEF Next

\* Every variable of a run keeps its type.
THEOREM TypeCorrect == Spec => []TypeOK
  <1>1. Init => TypeOK
    BY TypeInit
  <1>2. TypeOK /\ [Next]_vars => TypeOK'
    BY TypeStep
  <1> QED BY <1>1, <1>2, PTL DEF Spec

-----------------------------------------------------------------------------
(***************************************************************************)
(* What a mode holds is allowed in it                                      *)
(***************************************************************************)
\* A request past the allow list carries a name allowed in the mode of its
\* authorization, and neither changes until it is saved.
AllowedIInv ==
  /\ TypeOK
  /\ \A p \in Tabs : pc[p] \in {"lookup", "upsert", "save"}
                       => name[p] \in AllowedIn[auth[p].mode]
  /\ HoldsOnlyAllowed

\* Nothing is held at first, and every step of one tab keeps AllowedIInv.
LEMMA AllowedInit == ASSUME Init PROVE AllowedIInv
  <1>1. TypeOK
    BY TypeInit
  <1>2. \A p \in Tabs : pc[p] = "idle"
    BY DEF Init
  <1>3. HoldsOnlyAllowed
    BY DEF Init, HoldsOnlyAllowed
  <1> QED BY <1>1, <1>2, <1>3 DEF AllowedIInv

LEMMA AllowedStep == ASSUME AllowedIInv, [Next]_vars PROVE AllowedIInv'
  <1>0. TypeOK'
    BY TypeStep DEF AllowedIInv
  <1> USE <1>0 DEF AllowedIInv, HoldsOnlyAllowed, Go, Stop
  <1>1. ASSUME NEW p \in Tabs, Returns(p) PROVE AllowedIInv'
    <2>1. \A q \in Tabs \ {p} : pc'[q] = pc[q] /\ auth'[q] = auth[q]
      BY <1>1 DEF Returns, TypeOK
    <2>2. pc'[p] \in {"identify", "idle"}
      BY <1>1 DEF Returns, TypeOK
    <2> QED BY <1>1, <2>1, <2>2 DEF Returns, database
  <1>2. ASSUME NEW p \in Tabs, Identify(p) PROVE AllowedIInv'
    BY <1>2 DEF Identify, database, TypeOK
  <1>3. ASSUME NEW p \in Tabs, Lookup(p) PROVE AllowedIInv'
    BY <1>3 DEF Lookup, database, TypeOK
  <1>4. ASSUME NEW p \in Tabs, UpsertTenant(p) PROVE AllowedIInv'
    BY <1>4 DEF UpsertTenant, TypeOK
  <1>5. ASSUME NEW p \in Tabs, Save(p) PROVE AllowedIInv'
    <2>1. TenantOf(p) \in Tenants /\ TenantOf(p)[1] = auth[p].mode
      BY TenantExists DEF TenantOf
    <2>2. name[p] \in AllowedIn[auth[p].mode]
      BY <1>5 DEF Save
    <2>3. HoldsOnlyAllowed'
      BY <1>5, <2>1, <2>2 DEF Save, TypeOK
    <2> QED BY <1>5, <2>3 DEF Save, TypeOK
  <1>6. ASSUME NEW p \in Tabs, Finish(p) \/ SelectCompany(p) \/ Selected(p)
        PROVE AllowedIInv'
    BY <1>6 DEF Finish, SelectCompany, Selected, database, TypeOK
  <1>7. CASE Connect \/ SwitchMode \/ Login \/ NonceExpires \/ Rename
    BY <1>7 DEF Connect, SwitchMode, Login, NonceExpires, Rename, database, request
  <1>8. CASE Disconnect
    BY <1>8 DEF Disconnect, request, TypeOK
  <1>9. CASE UNCHANGED vars
    BY <1>9 DEF vars, database, request
  <1> QED BY <1>1, <1>2, <1>3, <1>4, <1>5, <1>6, <1>7, <1>8, <1>9 DEF Next

\* Whatever tabs overlap and whichever calls fail, a mode holds no token of a
\* company that was not allowed there when it was stored.
THEOREM OnlyAllowedHeld == Spec => []HoldsOnlyAllowed
  <1>1. Init => AllowedIInv
    BY AllowedInit
  <1>2. AllowedIInv /\ [Next]_vars => AllowedIInv'
    BY AllowedStep
  <1>3. AllowedIInv => HoldsOnlyAllowed
    BY DEF AllowedIInv
  <1> QED BY <1>1, <1>2, <1>3, PTL DEF Spec

-----------------------------------------------------------------------------
(***************************************************************************)
(* A session moves to a connected company                                  *)
(***************************************************************************)
\* A token was saved under a name, a callback that is about to answer has saved
\* one, and a company being selected had one.
ChosenIInv ==
  /\ TypeOK
  /\ \A t \in Tenants : token[t] # NoCompany => savedAs[t] # NoName
  /\ \A p \in Tabs : pc[p] = "finish" => savedAs[TenantOf(p)] # NoName
  /\ \A p \in Tabs : pc[p] = "select" =>
       snap[p].company \in Orgs /\ savedAs[<<snap[p].mode, snap[p].company>>] # NoName

TabStep(p) ==
  \/ Returns(p) \/ Identify(p) \/ Lookup(p) \/ UpsertTenant(p)
  \/ Save(p) \/ Finish(p) \/ SelectCompany(p) \/ Selected(p)

\* For any tab a step leaves all requests alone, is its own, or is another's,
\* which leaves its request alone.
LEMMA StepOf ==
  ASSUME TypeOK, [Next]_vars, NEW q \in Tabs
  PROVE  \/ pc'[q] = pc[q] /\ snap'[q] = snap[q] /\ auth'[q] = auth[q]
         \/ TabStep(q)
  <1>1. CASE UNCHANGED request
    BY <1>1 DEF request
  <1>2. ASSUME NEW p \in Tabs, TabStep(p), p # q
        PROVE  pc'[q] = pc[q] /\ snap'[q] = snap[q] /\ auth'[q] = auth[q]
    BY <1>2 DEF TabStep, Returns, Identify, Lookup, UpsertTenant, Save, Finish, SelectCompany,
       Selected, Go, Stop, TypeOK
  <1>3. UNCHANGED request \/ \E p \in Tabs : TabStep(p)
    BY DEF Next, TabStep, Connect, Disconnect, SwitchMode, Login, NonceExpires, Rename, vars
  <1>4. ASSUME NEW p \in Tabs, TabStep(p), p = q PROVE TabStep(q)
    BY <1>4, Zenon
  <1> QED BY <1>1, <1>2, <1>3, <1>4

\* A name that was recorded stays, or gives way to another.
LEMMA NameStays ==
  ASSUME TypeOK, [Next]_vars, NEW t \in Tenants, savedAs[t] # NoName
  PROVE  savedAs'[t] # NoName
  <1>1. CASE UNCHANGED savedAs
    BY <1>1
  <1>2. ASSUME NEW p \in Tabs, Save(p) PROVE savedAs'[t] # NoName
    BY <1>2, TenantExists DEF Save, TypeOK
  <1> QED
    BY <1>1, <1>2 DEF Next, Returns, Identify, Lookup, UpsertTenant, Finish, SelectCompany,
       Selected, Connect, Disconnect, SwitchMode, Login, NonceExpires, Rename, vars, database

\* Nothing is selected at first, and every step of one tab keeps ChosenIInv.
LEMMA ChosenInit == ASSUME Init PROVE ChosenIInv
  BY TypeInit DEF Init, ChosenIInv

LEMMA ChosenStep == ASSUME ChosenIInv, [Next]_vars PROVE ChosenIInv'
  <1>0. TypeOK /\ TypeOK'
    BY TypeStep DEF ChosenIInv
  <1> USE <1>0 DEF Go, Stop
  <1>a. \A t \in Tenants : savedAs[t] # NoName => savedAs'[t] # NoName
    BY NameStays
  <1>b. \A p \in Tabs : TenantOf(p) \in Tenants
    BY TenantExists
  <1>1. \A t \in Tenants : token'[t] # NoCompany => savedAs'[t] # NoName
    <2>1. ASSUME NEW p \in Tabs, Save(p)
          PROVE \A t \in Tenants : token'[t] # NoCompany => savedAs'[t] # NoName
      <3>1. name[p] # NoName
        BY NameAssumption DEF TypeOK
      <3>2. CASE UNCHANGED <<token, savedAs>>
        BY <3>2 DEF ChosenIInv
      <3>3. CASE /\ token' = [token EXCEPT ![TenantOf(p)] = auth[p].company]
                 /\ savedAs' = [savedAs EXCEPT ![TenantOf(p)] = name[p]]
        BY <3>1, <3>3, <1>b DEF ChosenIInv, TypeOK
      <3> QED BY <2>1, <3>2, <3>3 DEF Save
    <2>2. CASE Disconnect
      BY <2>2, <1>a DEF Disconnect, ChosenIInv, TypeOK
    <2>3. CASE UNCHANGED token
      BY <2>3, <1>a DEF ChosenIInv
    <2> QED
      BY <2>1, <2>2, <2>3 DEF Next, Returns, Identify, Lookup, UpsertTenant, Finish,
         SelectCompany, Selected, Connect, SwitchMode, Login, NonceExpires, Rename, vars, database
  <1>2. ASSUME NEW q \in Tabs, pc'[q] = "finish" PROVE savedAs'[TenantOf(q)'] # NoName
    <2>1. CASE pc[q] = "finish" /\ auth'[q] = auth[q]
      BY <2>1, <1>a, <1>b DEF ChosenIInv, TenantOf
    <2>2. CASE Save(q)
      <3>1. savedAs' = [savedAs EXCEPT ![TenantOf(q)] = name[q]] /\ auth' = auth
        BY <2>2, <1>2 DEF Save, TypeOK
      <3>2. name[q] # NoName /\ TenantOf(q)' = TenantOf(q)
        BY <3>1, NameAssumption DEF TypeOK, TenantOf
      <3> QED BY <3>1, <3>2, <1>b DEF TypeOK
    <2>3. (pc[q] = "finish" /\ auth'[q] = auth[q]) \/ Save(q)
      <3>1. TabStep(q) => Save(q)
        BY <1>2 DEF TabStep, Returns, Identify, Lookup, UpsertTenant, Save, Finish, SelectCompany,
           Selected, TypeOK
      <3> QED BY <1>2, <3>1, StepOf
    <2> QED BY <2>1, <2>2, <2>3
  <1>3. ASSUME NEW q \in Tabs, pc'[q] = "select"
        PROVE /\ snap'[q].company \in Orgs
              /\ savedAs'[<<snap'[q].mode, snap'[q].company>>] # NoName
    <2>1. CASE pc[q] = "select" /\ snap'[q] = snap[q]
      <3>1. /\ <<snap[q].mode, snap[q].company>> \in Tenants
            /\ savedAs[<<snap[q].mode, snap[q].company>>] # NoName
        BY <2>1 DEF ChosenIInv, TypeOK, Session, Tenants
      <3> QED BY <2>1, <3>1, <1>a DEF ChosenIInv
    <2>2. CASE SelectCompany(q)
      <3>1. PICK o \in Orgs : /\ token[<<cookie.mode, o>>] # NoCompany
                              /\ snap' = [snap EXCEPT ![q] = [cookie EXCEPT !.company = o]]
        BY <2>2 DEF SelectCompany
      <3>2. snap'[q].mode = cookie.mode /\ snap'[q].company = o
        BY <3>1 DEF TypeOK, Session
      <3>3. <<cookie.mode, o>> \in Tenants
        BY DEF TypeOK, Session, Tenants
      <3> QED BY <3>1, <3>2, <3>3, <1>a DEF ChosenIInv
    <2>3. (pc[q] = "select" /\ snap'[q] = snap[q]) \/ SelectCompany(q)
      <3>1. TabStep(q) => SelectCompany(q)
        BY <1>3 DEF TabStep, Returns, Identify, Lookup, UpsertTenant, Save, Finish, SelectCompany,
           Selected, TypeOK
      <3> QED BY <1>3, <3>1, StepOf
    <2> QED BY <2>1, <2>2, <2>3
  <1> QED BY <1>1, <1>2, <1>3 DEF ChosenIInv

\* Whatever overlaps and fails, a session moves only to a company that was
\* connected in the session's mode.
THEOREM ChosenConnected == Spec => ChosenWasConnected
  <1> DEFINE Moves == (cookie'.company \notin {cookie.company, NoOrg})
                        => savedAs[<<cookie'.mode, cookie'.company>>] # NoName
  <1>1. Init => ChosenIInv
    BY ChosenInit
  <1>2. ChosenIInv /\ [Next]_vars => ChosenIInv'
    BY ChosenStep
  <1>3. ChosenIInv /\ [Next]_vars => [Moves]_cookie
    <2> SUFFICES ASSUME ChosenIInv, Next, cookie' # cookie PROVE Moves
      BY DEF vars
    <2>1. ASSUME NEW p \in Tabs, Finish(p) PROVE Moves
      <3>1. cookie'.mode = auth[p].mode /\ cookie'.company = OrgOf[auth[p].company]
        BY <2>1 DEF Finish, ChosenIInv, TypeOK, Session
      <3> QED BY <2>1, <3>1 DEF Finish, ChosenIInv, TenantOf
    <2>2. ASSUME NEW p \in Tabs, Selected(p) PROVE Moves
      BY <2>2 DEF Selected, ChosenIInv
    <2>3. CASE Login
      BY <2>3 DEF Login, NewSession
    <2>4. CASE Connect \/ SwitchMode \/ NonceExpires
      BY <2>4 DEF Connect, SwitchMode, NonceExpires, ChosenIInv, TypeOK, Session
    <2> QED
      BY <2>1, <2>2, <2>3, <2>4 DEF Next, Returns, Identify, Lookup, UpsertTenant, Save,
         SelectCompany, Disconnect, Rename
  <1> QED BY <1>1, <1>2, <1>3, PTL DEF Spec, ChosenWasConnected

-----------------------------------------------------------------------------
(***************************************************************************)
(* A row names the company of its token                                    *)
(***************************************************************************)
\* A request knows whose name it read, and between its check and its save the
\* row is free or has that name, when no callback got past another one.
KeptBy(p) ==
  /\ pc[p] \in {"lookup", "upsert", "save"} => owner[name[p]] = auth[p].company
  /\ TenantOf(p) \notin contested =>
       /\ pc[p] = "upsert" => row[TenantOf(p)] \in {NoName, name[p]}
       /\ pc[p] = "save" => row[TenantOf(p)] = name[p]

\* The callbacks past their check that write the same tenant are of one name.
Writes(p) == pc[p] \in {"upsert", "save"}
Agree ==
  \A p, q \in Tabs :
    Writes(p) /\ Writes(q) /\ TenantOf(p) = TenantOf(q) /\ TenantOf(p) \notin contested
      => name[p] = name[q]

\* A held token is the company that had the name in its row.
RowKept(t) ==
  token[t] # NoCompany => row[t] = savedAs[t] /\ row[t] # NoName /\ owner[row[t]] = token[t]

\* The inductive invariant.
KeptIInv ==
  /\ TypeOK
  /\ \A c \in Companies : owner[nameOf[c]] = c
  /\ \A t \in Tenants \ contested : RowKept(t)
  /\ \A p \in Tabs : KeptBy(p)
  /\ Agree

\* Everybody has a name of their own and nothing is held at first.
LEMMA KeptInit == ASSUME Init PROVE KeptIInv
  <1>1. \A p \in Tabs : pc[p] = "idle"
    BY DEF Init
  <1>2. \A c \in Companies : owner[nameOf[c]] = c
    BY DEF Init
  <1>3. \A t \in Tenants : token[t] = NoCompany
    BY DEF Init
  <1> QED BY <1>1, <1>2, <1>3, TypeInit DEF KeptIInv, KeptBy, RowKept, Agree, Writes

\* What a step of one request has to show: its own part, that of the rows, and,
\* when it goes on to write, that it agrees with the others.
LEMMA KeptOfOne ==
  ASSUME KeptIInv, TypeOK', NEW p \in Tabs, UNCHANGED <<fortnox, row>>,
         contested \subseteq contested',
         \A q \in Tabs \ {p} : pc'[q] = pc[q] /\ auth'[q] = auth[q] /\ name'[q] = name[q],
         \A t \in Tenants \ contested' : RowKept(t)',
         KeptBy(p)',
         Writes(p)' => \A q \in Tabs \ {p} :
            Writes(q) /\ TenantOf(q) = TenantOf(p)' /\ TenantOf(q) \notin contested'
              => name[q] = name'[p]
  PROVE  KeptIInv'
  <1>1. \A q \in Tabs \ {p} : TenantOf(q)' = TenantOf(q) /\ (Writes(q)' <=> Writes(q))
    BY DEF TenantOf, Writes
  <1>2. \A q \in Tabs \ {p} : KeptBy(q)'
    BY <1>1 DEF KeptIInv, KeptBy, fortnox
  <1>3. \A q, r \in Tabs :
          Writes(q)' /\ Writes(r)' /\ TenantOf(q)' = TenantOf(r)' /\ TenantOf(q)' \notin contested'
            => name'[q] = name'[r]
    <2>1. TAKE q, r \in Tabs
    <2>2. CASE q # p /\ r # p
      BY <2>2, <1>1 DEF KeptIInv, Agree
    <2>3. CASE q = p \/ r = p
      BY <2>3, <1>1
    <2> QED BY <2>2, <2>3
  <1> QED BY <1>2, <1>3 DEF KeptIInv, Agree, fortnox

\* Every step keeps it: a callback that goes past its check finds the row free
\* or its own, and others past theirs of its name, or contests the tenant.
LEMMA KeptStep == ASSUME KeptIInv, [Next]_vars PROVE KeptIInv'
  <1>0. TypeOK /\ TypeOK'
    BY TypeStep DEF KeptIInv
  <1> USE <1>0 DEF Go, Stop
  <1>1. ASSUME NEW p \in Tabs,
               Returns(p) \/ SelectCompany(p) \/ Selected(p) \/ Finish(p)
        PROVE KeptIInv'
    <2>1. /\ pc'[p] \in {"identify", "idle", "select"}
          /\ \A q \in Tabs \ {p} : pc'[q] = pc[q] /\ auth'[q] = auth[q] /\ name'[q] = name[q]
      BY <1>1 DEF Returns, SelectCompany, Selected, Finish, TypeOK
    <2>2. KeptBy(p)' /\ ~Writes(p)'
      BY <2>1 DEF KeptBy, Writes
    <2>3. UNCHANGED <<fortnox, database, contested>>
      BY <1>1 DEF Returns, SelectCompany, Selected, Finish, history
    <2>4. \A t \in Tenants \ contested' : RowKept(t)'
      BY <2>3 DEF KeptIInv, RowKept, fortnox, database
    <2>5. UNCHANGED <<fortnox, row>> /\ contested \subseteq contested'
      BY <2>3 DEF database
    <2> QED BY <2>1, <2>2, <2>4, <2>5, KeptOfOne
  <1>2. ASSUME NEW p \in Tabs, Identify(p) PROVE KeptIInv'
    <2>1. auth[p].company \in Companies
      BY DEF TypeOK, Authorization
    <2>2. /\ pc'[p] \in {"lookup", "idle"}
          /\ pc'[p] = "lookup" => owner[name'[p]] = auth[p].company
          /\ \A q \in Tabs \ {p} : pc'[q] = pc[q] /\ auth'[q] = auth[q] /\ name'[q] = name[q]
      BY <1>2, <2>1 DEF Identify, KeptIInv, TypeOK
    <2>3. KeptBy(p)' /\ ~Writes(p)'
      BY <1>2, <2>2 DEF Identify, KeptBy, Writes, fortnox
    <2>4. \A t \in Tenants \ contested' : RowKept(t)'
      BY <1>2 DEF Identify, KeptIInv, RowKept, fortnox, database, history
    <2>5. UNCHANGED <<fortnox, row>> /\ contested \subseteq contested'
      BY <1>2 DEF Identify, database, history
    <2> QED BY <2>2, <2>3, <2>4, <2>5, KeptOfOne
  <1>3. ASSUME NEW p \in Tabs, Lookup(p) PROVE KeptIInv'
    <2>1. /\ pc[p] = "lookup" /\ pc'[p] \in {"upsert", "idle"}
          /\ \A q \in Tabs \ {p} : pc'[q] = pc[q] /\ auth'[q] = auth[q] /\ name'[q] = name[q]
          /\ TenantOf(p)' = TenantOf(p) /\ name' = name /\ auth' = auth
          /\ UNCHANGED <<fortnox, database>> /\ contested \subseteq contested'
      BY <1>3 DEF Lookup, TenantOf, TypeOK
    <2>2. owner[name[p]] = auth[p].company
      BY <2>1 DEF KeptIInv, KeptBy
    <2>3. pc'[p] = "upsert" /\ TenantOf(p) \notin contested' => ~Clashes(p)
      BY <1>3, <2>1 DEF Lookup, TypeOK
    <2>4. KeptBy(p)'
      BY <2>1, <2>2, <2>3 DEF KeptBy, Clashes, Held, fortnox, database
    <2>5. Writes(p)' => \A q \in Tabs \ {p} :
             Writes(q) /\ TenantOf(q) = TenantOf(p)' /\ TenantOf(q) \notin contested'
               => name[q] = name'[p]
      BY <2>1, <2>3 DEF Writes, Clashes
    <2>6. \A t \in Tenants \ contested' : RowKept(t)'
      BY <2>1 DEF KeptIInv, RowKept, fortnox, database
    <2>7. UNCHANGED <<fortnox, row>>
      BY <2>1 DEF database
    <2> QED BY <2>1, <2>4, <2>5, <2>6, <2>7, KeptOfOne
  <1>4. ASSUME NEW p \in Tabs, UpsertTenant(p) PROVE KeptIInv'
    <2>0. /\ pc[p] = "upsert" /\ TenantOf(p) \in Tenants
          /\ \A q \in Tabs \ {p} : pc'[q] = pc[q]
          /\ \A q \in Tabs : TenantOf(q)' = TenantOf(q)
          /\ UNCHANGED <<nameOf, owner, token, savedAs, auth, name, contested>>
      BY <1>4, TenantExists DEF UpsertTenant, TenantOf, TypeOK, fortnox, history
    <2>1. /\ TenantOf(p) \notin contested => row[TenantOf(p)] \in {NoName, name[p]}
          /\ owner[name[p]] = auth[p].company
      BY <2>0 DEF KeptIInv, KeptBy
    <2>2. /\ row' = row \/ row' = [row EXCEPT ![TenantOf(p)] = name[p]]
          /\ pc'[p] = "idle" \/ (pc'[p] = "save" /\ row'[TenantOf(p)] = name[p])
      BY <1>4, <2>0 DEF UpsertTenant, TypeOK
    <2>3. \A t \in Tenants \ contested : token[t] # NoCompany => row'[t] = row[t]
      BY <2>0, <2>1, <2>2 DEF KeptIInv, RowKept, TypeOK
    <2>4. \A t \in Tenants \ contested' : RowKept(t)'
      BY <2>0, <2>3 DEF KeptIInv, RowKept
    <2>5. KeptBy(p)'
      BY <2>0, <2>1, <2>2 DEF KeptBy
    <2>6. ASSUME NEW q \in Tabs \ {p} PROVE KeptBy(q)'
      <3>1. CASE TenantOf(q) = TenantOf(p) /\ Writes(q) /\ TenantOf(p) \notin contested
        <4>1. name[q] = name[p]
          BY <3>1, <2>0 DEF KeptIInv, Agree, Writes
        <4>2. row'[TenantOf(q)] \in {row[TenantOf(q)], name[q]}
          BY <4>1, <3>1, <2>0, <2>2 DEF TypeOK
        <4> QED BY <4>2, <2>0 DEF KeptIInv, KeptBy
      <3>2. CASE TenantOf(q) # TenantOf(p)
        <4>1. row'[TenantOf(q)] = row[TenantOf(q)]
          BY <3>2, <2>0, <2>2, TenantExists DEF TypeOK
        <4> QED BY <4>1, <2>0 DEF KeptIInv, KeptBy
      <3>3. CASE ~Writes(q) \/ TenantOf(q) \in contested
        BY <3>3, <2>0 DEF KeptIInv, KeptBy, Writes
      <3> QED BY <3>1, <3>2, <3>3
    <2>7. \A q \in Tabs : Writes(q)' => Writes(q)
      BY <2>0, <2>2 DEF Writes
    <2>8. Agree'
      BY <2>0, <2>7 DEF KeptIInv, Agree
    <2> QED BY <2>0, <2>4, <2>5, <2>6, <2>8 DEF KeptIInv
  <1>5. ASSUME NEW p \in Tabs, Save(p) PROVE KeptIInv'
    <2>0. /\ pc[p] = "save" /\ pc'[p] \in {"idle", "finish"} /\ TenantOf(p) \in Tenants
          /\ \A q \in Tabs \ {p} : pc'[q] = pc[q] /\ auth'[q] = auth[q] /\ name'[q] = name[q]
          /\ UNCHANGED <<fortnox, row>> /\ UNCHANGED contested
      BY <1>5, TenantExists DEF Save, TypeOK, history
    <2>1. /\ TenantOf(p) \notin contested => row[TenantOf(p)] = name[p]
          /\ owner[name[p]] = auth[p].company /\ name[p] # NoName
      BY <2>0 DEF KeptIInv, KeptBy, TypeOK
    <2>2. CASE UNCHANGED <<token, savedAs>>
      <3>1. \A t \in Tenants \ contested' : RowKept(t)'
        BY <2>0, <2>2 DEF KeptIInv, RowKept, fortnox
      <3>2. KeptBy(p)' /\ ~Writes(p)'
        BY <2>0 DEF KeptBy, Writes
      <3> QED BY <2>0, <3>1, <3>2, KeptOfOne
    <2>3. CASE /\ token' = [token EXCEPT ![TenantOf(p)] = auth[p].company]
               /\ savedAs' = [savedAs EXCEPT ![TenantOf(p)] = name[p]]
      <3>1. \A t \in Tenants \ contested' : RowKept(t)'
        BY <2>0, <2>1, <2>3 DEF KeptIInv, RowKept, fortnox, TypeOK
      <3>2. KeptBy(p)' /\ ~Writes(p)'
        BY <2>0 DEF KeptBy, Writes
      <3> QED BY <2>0, <3>1, <3>2, KeptOfOne
    <2> QED BY <1>5, <2>2, <2>3 DEF Save
  <1>6. CASE Connect \/ SwitchMode \/ Login \/ NonceExpires \/ UNCHANGED vars
    BY <1>6 DEF Connect, SwitchMode, Login, NonceExpires, vars, fortnox, database, request,
                history, KeptIInv, KeptBy, RowKept, Agree, Writes, TenantOf
  <1>7. CASE Disconnect
    <2>1. \A t \in Tenants : token'[t] \in {token[t], NoCompany}
      BY <1>7 DEF Disconnect, TypeOK
    <2>2. \A t \in Tenants \ contested' : RowKept(t)'
      BY <1>7, <2>1 DEF Disconnect, fortnox, history, KeptIInv, RowKept
    <2> QED BY <1>7, <2>2 DEF Disconnect, fortnox, request, history, KeptIInv, KeptBy, Agree,
                              Writes, TenantOf
  <1>8. CASE Rename
    <2>1. PICK c \in Companies, n \in Names :
            /\ owner[n] = NoCompany
            /\ owner' = [owner EXCEPT ![n] = c]
            /\ nameOf' = [nameOf EXCEPT ![c] = n]
      BY <1>8 DEF Rename
    <2>2. \A m \in Names : owner[m] # NoCompany => owner'[m] = owner[m]
      BY <2>1 DEF TypeOK
    <2>3. \A d \in Companies : owner'[nameOf'[d]] = d
      <3>1. TAKE d \in Companies
      <3>2. CASE d = c
        BY <2>1, <3>2 DEF TypeOK
      <3>3. CASE d # c
        BY <2>1, <2>2, <3>3 DEF TypeOK, KeptIInv
      <3> QED BY <3>2, <3>3
    <2>4. \A t \in Tenants \ contested' : RowKept(t)'
      BY <1>8, <2>2 DEF Rename, database, history, KeptIInv, RowKept, TypeOK
    <2>5. \A p \in Tabs : pc[p] \in {"lookup", "upsert", "save"}
                            => owner'[name[p]] = auth[p].company
      BY <2>2 DEF KeptIInv, KeptBy, TypeOK, Authorization
    <2>6. (\A p \in Tabs : KeptBy(p))' /\ Agree'
      BY <1>8, <2>5 DEF Rename, database, request, history, KeptIInv, KeptBy, Agree, Writes,
                        TenantOf
    <2> QED BY <2>3, <2>4, <2>6 DEF KeptIInv
  <1> QED BY <1>1, <1>2, <1>3, <1>4, <1>5, <1>6, <1>7, <1>8 DEF Next

\* The row of a stored token names the company it was stored for, also after
\* the save fails and whatever overlaps, in every tenant that was not contested.
THEOREM RowsNameTokens == Spec => []RowNamesTheToken
  <1>1. Init => KeptIInv
    BY KeptInit
  <1>2. KeptIInv /\ [Next]_vars => KeptIInv'
    BY KeptStep
  <1>3. KeptIInv => RowNamesTheToken
    BY DEF KeptIInv, RowKept, RowNamesTheToken
  <1> QED BY <1>1, <1>2, <1>3, PTL DEF Spec

\* In such a tenant no token is replaced by another company's, also when
\* companies share a number and are renamed.
THEOREM NoCompanyReplaced == Spec => CompanyKept
  <1> DEFINE Keeps == \A t \in Tenants \ contested :
               token[t] # NoCompany => token'[t] \in {token[t], NoCompany}
  <1>1. Init => KeptIInv
    BY KeptInit
  <1>2. KeptIInv /\ [Next]_vars => KeptIInv'
    BY KeptStep
  <1>3. KeptIInv /\ [Next]_vars => [Keeps]_token
    <2> SUFFICES ASSUME KeptIInv, Next, token' # token PROVE Keeps
      BY DEF vars, database
    <2>1. CASE Disconnect
      BY <2>1 DEF Disconnect, KeptIInv, TypeOK
    <2>2. ASSUME NEW p \in Tabs, Save(p) PROVE Keeps
      <3>1. /\ token' = [token EXCEPT ![TenantOf(p)] = auth[p].company]
            /\ TenantOf(p) \notin contested => row[TenantOf(p)] = name[p]
            /\ owner[name[p]] = auth[p].company
        BY <2>2 DEF Save, KeptIInv, KeptBy
      <3>2. TenantOf(p) \in Tenants
        BY TenantExists DEF KeptIInv
      <3>3. token[TenantOf(p)] # NoCompany /\ TenantOf(p) \notin contested
              => token[TenantOf(p)] = auth[p].company
        BY <3>1, <3>2 DEF KeptIInv, RowKept
      <3> QED BY <3>1, <3>2, <3>3 DEF KeptIInv, TypeOK
    <2> QED
      BY <2>1, <2>2 DEF Next, Connect, Returns, Identify, Lookup, UpsertTenant, Finish,
         SelectCompany, Selected, SwitchMode, Login, NonceExpires, Rename, database
  <1> QED BY <1>1, <1>2, <1>3, PTL DEF Spec, CompanyKept

-----------------------------------------------------------------------------
(***************************************************************************)
(* A nonce works once                                                      *)
(***************************************************************************)
\* Only nonces that were issued were used, and no session, the browser's or
\* that of a company being selected, has one that was, but for the revived.
NonceIInv ==
  /\ TypeOK
  /\ used \subseteq 1..issued
  /\ \A s \in consent : s.nonce <= issued
  /\ \A p \in Tabs : pc[p] \in Callback => auth[p].nonce <= issued
  /\ cookie.nonce \notin used \ revived
  /\ \A p \in Tabs : pc[p] = "select" => snap[p].nonce \notin used \ revived

LEMMA NonceInit == ASSUME Init PROVE NonceIInv
  <1>1. used = {} /\ consent = {} /\ \A p \in Tabs : pc[p] = "idle"
    BY DEF Init
  <1> QED BY <1>1, TypeInit DEF NonceIInv, Callback

\* Every step keeps it: a callback consumes the nonce and clears the cookie's,
\* and revives it if a company is being selected with it.
LEMMA NonceStep == ASSUME NonceIInv, [Next]_vars PROVE NonceIInv'
  <1>0. TypeOK /\ TypeOK'
    BY TypeStep DEF NonceIInv
  <1> DEFINE Once == /\ cookie.nonce \notin used \ revived
                     /\ \A p \in Tabs : pc[p] = "select" => snap[p].nonce \notin used \ revived
             Issued == /\ used \subseteq 1..issued
                       /\ \A s \in consent : s.nonce <= issued
                       /\ \A p \in Tabs : pc[p] \in Callback => auth[p].nonce <= issued
  <1> SUFFICES Once' /\ Issued'
    BY <1>0 DEF NonceIInv
  <1> USE <1>0 DEF Go, Stop, Callback
  <1>1. ASSUME NEW p \in Tabs, Returns(p) PROVE Once' /\ Issued'
    <2>1. PICK s \in consent, c \in Companies :
            /\ consent' = consent \ {s}
            /\ \/ /\ Go(p, "identify")
                  /\ auth' = [auth EXCEPT ![p] =
                                [nonce |-> s.nonce, mode |-> s.mode, company |-> c]]
               \/ Stop(p) /\ UNCHANGED auth
      BY <1>1 DEF Returns
    <2>2. \A q \in Tabs : pc'[q] \in Callback => auth'[q].nonce <= issued
      BY <2>1 DEF NonceIInv, TypeOK
    <2>3. \A q \in Tabs : pc'[q] = "select" => pc[q] = "select" /\ snap'[q] = snap[q]
      BY <1>1 DEF Returns, TypeOK
    <2> QED BY <1>1, <2>1, <2>2, <2>3 DEF Returns, NonceIInv, history
  <1>2. ASSUME NEW p \in Tabs, Identify(p) \/ Lookup(p) \/ UpsertTenant(p) \/ Save(p)
        PROVE Once' /\ Issued'
    <2>1. /\ \A q \in Tabs : pc'[q] \in Callback => pc[q] \in Callback
          /\ \A q \in Tabs : pc'[q] = "select" => pc[q] = "select"
      BY <1>2 DEF Identify, Lookup, UpsertTenant, Save, TypeOK
    <2>2. UNCHANGED <<cookie, consent, issued, used, snap, auth, revived>>
      BY <1>2 DEF Identify, Lookup, UpsertTenant, Save, history
    <2> QED BY <2>1, <2>2 DEF NonceIInv
  <1>3. ASSUME NEW p \in Tabs, Finish(p) PROVE Once' /\ Issued'
    <2>1. used' = used \cup {auth[p].nonce} /\ auth[p].nonce \in 1..issued
      BY <1>3 DEF Finish, NonceIInv, TypeOK, Authorization
    <2>2. cookie'.nonce = 0
      BY <1>3 DEF Finish, TypeOK, Session
    <2>3. /\ \A q \in Tabs : pc'[q] \in Callback => pc[q] \in Callback
          /\ pc'[p] = "idle" /\ \A q \in Tabs \ {p} : pc'[q] = pc[q]
          /\ UNCHANGED <<consent, issued, snap, auth>>
      BY <1>3 DEF Finish, TypeOK
    <2>4. \A q \in Tabs : pc[q] = "select" => snap[q].nonce \notin used' \ revived'
      <3>1. revived \subseteq revived'
        BY <1>3 DEF Finish
      <3>2. ASSUME NEW q \in Tabs, pc[q] = "select", snap[q].nonce = auth[p].nonce
            PROVE  auth[p].nonce \in revived'
        BY <1>3, <3>2 DEF Finish
      <3> QED BY <2>1, <3>1, <3>2 DEF NonceIInv
    <2>5. Once'
      BY <2>1, <2>2, <2>3, <2>4 DEF NonceIInv
    <2>6. Issued'
      BY <2>1, <2>3 DEF NonceIInv
    <2> QED BY <2>5, <2>6
  <1>4. ASSUME NEW p \in Tabs, SelectCompany(p) PROVE Once' /\ Issued'
    <2>1. PICK o \in Orgs : snap' = [snap EXCEPT ![p] = [cookie EXCEPT !.company = o]]
      BY <1>4 DEF SelectCompany
    <2>2. snap'[p].nonce = cookie.nonce
      BY <2>1 DEF TypeOK, Session
    <2>3. \A q \in Tabs \ {p} : snap'[q] = snap[q] /\ pc'[q] = pc[q]
      BY <1>4, <2>1 DEF SelectCompany, TypeOK
    <2>4. pc'[p] = "select"
      BY <1>4 DEF SelectCompany, TypeOK
    <2>5. Once'
      BY <1>4, <2>2, <2>3 DEF SelectCompany, NonceIInv, history
    <2> QED BY <1>4, <2>3, <2>4, <2>5 DEF SelectCompany, NonceIInv
  <1>5. ASSUME NEW p \in Tabs, Selected(p) PROVE Once' /\ Issued'
    <2>1. /\ \A q \in Tabs : pc'[q] \in Callback => pc[q] \in Callback
          /\ \A q \in Tabs : pc'[q] = "select" => pc[q] = "select"
      BY <1>5 DEF Selected, TypeOK
    <2> QED BY <1>5, <2>1 DEF Selected, NonceIInv, history
  <1>6. CASE Connect
    <2>1. PICK m \in Modes : consent' = consent \cup {[nonce |-> issued + 1, mode |-> m]}
      BY <1>6 DEF Connect
    <2>2. issued' = issued + 1 /\ cookie'.nonce = issued + 1 /\ issued \in Nat
      BY <1>6 DEF Connect, TypeOK, Session
    <2>3. issued + 1 \notin used /\ used \subseteq 1..issued'
      BY <2>2 DEF NonceIInv
    <2>4. \A s \in consent' : s.nonce <= issued'
      BY <2>1, <2>2 DEF NonceIInv, TypeOK
    <2>5. \A p \in Tabs : pc[p] \in Callback => auth[p].nonce <= issued'
      BY <2>2 DEF NonceIInv, TypeOK, Authorization
    <2> QED BY <1>6, <2>2, <2>3, <2>4, <2>5 DEF Connect, NonceIInv, request, history
  <1>7. CASE SwitchMode \/ NonceExpires
    <2>1. cookie'.nonce = cookie.nonce
      BY <1>7 DEF SwitchMode, NonceExpires, TypeOK, Session
    <2> QED BY <1>7, <2>1 DEF SwitchMode, NonceExpires, NonceIInv, request, history
  <1>8. CASE Login
    <2>1. cookie'.nonce = 0
      BY <1>8 DEF Login, NewSession
    <2> QED BY <1>8, <2>1 DEF Login, NonceIInv, request, history
  <1>9. CASE Disconnect \/ Rename \/ UNCHANGED vars
    BY <1>9 DEF Disconnect, Rename, vars, NonceIInv, request, history
  <1> QED BY <1>1, <1>2, <1>3, <1>4, <1>5, <1>6, <1>7, <1>8, <1>9 DEF Next

\* A nonce that a callback consumed is never in the session again, unless a
\* company was being selected in a session that had it.
THEOREM NonceOnce == Spec => []NonceSingleUse
  <1>1. Init => NonceIInv
    BY NonceInit
  <1>2. NonceIInv /\ [Next]_vars => NonceIInv'
    BY NonceStep
  <1>3. NonceIInv => NonceSingleUse
    BY DEF NonceIInv, NonceSingleUse
  <1> QED BY <1>1, <1>2, <1>3, PTL DEF Spec
=============================================================================
