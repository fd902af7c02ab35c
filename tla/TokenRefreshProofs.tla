------------------------- MODULE TokenRefreshProofs -------------------------
(***************************************************************************)
(* Proofs about TokenRefresh, for any number of Loads, grants and          *)
(* rotations: what the lock and the compare-and-swap each guarantee, and   *)
(* that together they make the row the one cell of TokenPromise.           *)
(***************************************************************************)
EXTENDS TokenRefresh, TLAPS

(***************************************************************************)
(* The inductive invariant behind RefreshSerialised, RevokedOnlyIfUnsettled *)
(* and StoredTokenLive, for the backend with the lock.                     *)
(***************************************************************************)
LockOwner ==
  /\ \A p \in lost : pc[p] \in Critical
  /\ \A p \in Procs : (pc[p] \in Critical /\ p \notin lost) <=> lock = p

\* Authorized, but its first token has not been stored yet.
Unused(g) == stored.grant # g /\ \A p \in Procs : tok[p].grant # g

PersistingStored(p) == pc[p] = "persist" /\ tok[p] = stored

\* Nobody presents or has just presented a token of g but the lock's owner.
GrantInv(g) ==
  /\ g \notin revoked
  /\ head[g] = 0 => Unused(g)
  /\ g \in connecting => head[g] = 1 /\ Unused(g)
  /\ \A p \in Procs : tok[p].grant = g =>
       /\ pc[p] = "refresh" => lock = p /\ head[g] = tok[p].gen
       /\ pc[p] = "persist" => lock = p /\ head[g] = tok[p].gen + 1
  /\ stored.grant = g =>
       \/ head[g] = stored.gen
       \/ \E p \in Procs : PersistingStored(p)

IInv ==
  /\ TypeOK
  /\ LockOwner
  /\ \A t \in wire : t.grant \in unsettled
  /\ \A g \in Grants \ Unserialised : GrantInv(g)

-----------------------------------------------------------------------------
\* A token, and its rotation, are tokens of the same grant and not the absent one.
LEMMA TokenShape ==
  ASSUME NEW t \in Token
  PROVE  /\ t.grant \in Grants /\ t.gen \in Nat
         /\ Rotated(t) \in Token
         /\ Rotated(t).grant = t.grant
         /\ Rotated(t).gen = t.gen + 1
         /\ t # NoToken
BY GrantAssumption DEF Token, Rotated, NoToken

\* A token is its grant and its place in the rotation.
LEMMA TokenEquality ==
  ASSUME NEW t \in Token, NEW u \in Token, t.grant = u.grant, t.gen = u.gen
  PROVE  t = u
BY DEF Token

\* The empty store, no Load under way, no grant: well typed.
LEMMA InitTypeOK == Init => TypeOK
<1> SUFFICES ASSUME Init PROVE TypeOK
  OBVIOUS
<1>1. lost \subseteq Procs /\ unguarded \subseteq Grants
  BY DEF Init
<1>2. /\ stored \in Token \cup {NoToken} /\ life \in 0..2
      /\ head \in [Grants -> Nat]
  BY DEF Init
<1>3. /\ pc \in [Procs -> Resting \cup Waiting \cup Critical]
      /\ tok \in [Procs -> Token \cup {NoToken}]
      /\ \A p \in Procs : pc[p] \in {"refresh", "persist"} => tok[p] \in Token
  BY DEF Init, Resting
<1>4. QED
  BY <1>1, <1>2, <1>3 DEF Init, TypeOK

\* Every step of a Load, a handler, Fortnox or a fault keeps the types.
LEMMA NextTypeOK == TypeOK /\ [Next]_vars => TypeOK'
<1> SUFFICES ASSUME TypeOK, [Next]_vars
             PROVE  TypeOK'
  OBVIOUS
<1> USE TokenShape DEF TypeOK, rowVars, fortnoxVars, lockVars, histVars, Resting, Waiting, Critical
<1>1. ASSUME NEW p \in Procs, FirstLoad(p) \/ Conn(p) \/ Acquire(p) \/ AcquireFails(p)
      PROVE  TypeOK'
  BY <1>1 DEF FirstLoad, Conn, Acquire, AcquireFails, Move
<1>2. ASSUME NEW p \in Procs, Reread(p) \/ Reload(p)
      PROVE  TypeOK'
  BY <1>2 DEF Reread, Reload, Return, Move
<1>3. ASSUME NEW p \in Procs, Refresh(p) \/ AnswerLost(p)
      PROVE  TypeOK'
  BY <1>3 DEF Refresh, AnswerLost, Accept, Refuse, Live, Return, Move
<1>4. ASSUME NEW p \in Procs, Persist(p) \/ PersistFails(p)
      PROVE  TypeOK'
  BY <1>4 DEF Persist, PersistFails, Return, Move
<1>5. ASSUME NEW p \in Procs, Crash(p) \/ SessionLost(p)
      PROVE  TypeOK'
  BY <1>5 DEF Crash, SessionLost, Return, Move
<1>6. CASE DeliverLate \/ Age
  BY <1>6 DEF DeliverLate, Age, Accept, Refuse, Live
<1>7. CASE ExchangeCode \/ Save \/ AbandonConnect \/ Delete
  BY <1>7 DEF ExchangeCode, Save, AbandonConnect, Delete, Token
<1>8. CASE UNCHANGED vars
  BY <1>8 DEF vars
<1>9. QED
  BY <1>1, <1>2, <1>3, <1>4, <1>5, <1>6, <1>7, <1>8 DEF Next, LoadStep

\* TypeOK is an invariant for every set of Loads, grants and faults.
THEOREM TypeCorrect == Spec => []TypeOK
BY InitTypeOK, NextTypeOK, PTL DEF Spec

-----------------------------------------------------------------------------
(***************************************************************************)
(* The lock serialises, for the backend that has one; a Load whose session *)
(* is dropped is out of its protection until it returns, nobody else is.   *)
(***************************************************************************)
\* Nobody is in the critical section and nobody owns the lock.
LEMMA LockOwnerInit == Init => LockOwner
BY NobodyAssumption DEF Init, LockOwner, Critical

\* Between acquiring the lock and returning are its owner and those PostgreSQL
\* took it from.
LEMMA LockOwnerNext ==
  ASSUME Locked, TypeOK, LockOwner, [Next]_vars
  PROVE  LockOwner'
<1> USE NobodyAssumption DEF TypeOK, LockOwner, lockVars, Resting, Waiting, Critical, Locked
<1>1. ASSUME NEW p \in Procs,
             FirstLoad(p) \/ Conn(p) \/ Acquire(p) \/ AcquireFails(p) \/ Reread(p)
      PROVE  LockOwner'
  BY <1>1 DEF FirstLoad, Conn, Acquire, AcquireFails, Reread, Return, Move
<1>2. ASSUME NEW p \in Procs, Refresh(p) \/ AnswerLost(p) \/ Reload(p)
      PROVE  LockOwner'
  BY <1>2 DEF Refresh, AnswerLost, Reload, Return, Move
<1>3. ASSUME NEW p \in Procs, Persist(p) \/ PersistFails(p)
      PROVE  LockOwner'
  BY <1>3 DEF Persist, PersistFails, Return, Move
<1>4. ASSUME NEW p \in Procs, Crash(p) \/ SessionLost(p)
      PROVE  LockOwner'
  BY <1>4 DEF Crash, SessionLost, Return, Move
<1>5. CASE UNCHANGED <<pc, lockVars>>
  BY <1>5
<1>6. QED
  BY <1>1, <1>2, <1>3, <1>4, <1>5
  DEF Next, LoadStep, vars, DeliverLate, Age, ExchangeCode, Save,
      AbandonConnect, Delete

\* The part of IInv that needs no grants.
LockInv == TypeOK /\ LockOwner

\* One owner, one Load under the lock.
LEMMA OwnerSerialises == LockInv => RefreshSerialised
BY DEF LockInv, LockOwner, TypeOK, RefreshSerialised

\* With the lock, at most one Load whose session PostgreSQL has kept is between
\* acquiring the lock and returning, whatever crashes or fails.
THEOREM Serialised == Locked => (Spec => []RefreshSerialised)
<1> SUFFICES ASSUME Locked PROVE Spec => []RefreshSerialised
  OBVIOUS
<1>1. Init => LockInv
  BY InitTypeOK, LockOwnerInit DEF LockInv
<1>2. LockInv /\ [Next]_vars => LockInv'
  BY NextTypeOK, LockOwnerNext DEF LockInv
<1>3. QED
  BY <1>1, <1>2, OwnerSerialises, PTL DEF Spec
-----------------------------------------------------------------------------
(***************************************************************************)
(* No grant is lost to reuse: GrantInv is kept for every grant whose       *)
(* rotations all reached the store.                                        *)
(***************************************************************************)
\* The inductive invariant holds before anybody has connected a company.
LEMMA IInvInit == Init => IInv
<1> SUFFICES ASSUME Init PROVE IInv
  OBVIOUS
<1>1. TypeOK /\ LockOwner
  BY InitTypeOK, LockOwnerInit
<1>2. ASSUME NEW g \in Grants \ Unserialised PROVE GrantInv(g)
  BY GrantAssumption DEF Init, GrantInv, Unused, NoToken
<1>3. QED
  BY <1>1, <1>2 DEF IInv, Init

\* What is on the wire, and what has gone missing, only grows together; and no
\* grant is settled again.
LEMMA WireNext ==
  ASSUME TypeOK, \A t \in wire : t.grant \in unsettled, [Next]_vars
  PROVE  /\ \A t \in wire' : t.grant \in unsettled'
         /\ unsettled \subseteq unsettled' /\ unguarded \subseteq unguarded'
<1>1. ASSUME NEW p \in Procs, AnswerLost(p) \/ Crash(p) \/ PersistFails(p)
      PROVE  /\ \A t \in wire' : t.grant \in unsettled'
             /\ unsettled \subseteq unsettled' /\ unguarded \subseteq unguarded'
  BY <1>1 DEF AnswerLost, Crash, PersistFails, histVars
<1>2. CASE DeliverLate
  BY <1>2 DEF DeliverLate, histVars
<1>3. ASSUME NEW p \in Procs, Reread(p) \/ SessionLost(p)
      PROVE  UNCHANGED <<wire, unsettled>> /\ unguarded \subseteq unguarded'
  BY <1>3 DEF Reread, SessionLost
<1>4. CASE UNCHANGED <<wire, histVars>>
  BY <1>4 DEF histVars
<1>5. QED
  BY <1>1, <1>2, <1>3, <1>4
  DEF Next, LoadStep, vars, histVars, FirstLoad, Conn, Acquire, AcquireFails, Refresh,
      Persist, Reload, Age, ExchangeCode, Save, AbandonConnect, Delete

\* A grant whose rotations were all made under the lock, and stored, stays
\* unrevoked, and Fortnox's
\* live token for it stays the stored one or the one being stored.
LEMMA GrantInvNext ==
  ASSUME Locked, IInv, [Next]_vars, NEW g \in Grants \ Unserialised'
  PROVE  GrantInv(g)'
<1>1. /\ g \in Grants \ Unserialised /\ GrantInv(g) /\ TypeOK /\ LockOwner
      /\ g \notin unsettled' /\ g \notin unguarded'
      /\ NoToken.grant # g /\ NoToken \notin Token
  BY WireNext, GrantAssumption DEF IInv, NoToken, Token, Unserialised
<1> USE <1>1, TokenShape, NobodyAssumption, GrantAssumption
    DEF TypeOK, GrantInv, Unused, PersistingStored, rowVars, fortnoxVars,
        lockVars, histVars, Resting, Waiting, Critical, LockOwner, Locked
<1>2. ASSUME NEW p \in Procs, FirstLoad(p) \/ Conn(p) \/ Acquire(p) \/ AcquireFails(p)
      PROVE  GrantInv(g)'
  BY <1>2 DEF FirstLoad, Conn, Acquire, AcquireFails, Move
<1>3. ASSUME NEW p \in Procs, Reread(p)
      PROVE  GrantInv(g)'
  BY <1>3 DEF Reread, Return, Move
<1>4. ASSUME NEW p \in Procs, Reload(p) \/ AnswerLost(p) \/ PersistFails(p)
      PROVE  GrantInv(g)'
  BY <1>4 DEF Reload, AnswerLost, PersistFails, Return, Move
<1>5. ASSUME NEW p \in Procs, Refresh(p)
      PROVE  GrantInv(g)'
  <2>1. /\ pc[p] = "refresh" /\ tok[p] \in Token
        /\ tok[p].grant = g =>
             \A q \in Procs : tok[q].grant = g /\ pc[q] \in {"refresh", "persist"} => q = p
    BY <1>5 DEF Refresh
  <2> DEFINE Accepted == Accept(tok[p]) /\ Move(p, "persist", tok[p]) /\ UNCHANGED lockVars
  <2>2. CASE Accepted /\ tok[p].grant = g
    <3>1. /\ head' = [head EXCEPT ![g] = @ + 1] /\ head[g] = tok[p].gen
          /\ pc' = [pc EXCEPT ![p] = "persist"] /\ tok' = tok
          /\ UNCHANGED <<stored, connecting, revoked, lock>>
      BY <1>5, <2>1, <2>2 DEF Refresh, Accept, Live, Move
    <3>2. stored.grant = g => stored = tok[p]
      BY <2>1, <2>2, <3>1, TokenEquality
    <3>3. g \notin connecting
      BY <2>2
    <3>4. QED
      BY <2>1, <2>2, <3>1, <3>2, <3>3
  <2>3. CASE Accepted /\ tok[p].grant # g
    BY <1>5, <2>1, <2>3 DEF Refresh, Accept, Move
  <2>4. CASE Refuse(tok[p]) /\ Return(p, "error", NoToken)
    BY <1>5, <2>1, <2>4 DEF Refresh, Refuse, Live, Return, Move
  <2>5. CASE Return(p, "error", NoToken) /\ UNCHANGED fortnoxVars
    BY <1>5, <2>1, <2>5 DEF Refresh, Return, Move
  <2>6. QED
    BY <1>5, <2>2, <2>3, <2>4, <2>5 DEF Refresh
<1>6. ASSUME NEW p \in Procs, Persist(p)
      PROVE  GrantInv(g)'
  BY <1>6 DEF Persist, Return, Move
<1>7. ASSUME NEW p \in Procs, Crash(p) \/ SessionLost(p)
      PROVE  GrantInv(g)'
  BY <1>7 DEF Crash, SessionLost, Return, Move
<1>8. CASE DeliverLate
  BY <1>8 DEF DeliverLate, Accept, Refuse, Live, IInv, Unserialised
<1>9. CASE Age \/ AbandonConnect \/ Delete
  BY <1>9 DEF Age, AbandonConnect, Delete
<1>10. CASE ExchangeCode \/ Save
  BY <1>10 DEF ExchangeCode, Save
<1>11. CASE UNCHANGED vars
  BY <1>11 DEF vars
<1>12. QED
  BY <1>2, <1>3, <1>4, <1>5, <1>6, <1>7, <1>8, <1>9, <1>10, <1>11
  DEF Next, LoadStep

\* The inductive invariant is kept by every step.
LEMMA IInvNext ==
  ASSUME Locked, IInv, [Next]_vars
  PROVE  IInv'
<1>1. TypeOK' /\ \A t \in wire' : t.grant \in unsettled'
  BY NextTypeOK, WireNext DEF IInv
<1>2. LockOwner' /\ \A g \in Grants \ Unserialised' : GrantInv(g)'
  BY LockOwnerNext, GrantInvNext DEF IInv
<1>3. QED
  BY <1>1, <1>2 DEF IInv

\* With the lock, a grant is revoked only if the result of one of its rotations
\* never reached the store, or it was refreshed by a Load whose lock was gone: a
\* lost session harms the grant it was refreshing and no other.
THEOREM NoReuse == Locked => (Spec => []RevokedOnlyIfUnsettled)
<1> SUFFICES ASSUME Locked PROVE Spec => []RevokedOnlyIfUnsettled
  OBVIOUS
<1>1. IInv => RevokedOnlyIfUnsettled
  BY DEF IInv, TypeOK, GrantInv, RevokedOnlyIfUnsettled
<1>2. IInv /\ [Next]_vars => IInv'
  BY IInvNext
<1>3. QED
  BY <1>1, <1>2, IInvInit, PTL DEF Spec

\* Whenever nobody is about to store what was minted from it, the stored refresh
\* token is the one Fortnox accepts next.
THEOREM StoredLive == Locked => (Spec => []StoredTokenLive)
<1> SUFFICES ASSUME Locked PROVE Spec => []StoredTokenLive
  OBVIOUS
<1>1. IInv => StoredTokenLive
  <2> SUFFICES ASSUME IInv, stored # NoToken,
                      stored.grant \notin Unserialised,
                      \A p \in Procs : ~(pc[p] = "persist" /\ tok[p] = stored)
               PROVE  Live(stored)
    BY DEF StoredTokenLive
  <2>1. stored.grant \in Grants \ Unserialised
    BY TokenShape DEF IInv, TypeOK
  <2>2. QED
    BY <2>1 DEF IInv, GrantInv, PersistingStored, Live
<1>2. IInv /\ [Next]_vars => IInv'
  BY IInvNext
<1>3. QED
  BY <1>1, <1>2, IInvInit, PTL DEF Spec

\* Without faults no grant is ever revoked: reuse is impossible.
THEOREM FaultFree == Locked /\ Faults = {} => (Spec => []NoGrantRevoked)
<1> SUFFICES ASSUME Locked, Faults = {} PROVE Spec => []NoGrantRevoked
  OBVIOUS
<1> DEFINE Settled == unsettled = {} /\ unguarded = {} /\ lost = {}
<1>1. Settled /\ [Next]_vars => Settled'
  BY DEF Next, LoadStep, vars, lockVars, histVars, FirstLoad, Conn, Acquire,
         AcquireFails, Reread, Refresh, AnswerLost, Persist, PersistFails,
         Reload, Crash, SessionLost, DeliverLate, Age, ExchangeCode, Save,
         AbandonConnect, Delete, Return
<1>2. Init => Settled
  BY DEF Init
<1>3. RevokedOnlyIfUnsettled /\ Settled => NoGrantRevoked
  BY DEF RevokedOnlyIfUnsettled, NoGrantRevoked, Unserialised
<1>4. Spec => []RevokedOnlyIfUnsettled
  BY NoReuse
<1> HIDE DEF Settled
<1>5. QED
  BY <1>1, <1>2, <1>3, <1>4, PTL DEF Spec

-----------------------------------------------------------------------------
(***************************************************************************)
(* The compare-and-swap, under every backend and every fault.              *)
(***************************************************************************)
\* One step of the program: a refresh moves its own grant, a callback brings one
\* it exchanged, a disconnect removes it.
LEMMA NextChangesGrant ==
  TypeOK /\ [Next]_vars
  => [stored' \in {NoToken, Rotated(stored)} \/ stored'.grant \in connecting]_stored
BY DEF Next, LoadStep, vars, rowVars, FirstLoad, Conn, Acquire, AcquireFails, Reread,
       Refresh, AnswerLost, Persist, PersistFails, Reload, Crash, SessionLost,
       DeliverLate, Age, ExchangeCode, Save, AbandonConnect, Delete

\* Whatever fails, with or without the lock, a refresh only ever moves the
\* grant it read: it cannot undo a connect or a disconnect.
THEOREM GrantKept == Spec => OnlyConnectChangesGrant
BY InitTypeOK, NextTypeOK, NextChangesGrant, PTL DEF Spec, OnlyConnectChangesGrant

\* One step of the program: whoever ends with "ok" holds what is stored.
LEMMA NextServesStored ==
  TypeOK /\ [Next]_vars
  => [\A p \in Procs : (pc[p] # "ok" /\ pc'[p] = "ok") => tok'[p] = stored']_vars
<1> SUFFICES ASSUME TypeOK, [Next]_vars, NEW p \in Procs, pc[p] # "ok", pc'[p] = "ok"
             PROVE  tok'[p] = stored'
  OBVIOUS
<1> USE DEF TypeOK, rowVars
<1>1. ASSUME NEW q \in Procs,
             \/ FirstLoad(q) \/ Conn(q) \/ Acquire(q) \/ AcquireFails(q)
             \/ Refresh(q) \/ AnswerLost(q) \/ PersistFails(q)
             \/ Crash(q) \/ SessionLost(q)
      PROVE  tok'[p] = stored'
  BY <1>1 DEF FirstLoad, Conn, Acquire, AcquireFails, Refresh, AnswerLost,
              PersistFails, Crash, SessionLost, Return, Move
<1>2. ASSUME NEW q \in Procs, Reread(q) \/ Reload(q) \/ Persist(q)
      PROVE  tok'[p] = stored'
  BY <1>2 DEF Reread, Reload, Persist, Return, Move
<1>3. CASE UNCHANGED pc
  BY <1>3
<1>4. QED
  BY <1>1, <1>2, <1>3
  DEF Next, LoadStep, vars, DeliverLate, Age, ExchangeCode, Save,
      AbandonConnect, Delete

\* Load never hands out a token that is not the stored one, whatever fails.
THEOREM ServesStored == Spec => ServesTheStoredToken
BY InitTypeOK, NextTypeOK, NextServesStored, PTL DEF Spec, ServesTheStoredToken
-----------------------------------------------------------------------------
(***************************************************************************)
(* With the lock, Loads, rows and failures implement TokenPromise.         *)
(***************************************************************************)
\* A grant that was not issued, or not saved, is in no row, no Load and no
\* request that is still out.
Unsaved ==
  \A g \in Grants : (head[g] = 0 \/ g \in connecting) =>
    /\ Unused(g)
    /\ \A t \in wire : t.grant # g
    /\ head[g] = 0 => g \notin connecting

\* No Load holds a token that comes after the stored one of its grant.
NotAhead ==
  \A p \in Procs : tok[p].grant = stored.grant => tok[p].gen <= stored.gen

CellInv == IInv /\ Unsaved /\ NotAhead

LEMMA CellInvInit == Init => CellInv
<1> SUFFICES ASSUME Init PROVE CellInv
  OBVIOUS
<1>1. Unsaved /\ NotAhead
  BY GrantAssumption DEF Init, Unsaved, Unused, NotAhead, NoToken
<1> QED
  BY <1>1, IInvInit DEF CellInv

\* What is new in a row, a Load or on the wire was in one of them before, or is
\* saved by the callback that was issued it.
LEMMA UnsavedNext ==
  ASSUME TypeOK, Unsaved, [Next]_vars
  PROVE  Unsaved'
<1> DEFINE Absent(g) == Unused(g) /\ (\A t \in wire : t.grant # g)
                        /\ (head[g] = 0 => g \notin connecting)
<1> SUFFICES ASSUME NEW g \in Grants, (head[g] = 0 \/ g \in connecting)'
             PROVE  Absent(g)'
  BY DEF Unsaved
<1>0. NoToken.grant # g
  BY GrantAssumption DEF NoToken
<1> USE <1>0, TokenShape DEF TypeOK, Unsaved, Unused, rowVars, fortnoxVars, histVars
<1>1. ASSUME NEW p \in Procs,
             \/ FirstLoad(p) \/ Conn(p) \/ Acquire(p) \/ AcquireFails(p)
             \/ Reread(p) \/ Reload(p)
      PROVE  Absent(g)'
  BY <1>1 DEF FirstLoad, Conn, Acquire, AcquireFails, Reread, Reload, Return, Move
<1>2. ASSUME NEW p \in Procs, Refresh(p) \/ AnswerLost(p)
      PROVE  Absent(g)'
  BY <1>2 DEF Refresh, AnswerLost, Accept, Refuse, Return, Move
<1>3. ASSUME NEW p \in Procs, Persist(p) \/ PersistFails(p)
      PROVE  Absent(g)'
  BY <1>3 DEF Persist, PersistFails, Return, Move
<1>4. ASSUME NEW p \in Procs, Crash(p) \/ SessionLost(p)
      PROVE  Absent(g)'
  BY <1>4 DEF Crash, SessionLost, Return, Move
<1>5. CASE DeliverLate
  BY <1>5 DEF DeliverLate, Accept, Refuse
<1>6. CASE Age \/ AbandonConnect \/ Delete \/ UNCHANGED vars
  BY <1>6 DEF Age, AbandonConnect, Delete, vars
<1>7. CASE ExchangeCode \/ Save
  BY <1>7 DEF ExchangeCode, Save
<1> QED
  BY <1>1, <1>2, <1>3, <1>4, <1>5, <1>6, <1>7 DEF Next, LoadStep

\* Loads take what is stored, and what is stored only goes on.
LEMMA NotAheadNext ==
  ASSUME TypeOK, Unsaved, NotAhead, [Next]_vars
  PROVE  NotAhead'
<1>0. \A t \in Token : t.grant # NoToken.grant
  BY GrantAssumption DEF NoToken, Token
<1> USE <1>0, TokenShape DEF TypeOK, NotAhead, rowVars, fortnoxVars, histVars
<1>1. ASSUME NEW p \in Procs,
             \/ FirstLoad(p) \/ Conn(p) \/ Acquire(p) \/ AcquireFails(p)
             \/ Reread(p) \/ Reload(p)
      PROVE  NotAhead'
  BY <1>1 DEF FirstLoad, Conn, Acquire, AcquireFails, Reread, Reload, Return, Move, NoToken
<1>2. ASSUME NEW p \in Procs, Refresh(p) \/ AnswerLost(p) \/ PersistFails(p)
      PROVE  NotAhead'
  BY <1>2 DEF Refresh, AnswerLost, PersistFails, Return, Move, NoToken
<1>3. ASSUME NEW p \in Procs, Persist(p)
      PROVE  NotAhead'
  BY <1>3 DEF Persist, Return, Move, NoToken
<1>4. ASSUME NEW p \in Procs, Crash(p) \/ SessionLost(p)
      PROVE  NotAhead'
  BY <1>4 DEF Crash, SessionLost, Return, Move, NoToken
<1>5. CASE DeliverLate \/ Age \/ ExchangeCode \/ AbandonConnect \/ UNCHANGED vars
  BY <1>5 DEF DeliverLate, Age, ExchangeCode, AbandonConnect, vars
<1>6. CASE Save \/ Delete
  BY <1>6 DEF Save, Delete, Unsaved, Unused, NoToken
<1> QED
  BY <1>1, <1>2, <1>3, <1>4, <1>5, <1>6 DEF Next, LoadStep

LEMMA CellInvNext == ASSUME Locked, CellInv, [Next]_vars PROVE CellInv'
  BY IInvNext, UnsavedNext, NotAheadNext DEF CellInv, IInv

\* One step on in the promise is a rotation.
LEMMA OneOnIsRotated ==
  ASSUME NEW t \in Token
  PROVE  Promise!OneOn(t) = Rotated(t) /\ Promise!OneBack(Rotated(t)) = t
BY DEF Promise!OneOn, Promise!OneBack, Rotated, Token

\* The row seen from outside is a token of the stored one's grant, or there is
\* none.
LEMMA RowIs ==
  ASSUME TypeOK
  PROVE  /\ Row.grant = stored.grant
         /\ stored = NoToken => Row = NoToken
         /\ stored # NoToken => stored \in Token /\ Row \in Token /\ Row # NoToken
BY TokenShape, GrantAssumption DEF Row, Persisting, TypeOK, NoToken, Rotated

\* It stays as it is where nobody begins or gives up to store what was minted
\* from what is stored.
LEMMA SameRow ==
  ASSUME UNCHANGED stored,
         \A p \in Procs : (pc'[p] = "persist" /\ tok'[p] = stored)
                            <=> (pc[p] = "persist" /\ tok[p] = stored)
  PROVE  UNCHANGED Row
BY DEF Row, Persisting, Rotated

\* Fortnox takes the token of a Load: the cell goes on with it, or the grant is
\* in no cell any more, or it went astray before.
LEMMA AcceptPromised ==
  ASSUME Locked, CellInv, NEW p \in Procs, Refresh(p), Accept(tok[p]),
         Move(p, "persist", tok[p])
  PROVE  Promise!PromiseNext
<1> DEFINE g == tok[p].grant
<1>0. /\ TypeOK /\ Unsaved /\ tok[p] \in Token /\ g \in Grants /\ pc[p] = "refresh"
      /\ UNCHANGED <<stored, connecting, revoked, unsettled, unguarded>>
      /\ g \notin revoked /\ head[g] = tok[p].gen /\ head' = [head EXCEPT ![g] = @ + 1]
      /\ pc' = [pc EXCEPT ![p] = "persist"] /\ tok' = tok
  BY TokenShape DEF CellInv, IInv, TypeOK, Refresh, Accept, Live, Move, rowVars, histVars
<1>1. head[g] > 0 /\ g \notin connecting
  BY <1>0 DEF Unsaved, Unused, TypeOK
<1>2. Promise!GoesOn(g) /\ UNCHANGED Unserialised
  BY <1>0 DEF Promise!GoesOn, Unserialised
<1>3. tok[p] # stored => UNCHANGED Row
  BY <1>0, SameRow DEF TypeOK
<1>4. tok[p] = stored => /\ Row' = Rotated(stored)
                         /\ Row = stored \/ UNCHANGED Row
  BY <1>0 DEF Row, Persisting, TypeOK, Rotated
<1>5. CASE g \in Unserialised
  <2>1. UNCHANGED Row \/ (Row.grant = g /\ Row' = Promise!OneOn(Row))
    BY <1>0, <1>3, <1>4, OneOnIsRotated
  <2> QED
    BY <1>0, <1>1, <1>2, <1>5, <2>1 DEF Promise!Stray, Promise!PromiseNext
<1>6. CASE g \notin Unserialised
  <2>1. GrantInv(g)
    BY <1>0, <1>6 DEF CellInv, IInv
  <2>2. \A q \in Procs : ~(pc[q] = "persist" /\ tok[q].grant = g)
    BY <1>0, <2>1 DEF GrantInv
  <2>3. Row.grant = stored.grant
    BY <1>0, RowIs
  <2>4. CASE stored.grant = g
    <3>1. stored \in Token /\ head[g] = stored.gen
      BY <1>0, <2>1, <2>2, <2>4, GrantAssumption DEF GrantInv, PersistingStored, TypeOK, NoToken
    <3>2. tok[p] = stored
      BY <1>0, <2>4, <3>1, TokenEquality
    <3>3. Row = stored
      BY <2>2, <2>4 DEF Row, Persisting
    <3>4. Row # Promise!Empty /\ Row' = Promise!OneOn(Row)
      BY <1>4, <3>1, <3>2, <3>3, OneOnIsRotated, TokenShape DEF Promise!Empty, NoToken
    <3> QED
      BY <1>0, <1>2, <2>4, <3>1, <3>3, <3>4 DEF Promise!RefreshCell, Promise!PromiseNext
  <2>5. CASE stored.grant # g
    <3>1. UNCHANGED Row
      BY <1>3, <2>5
    <3> QED
      BY <1>0, <1>1, <1>2, <2>3, <2>5, <3>1 DEF Promise!RefreshGivenUp, Promise!PromiseNext
  <2> QED
    BY <2>4, <2>5
<1> QED
  BY <1>5, <1>6

\* It refuses a token only of a grant that went astray.
LEMMA RefusePromised ==
  ASSUME Locked, CellInv, NEW p \in Procs, Refresh(p), Refuse(tok[p]),
         Return(p, "error", NoToken)
  PROVE  Promise!PromiseNext
<1> DEFINE g == tok[p].grant
<1>0. /\ TypeOK /\ tok[p] \in Token /\ g \in Grants /\ pc[p] = "refresh"
      /\ UNCHANGED <<stored, connecting, head, unsettled, unguarded>>
      /\ revoked' = revoked \cup {g} /\ ~Live(tok[p])
      /\ pc' = [pc EXCEPT ![p] = "error"] /\ tok' = [tok EXCEPT ![p] = NoToken]
  BY TokenShape DEF CellInv, IInv, TypeOK, Refresh, Refuse, Return, Move, rowVars, histVars
<1>1. g \in Unserialised
  BY <1>0 DEF CellInv, IInv, GrantInv, Live
<1>2. UNCHANGED <<Row, Unserialised>>
  BY <1>0, SameRow DEF TypeOK, Unserialised
<1> QED
  BY <1>0, <1>1, <1>2 DEF Promise!Stray, Promise!PromiseNext

\* A rotation that is lost, or a lock: the cell stays or falls back.
LEMMA LossPromised ==
  ASSUME TypeOK, NEW p \in Procs, pc[p] \in {"refresh", "persist"},
         pc' = [pc EXCEPT ![p] = "error"] \/ pc' = [pc EXCEPT ![p] = "idle"],
         tok' = [tok EXCEPT ![p] = NoToken],
         unsettled' = unsettled \cup {tok[p].grant},
         UNCHANGED <<stored, head, revoked, connecting, unguarded>>
  PROVE  Promise!PromiseNext
<1>1. tok[p] \in Token /\ tok[p].grant \in Grants
  BY TokenShape DEF TypeOK
<1>2. Unserialised' = Unserialised \cup {tok[p].grant}
  BY <1>1 DEF Unserialised
<1>3. UNCHANGED Row \/ (Row.grant = tok[p].grant /\ Row' = Promise!OneBack(Row))
  <2>1. CASE pc[p] = "persist" /\ tok[p] = stored
    <3>1. Row = Rotated(stored)
      BY <2>1 DEF Row, Persisting
    <3>2. Row' = Rotated(stored) \/ Row' = stored
      BY DEF Row, Rotated
    <3> QED
      BY <1>1, <2>1, <3>1, <3>2, OneOnIsRotated, TokenShape
  <2>2. CASE ~(pc[p] = "persist" /\ tok[p] = stored)
    BY <2>2, SameRow DEF TypeOK
  <2> QED
    BY <2>1, <2>2
<1>4. Promise!GoAstray({tok[p].grant})
  BY <1>2, <1>3 DEF Promise!GoAstray
<1> QED
  BY <1>1, <1>4 DEF Promise!PromiseNext

\* What reaches Fortnox late is of a grant that went astray.
LEMMA LatePromised ==
  ASSUME CellInv, DeliverLate
  PROVE  Promise!PromiseNext
<1>1. PICK t \in wire : Accept(t) \/ Refuse(t)
  BY DEF DeliverLate
<1> DEFINE g == t.grant
<1>2. /\ TypeOK /\ g \in Grants /\ g \in Unserialised /\ head[g] > 0
      /\ UNCHANGED <<stored, connecting, pc, tok, unsettled, unguarded>>
  BY TokenShape DEF CellInv, IInv, TypeOK, Unsaved, Unserialised, DeliverLate, rowVars, histVars
<1>3. UNCHANGED <<Row, Unserialised>>
  BY <1>2, SameRow DEF Unserialised
<1>4. CASE Accept(t)
  BY <1>2, <1>3, <1>4 DEF Accept, Live, Promise!GoesOn, Promise!Stray, Promise!PromiseNext
<1>5. CASE Refuse(t)
  BY <1>2, <1>3, <1>5 DEF Refuse, Promise!Stray, Promise!PromiseNext
<1> QED
  BY <1>1, <1>4, <1>5

\* The consent screen and the disconnect button.
LEMMA HandlersPromised ==
  ASSUME CellInv, ExchangeCode \/ Save \/ AbandonConnect \/ Delete
  PROVE  Promise!PromiseNext
<1>0. TypeOK /\ Unsaved /\ UNCHANGED Unserialised
  BY DEF CellInv, IInv, ExchangeCode, Save, AbandonConnect, Delete, histVars, Unserialised
<1>1. CASE ExchangeCode
  <2>1. UNCHANGED Row
    BY <1>1, SameRow DEF ExchangeCode, rowVars
  <2>2. PICK g \in Grants : /\ head[g] = 0 /\ head' = [head EXCEPT ![g] = 1]
                             /\ connecting' = connecting \cup {g}
    BY <1>1 DEF ExchangeCode
  <2>3. Promise!GoesOn(g)
    BY <2>2 DEF Promise!GoesOn
  <2>4. Promise!Authorize(g)
    BY <1>0, <1>1, <2>1, <2>2, <2>3 DEF ExchangeCode, Promise!Authorize
  <2> QED
    BY <2>4 DEF Promise!PromiseNext
<1>2. CASE AbandonConnect
  <2>1. UNCHANGED Row
    BY <1>2, SameRow DEF AbandonConnect, rowVars
  <2> QED
    BY <1>0, <1>2, <2>1
    DEF AbandonConnect, TypeOK, fortnoxVars, Promise!Decline, Promise!PromiseNext
<1>3. CASE Save
  <2>1. PICK g \in connecting : /\ stored' = [grant |-> g, gen |-> 1]
                                /\ connecting' = connecting \ {g}
    BY <1>3 DEF Save
  <2>2. ~Persisting(stored)'
    BY <1>0, <1>3, <2>1 DEF Save, Persisting, Unsaved, Unused, TypeOK
  <2>3. Row' = [grant |-> g, gen |-> 1]
    BY <2>1, <2>2 DEF Row
  <2> QED
    BY <1>0, <1>3, <2>1, <2>3
    DEF Save, TypeOK, fortnoxVars, Promise!Connect, Promise!PromiseNext
<1>4. CASE Delete
  <2>1. ~Persisting(stored)'
    BY <1>0, <1>4, TokenShape DEF Delete, Persisting, TypeOK
  <2>2. Row' = NoToken /\ Row # NoToken
    BY <1>0, <1>4, <2>1, RowIs DEF Delete, Row
  <2> QED
    BY <1>0, <1>4, <2>2
    DEF Delete, fortnoxVars, NoToken, Promise!Empty, Promise!Disconnect, Promise!PromiseNext
<1> QED
  BY <1>1, <1>2, <1>3, <1>4

\* Every step is a step of the promise or changes nothing of it.
LEMMA StepPromised ==
  ASSUME Locked, CellInv, [Next]_vars
  PROVE  [Promise!PromiseNext]_(Promise!tokenVars)
<1> DEFINE Stutters == UNCHANGED <<Row, head, connecting, revoked, Unserialised>>
<1>0. TypeOK /\ NotAhead
  BY DEF CellInv, IInv
<1>1. Stutters => UNCHANGED Promise!tokenVars
  BY DEF Promise!tokenVars
<1> HIDE DEF Stutters
<1>2. ASSUME NEW p \in Procs,
             FirstLoad(p) \/ Conn(p) \/ Acquire(p) \/ AcquireFails(p) \/ Reload(p)
      PROVE  Stutters
  <2>1. /\ UNCHANGED <<stored, head, connecting, revoked, unsettled, unguarded>>
        /\ pc[p] # "persist" /\ pc'[p] # "persist"
        /\ \A q \in Procs \ {p} : pc'[q] = pc[q] /\ tok'[q] = tok[q]
    BY <1>0, <1>2 DEF FirstLoad, Conn, Acquire, AcquireFails, Reload, Return, Move,
                      TypeOK, rowVars, fortnoxVars, histVars, Resting, Waiting
  <2> QED
    BY <2>1, SameRow DEF Stutters, Unserialised
<1>3. ASSUME NEW p \in Procs, Refresh(p)
      PROVE  Stutters \/ Promise!PromiseNext
  <2>1. ASSUME Return(p, "error", NoToken), UNCHANGED fortnoxVars
        PROVE  Stutters
    <3>1. /\ UNCHANGED <<stored, head, connecting, revoked, unsettled, unguarded>>
          /\ pc[p] # "persist" /\ pc'[p] # "persist"
          /\ \A q \in Procs \ {p} : pc'[q] = pc[q] /\ tok'[q] = tok[q]
      BY <1>0, <1>3, <2>1 DEF Refresh, Return, Move, TypeOK, rowVars, fortnoxVars, histVars
    <3> QED
      BY <3>1, SameRow DEF Stutters, Unserialised
  <2> QED
    BY <1>3, <2>1, AcceptPromised, RefusePromised DEF Refresh
<1>4. ASSUME NEW p \in Procs, AnswerLost(p) \/ PersistFails(p)
      PROVE  Promise!PromiseNext
  BY <1>0, <1>4, LossPromised
  DEF AnswerLost, PersistFails, Return, Move, rowVars, fortnoxVars
<1>5. ASSUME NEW p \in Procs, Persist(p)
      PROVE  Stutters
  <2>1. /\ UNCHANGED <<head, connecting, revoked, unsettled, unguarded>>
        /\ pc[p] = "persist" /\ pc'[p] # "persist" /\ tok[p] \in Token
        /\ \A q \in Procs \ {p} : pc'[q] = pc[q] /\ tok'[q] = tok[q]
    BY <1>0, <1>5 DEF Persist, Return, Move, TypeOK, fortnoxVars, histVars
  <2>2. CASE stored = tok[p]
    <3>1. stored' = Rotated(stored) /\ Row = Rotated(stored)
      BY <1>5, <2>1, <2>2 DEF Persist, Row, Persisting
    <3>2. ~Persisting(stored)'
      BY <1>0, <2>1, <2>2, <3>1, TokenShape DEF Persisting, NotAhead
    <3> QED
      BY <2>1, <3>1, <3>2 DEF Stutters, Row, Unserialised
  <2>3. CASE stored # tok[p]
    <3>1. UNCHANGED stored
      BY <1>5, <2>3 DEF Persist, rowVars
    <3> QED
      BY <2>1, <2>3, <3>1, SameRow DEF Stutters, Unserialised
  <2> QED
    BY <2>2, <2>3
<1>6. ASSUME NEW p \in Procs, Crash(p)
      PROVE  Stutters \/ Promise!PromiseNext
  <2>1. /\ UNCHANGED <<stored, head, connecting, revoked, unguarded>>
        /\ pc' = [pc EXCEPT ![p] = "idle"] /\ tok' = [tok EXCEPT ![p] = NoToken]
        /\ unsettled' = IF pc[p] \in {"refresh", "persist"}
                        THEN unsettled \cup {tok[p].grant} ELSE unsettled
    BY <1>6 DEF Crash, Return, Move, fortnoxVars
  <2>2. CASE pc[p] \in {"refresh", "persist"}
    BY <1>0, <2>1, <2>2, LossPromised
  <2>3. CASE pc[p] \notin {"refresh", "persist"}
    BY <1>0, <2>1, <2>3, SameRow DEF TypeOK, Stutters, Unserialised
  <2> QED
    BY <2>2, <2>3
<1>7. ASSUME NEW p \in Procs, SessionLost(p) \/ Reread(p)
      PROVE  Promise!PromiseNext
  <2>1. /\ UNCHANGED <<stored, head, connecting, revoked, unsettled>>
        /\ pc[p] # "persist" \/ UNCHANGED <<pc, tok>>
        /\ pc'[p] # "persist" \/ UNCHANGED <<pc, tok>>
        /\ \A q \in Procs \ {p} : pc'[q] = pc[q] /\ tok'[q] = tok[q]
    BY <1>0, <1>7 DEF SessionLost, Reread, Return, Move, TypeOK, rowVars, fortnoxVars
  <2>2. UNCHANGED Row
    BY <2>1, SameRow
  <2>3. PICK S \in SUBSET Grants : unguarded' = unguarded \cup S
    <3>1. \E S \in SUBSET Grants : unguarded' = unguarded \cup S
      <4>1. unguarded' \subseteq Grants /\ unguarded \subseteq unguarded'
        BY <1>0, <1>7, TokenShape DEF SessionLost, Reread, TypeOK
      <4> QED
        BY <4>1
    <3> QED
      BY <3>1
  <2>4. Promise!GoAstray(S)
    BY <2>1, <2>2, <2>3 DEF Promise!GoAstray, Unserialised
  <2> QED
    BY <2>4 DEF Promise!PromiseNext
<1>8. CASE DeliverLate
  BY <1>8, LatePromised
<1>9. CASE Age \/ UNCHANGED vars
  <2>1. UNCHANGED <<stored, head, connecting, revoked, unsettled, unguarded, pc, tok>>
    BY <1>9 DEF Age, vars, fortnoxVars, histVars
  <2> QED
    BY <1>1, <2>1, SameRow DEF Stutters, Unserialised
<1>10. CASE ExchangeCode \/ Save \/ AbandonConnect \/ Delete
  BY <1>10, HandlersPromised
<1> QED
  BY <1>1, <1>2, <1>3, <1>4, <1>5, <1>6, <1>7, <1>8, <1>9, <1>10 DEF Next, LoadStep

\* RefreshLock and AtomicRefresh together: whatever Loads, handlers and failures
\* do, the row is a cell that a refresh takes one rotation on in one step with
\* Fortnox, but for grants of which a rotation was lost or made without the lock.
THEOREM OneCell == Locked => (Spec => KeepsOneCell)
<1> SUFFICES ASSUME Locked PROVE Spec => KeepsOneCell
  OBVIOUS
<1>1. Init => Promise!PromiseInit
  BY DEF Init, Promise!PromiseInit, Promise!Empty, Row, Persisting, NoToken, Unserialised
<1>2. CellInv /\ [Next]_vars => CellInv'
  BY CellInvNext
<1>3. CellInv /\ [Next]_vars => [Promise!PromiseNext]_(Promise!tokenVars)
  BY StepPromised
<1> QED
  BY <1>1, <1>2, <1>3, CellInvInit, PTL DEF Spec, KeepsOneCell, Promise!PromiseSpec
=============================================================================
