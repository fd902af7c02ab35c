---------------------------- MODULE TokenRefresh ----------------------------
(***************************************************************************)
(* The life of one tenant's Fortnox token: requests that Load it through   *)
(* RefreshingTokenStore, the row the token store keeps, the advisory lock  *)
(* that serialises refreshes, the connect / disconnect handlers that write *)
(* the same row, and the Fortnox token endpoint, which rotates the refresh *)
(* token on every use and revokes the whole grant when a consumed one is   *)
(* presented again.                                                        *)
(*                                                                         *)
(* RefreshLock.Acquire pins one connection of the server's pool for as     *)
(* long as it waits for and holds the advisory lock, and every query made  *)
(* under the lock needs one more. All Loads share a pool here; those of    *)
(* another process have their own, which only helps.                       *)
(*                                                                         *)
(* A refresh token is a grant (one authorization at the consent screen)    *)
(* and its place in the rotation; access tokens are not modelled apart     *)
(* from how long the stored one still lives.                               *)
(***************************************************************************)
EXTENDS Integers, FiniteSets

CONSTANTS
  Procs,        \* concurrent Loads: handler goroutines, Jobs, CLIs
  LongHeadroom, \* the Procs that insist on the overview's 15 minutes
  Grants,       \* authorizations an owner can complete
  NoGrant,      \* the grant of the absent row
  Nobody,       \* the advisory lock's owner when it is free
  Backend,      \* "postgres" (with a RefreshLock) or "file" (without)
  Faults,       \* which failures the environment may inject
  MaxOpenConns, \* connections of the pool (25 in the program)
  MaxGen        \* bound: rotations of one grant

ASSUME BackendAssumption == Backend \in {"postgres", "file"}
ASSUME FaultsAssumption == Faults \subseteq {"crash", "answer", "persist", "session"}
ASSUME NobodyAssumption == Nobody \notin Procs
ASSUME GrantAssumption == NoGrant \notin Grants
ASSUME HeadroomAssumption == LongHeadroom \subseteq Procs
ASSUME PoolAssumption == IsFiniteSet(Procs) /\ MaxOpenConns \in Nat \ {0}
ASSUME MaxGenAssumption == MaxGen \in Nat

VARIABLES
  stored,     \* the row (or file): a token, or NoToken
  life,       \* what is left of its access token: 2 > 15 min, 1 > 2 min, 0
  head,       \* Fortnox: the live refresh token of each grant, 0 = never issued
  revoked,    \* Fortnox: grants invalidated because a token was reused
  wire,       \* requests whose caller is gone but which may still arrive
  connecting, \* grants exchanged by a callback that has not saved them yet
  pc, tok,    \* each Load: where it is, and the token it holds
  lock,       \* owner of the advisory lock
  lost,       \* Loads under way whose session, and lock, PostgreSQL dropped
  unsettled,  \* history: grants with a rotation whose result was not stored
  unguarded   \* history: grants a Load refreshed, or went on to, without its lock

rowVars == <<stored, life>>
fortnoxVars == <<head, revoked>>
lockVars == <<lock, lost>>
histVars == <<unsettled, unguarded>>
vars == <<stored, life, head, revoked, wire, connecting, pc, tok, lock, lost,
          unsettled, unguarded>>

Token == [grant : Grants, gen : Nat]
NoToken == [grant |-> NoGrant, gen |-> 0]
Rotated(t) == [grant |-> t.grant, gen |-> t.gen + 1]

Resting == {"idle", "ok", "error"}
Waiting == {"connect", "acquire"}
Critical == {"reread", "refresh", "persist", "reload"}
Locked == Backend = "postgres"

\* Every variable keeps its type, and a Load that is about to refresh or to
\* persist holds a token.
TypeOK ==
  /\ stored \in Token \cup {NoToken}
  /\ life \in 0..2
  /\ head \in [Grants -> Nat]
  /\ revoked \subseteq Grants
  /\ wire \subseteq Token
  /\ connecting \subseteq Grants
  /\ pc \in [Procs -> Resting \cup Waiting \cup Critical]
  /\ tok \in [Procs -> Token \cup {NoToken}]
  /\ \A p \in Procs : pc[p] \in {"refresh", "persist"} => tok[p] \in Token
  /\ lock \in Procs \cup {Nobody}
  /\ lost \subseteq Procs
  /\ unsettled \subseteq Grants
  /\ unguarded \subseteq Grants

Init ==
  /\ stored = NoToken
  /\ life = 0
  /\ head = [g \in Grants |-> 0]
  /\ revoked = {} /\ wire = {} /\ connecting = {}
  /\ pc = [p \in Procs |-> "idle"]
  /\ tok = [p \in Procs |-> NoToken]
  /\ lock = Nobody /\ lost = {}
  /\ unsettled = {} /\ unguarded = {}

Move(p, to, t) ==
  /\ pc' = [pc EXCEPT ![p] = to]
  /\ tok' = [tok EXCEPT ![p] = t]

\* Load returns: the deferred release runs whatever the result.
Return(p, result, t) ==
  /\ Move(p, result, t)
  /\ lock' = IF lock = p THEN Nobody ELSE lock
  /\ lost' = lost \ {p}

\* Headroom: the stored access token outlasts the work p is about to do.
FreshFor(p) ==
  /\ stored # NoToken
  /\ life >= IF p \in LongHeadroom THEN 2 ELSE 1

\* A query finds a connection beside those that lock holders and waiters pin.
ConnFree ==
  Locked => Cardinality({p \in Procs : pc[p] \in {"acquire"} \cup Critical}) < MaxOpenConns

(***************************************************************************)
(* Fortnox's token endpoint (external): rotation with reuse detection.     *)
(***************************************************************************)
Live(t) == t.grant \notin revoked /\ head[t.grant] = t.gen

Accept(t) ==
  /\ Live(t)
  /\ head' = [head EXCEPT ![t.grant] = @ + 1]
  /\ UNCHANGED revoked

Refuse(t) ==
  /\ ~Live(t)
  /\ revoked' = revoked \cup {t.grant}
  /\ UNCHANGED head

(***************************************************************************)
(* RefreshingTokenStore.Load                                               *)
(***************************************************************************)
FirstLoad(p) ==
  /\ pc[p] \in Resting
  /\ ConnFree
  /\ \/ Move(p, "error", NoToken)
     \/ FreshFor(p) /\ Move(p, "ok", stored)
     \/ /\ stored # NoToken /\ ~FreshFor(p)
        /\ Move(p, IF Locked THEN "connect" ELSE "refresh", stored)
  /\ UNCHANGED <<rowVars, fortnoxVars, wire, connecting, lockVars, histVars>>

\* l.s.db.Conn: the connection that will own the lock.
Conn(p) ==
  /\ pc[p] = "connect"
  /\ ConnFree
  /\ Move(p, "acquire", tok[p])
  /\ UNCHANGED <<rowVars, fortnoxVars, wire, connecting, lockVars, histVars>>

Acquire(p) ==
  /\ pc[p] = "acquire"
  /\ lock = Nobody
  /\ lock' = p
  /\ Move(p, "reread", tok[p])
  /\ UNCHANGED <<lost, rowVars, fortnoxVars, wire, connecting, histVars>>

MutFallThrough(p) ==
  /\ pc[p] \in Waiting
  /\ Move(p, "refresh", tok[p])
  /\ UNCHANGED <<rowVars, fortnoxVars, wire, connecting, lockVars, histVars>>

\* No connection, or the request's context ended while waiting: an error,
\* never an unserialised refresh.
AcquireFails(p) ==
  /\ pc[p] \in Waiting
  /\ Move(p, "error", NoToken)
  /\ UNCHANGED <<rowVars, fortnoxVars, wire, connecting, lockVars, histVars>>

Reread(p) ==
  /\ pc[p] = "reread"
  /\ ConnFree
  /\ \/ Return(p, "error", NoToken) /\ UNCHANGED unguarded
     \/ FreshFor(p) /\ Return(p, "ok", stored) /\ UNCHANGED unguarded
     \/ /\ stored # NoToken /\ ~FreshFor(p)
        /\ Move(p, "refresh", stored)
        /\ unguarded' = IF p \in lost THEN unguarded \cup {stored.grant} ELSE unguarded
        /\ UNCHANGED lockVars
  /\ UNCHANGED <<rowVars, fortnoxVars, wire, connecting, unsettled>>

MutLeakLock(p) ==
  /\ pc[p] = "refresh"
  /\ \/ Accept(tok[p]) /\ Move(p, "persist", tok[p])
     \/ Refuse(tok[p]) /\ Move(p, "error", NoToken)
     \/ Move(p, "error", NoToken) /\ UNCHANGED fortnoxVars
  /\ UNCHANGED <<rowVars, wire, connecting, lockVars, histVars>>

\* The HTTP exchange with the token endpoint: accepted, refused, or not made.
Refresh(p) ==
  /\ pc[p] = "refresh"
  /\ \/ Accept(tok[p]) /\ Move(p, "persist", tok[p]) /\ UNCHANGED lockVars
     \/ Refuse(tok[p]) /\ Return(p, "error", NoToken)
     \/ Return(p, "error", NoToken) /\ UNCHANGED fortnoxVars
  /\ UNCHANGED <<rowVars, wire, connecting, histVars>>

\* The exchange breaks after the request left: it may reach Fortnox later,
\* and what it mints reaches nobody.
AnswerLost(p) ==
  /\ "answer" \in Faults
  /\ pc[p] = "refresh"
  /\ Return(p, "error", NoToken)
  /\ wire' = wire \cup {tok[p]}
  /\ unsettled' = unsettled \cup {tok[p].grant}
  /\ UNCHANGED <<rowVars, fortnoxVars, connecting, unguarded>>

MutBlindPersist(p) ==
  /\ pc[p] = "persist"
  /\ stored' = Rotated(tok[p]) /\ life' = 2
  /\ Return(p, "ok", Rotated(tok[p]))
  /\ UNCHANGED <<fortnoxVars, wire, connecting, histVars>>

MutServeOwnToken(p) ==
  /\ pc[p] = "persist"
  /\ \/ /\ stored = tok[p]
        /\ stored' = Rotated(tok[p]) /\ life' = 2
     \/ stored # tok[p] /\ UNCHANGED rowVars
  /\ Return(p, "ok", Rotated(tok[p]))
  /\ UNCHANGED <<fortnoxVars, wire, connecting, histVars>>

MutForgetToStore(p) ==
  /\ pc[p] = "persist"
  /\ Return(p, "ok", Rotated(tok[p]))
  /\ UNCHANGED <<rowVars, fortnoxVars, wire, connecting, histVars>>

\* AtomicRefresh: a compare-and-swap on the refresh token that was read. A
\* file that is gone is an error, a row that is gone is a conflict.
Persist(p) ==
  /\ pc[p] = "persist"
  /\ ConnFree
  /\ \/ /\ stored = tok[p]
        /\ stored' = Rotated(tok[p]) /\ life' = 2
        /\ Return(p, "ok", Rotated(tok[p]))
     \/ /\ stored # tok[p]
        /\ IF Locked \/ stored # NoToken
           THEN Move(p, "reload", tok[p]) /\ UNCHANGED lockVars
           ELSE Return(p, "error", NoToken)
        /\ UNCHANGED rowVars
  /\ UNCHANGED <<fortnoxVars, wire, connecting, histVars>>

\* A cancelled request context or a database error: the new token is dropped.
PersistFails(p) ==
  /\ "persist" \in Faults
  /\ pc[p] = "persist"
  /\ Return(p, "error", NoToken)
  /\ unsettled' = unsettled \cup {tok[p].grant}
  /\ UNCHANGED <<rowVars, fortnoxVars, wire, connecting, unguarded>>

\* After a conflict the winner's token is returned, whatever is left of it.
Reload(p) ==
  /\ pc[p] = "reload"
  /\ ConnFree
  /\ \/ Return(p, "error", NoToken)
     \/ stored # NoToken /\ Return(p, "ok", stored)
  /\ UNCHANGED <<rowVars, fortnoxVars, wire, connecting, histVars>>

(***************************************************************************)
(* Faults and the rest of the environment                                  *)
(***************************************************************************)
\* The process dies: its database session, and with it the lock, goes. A
\* request on the wire stays there; a file being rewritten is left unreadable.
Crash(p) ==
  /\ "crash" \in Faults
  /\ pc[p] \notin Resting
  /\ Return(p, "idle", NoToken)
  /\ wire' = IF pc[p] = "refresh" THEN wire \cup {tok[p]} ELSE wire
  /\ unsettled' = IF pc[p] \in {"refresh", "persist"}
                  THEN unsettled \cup {tok[p].grant} ELSE unsettled
  /\ \/ UNCHANGED stored
     \/ ~Locked /\ pc[p] = "persist" /\ stored = tok[p] /\ stored' = NoToken
  /\ UNCHANGED <<life, fortnoxVars, connecting, unguarded>>

\* PostgreSQL drops the session that holds the lock; its owner does not notice.
SessionLost(p) ==
  /\ "session" \in Faults
  /\ lock = p
  /\ lock' = Nobody
  /\ lost' = lost \cup {p}
  /\ unguarded' = IF pc[p] \in {"refresh", "persist"}
                  THEN unguarded \cup {tok[p].grant} ELSE unguarded
  /\ UNCHANGED <<rowVars, fortnoxVars, wire, connecting, pc, tok, unsettled>>

DeliverLate ==
  /\ \E t \in wire :
       /\ wire' = wire \ {t}
       /\ Accept(t) \/ Refuse(t)
  /\ UNCHANGED <<rowVars, connecting, pc, tok, lockVars, histVars>>

\* Time passes. Bound: the last modelled rotation never ages.
Age ==
  /\ stored # NoToken
  /\ stored.gen < MaxGen
  /\ life > 0
  /\ life' = life - 1
  /\ UNCHANGED <<stored, fortnoxVars, wire, connecting, pc, tok, lockVars, histVars>>

(***************************************************************************)
(* callbackHandler and disconnectHandler: neither takes the lock.          *)
(***************************************************************************)
ExchangeCode ==
  /\ \E g \in Grants :
       /\ head[g] = 0
       /\ head' = [head EXCEPT ![g] = 1]
       /\ connecting' = connecting \cup {g}
  /\ UNCHANGED <<rowVars, revoked, wire, pc, tok, lockVars, histVars>>

Save ==
  /\ \E g \in connecting :
       /\ stored' = [grant |-> g, gen |-> 1]
       /\ life' = 2
       /\ connecting' = connecting \ {g}
  /\ UNCHANGED <<fortnoxVars, wire, pc, tok, lockVars, histVars>>

\* A callback that stops before Save: company refused, or the save failed.
AbandonConnect ==
  /\ \E g \in connecting : connecting' = connecting \ {g}
  /\ UNCHANGED <<rowVars, fortnoxVars, wire, pc, tok, lockVars, histVars>>

Delete ==
  /\ stored # NoToken
  /\ stored' = NoToken
  /\ UNCHANGED <<life, fortnoxVars, wire, connecting, pc, tok, lockVars, histVars>>

-----------------------------------------------------------------------------
LoadStep(p) ==
  \/ Reread(p) \/ Refresh(p) \/ AnswerLost(p)
  \/ Persist(p) \/ PersistFails(p) \/ Reload(p)

Next ==
  \/ \E p \in Procs :
       \/ FirstLoad(p) \/ Conn(p) \/ Acquire(p) \/ AcquireFails(p)
       \/ LoadStep(p)
       \/ Crash(p) \/ SessionLost(p)
  \/ DeliverLate \/ Age
  \/ ExchangeCode \/ Save \/ AbandonConnect \/ Delete

Spec == Init /\ [][Next]_vars

\* The token endpoint answers or the exchange breaks; database/sql serves
\* waiters for a connection, and PostgreSQL waiters for a lock, in turn.
\* Nobody has to give up.
Fairness ==
  \A p \in Procs : SF_vars(Conn(p) \/ Acquire(p) \/ LoadStep(p))

FairSpec == Spec /\ Fairness

-----------------------------------------------------------------------------
(***************************************************************************)
(* Properties                                                              *)
(***************************************************************************)

\* At most one Load at a time is between acquiring the lock and returning, but
\* for those whose own session was dropped under them: refreshes of one tenant
\* are serialised, whatever crashes or fails, and again after a lost lock.
RefreshSerialised ==
  \A p, q \in Procs \ lost :
    pc[p] \in Critical /\ pc[q] \in Critical => p = q

\* Grants a refresh may have gone wrong for.
Unserialised == unsettled \cup unguarded

\* Fortnox never sees a refresh token twice, so it never revokes a grant.
NoGrantRevoked == revoked = {}

\* Even with crashes, lost answers and lost locks: a grant is revoked only if
\* the result of one of its own rotations never reached the store, or a Load
\* refreshed it whose lock was gone.
RevokedOnlyIfUnsettled == revoked \subseteq Unserialised

\* While nobody is about to store what was minted from it, the stored refresh
\* token is the one Fortnox will accept next, unless a rotation of its grant
\* went missing or was made without the lock.
StoredTokenLive ==
  (/\ stored # NoToken /\ stored.grant \notin Unserialised
   /\ \A p \in Procs : ~(pc[p] = "persist" /\ tok[p] = stored))
  => Live(stored)

\* The row changes hands only at a consent screen: a refresh moves its own
\* grant one rotation forward and can neither overwrite a company connected
\* meanwhile nor bring back one that was disconnected.
OnlyConnectChangesGrant ==
  [][stored' \in {NoToken, Rotated(stored)} \/ stored'.grant \in connecting]_stored

\* Load hands out only the token the store holds at that moment, the winner's
\* after a conflict, never a minted one that was not persisted.
ServesTheStoredToken ==
  [][\A p \in Procs : (pc[p] # "ok" /\ pc'[p] = "ok") => tok'[p] = stored']_vars

\* Every Load returns: "waiting a second for the other process to finish
\* yields a perfectly good" token (RefreshLock.Acquire), and nobody waits for
\* ever for a lock, a connection or a token nobody refreshes.
LoadReturns ==
  \A p \in Procs : pc[p] \notin Resting ~> pc[p] \in Resting

-----------------------------------------------------------------------------
(***************************************************************************)
(* Refinement: what the requests, the lock and the row amount to.          *)
(***************************************************************************)
\* The row, seen from outside: what Fortnox has just minted from it counts as
\* stored while the Load that stores it is on its way.
Persisting(t) == \E p \in Procs : pc[p] = "persist" /\ tok[p] = t
Row == IF Persisting(stored) THEN Rotated(stored) ELSE stored

Promise ==
  INSTANCE TokenPromise WITH
    cell <- Row, newest <- head, offered <- connecting, void <- revoked,
    astray <- Unserialised

\* "Serialises token refreshes across everything sharing the database": with the
\* lock, Loads in any number do to the row what one refresh at a time, in one
\* step, would do to a cell, but for a grant of which a rotation is lost or made
\* without the lock; and even then the row takes nothing but its own rotations
\* and new connections.
KeepsOneCell == Promise!PromiseSpec
=============================================================================
