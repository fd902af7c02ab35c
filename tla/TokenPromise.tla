---------------------------- MODULE TokenPromise ----------------------------
(***************************************************************************)
(* What the token store promises the rest of the program, with no request, *)
(* lock, wait or retry in sight: a tenant's token is one cell, and a       *)
(* refresh is one step in which Fortnox and the cell go on together. Where *)
(* a company is connected or disconnected while a refresh is on its way,   *)
(* what that rotates reaches no cell. A grant that went astray, because a  *)
(* rotation of it was lost or the lock was, is the exception: Fortnox may  *)
(* have gone on without the cell, and may revoke it. But even then nothing *)
(* comes into the cell except from a consent screen.                       *)
(***************************************************************************)
EXTENDS Integers

CONSTANTS Grants, NoGrant

VARIABLES
  cell,    \* the token, or Empty
  newest,  \* Fortnox: the token it takes next of each grant, 0 = never issued
  offered, \* grants the owner gave whose first token is not in the cell yet
  void,    \* Fortnox: the grants it revoked
  astray   \* the grants of which a rotation was lost

tokenVars == <<cell, newest, offered, void, astray>>

Empty == [grant |-> NoGrant, gen |-> 0]
OneOn(t) == [t EXCEPT !.gen = @ + 1]
OneBack(t) == [t EXCEPT !.gen = @ - 1]

PromiseInit ==
  /\ cell = Empty
  /\ newest = [g \in Grants |-> 0]
  /\ offered = {} /\ void = {} /\ astray = {}

GoesOn(g) == newest' = [newest EXCEPT ![g] = @ + 1]

Authorize(g) ==
  /\ newest[g] = 0 /\ GoesOn(g) /\ offered' = offered \cup {g}
  /\ UNCHANGED <<cell, void, astray>>

Connect(g) ==
  /\ g \in offered /\ offered' = offered \ {g}
  /\ cell' = [grant |-> g, gen |-> 1]
  /\ UNCHANGED <<newest, void, astray>>

Decline(g) ==
  /\ g \in offered /\ offered' = offered \ {g}
  /\ UNCHANGED <<cell, newest, void, astray>>

Disconnect ==
  /\ cell # Empty /\ cell' = Empty
  /\ UNCHANGED <<newest, offered, void, astray>>

\* The cell holds what Fortnox takes, before and after.
RefreshCell ==
  /\ cell # Empty /\ cell.grant \notin void /\ newest[cell.grant] = cell.gen
  /\ cell' = OneOn(cell) /\ GoesOn(cell.grant)
  /\ UNCHANGED <<offered, void, astray>>

\* The company was disconnected or replaced before Fortnox answered.
RefreshGivenUp(g) ==
  /\ newest[g] > 0 /\ g \notin void \cup offered /\ g # cell.grant
  /\ GoesOn(g)
  /\ UNCHANGED <<cell, offered, void, astray>>

\* A rotation that was not stored takes the cell back to where it was.
GoAstray(S) ==
  /\ astray' = astray \cup S
  /\ \/ UNCHANGED cell
     \/ cell.grant \in S /\ cell' = OneBack(cell)
  /\ UNCHANGED <<newest, offered, void>>

\* Fortnox goes on, with the cell or without it, or revokes the grant.
Stray(g) ==
  /\ g \in astray
  /\ \/ /\ newest[g] > 0 /\ g \notin void /\ GoesOn(g)
        /\ UNCHANGED cell \/ (cell.grant = g /\ cell' = OneOn(cell))
        /\ UNCHANGED void
     \/ void' = void \cup {g} /\ UNCHANGED <<cell, newest>>
  /\ UNCHANGED <<offered, astray>>

PromiseNext ==
  \/ \E g \in Grants :
       Authorize(g) \/ Connect(g) \/ Decline(g) \/ RefreshGivenUp(g) \/ Stray(g)
  \/ \E S \in SUBSET Grants : GoAstray(S)
  \/ Disconnect \/ RefreshCell

PromiseSpec == PromiseInit /\ [][PromiseNext]_tokenVars
=============================================================================
