---------------------------- MODULE BorrowedToken ----------------------------
(***************************************************************************)
(* The sandbox token that a CI job borrows from PostgreSQL: e2e-token      *)
(* fetch copies it into a file, the programs of the job refresh it there   *)
(* (loadValidToken), and e2e-token persist writes a rotated one back. The  *)
(* server goes on using the same row, and Fortnox revokes the grant when a *)
(* consumed refresh token is presented again. Nothing locks between them.  *)
(***************************************************************************)
EXTENDS Naturals

CONSTANTS
  Jobs,     \* CI jobs, which may overlap
  MaxGrant, \* bound: times the company is connected
  MaxGen    \* bound: rotations of one grant

ASSUME BorrowBoundsAssumption == MaxGrant \in Nat \ {0} /\ MaxGen \in Nat

VARIABLES
  row,     \* the stored token: a grant and its place in the rotation
  head,    \* Fortnox: the live place of each grant
  dead,    \* Fortnox: the grants revoked
  server,  \* the refresh of the server: the token it presented, and got, if any
  at,      \* each job: where it is,
  file,    \*   the token file,
  old,     \*   and the refresh token recorded by the fetch
  unsaved, \* history: grants with a rotation somebody may have failed to save
  missed   \* history: grants of which a persist found the row changed

borrowVars == <<row, head, dead, server, at, file, old, unsaved, missed>>
BorrowToken == (1..MaxGrant) \X (0..MaxGen)
NoRefresh == <<>>

BorrowTypeOK ==
  /\ row \in BorrowToken
  /\ head \in [1..MaxGrant -> 0..MaxGen]
  /\ dead \subseteq 1..MaxGrant
  /\ server \in (BorrowToken \X BorrowToken) \cup {NoRefresh}
  /\ at \in [Jobs -> {"idle", "running", "green", "red"}]
  /\ file \in [Jobs -> BorrowToken] /\ old \in [Jobs -> BorrowToken]
  /\ unsaved \subseteq 1..MaxGrant /\ missed \subseteq 1..MaxGrant

BorrowInit ==
  /\ row = <<1, 0>>
  /\ head = [g \in 1..MaxGrant |-> 0]
  /\ dead = {} /\ unsaved = {} /\ missed = {}
  /\ server = NoRefresh
  /\ at = [j \in Jobs |-> "idle"]
  /\ file = [j \in Jobs |-> <<1, 0>>]
  /\ old = [j \in Jobs |-> <<1, 0>>]

(***************************************************************************)
(* Fortnox's token endpoint (external): rotation with reuse detection.     *)
(***************************************************************************)
IsLive(t) == t[1] \notin dead /\ head[t[1]] = t[2]
Successor(t) == <<t[1], t[2] + 1>>

Rotate(t) ==
  /\ IsLive(t) /\ t[2] < MaxGen
  /\ head' = [head EXCEPT ![t[1]] = @ + 1]
  /\ UNCHANGED dead

Reused(t) ==
  /\ ~IsLive(t)
  /\ dead' = dead \cup {t[1]}
  /\ UNCHANGED head

(***************************************************************************)
(* The job                                                                 *)
(***************************************************************************)
Fetch(j) ==
  /\ at[j] \in {"idle", "green", "red"}
  /\ at' = [at EXCEPT ![j] = "running"]
  /\ file' = [file EXCEPT ![j] = row]
  /\ old' = [old EXCEPT ![j] = row]
  /\ UNCHANGED <<row, head, dead, server, unsaved, missed>>

\* A program of the job finds the access token expired. A token it cannot save
\* is a warning, and it works on with the one it holds.
LoadValidToken(j) ==
  /\ at[j] = "running"
  /\ \/ Rotate(file[j]) /\ file' = [file EXCEPT ![j] = Successor(@)] /\ UNCHANGED unsaved
     \/ Rotate(file[j]) /\ unsaved' = unsaved \cup {file[j][1]} /\ UNCHANGED file
     \/ Reused(file[j]) /\ UNCHANGED <<file, unsaved>>
  /\ UNCHANGED <<row, server, at, old, missed>>

ShouldWriteBack(j) == file[j] # old[j]

MutBlindUpdate(j) ==
  /\ row' = file[j] /\ UNCHANGED missed

\* The row is replaced if it still holds the token that was fetched. No row is
\* a success: "the running pod refreshed concurrently".
WriteBack(j) ==
  \/ row = old[j] /\ row' = file[j] /\ UNCHANGED missed
  \/ row # old[j] /\ missed' = missed \cup {old[j][1]} /\ UNCHANGED row

MutSwallowTheError(j) ==
  /\ at[j] = "running"
  /\ at' = [at EXCEPT ![j] = "green"]
  /\ \/ ShouldWriteBack(j) /\ (WriteBack(j) \/ UNCHANGED <<row, missed>>)
     \/ ~ShouldWriteBack(j) /\ UNCHANGED <<row, missed>>
  /\ UNCHANGED <<head, dead, server, file, old, unsaved>>

\* A database error fails the job. So does a job killed before this step.
Persist(j) ==
  /\ at[j] = "running"
  /\ \/ /\ at' = [at EXCEPT ![j] = "green"]
        /\ UNCHANGED unsaved
        /\ \/ ShouldWriteBack(j) /\ WriteBack(j)
           \/ ~ShouldWriteBack(j) /\ UNCHANGED <<row, missed>>
     \/ /\ at' = [at EXCEPT ![j] = "red"]
        /\ unsaved' = unsaved \cup {file[j][1]}
        /\ UNCHANGED <<row, missed>>
  /\ UNCHANGED <<head, dead, server, file, old>>

(***************************************************************************)
(* The server (external to the job): RefreshingTokenStore and AtomicRefresh *)
(* on the same row, and the handler that connects the company anew.        *)
(***************************************************************************)
ServerRefresh ==
  /\ server = NoRefresh
  /\ \/ Rotate(row) /\ server' = <<row, Successor(row)>>
     \/ Reused(row) /\ UNCHANGED server
  /\ UNCHANGED <<row, at, file, old, unsaved, missed>>

\* The compare-and-set, or a failure or crash before it.
ServerSave ==
  /\ server # NoRefresh
  /\ \/ row' = (IF row = server[1] THEN server[2] ELSE row) /\ UNCHANGED unsaved
     \/ unsaved' = unsaved \cup {server[1][1]} /\ UNCHANGED row
  /\ server' = NoRefresh
  /\ UNCHANGED <<head, dead, at, file, old, missed>>

Reconnect ==
  /\ row[1] < MaxGrant
  /\ row' = <<row[1] + 1, 0>>
  /\ UNCHANGED <<head, dead, server, at, file, old, unsaved, missed>>

-----------------------------------------------------------------------------
BorrowNext ==
  \/ \E j \in Jobs : Fetch(j) \/ LoadValidToken(j) \/ Persist(j)
  \/ ServerRefresh \/ ServerSave \/ Reconnect

BorrowSpec == BorrowInit /\ [][BorrowNext]_borrowVars

-----------------------------------------------------------------------------
(***************************************************************************)
(* Properties                                                              *)
(***************************************************************************)

\* "Leaves that newer token alone rather than clobbering it": whatever jobs and
\* refreshes overlap, the row never goes back to an older token.
NeverOlder ==
  [][row'[1] > row[1] \/ (row'[1] = row[1] /\ row'[2] >= row[2])]_row

\* The token Fortnox takes next of the grant in the row.
IsNext(t) == t[1] = row[1] /\ IsLive(t)

\* A rotated token is in the row or on its way there: it gets lost only with a
\* job that fails, a save that fails, or the grant.
LostWasSaid ==
  row[1] \in dead \/ row[1] \in unsaved \/ IsNext(row)
    \/ (server # NoRefresh /\ IsNext(server[2]))
    \/ \E j \in Jobs : at[j] = "running" /\ IsNext(file[j])

\* The write-back calls a changed row a success, the server having refreshed
\* concurrently; but then both presented one token: the grant is revoked, unless
\* the company was connected anew.
MissMeansRevoked == \A g \in missed : g \in dead \/ g # row[1]
=============================================================================
