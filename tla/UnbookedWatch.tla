---------------------------- MODULE UnbookedWatch ----------------------------
(***************************************************************************)
(* The alert on unbooked invoices: a nightly run of the overview reads     *)
(* which invoices are unbooked, one ledger after the other, compares them  *)
(* with the ones remembered in PostgreSQL, alerts on the new ones and then *)
(* updates the memory.                                                     *)
(***************************************************************************)
EXTENDS FiniteSets

CONSTANTS
  Runs,        \* runs of the overview, which may overlap
  Nightly,     \* the scheduled ones; the others are somebody's at a terminal
  Payables,    \* supplier invoices, identified by kind and number
  Receivables  \* customer invoices

ASSUME KindAssumption == Payables \cap Receivables = {}
ASSUME NightlyAssumption == Nightly \subseteq Runs

VARIABLES
  unbooked, \* Fortnox: the invoices unbooked now
  seen,     \* the remembered set
  stage,       \* each run: where it is,
  current,  \*   the unbooked invoices it read,
  was,      \*   and the remembered ones
  told,     \* history: reported and not booked since
  ever,     \* history: reported at some time
  disturbed \* history: two runs overlapped, or one alerted and did not remember

run == <<stage, current, was>>
watchVars == <<unbooked, seen, run, told, ever, disturbed>>

Refs == Payables \cup Receivables
Resting == {"idle", "done", "error"}

\* The memory and what a run reads are sets of invoices.
WatchTypeOK ==
  /\ unbooked \subseteq Refs /\ seen \subseteq Refs
  /\ stage \in [Runs -> Resting \cup {"count", "payables", "receivables", "seen", "alert", "reconcile"}]
  /\ current \in [Runs -> SUBSET Refs]
  /\ was \in [Runs -> SUBSET Refs]
  /\ told \subseteq Refs /\ ever \subseteq Refs /\ disturbed \in BOOLEAN

WatchInit ==
  /\ unbooked = {} /\ seen = {} /\ told = {} /\ ever = {}
  /\ disturbed = FALSE
  /\ stage = [r \in Runs |-> "idle"]
  /\ current = [r \in Runs |-> {}]
  /\ was = [r \in Runs |-> {}]

Moves(r, to) == stage' = [stage EXCEPT ![r] = to]
Read(r, refs) == current' = [current EXCEPT ![r] = refs]

\* The run is over, and what it held is gone.
Return(r, result) ==
  /\ Moves(r, result)
  /\ Read(r, {})
  /\ was' = [was EXCEPT ![r] = {}]

(***************************************************************************)
(* cmd/overview                                                            *)
(***************************************************************************)
\* The counts of every status, supplier invoices first. With no obligation of
\* any kind the invoices are not listed and the current set is empty.
CountPayables(r) ==
  /\ stage[r] \in Resting
  /\ disturbed' = (disturbed \/ \E q \in Runs : stage[q] \notin Resting)
  /\ \/ Moves(r, "payables")
     \/ unbooked \cap Payables = {} /\ Moves(r, "count")
  /\ UNCHANGED <<unbooked, seen, current, was, told, ever>>

CountReceivables(r) ==
  /\ stage[r] = "count"
  /\ \/ Moves(r, "payables")
     \/ unbooked \cap Receivables = {} /\ Moves(r, "seen")
  /\ UNCHANGED <<unbooked, seen, current, was, told, ever, disturbed>>

ListPayables(r) ==
  /\ stage[r] = "payables"
  /\ Read(r, unbooked \cap Payables)
  /\ Moves(r, "receivables")
  /\ UNCHANGED <<unbooked, seen, was, told, ever, disturbed>>

MutOverwritePayables(r) ==
  /\ stage[r] = "receivables"
  /\ Read(r, unbooked \cap Receivables)
  /\ Moves(r, "seen")
  /\ UNCHANGED <<unbooked, seen, was, told, ever, disturbed>>

ListReceivables(r) ==
  /\ stage[r] = "receivables"
  /\ Read(r, current[r] \cup (unbooked \cap Receivables))
  /\ Moves(r, "seen")
  /\ UNCHANGED <<unbooked, seen, was, told, ever, disturbed>>

(***************************************************************************)
(* UnbookedWatch.Check                                                     *)
(***************************************************************************)
Appeared(r) == current[r] \ was[r]
Resolved(r) == was[r] \ current[r]

MutSeenLost(r) ==
  /\ stage[r] = "seen"
  /\ was' = [was EXCEPT ![r] = {}]
  /\ Moves(r, "alert")
  /\ UNCHANGED <<unbooked, seen, current, told, ever, disturbed>>

Seen(r) ==
  /\ stage[r] = "seen"
  /\ was' = [was EXCEPT ![r] = seen]
  /\ Moves(r, "alert")
  /\ UNCHANGED <<unbooked, seen, current, told, ever, disturbed>>

\* Nothing appeared: no alert. Otherwise one alert names them all.
Alert(r) ==
  /\ stage[r] = "alert"
  /\ told' = told \cup (Appeared(r) \cap unbooked)
  /\ ever' = ever \cup Appeared(r)
  /\ Moves(r, "reconcile")
  /\ UNCHANGED <<unbooked, seen, current, was, disturbed>>

MutReconcileCurrent(r) ==
  /\ stage[r] = "reconcile"
  /\ seen' = unbooked
  /\ Return(r, "done")
  /\ UNCHANGED <<unbooked, told, ever, disturbed>>

\* One transaction: insert what appeared, delete what was resolved.
Reconcile(r) ==
  /\ stage[r] = "reconcile"
  /\ seen' = (seen \cup Appeared(r)) \ Resolved(r)
  /\ Return(r, "done")
  /\ UNCHANGED <<unbooked, told, ever, disturbed>>

\* A read or the alert fails, the transaction rolls back, or the job is killed:
\* an alert that failed or was cut off is not followed by a reconcile.
Fail(r) ==
  /\ stage[r] \notin Resting
  /\ disturbed' = (disturbed \/ stage[r] = "reconcile")
  /\ Return(r, "error")
  /\ UNCHANGED <<unbooked, seen, told, ever>>

(***************************************************************************)
(* Fortnox                                                                 *)
(***************************************************************************)
Unbook ==
  /\ \E i \in Refs \ unbooked : unbooked' = unbooked \cup {i}
  /\ UNCHANGED <<seen, run, told, ever, disturbed>>

\* Booked or cancelled.
Book ==
  /\ \E i \in unbooked : unbooked' = unbooked \ {i} /\ told' = told \ {i}
  /\ UNCHANGED <<seen, run, ever, disturbed>>

-----------------------------------------------------------------------------
RunStep(r) ==
  \/ CountPayables(r) \/ CountReceivables(r) \/ ListPayables(r) \/ ListReceivables(r)
  \/ Seen(r) \/ Alert(r) \/ Reconcile(r)

WatchNext ==
  \/ \E r \in Runs : RunStep(r) \/ Fail(r)
  \/ Unbook \/ Book

WatchSpec == WatchInit /\ [][WatchNext]_watchVars

\* The job is scheduled every night, and not every night fails at the same
\* step. Nobody has to start a run at a terminal, or to let it finish.
WatchFairness == \A r \in Nightly :
  /\ SF_watchVars(CountPayables(r)) /\ SF_watchVars(CountReceivables(r))
  /\ SF_watchVars(ListPayables(r)) /\ SF_watchVars(ListReceivables(r))
  /\ SF_watchVars(Seen(r)) /\ SF_watchVars(Alert(r)) /\ SF_watchVars(Reconcile(r))

FairWatchSpec == WatchSpec /\ WatchFairness

-----------------------------------------------------------------------------
(***************************************************************************)
(* Properties                                                              *)
(***************************************************************************)

\* "Alert first, remember second": nothing is remembered as reported that
\* nobody was ever told about, whatever fails or overlaps.
RememberedWasTold == seen \subseteq ever

\* "Reports newly appeared unbooked invoices, once each": until two runs
\* overlap or one dies between its alert and its update, an invoice that stays
\* unbooked is not reported again, whatever else fails.
OnceEach ==
  [][\A r \in Runs : (stage[r] = "alert" /\ stage'[r] = "reconcile" /\ ~disturbed) =>
       Appeared(r) \cap told = {}]_stage

\* An invoice that stays unbooked is reported in the end, although alerts and
\* the database fail now and then and other runs come in between.
ReportedInTheEnd == \A i \in Refs : i \in unbooked ~> (i \in ever \/ i \notin unbooked)
=============================================================================
