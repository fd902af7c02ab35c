--------------------------- MODULE RequestProofs ---------------------------
(***************************************************************************)
(* Proofs about what paces and what watches: how the server spaces its     *)
(* requests to Fortnox (RateLimiter), for any calls and waits, and what    *)
(* the nightly overview reports of the unbooked invoices it reads          *)
(* (UnbookedWatch), for any runs, overlapping or not, and any failures.    *)
(***************************************************************************)
EXTENDS RateLimiter, UnbookedWatch, TLAPS

-----------------------------------------------------------------------------
(***************************************************************************)
(* The rate limiter                                                        *)
(***************************************************************************)
USE MaxReqsAssumption, WindowAssumption, RetriesAssumption, MaxWaitAssumption

LEMMA Ticks ==
  /\ Longest \in Nat /\ Window <= Longest /\ MaxWait <= Longest
  /\ Past \subseteq Nat /\ 0 \in Past
  BY DEF Longest, Past

LEMMA Counted ==
  ASSUME NEW past \in [Past -> Nat]
  PROVE  OneMore(past) \in [Past -> Nat] /\ Shifted(past) \in [Past -> Nat]
<1>1. OneMore(past) \in [Past -> Nat]
  BY DEF OneMore
<1>2. ASSUME NEW t \in Past PROVE (IF t = 0 THEN 0 ELSE past[t - 1]) \in Nat
  BY DEF Past
<1>q. QED BY <1>1, <1>2 DEF Shifted

LEMMA RateInitTypes == Init => TypeOK
  BY Ticks DEF Init, TypeOK

LEMMA RateNextTypes == TypeOK /\ [Next]_vars => TypeOK'
<1> SUFFICES ASSUME TypeOK, [Next]_vars PROVE TypeOK'
  OBVIOUS
<1> DEFINE At == {"idle", "slot", "send"} \cup Asleep
<1>0. At = {"idle", "slot", "send", "queued", "backoff"}
  BY DEF Asleep
<1>1. ASSUME NEW c \in Calls, Begin(c) \/ Wake(c) \/ Answered(c) PROVE TypeOK'
  <2>1. \E to \in At : Go(c, to)
    BY <1>0, <1>1 DEF Begin, Wake, Answered
  <2>2. pc' \in [Calls -> At]
    BY <2>1 DEF TypeOK, Go
  <2>q. QED BY <1>1, <2>2 DEF TypeOK, Begin, Wake, Answered, history
<1>2. ASSUME NEW c \in Calls, WaitForRate(c) PROVE TypeOK'
  <2>1. CASE \E n \in 1..MaxReqs : count' = n /\ left' \in {left, Window} /\ Granted(c)
    <3>1. pc' \in [Calls -> At]
      BY <1>0, <2>1 DEF TypeOK, Granted, Go
    <3>2. recent' \in [Past -> Nat]
      BY <2>1, Counted DEF TypeOK, Granted
    <3>3. left' \in -1..Longest /\ count' \in 0..MaxReqs
      BY <2>1, Ticks DEF TypeOK
    <3>q. QED BY <2>1, <3>1, <3>2, <3>3 DEF TypeOK, Granted
  <2>2. CASE left # -1 /\ Sleeps(c, left, "queued") /\ UNCHANGED <<count, left, attempt, history>>
    <3>1. pc' \in [Calls -> At]
      BY <1>0, <2>2 DEF TypeOK, Sleeps, Go
    <3>2. sleep' \in [Calls -> 0..Longest]
      BY <2>2, Ticks DEF TypeOK, Sleeps
    <3>q. QED BY <2>2, <3>1, <3>2 DEF TypeOK, history
  <2>3. 1 \in 1..MaxReqs /\ (count < MaxReqs => count + 1 \in 1..MaxReqs)
    BY DEF TypeOK
  <2>q. QED BY <1>2, <2>1, <2>2, <2>3 DEF WaitForRate
<1>3. ASSUME NEW c \in Calls, Refused(c) PROVE TypeOK'
  <2>1. PICK wait \in 1..MaxWait : count' = 0 /\ left' = wait /\ Sleeps(c, wait, "backoff")
    BY <1>3 DEF Refused
  <2>2. wait \in 0..Longest /\ wait \in -1..Longest
    BY Ticks
  <2>3. pc' \in [Calls -> At]
    BY <1>0, <2>1 DEF TypeOK, Sleeps, Go
  <2>4. sleep' \in [Calls -> 0..Longest]
    BY <2>1, <2>2 DEF TypeOK, Sleeps
  <2>5. attempt' \in [Calls -> 0..MaxRetries]
    BY <1>3 DEF TypeOK, Refused
  <2>6. refused' \in [Past -> Nat] /\ recent' = recent
    BY <1>3, Counted DEF TypeOK, Refused
  <2>q. QED BY <2>1, <2>2, <2>3, <2>4, <2>5, <2>6 DEF TypeOK
<1>4. CASE Tick
  <2>1. recent' \in [Past -> Nat] /\ refused' \in [Past -> Nat]
    BY <1>4, Counted DEF TypeOK, Tick
  <2>2. left' \in -1..Longest
    BY <1>4, Ticks DEF TypeOK, Tick
  <2>3. \A c \in Calls : (IF sleep[c] = 0 THEN 0 ELSE sleep[c] - 1) \in 0..Longest
    BY Ticks DEF TypeOK
  <2>4. sleep' \in [Calls -> 0..Longest]
    BY <1>4, <2>3 DEF Tick
  <2>q. QED BY <1>4, <2>1, <2>2, <2>4 DEF TypeOK, Tick
<1>5. CASE UNCHANGED vars
  BY <1>5 DEF vars, history, TypeOK
<1>q. QED BY <1>1, <1>2, <1>3, <1>4, <1>5 DEF Next, Step

\* waitForRate: no window hands out more slots than it has, no sleep outlasts
\* the longest wait, and no call is tried more often than do allows.
THEOREM RateTypes == Spec => []TypeOK
  BY RateInitTypes, RateNextTypes, PTL DEF Spec

\* What a window may have handed out before this one: all its slots, where a span
\* of n ticks reaches back behind the window that is open.
Before(n) == IF left # -1 /\ Window - left <= n THEN MaxReqs ELSE 0

\* Every shorter span obeys the bound too, with the slots of the open window
\* counted as they are granted.
SpansBounded ==
  \A n \in Past : recent[n] <= 2 * MaxReqs * refused[n] + count + Before(n)

RateInv == TypeOK /\ SpansBounded

LEMMA TwoMore ==
  ASSUME NEW m \in Nat, NEW r \in Nat
  PROVE  /\ 2 * m * r \in Nat
         /\ 2 * m * (r + 1) = 2 * m * r + 2 * m
         /\ 2 * m * (1 + r) = 2 * m * r + 2 * m
  BY SMT

LEMMA SpanTypes ==
  ASSUME TypeOK, NEW n \in Past
  PROVE  /\ recent[n] \in Nat /\ refused[n] \in Nat /\ 2 * MaxReqs * refused[n] \in Nat
         /\ n \in Nat /\ n <= Window /\ count \in Nat /\ count <= MaxReqs
         /\ left \in Int /\ left >= -1 /\ Before(n) \in Nat /\ Before(n) <= MaxReqs
         /\ Window \in Nat /\ MaxReqs \in Nat
<1>1. refused[n] \in Nat /\ MaxReqs \in Nat
  BY DEF TypeOK
<1>2. 2 * MaxReqs * refused[n] \in Nat
  BY <1>1, TwoMore
<1>q. QED BY <1>1, <1>2, Ticks DEF TypeOK, Past, Before

\* A slot: counted in the open window, or the first of a new one, before which
\* the last has handed out all of its own at most.
LEMMA GrantKeepsSpans ==
  ASSUME RateInv, NEW c \in Calls, WaitForRate(c)
  PROVE  SpansBounded'
<1> SUFFICES ASSUME NEW n \in Past
             PROVE  recent'[n] <= 2 * MaxReqs * refused'[n] + count' + Before(n)'
  BY DEF SpansBounded
<1>1. recent[n] <= 2 * MaxReqs * refused[n] + count + Before(n)
  BY DEF RateInv, SpansBounded
<1>2. CASE left = -1 /\ left' = Window /\ count' = 1 /\ Granted(c)
  <2>1. recent'[n] = recent[n] + 1 /\ refused' = refused
    BY <1>2 DEF Granted, OneMore
  <2>2. Before(n)' = MaxReqs /\ Before(n) = 0
    BY <1>2, SpanTypes DEF Before, RateInv
  <2>q. QED BY <1>1, <1>2, <2>1, <2>2, SpanTypes DEF RateInv
<1>3. CASE left # -1 /\ count' = count + 1 /\ UNCHANGED left /\ Granted(c)
  <2>1. recent'[n] = recent[n] + 1 /\ refused' = refused
    BY <1>3 DEF Granted, OneMore
  <2>2. Before(n)' = Before(n)
    BY <1>3 DEF Before
  <2>q. QED BY <1>1, <1>3, <2>1, <2>2, SpanTypes DEF RateInv
<1>4. CASE UNCHANGED <<count, left, history>>
  <2>1. Before(n)' = Before(n)
    BY <1>4 DEF Before
  <2>q. QED BY <1>1, <1>4, <2>1 DEF history
<1>q. QED BY <1>2, <1>3, <1>4 DEF WaitForRate

\* A refusal: the open window and the one before it are accounted to it.
LEMMA RefusalKeepsSpans ==
  ASSUME RateInv, NEW c \in Calls, Refused(c)
  PROVE  SpansBounded'
<1> SUFFICES ASSUME NEW n \in Past
             PROVE  recent'[n] <= 2 * MaxReqs * refused'[n] + count' + Before(n)'
  BY DEF SpansBounded
<1>1. recent[n] <= 2 * MaxReqs * refused[n] + count + Before(n)
  BY DEF RateInv, SpansBounded
<1>2. recent' = recent /\ refused'[n] = refused[n] + 1 /\ count' = 0
  BY DEF Refused, OneMore
<1>3. 2 * MaxReqs * refused'[n] = 2 * MaxReqs * refused[n] + 2 * MaxReqs
  BY <1>2, SpanTypes, TwoMore DEF RateInv
<1>4. Before(n)' \in Nat
  BY SpanTypes DEF Before, RateInv
<1>q. QED BY <1>1, <1>2, <1>3, <1>4, SpanTypes DEF RateInv

\* A tick: the span is that of one tick less a tick ago, and a window that ends
\* was opened a whole window before.
LEMMA TickKeepsSpans ==
  ASSUME RateInv, Tick
  PROVE  SpansBounded'
<1> SUFFICES ASSUME NEW n \in Past
             PROVE  recent'[n] <= 2 * MaxReqs * refused'[n] + count' + Before(n)'
  BY DEF SpansBounded
<1>0. Before(n)' \in Nat /\ count' = count /\ left' = IF left = -1 THEN -1 ELSE left - 1
  BY SpanTypes DEF Before, RateInv, Tick
<1>1. CASE n = 0
  <2>1. recent'[n] = 0 /\ refused'[n] = 0
    BY <1>1 DEF Tick, Shifted
  <2>2. 2 * MaxReqs * refused'[n] \in Nat
    BY <2>1, SpanTypes, TwoMore DEF RateInv
  <2>q. QED BY <1>0, <2>1, <2>2, SpanTypes DEF RateInv
<1>2. CASE n # 0
  <2>1. n - 1 \in Past
    BY <1>2, SpanTypes DEF Past, RateInv
  <2>2. recent'[n] = recent[n - 1] /\ refused'[n] = refused[n - 1]
    BY <1>2 DEF Tick, Shifted
  <2>3. recent[n - 1] <= 2 * MaxReqs * refused[n - 1] + count + Before(n - 1)
    BY <2>1 DEF RateInv, SpansBounded
  <2>4. Before(n - 1) <= Before(n)'
    BY <1>0, <2>1, SpanTypes DEF Before, RateInv
  <2>5. /\ recent[n - 1] \in Nat /\ 2 * MaxReqs * refused[n - 1] \in Nat
        /\ count \in Nat /\ Before(n - 1) \in Nat
    BY <2>1, SpanTypes DEF RateInv
  <2>q. QED BY <1>0, <2>2, <2>3, <2>4, <2>5
<1>q. QED BY <1>1, <1>2

LEMMA RateInvNext == RateInv /\ [Next]_vars => RateInv'
<1> SUFFICES ASSUME RateInv, [Next]_vars PROVE RateInv'
  OBVIOUS
<1>1. TypeOK'
  BY RateNextTypes DEF RateInv
<1>2. CASE UNCHANGED <<count, left, history>>
  BY <1>1, <1>2 DEF RateInv, SpansBounded, Before, history
<1>3. ASSUME NEW c \in Calls, Begin(c) \/ Wake(c) \/ Answered(c)
      PROVE  UNCHANGED <<count, left, history>>
  BY <1>3 DEF Begin, Wake, Answered
<1>4. UNCHANGED vars => UNCHANGED <<count, left, history>>
  BY DEF vars
<1>q. QED
  BY <1>1, <1>2, <1>3, <1>4, GrantKeepsSpans, RefusalKeepsSpans, TickKeepsSpans
  DEF Next, Step, RateInv

\* waitForRate: no span of a window's length sees more than two windows' slots
\* and two more for every refusal in it, for any window, slots, calls and waits.
THEOREM SpanBound == Spec => []RefillsBound
<1>1. Init => RateInv
  <2> SUFFICES ASSUME Init PROVE SpansBounded
    BY RateInitTypes DEF RateInv
  <2>1. ASSUME NEW n \in Past PROVE recent[n] <= 2 * MaxReqs * refused[n] + count + Before(n)
    <3>1. recent[n] = 0 /\ TypeOK
      BY RateInitTypes DEF Init
    <3>q. QED BY <3>1, SpanTypes
  <2>q. QED BY <2>1 DEF SpansBounded
<1>2. RateInv => RefillsBound
  <2> SUFFICES ASSUME RateInv PROVE RefillsBound
    OBVIOUS
  <2>1. Window \in Past
    BY DEF Past
  <2>2. recent[Window] <= 2 * MaxReqs * refused[Window] + count + Before(Window)
    BY <2>1 DEF RateInv, SpansBounded
  <2>3. 2 * MaxReqs * (1 + refused[Window]) = 2 * MaxReqs * refused[Window] + 2 * MaxReqs
    BY <2>1, SpanTypes, TwoMore DEF RateInv
  <2>q. QED BY <2>1, <2>2, <2>3, SpanTypes DEF RateInv, RefillsBound
<1>q. QED BY <1>1, <1>2, RateInvNext, PTL DEF Spec

-----------------------------------------------------------------------------
(***************************************************************************)
(* The unbooked-invoice watch                                              *)
(***************************************************************************)
\* What a run is about to remember has been alerted on.
AlertedFirst == \A r \in Runs : stage[r] = "reconcile" => Appeared(r) \subseteq ever

\* Nothing is remembered before the first run.
LEMMA WatchInitTypes == WatchInit => WatchTypeOK
BY DEF WatchInit, WatchTypeOK, Resting, Refs

\* Every step of a run, and every booking in Fortnox, keeps the types.
LEMMA WatchNextTypes == WatchTypeOK /\ [WatchNext]_watchVars => WatchTypeOK'
<1> SUFFICES ASSUME WatchTypeOK, [WatchNext]_watchVars
             PROVE  WatchTypeOK'
  OBVIOUS
<1> USE DEF WatchTypeOK, Resting, Refs, Moves, Read, Return, run
<1>1. ASSUME NEW r \in Runs, CountPayables(r) \/ CountReceivables(r)
      PROVE  WatchTypeOK'
  <2>1. disturbed' \in BOOLEAN
    BY <1>1, Zenon DEF CountPayables, CountReceivables
  <2>2. QED
    BY <1>1, <2>1 DEF CountPayables, CountReceivables
<1>2. ASSUME NEW r \in Runs, ListPayables(r) \/ ListReceivables(r)
      PROVE  WatchTypeOK'
  BY <1>2 DEF ListPayables, ListReceivables
<1>3. ASSUME NEW r \in Runs, Seen(r) \/ Fail(r)
      PROVE  WatchTypeOK'
  <2>1. disturbed' \in BOOLEAN
    BY <1>3, Zenon DEF Seen, Fail
  <2>2. QED
    BY <1>3, <2>1 DEF Seen, Fail
<1>4. ASSUME NEW r \in Runs, Alert(r) \/ Reconcile(r)
      PROVE  WatchTypeOK'
  BY <1>4 DEF Alert, Reconcile, Appeared, Resolved
<1>5. CASE Unbook \/ Book
  BY <1>5 DEF Unbook, Book
<1>6. CASE UNCHANGED watchVars
  BY <1>6 DEF watchVars
<1>7. QED
  BY <1>1, <1>2, <1>3, <1>4, <1>5, <1>6 DEF WatchNext, RunStep

\* Alert comes before Reconcile, and what Reconcile adds is fixed between them.
LEMMA ToldNext ==
  ASSUME WatchTypeOK, RememberedWasTold, AlertedFirst, [WatchNext]_watchVars
  PROVE  RememberedWasTold' /\ AlertedFirst'
<1> USE DEF WatchTypeOK, RememberedWasTold, AlertedFirst, Moves, Read, Return, run,
        Appeared
<1>1. ASSUME NEW r \in Runs, CountPayables(r) \/ CountReceivables(r)
      PROVE  RememberedWasTold' /\ AlertedFirst'
  BY <1>1 DEF CountPayables, CountReceivables, Resting
<1>2. ASSUME NEW r \in Runs, ListPayables(r) \/ ListReceivables(r)
      PROVE  RememberedWasTold' /\ AlertedFirst'
  BY <1>2 DEF ListPayables, ListReceivables
<1>3. ASSUME NEW r \in Runs, Seen(r) \/ Fail(r)
      PROVE  RememberedWasTold' /\ AlertedFirst'
  BY <1>3 DEF Seen, Fail
<1>4. ASSUME NEW r \in Runs, Alert(r)
      PROVE  RememberedWasTold' /\ AlertedFirst'
  BY <1>4 DEF Alert
<1>5. ASSUME NEW r \in Runs, Reconcile(r)
      PROVE  RememberedWasTold' /\ AlertedFirst'
  BY <1>5 DEF Reconcile, Resolved
<1>6. CASE Unbook \/ Book
  BY <1>6 DEF Unbook, Book
<1>7. CASE UNCHANGED watchVars
  BY <1>7 DEF watchVars
<1>8. QED
  BY <1>1, <1>2, <1>3, <1>4, <1>5, <1>6, <1>7 DEF WatchNext, RunStep

\* Whatever overlaps, fails or is killed, nothing is remembered as reported
\* that nobody was ever told about: "alert first, remember second".
THEOREM NeverSilenced == WatchSpec => []RememberedWasTold
<1>1. WatchInit => RememberedWasTold /\ AlertedFirst
  BY DEF WatchInit, RememberedWasTold, AlertedFirst
<1>2. QED
  BY <1>1, WatchInitTypes, WatchNextTypes, ToldNext, PTL DEF WatchSpec

\* Every variable keeps its type, for any invoices and runs.
THEOREM WatchTypes == WatchSpec => []WatchTypeOK
BY WatchInitTypes, WatchNextTypes, PTL DEF WatchSpec

-----------------------------------------------------------------------------
(***************************************************************************)
(* Once each: until runs overlap or one dies between its alert and its     *)
(* update, what was told and is still unbooked is remembered or about to   *)
(* be, and the run under way has seen it or will.                          *)
(***************************************************************************)
OneRun ==
  \A r, q \in Runs : stage[r] \notin Resting /\ stage[q] \notin Resting => r = q

\* What a run has read of the invoices told of, by the step it is at.
HasRead(r) ==
  /\ stage[r] = "count" => told \cap Payables = {}
  /\ stage[r] = "receivables" => told \cap Payables \subseteq current[r]
  /\ stage[r] \in {"seen", "alert", "reconcile"} => told \subseteq current[r]
  /\ stage[r] \in {"alert", "reconcile"} => was[r] = seen

OnceInv ==
  /\ told \subseteq unbooked
  /\ \A r \in Runs : HasRead(r)
  /\ (\A r \in Runs : stage[r] # "reconcile") => told \subseteq seen
  /\ \A r \in Runs : stage[r] = "reconcile" => told \subseteq seen \cup Appeared(r)

Undisturbed == ~disturbed => OneRun /\ OnceInv

\* Disturbed runs stay so.
LEMMA DisturbedNext == [WatchNext]_watchVars /\ ~disturbed' => ~disturbed
BY DEF WatchNext, RunStep, watchVars, run, CountPayables, CountReceivables, ListPayables,
       ListReceivables, Seen, Alert, Reconcile, Fail, Unbook, Book

\* A run starts alone, or disturbs another.
LEMMA OneRunNext ==
  ASSUME WatchTypeOK, OneRun, [WatchNext]_watchVars, ~disturbed'
  PROVE  OneRun'
<1> USE DEF WatchTypeOK, OneRun, Resting, Moves, Return
<1>1. ASSUME NEW r \in Runs, CountPayables(r)
      PROVE  OneRun'
  <2>1. /\ stage' = stage \/ Moves(r, "payables") \/ Moves(r, "count")
        /\ \A q \in Runs : stage[q] \in Resting
    BY <1>1 DEF CountPayables
  <2>2. \A q \in Runs \ {r} : stage'[q] = stage[q]
    BY <2>1
  <2>q. QED BY <2>1, <2>2
<1>2. ASSUME NEW r \in Runs, CountReceivables(r) \/ ListPayables(r) \/ ListReceivables(r)
      PROVE  OneRun'
  BY <1>2 DEF CountReceivables, ListPayables, ListReceivables
<1>3. ASSUME NEW r \in Runs, Seen(r) \/ Alert(r) \/ Reconcile(r) \/ Fail(r)
      PROVE  OneRun'
  BY <1>3 DEF Seen, Alert, Reconcile, Fail
<1>4. CASE UNCHANGED stage
  BY <1>4
<1>5. QED
  BY <1>1, <1>2, <1>3, <1>4 DEF WatchNext, RunStep, watchVars, run, Unbook, Book

\* A ledger read after the alert still holds what the alert named, as long as
\* nobody booked it; nothing told is taken for resolved.
LEMMA OnceNext ==
  ASSUME WatchTypeOK, OneRun, OnceInv, [WatchNext]_watchVars, ~disturbed'
  PROVE  OnceInv'
<1> USE DEF WatchTypeOK, OneRun, OnceInv, HasRead, Resting, Refs, Moves, Read, Return,
        run, Appeared
<1>1. ASSUME NEW r \in Runs, CountPayables(r)
      PROVE  OnceInv'
  BY <1>1 DEF CountPayables
<1>2. ASSUME NEW r \in Runs, CountReceivables(r)
      PROVE  OnceInv'
  BY <1>2 DEF CountReceivables
<1>3. ASSUME NEW r \in Runs, ListPayables(r)
      PROVE  OnceInv'
  BY <1>3 DEF ListPayables
<1>4. ASSUME NEW r \in Runs, ListReceivables(r)
      PROVE  OnceInv'
  BY <1>4 DEF ListReceivables
<1>5. ASSUME NEW r \in Runs, Seen(r)
      PROVE  OnceInv'
  BY <1>5 DEF Seen
<1>6. ASSUME NEW r \in Runs, Alert(r)
      PROVE  OnceInv'
  BY <1>6 DEF Alert
<1>7. ASSUME NEW r \in Runs, Reconcile(r)
      PROVE  OnceInv'
  BY <1>7 DEF Reconcile, Resolved
<1>8. ASSUME NEW r \in Runs, Fail(r)
      PROVE  OnceInv'
  BY <1>8 DEF Fail
<1>9. CASE Unbook \/ Book
  BY <1>9 DEF Unbook, Book
<1>10. CASE UNCHANGED watchVars
  BY <1>10 DEF watchVars
<1>11. QED
  BY <1>1, <1>2, <1>3, <1>4, <1>5, <1>6, <1>7, <1>8, <1>9, <1>10 DEF WatchNext, RunStep

\* An alert names only what was not told before.
LEMMA AlertsNew ==
  ASSUME WatchTypeOK, Undisturbed, [WatchNext]_watchVars
  PROVE  [\A r \in Runs : (stage[r] = "alert" /\ stage'[r] = "reconcile" /\ ~disturbed) =>
            Appeared(r) \cap told = {}]_stage
BY DEF WatchTypeOK, Undisturbed, OneRun, OnceInv, HasRead, Appeared, Resting

\* "Reports newly appeared unbooked invoices, once each", across any number of
\* runs, until two of them overlap or one dies before it remembers.
THEOREM ToldOnce == WatchSpec => OnceEach
<1>1. WatchInit => Undisturbed
  BY DEF WatchInit, Undisturbed, OneRun, OnceInv, HasRead, Resting
<1>2. WatchTypeOK /\ Undisturbed /\ [WatchNext]_watchVars => Undisturbed'
  BY DisturbedNext, OneRunNext, OnceNext DEF Undisturbed
<1>3. WatchTypeOK /\ Undisturbed /\ [WatchNext]_watchVars
      => [\A r \in Runs : (stage[r] = "alert" /\ stage'[r] = "reconcile" /\ ~disturbed) =>
            Appeared(r) \cap told = {}]_stage
  BY AlertsNew
<1>4. QED
  BY <1>1, <1>2, <1>3, WatchInitTypes, WatchNextTypes, PTL DEF WatchSpec, OnceEach
=============================================================================
