----------------------------- MODULE RateLimiter -----------------------------
(***************************************************************************)
(* The pacing of Fortnox requests in one process: waitForRate, a counter   *)
(* and the end of a window shared by all goroutines, and the retry of a    *)
(* request Fortnox refused with 429, which restarts the window.            *)
(*                                                                         *)
(* Time is counted in ticks and kept relative to now, so that behaviours   *)
(* need not end.                                                           *)
(***************************************************************************)
EXTENDS Integers

CONSTANTS
  Calls,      \* what sends requests, each one at a time for ever
  MaxReqs,    \* slots of a window (18 in the program)
  Window,     \* its length (5 s)
  MaxRetries, \* retries after a 429 (4)
  MaxWait     \* bound: the longest back-off or Retry-After

ASSUME MaxReqsAssumption == MaxReqs \in Nat \ {0}
ASSUME WindowAssumption == Window \in Nat \ {0}
ASSUME RetriesAssumption == MaxRetries \in Nat
ASSUME MaxWaitAssumption == MaxWait \in Nat \ {0}

VARIABLES
  count,   \* rateLimiter.count
  left,    \* ticks until rateLimiter.windowEnd, -1 once now is after it
  pc,      \* each call: where it is,
  attempt, \*   the request it is at,
  sleep,   \*   and the ticks it still sleeps
  recent,  \* history: recent[n] slots granted in this tick and the n before it
  refused  \* history: refused[n] refusals in the same ticks

history == <<recent, refused>>
vars == <<count, left, pc, attempt, sleep, history>>

Longest == IF Window < MaxWait THEN MaxWait ELSE Window
Past == 0..Window
Asleep == {"queued", "backoff"}

\* A window has at most MaxReqs slots, and nobody sleeps longer than the
\* longest back-off or the window.
TypeOK ==
  /\ count \in 0..MaxReqs
  /\ left \in -1..Longest
  /\ pc \in [Calls -> {"idle", "slot", "send"} \cup Asleep]
  /\ attempt \in [Calls -> 0..MaxRetries]
  /\ sleep \in [Calls -> 0..Longest]
  /\ recent \in [Past -> Nat] /\ refused \in [Past -> Nat]

Init ==
  /\ count = 0
  /\ left = -1
  /\ pc = [c \in Calls |-> "idle"]
  /\ attempt = [c \in Calls |-> 0]
  /\ sleep = [c \in Calls |-> 0]
  /\ recent = [n \in Past |-> 0] /\ refused = [n \in Past |-> 0]

Go(c, to) == pc' = [pc EXCEPT ![c] = to]
Sleeps(c, ticks, state) == Go(c, state) /\ sleep' = [sleep EXCEPT ![c] = ticks]

\* What the history becomes with an event now, and with a tick.
OneMore(past) == [n \in Past |-> past[n] + 1]
Shifted(past) == [n \in Past |-> IF n = 0 THEN 0 ELSE past[n - 1]]

\* The next request.
Begin(c) ==
  /\ pc[c] = "idle"
  /\ Go(c, "slot")
  /\ attempt' = [attempt EXCEPT ![c] = 0]
  /\ UNCHANGED <<count, left, sleep, history>>

(***************************************************************************)
(* waitForRate: one iteration of its loop, under the mutex.                *)
(***************************************************************************)
Granted(c) ==
  /\ Go(c, "send")
  /\ recent' = OneMore(recent)
  /\ UNCHANGED <<attempt, sleep, refused>>

MutWindowNotRestarted(c) ==
  /\ pc[c] = "slot"
  /\ \/ left = -1 /\ UNCHANGED left /\ count' = 1 /\ Granted(c)
     \/ left # -1 /\ count < MaxReqs /\ count' = count + 1 /\ UNCHANGED left /\ Granted(c)
     \/ left # -1 /\ count = MaxReqs /\ Sleeps(c, left, "queued")
        /\ UNCHANGED <<count, left, attempt, history>>

WaitForRate(c) ==
  /\ pc[c] = "slot"
  /\ \/ left = -1 /\ left' = Window /\ count' = 1 /\ Granted(c)
     \/ left # -1 /\ count < MaxReqs /\ count' = count + 1 /\ UNCHANGED left /\ Granted(c)
     \/ left # -1 /\ count = MaxReqs /\ Sleeps(c, left, "queued")
        /\ UNCHANGED <<count, left, attempt, history>>

Wake(c) ==
  /\ pc[c] \in Asleep /\ sleep[c] = 0
  /\ Go(c, "slot")
  /\ UNCHANGED <<count, left, attempt, sleep, history>>

(***************************************************************************)
(* do: the request, and its retry.                                         *)
(***************************************************************************)
\* An answer, an error, or a 429 with no retry left.
Answered(c) ==
  /\ pc[c] = "send"
  /\ Go(c, "idle")
  /\ UNCHANGED <<count, left, attempt, sleep, history>>

MutRetryForEver(c) ==
  /\ pc[c] = "send"
  /\ \E wait \in 1..MaxWait :
       /\ count' = 0 /\ left' = wait
       /\ Sleeps(c, wait, "backoff")
  /\ refused' = OneMore(refused)
  /\ UNCHANGED <<attempt, recent>>

\* 429 with a retry left: the window restarts and ends with this call's wait
\* (Retry-After, else the back-off; never zero).
Refused(c) ==
  /\ pc[c] = "send" /\ attempt[c] < MaxRetries
  /\ attempt' = [attempt EXCEPT ![c] = @ + 1]
  /\ \E wait \in 1..MaxWait :
       /\ count' = 0 /\ left' = wait
       /\ Sleeps(c, wait, "backoff")
  /\ refused' = OneMore(refused)
  /\ UNCHANGED recent

Tick ==
  /\ left' = IF left = -1 THEN -1 ELSE left - 1
  /\ sleep' = [c \in Calls |-> IF sleep[c] = 0 THEN 0 ELSE sleep[c] - 1]
  /\ recent' = Shifted(recent) /\ refused' = Shifted(refused)
  /\ UNCHANGED <<count, pc, attempt>>

-----------------------------------------------------------------------------
Step(c) == WaitForRate(c) \/ Wake(c) \/ Answered(c) \/ Refused(c)

Next == (\E c \in Calls : Begin(c) \/ Step(c)) \/ Tick

Spec == Init /\ [][Next]_vars

\* Goroutines run, requests are answered (the HTTP client times out), time
\* passes.
Fairness == WF_vars(Tick) /\ \A c \in Calls : WF_vars(Step(c))

FairSpec == Spec /\ Fairness

-----------------------------------------------------------------------------
(***************************************************************************)
(* Properties                                                              *)
(***************************************************************************)
\* What the fixed window guarantees of every span of a window's length, where
\* Fortnox documents 25 requests in 5 seconds: one window can be emptied at its
\* end and the next at its beginning, and every refusal in the span can hand out
\* two more windows' slots, those of the window it starts and, where the wait is
\* shorter than a window, those of the window after it.
RefillsBound ==
  recent[Window] <= 2 * MaxReqs * (1 + refused[Window])

\* A request comes back, refused or not, unless other requests come back for
\* ever: waitForRate keeps no queue, so that a call may find every new window
\* emptied by others, but somebody always gets through, and once no new requests
\* come each that waits does.
CallReturns ==
  \A c \in Calls :
    \/ pc[c] = "slot" ~> pc[c] = "idle"
    \/ []<><<\E d \in Calls \ {c} : Answered(d)>>_vars
=============================================================================
