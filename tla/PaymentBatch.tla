---------------------------- MODULE PaymentBatch ----------------------------
(***************************************************************************)
(* The payment pipeline of one tenant: the handlers that turn the unpaid   *)
(* invoices into a draft batch, BatchService.Submit, which hands a batch   *)
(* to the bank, and BatchService.ConfirmExecution, which writes the bank's *)
(* confirmations back to Fortnox one invoice at a time. No two of their    *)
(* steps share a transaction, and each step works on the copy of the batch *)
(* its first step read.                                                    *)
(***************************************************************************)
EXTENDS Naturals, SequencesExt

CONSTANTS
  Operators, \* concurrent requests
  Batches,   \* bound: the batches that are ever created
  Invoices,  \* bound: the foreign-currency invoices that ever arrive
  Repo,      \* what a second Save of a batch does: "update" it, as BatchService
             \* assumes, or fail on the primary key: "insert", as BatchRepo does
  Faults,    \* which failures the environment may inject
  MaxConfirmations, \* bound: how long a list of confirmations is
  Cap        \* bound: counters of sent batches and recorded payments stop here

ASSUME RepoAssumption == Repo \in {"update", "insert"}
ASSUME FaultsAssumption == Faults \subseteq {"pisp", "erp", "db", "crash"}
ASSUME CapAssumption == Cap \in Nat \ {0, 1}
ASSUME MaxConfirmationsAssumption == MaxConfirmations \in Nat

VARIABLES
  erp,    \* whether the service was given an ERPWriter
  unpaid, \* Fortnox: invoices with nothing paid on them
  status, \* the batch rows
  items,  \* their items, fixed when the draft is saved
  sent,   \* bank: how often each batch was initiated
  paid,   \* Fortnox: payments recorded for an invoice on behalf of a batch
  booked, \* Fortnox: those that were bookkept
  pc,     \* each request: where it is,
  batch,  \*   the batch it works on,
  work,   \*   the invoices it puts in a new batch,
  asked,  \*   the confirmations it was given, in their order,
  handled, \*  how many of them are dealt with,
  failed, \*   and whether an error was collected
  overlapped, \* history: batches that two requests worked on at once
  interrupted, \* history: batches with a call or save that failed, or a crash
  repeated \* history: items that one list of confirmations named twice

rows == <<status, items>>
fortnox == <<unpaid, paid, booked>>
confirmation == <<asked, handled, failed>>
request == <<pc, batch, work, confirmation>>
history == <<overlapped, interrupted, repeated>>
vars == <<erp, rows, sent, fortnox, request, history>>

\* An invoice a batch contains, as batch_items names it.
Item == Batches \X Invoices
Statuses == {"none", "draft", "submitted", "confirmed"}
\* What the bank confirms: a list, which may name an invoice twice.
Lists == SeqOf(Invoices, MaxConfirmations)

\* Every variable keeps its type; a batch has one of the statuses of
\* domain.BatchStatus.
TypeOK ==
  /\ erp \in BOOLEAN
  /\ unpaid \subseteq Invoices
  /\ status \in [Batches -> Statuses]
  /\ items \in [Batches -> SUBSET Invoices]
  /\ sent \in [Batches -> 0..Cap]
  /\ paid \in [Item -> 0..Cap]
  /\ booked \subseteq Item
  /\ pc \in [Operators -> {"idle", "build", "send", "sent", "confirm", "ok", "error"}]
  /\ batch \in [Operators -> Batches]
  /\ work \in [Operators -> SUBSET Invoices]
  /\ asked \in [Operators -> Lists]
  /\ handled \in [Operators -> Nat]
  /\ failed \in [Operators -> BOOLEAN]
  /\ overlapped \subseteq Batches
  /\ interrupted \subseteq Batches
  /\ repeated \subseteq Item

Init ==
  /\ erp \in BOOLEAN
  /\ unpaid = {} /\ booked = {}
  /\ status = [b \in Batches |-> "none"]
  /\ items = [b \in Batches |-> {}]
  /\ sent = [b \in Batches |-> 0]
  /\ paid = [x \in Item |-> 0]
  /\ pc = [p \in Operators |-> "idle"]
  /\ batch \in [Operators -> Batches]
  /\ work = [p \in Operators |-> {}]
  /\ asked = [p \in Operators |-> <<>>]
  /\ handled = [p \in Operators |-> 0]
  /\ failed = [p \in Operators |-> FALSE]
  /\ overlapped = {} /\ interrupted = {} /\ repeated = {}

Resting == {"idle", "ok", "error"}
Handling == {"send", "sent", "confirm"}
Go(p, to) == pc' = [pc EXCEPT ![p] = to]
Took(p, set) == work' = [work EXCEPT ![p] = set]
Minimum(m, n) == IF m < n THEN m ELSE n

\* Get: the request works on b from here on, whoever else does.
Read(p, b) ==
  /\ batch' = [batch EXCEPT ![p] = b]
  /\ overlapped' = IF \E q \in Operators : pc[q] \in Handling /\ batch[q] = b
                   THEN overlapped \cup {b} ELSE overlapped
  /\ UNCHANGED interrupted

Interrupted(p) ==
  /\ interrupted' = IF pc[p] \in Handling
                    THEN interrupted \cup {batch[p]} ELSE interrupted
  /\ UNCHANGED <<overlapped, repeated>>

\* Save of a batch that exists: Get's copy with another status.
Resave(b, st) ==
  /\ status' = IF Repo = "update" THEN [status EXCEPT ![b] = st] ELSE status
  /\ UNCHANGED items

\* ... and whether the caller saw it fail.
ResaveFails == Repo = "insert"

(***************************************************************************)
(* batchHandler, downloadHandler: every unpaid invoice into one new batch. *)
(***************************************************************************)
\* An empty list is an error of GeneratePAIN001: no batch. What becomes of a list
\* whose pages shift while it is read is in PaymentFile.
LoadPendingInvoices(p) ==
  /\ pc[p] \in Resting
  /\ unpaid # {}
  /\ Go(p, "build") /\ Took(p, unpaid)
  /\ UNCHANGED <<rows, sent, fortnox, batch, confirmation, history>>

\* A failed save (a second batch in the same second has the same MsgID) is
\* not reported: the panel is shown without a draft.
SaveDraft(p) ==
  /\ pc[p] = "build"
  /\ \/ \E b \in Batches :
          /\ status[b] = "none"
          /\ status' = [status EXCEPT ![b] = "draft"]
          /\ items' = [items EXCEPT ![b] = work[p]]
     \/ UNCHANGED rows
  /\ Go(p, "ok") /\ Took(p, {})
  /\ UNCHANGED <<sent, fortnox, batch, confirmation, history>>

(***************************************************************************)
(* BatchService.Submit                                                     *)
(***************************************************************************)
SubmitGet(p) ==
  /\ pc[p] \in Resting
  /\ \E b \in Batches :
       /\ status[b] = "draft"
       /\ Read(p, b)
  /\ Go(p, "send")
  /\ UNCHANGED <<rows, sent, fortnox, work, confirmation, repeated>>

\* The PISP call. When it fails, the bank may have the batch all the same.
Initiated(b) == sent' = [sent EXCEPT ![b] = Minimum(@ + 1, Cap)]

SubmitSend(p) ==
  /\ pc[p] = "send"
  /\ \/ Go(p, "sent") /\ Initiated(batch[p]) /\ UNCHANGED history
     \/ /\ "pisp" \in Faults
        /\ Go(p, "error") /\ Interrupted(p)
        /\ Initiated(batch[p]) \/ UNCHANGED sent
  /\ UNCHANGED <<rows, fortnox, batch, work, confirmation>>

MutSubmitForgetsSave(p) ==
  /\ pc[p] = "sent"
  /\ Go(p, "ok")
  /\ UNCHANGED <<rows, sent, fortnox, batch, work, confirmation, history>>

\* "Log but don't fail": a failed save is swallowed.
SubmitSave(p) ==
  /\ pc[p] = "sent"
  /\ \/ Resave(batch[p], "submitted") /\ UNCHANGED history
     \/ "db" \in Faults /\ Interrupted(p) /\ UNCHANGED rows
  /\ Go(p, "ok")
  /\ UNCHANGED <<sent, fortnox, batch, work, confirmation>>

(***************************************************************************)
(* BatchService.ConfirmExecution                                           *)
(***************************************************************************)
NamedTwice(list) ==
  {list[m] : m \in {n \in DOMAIN list : \E k \in DOMAIN list : k # n /\ list[k] = list[n]}}

\* The bank's confirmations: any invoices, known to the batch or not, in any
\* order; nothing keeps one from being named twice.
ConfirmGet(p) ==
  /\ pc[p] \in Resting
  /\ \E b \in Batches, list \in Lists :
       /\ status[b] = "submitted"
       /\ Read(p, b)
       /\ asked' = [asked EXCEPT ![p] = list]
       /\ repeated' = repeated \cup ({b} \X NamedTwice(list))
  /\ handled' = [handled EXCEPT ![p] = 0]
  /\ Go(p, "confirm")
  /\ failed' = [failed EXCEPT ![p] = FALSE]
  /\ UNCHANGED <<rows, sent, fortnox, work>>

\* The confirmation the loop is at, as an item of the request's batch.
Due(p) == handled[p] + 1
Outstanding(p) == Due(p) \in DOMAIN asked[p]
DueItem(p) == <<batch[p], asked[p][Due(p)]>>

Collect(p) == failed' = [failed EXCEPT ![p] = TRUE]

\* RecordPayment and BookkeepPayment for one item.
Recorded(x) == paid' = [paid EXCEPT ![x] = Minimum(@ + 1, Cap)]

RecordAndBookkeep(p, x) ==
  \/ /\ Recorded(x)
     /\ booked' = booked \cup {x}
     /\ unpaid' = unpaid \ {x[2]}
     /\ UNCHANGED failed
  \/ /\ "erp" \in Faults
     /\ Collect(p)
     /\ Recorded(x) \/ UNCHANGED paid
     /\ UNCHANGED <<booked, unpaid>>

Advance(p) ==
  /\ pc[p] = "confirm" /\ Outstanding(p)
  /\ handled' = [handled EXCEPT ![p] = Due(p)]
  /\ UNCHANGED <<rows, sent, pc, batch, work, asked, history>>

MutDropError(p) ==
  /\ Advance(p)
  /\ IF DueItem(p)[2] \notin items[batch[p]] THEN Collect(p) /\ UNCHANGED fortnox
     ELSE IF erp THEN Recorded(DueItem(p)) /\ UNCHANGED <<booked, unpaid, failed>>
     ELSE UNCHANGED <<fortnox, failed>>

MutUnknownInvoice(p) ==
  /\ Advance(p)
  /\ IF erp THEN RecordAndBookkeep(p, DueItem(p)) ELSE UNCHANGED <<fortnox, failed>>

\* One confirmation: unknown invoices and failed write-backs are collected,
\* the rest of the list is still handled. With no ERPWriter Fortnox is told
\* nothing, which is no error.
WriteBack(p) ==
  /\ Advance(p)
  /\ \/ /\ DueItem(p)[2] \notin items[batch[p]]
        /\ Collect(p)
        /\ UNCHANGED fortnox
     \/ /\ DueItem(p)[2] \in items[batch[p]] /\ erp
        /\ RecordAndBookkeep(p, DueItem(p))
     \/ /\ DueItem(p)[2] \in items[batch[p]] /\ ~erp
        /\ UNCHANGED <<fortnox, failed>>

\* The request is over: its list is gone.
Drop(p) ==
  /\ asked' = [asked EXCEPT ![p] = <<>>]
  /\ handled' = [handled EXCEPT ![p] = 0]

MutConfirmOnlyClean(p) ==
  /\ pc[p] = "confirm" /\ ~Outstanding(p)
  /\ IF failed[p] THEN Go(p, "error") /\ UNCHANGED rows
     ELSE Go(p, "ok") /\ Resave(batch[p], "confirmed")
  /\ Drop(p)
  /\ UNCHANGED <<sent, fortnox, batch, work, failed, history>>

\* The batch is confirmed whatever failed; the errors are returned joined.
ConfirmSave(p) ==
  /\ pc[p] = "confirm" /\ ~Outstanding(p)
  /\ \/ /\ Resave(batch[p], "confirmed")
        /\ Go(p, IF failed[p] \/ ResaveFails THEN "error" ELSE "ok")
        /\ UNCHANGED history
     \/ "db" \in Faults /\ Go(p, "error") /\ Interrupted(p) /\ UNCHANGED rows
  /\ Drop(p)
  /\ UNCHANGED <<sent, fortnox, batch, work, failed>>

(***************************************************************************)
(* The environment                                                         *)
(***************************************************************************)
\* The process stops between two steps. A call that was under way may still
\* arrive.
Crash(p) ==
  /\ "crash" \in Faults
  /\ pc[p] \notin Resting
  /\ \/ UNCHANGED <<sent, paid>>
     \/ pc[p] = "send" /\ Initiated(batch[p]) /\ UNCHANGED paid
     \/ /\ pc[p] = "confirm" /\ Outstanding(p)
        /\ erp /\ DueItem(p)[2] \in items[batch[p]]
        /\ Recorded(DueItem(p)) /\ UNCHANGED sent
  /\ Go(p, "error") /\ Took(p, {}) /\ Drop(p) /\ Interrupted(p)
  /\ UNCHANGED <<rows, unpaid, booked, batch, failed>>

\* A supplier's invoice arrives, once.
Arrive ==
  /\ \E i \in Invoices \ unpaid :
       /\ \A b \in Batches : i \notin items[b]
       /\ unpaid' = unpaid \cup {i}
  /\ UNCHANGED <<rows, sent, paid, booked, request, history>>

-----------------------------------------------------------------------------
Step ==
  \/ \E p \in Operators :
       \/ LoadPendingInvoices(p) \/ SaveDraft(p)
       \/ SubmitGet(p) \/ SubmitSend(p) \/ SubmitSave(p)
       \/ ConfirmGet(p) \/ WriteBack(p) \/ ConfirmSave(p)
       \/ Crash(p)
  \/ Arrive

\* Whether there is an ERPWriter is settled when the server starts.
Next == Step /\ UNCHANGED erp

Spec == Init /\ [][Next]_vars

-----------------------------------------------------------------------------
(***************************************************************************)
(* Properties                                                              *)
(***************************************************************************)

Undisturbed(b) == b \notin overlapped \cup interrupted

\* A batch the bank has is no longer a draft once the Submit that sent it
\* returned: "moves a draft batch to submitted status". Two requests on one
\* batch, or a failed call or save, may leave it one.
SubmitMovesDraft ==
  \A b \in Batches :
    /\ Undisturbed(b) /\ sent[b] > 0
    /\ \A p \in Operators : ~(pc[p] = "sent" /\ batch[p] = b)
    => status[b] # "draft"

\* The bank gets a batch once, and an invoice of it is paid at most once in
\* Fortnox, also when some write-backs fail and leave the batch half booked.
\* Exceptions: requests on the batch overlapped, one was cut short, or the
\* bank's own list named the invoice twice, which the loop does not notice.
ExecutedOnce ==
  \A b \in Batches : Undisturbed(b) =>
    /\ sent[b] <= 1
    /\ \A i \in Invoices : <<b, i>> \notin repeated => paid[<<b, i>>] <= 1

\* Whatever is interrupted, overlaps and is retried: Fortnox is told of a
\* payment only for an invoice of a batch that was handed to the bank.
PaidMeansSent ==
  \A b \in Batches, i \in Invoices :
    paid[<<b, i>>] > 0 => sent[b] > 0 /\ i \in items[b]

\* ConfirmExecution returns no error only when the batch is confirmed and every
\* confirmation on its list names an invoice of the batch that is bookkept. A
\* service without an ERPWriter books nothing, and says as little.
OkMeansBooked ==
  [][\A p \in Operators : (pc[p] = "confirm" /\ pc'[p] = "ok") =>
       /\ \A n \in DOMAIN asked[p] :
            /\ asked[p][n] \in items[batch[p]]
            /\ erp => <<batch[p], asked[p][n]>> \in booked
       /\ status'[batch[p]] = "confirmed"]_vars

\* A batch never goes back, whatever fails: what is submitted is not sent again
\* as a draft, what is confirmed is not written back again. Only two requests
\* that hold copies of it at once can undo each other.
Rank(st) == CASE st = "none" -> 0 [] st = "draft" -> 1
              [] st = "submitted" -> 2 [] st = "confirmed" -> 3

StatusMovesForward ==
  [][\A b \in Batches \ overlapped : Rank(status[b]) <= Rank(status'[b])]_status

\* What all this comes to for those who look at the batches only: whatever is
\* interleaved, interrupted and retried, each step of the pipeline is a step of
\* BatchPromise, or none of the reader's business.
Promise ==
  INSTANCE BatchPromise WITH
    stage <- status, contents <- items, contended <- overlapped,
    handed <- {b \in Batches : sent[b] > 0},
    settled <- {x \in Item : paid[x] > 0}

KeepsThePromise == Promise!PromiseSpec
=============================================================================
