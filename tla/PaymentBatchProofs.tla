-------------------------- MODULE PaymentBatchProofs --------------------------
(***************************************************************************)
(* Proofs about PaymentBatch, for any number of requests, batches and      *)
(* invoices and whatever fails.                                            *)
(***************************************************************************)
EXTENDS PaymentBatch, TLAPS

\* What links the bank, the batch rows and the requests that carry a copy of
\* one: a batch the bank was never given is at most a draft.
SentInv ==
  /\ \A b \in Batches :
       /\ status[b] \in {"submitted", "confirmed"} => sent[b] > 0
       /\ sent[b] > 0 => status[b] # "none"
  /\ \A p \in Operators :
       /\ pc[p] \in {"send", "sent", "confirm"} => status[batch[p]] # "none"
       /\ pc[p] \in {"sent", "confirm"} => sent[batch[p]] > 0

\* The smaller of two numbers below the cap is below the cap.
LEMMA MinimumBounds ==
  ASSUME NEW n \in 0..Cap
  PROVE  Minimum(n + 1, Cap) \in 1..Cap
BY CapAssumption DEF Minimum

\* A list of confirmations: invoices under the numbers from one up.
LEMMA ListIsNumbered ==
  ASSUME NEW list \in Lists
  PROVE  \E m \in Nat : DOMAIN list = 1..m /\ \A n \in 1..m : list[n] \in Invoices
BY MaxConfirmationsAssumption DEF Lists, SeqOf

\* A request that confirms nothing holds the empty list.
LEMMA EmptyIsList == <<>> \in Lists
<1>1. <<>> \in [1..0 -> Invoices]
  OBVIOUS
<1>2. QED
  BY <1>1, MaxConfirmationsAssumption DEF Lists, SeqOf

\* What a confirmation names is an invoice.
LEMMA DueIsItem ==
  ASSUME TypeOK, NEW p \in Operators, Outstanding(p)
  PROVE  DueItem(p) \in Item /\ DueItem(p)[1] = batch[p] /\ Due(p) \in Nat \ {0}
<1>1. asked[p] \in Lists /\ handled[p] \in Nat /\ batch[p] \in Batches
  BY DEF TypeOK
<1>2. asked[p][Due(p)] \in Invoices
  BY <1>1, ListIsNumbered DEF Outstanding, Due
<1>3. QED
  BY <1>1, <1>2 DEF DueItem, Due, Item

\* No batch, no request, no payment: well typed.
LEMMA InitTypeOK == Init => TypeOK
BY CapAssumption, EmptyIsList DEF Init, TypeOK, Statuses, Item

\* Every step of a handler, of the service and of Fortnox keeps the types.
LEMMA NextTypeOK == TypeOK /\ [Next]_vars => TypeOK'
<1> SUFFICES ASSUME TypeOK, [Next]_vars
             PROVE  TypeOK'
  OBVIOUS
<1> USE CapAssumption, EmptyIsList DEF TypeOK, Statuses, Go, Took, Read, Interrupted,
        Drop, rows, fortnox, confirmation, request, history
<1>1. ASSUME NEW p \in Operators, LoadPendingInvoices(p) \/ SaveDraft(p), UNCHANGED erp
      PROVE  TypeOK'
  BY <1>1 DEF LoadPendingInvoices, SaveDraft
<1>2. ASSUME NEW p \in Operators, SubmitGet(p) \/ ConfirmGet(p), UNCHANGED erp
      PROVE  TypeOK'
  <2>1. CASE SubmitGet(p)
    BY <1>2, <2>1 DEF SubmitGet
  <2>2. CASE ConfirmGet(p)
    <3>1. PICK b \in Batches, list \in Lists :
            /\ Read(p, b)
            /\ asked' = [asked EXCEPT ![p] = list]
            /\ repeated' = repeated \cup ({b} \X NamedTwice(list))
      BY <2>2 DEF ConfirmGet
    <3>2. {b} \X NamedTwice(list) \subseteq Item
      BY ListIsNumbered DEF NamedTwice, Item
    <3>3. QED
      BY <1>2, <2>2, <3>1, <3>2 DEF ConfirmGet
  <2>3. QED
    BY <1>2, <2>1, <2>2
<1>3. ASSUME NEW p \in Operators, SubmitSend(p), UNCHANGED erp
      PROVE  TypeOK'
  <2>1. Minimum(sent[batch[p]] + 1, Cap) \in 0..Cap
    BY MinimumBounds
  <2>2. QED
    <3>1. sent' \in [Batches -> 0..Cap]
      BY <1>3, <2>1 DEF SubmitSend, Initiated
    <3>2. interrupted' \subseteq Batches /\ UNCHANGED <<overlapped, repeated>>
      BY <1>3 DEF SubmitSend
    <3>3. UNCHANGED <<unpaid, rows, paid, booked, batch, work, asked, handled, failed>>
          /\ (pc' = [pc EXCEPT ![p] = "sent"] \/ pc' = [pc EXCEPT ![p] = "error"])
      BY <1>3 DEF SubmitSend
    <3>4. QED
      BY <1>3, <3>1, <3>2, <3>3
<1>4. ASSUME NEW p \in Operators, SubmitSave(p) \/ ConfirmSave(p), UNCHANGED erp
      PROVE  TypeOK'
  <2>1. CASE SubmitSave(p)
    <3>1. /\ status' \in [Batches -> Statuses] /\ UNCHANGED items
          /\ interrupted' \subseteq Batches /\ UNCHANGED <<overlapped, repeated>>
      BY <2>1 DEF SubmitSave, Resave
    <3>2. QED
      BY <1>4, <2>1, <3>1 DEF SubmitSave
  <2>2. CASE ConfirmSave(p)
    <3>1. /\ status' \in [Batches -> Statuses] /\ UNCHANGED items
          /\ interrupted' \subseteq Batches /\ UNCHANGED <<overlapped, repeated>>
      BY <2>2 DEF ConfirmSave, Resave
    <3>2. asked' \in [Operators -> Lists] /\ handled' \in [Operators -> Nat]
      BY <2>2 DEF ConfirmSave
    <3>3. pc' \in [Operators -> {"idle", "build", "send", "sent", "confirm", "ok", "error"}]
          /\ UNCHANGED <<sent, unpaid, paid, booked, batch, work, failed>>
      BY <2>2 DEF ConfirmSave
    <3>4. QED
      BY <1>4, <3>1, <3>2, <3>3
  <2>3. QED
    BY <1>4, <2>1, <2>2
<1>5. ASSUME NEW p \in Operators, WriteBack(p), UNCHANGED erp
      PROVE  TypeOK'
  <2>1. DueItem(p) \in Item /\ Due(p) \in Nat
    BY <1>5, DueIsItem DEF WriteBack, Advance
  <2>2. Minimum(paid[DueItem(p)] + 1, Cap) \in 0..Cap
    BY <2>1, MinimumBounds
  <2>3. /\ paid' \in [Item -> 0..Cap] /\ booked' \subseteq Item
        /\ unpaid' \subseteq Invoices /\ failed' \in [Operators -> BOOLEAN]
    BY <1>5, <2>1, <2>2 DEF WriteBack, RecordAndBookkeep, Recorded, Collect
  <2>4. handled' \in [Operators -> Nat]
    BY <1>5, <2>1 DEF WriteBack, Advance
  <2>5. QED
    BY <1>5, <2>3, <2>4 DEF WriteBack, Advance
<1>6. ASSUME NEW p \in Operators, Crash(p), UNCHANGED erp
      PROVE  TypeOK'
  <2>1. \A b \in Batches : Minimum(sent[b] + 1, Cap) \in 0..Cap
    BY MinimumBounds
  <2>2. \A x \in Item : Minimum(paid[x] + 1, Cap) \in 0..Cap
    BY MinimumBounds
  <2>3. CASE UNCHANGED <<sent, paid>>
    BY <1>6, <2>3 DEF Crash
  <2>4. CASE Initiated(batch[p]) /\ UNCHANGED paid
    BY <1>6, <2>1, <2>4 DEF Crash, Initiated
  <2>5. CASE Outstanding(p) /\ Recorded(DueItem(p)) /\ UNCHANGED sent
    <3>1. paid' \in [Item -> 0..Cap]
      BY <2>2, <2>5, DueIsItem DEF Recorded
    <3>2. QED
      BY <1>6, <2>5, <3>1 DEF Crash
  <2>6. QED
    BY <1>6, <2>3, <2>4, <2>5 DEF Crash
<1>7. CASE Arrive /\ UNCHANGED erp
  BY <1>7 DEF Arrive
<1>8. CASE UNCHANGED vars
  BY <1>8 DEF vars
<1>9. QED
  BY <1>1, <1>2, <1>3, <1>4, <1>5, <1>6, <1>7, <1>8 DEF Next, Step

\* No batch has been sent before there is one.
LEMMA SentInit == Init => SentInv
BY CapAssumption DEF Init, SentInv

\* A request goes from one step to the next, the rows are saved from the copy
\* it holds, and counters never fall: SentInv survives every interleaving.
LEMMA SentNext ==
  ASSUME TypeOK, SentInv, [Next]_vars
  PROVE  SentInv'
<1> USE CapAssumption DEF TypeOK, SentInv, Statuses, Go, Took, Read, rows,
        fortnox, confirmation, request, Resting
<1>1. ASSUME NEW p \in Operators, LoadPendingInvoices(p)
      PROVE  SentInv'
  BY <1>1 DEF LoadPendingInvoices
<1>2. ASSUME NEW p \in Operators, SaveDraft(p)
      PROVE  SentInv'
  BY <1>2 DEF SaveDraft
<1>3. ASSUME NEW p \in Operators, SubmitGet(p)
      PROVE  SentInv'
  BY <1>3 DEF SubmitGet
<1>4. ASSUME NEW p \in Operators, ConfirmGet(p)
      PROVE  SentInv'
  <2>1. PICK b \in Batches :
          status[b] = "submitted" /\ Read(p, b)
    BY <1>4 DEF ConfirmGet
  <2>2. QED
    BY <1>4, <2>1 DEF ConfirmGet
<1>5. ASSUME NEW p \in Operators, SubmitSend(p)
      PROVE  SentInv'
  <2>1. Minimum(sent[batch[p]] + 1, Cap) \in 1..Cap
    BY MinimumBounds
  <2>2. QED
    BY <1>5, <2>1 DEF SubmitSend, Initiated
<1>6. ASSUME NEW p \in Operators, SubmitSave(p)
      PROVE  SentInv'
  BY <1>6 DEF SubmitSave, Resave
<1>7. ASSUME NEW p \in Operators, ConfirmSave(p)
      PROVE  SentInv'
  BY <1>7 DEF ConfirmSave, Resave
<1>8. ASSUME NEW p \in Operators, WriteBack(p)
      PROVE  SentInv'
  BY <1>8 DEF WriteBack, Advance
<1>9. ASSUME NEW p \in Operators, Crash(p)
      PROVE  SentInv'
  <2>1. Minimum(sent[batch[p]] + 1, Cap) \in 1..Cap
    BY MinimumBounds
  <2>2. sent' = sent \/ (Initiated(batch[p]) /\ pc[p] = "send")
    BY <1>9 DEF Crash
  <2>3. UNCHANGED <<status, batch>> /\ pc' = [pc EXCEPT ![p] = "error"]
    BY <1>9 DEF Crash
  <2>4. QED
    BY <2>1, <2>2, <2>3 DEF Initiated
<1>10. CASE Arrive
  BY <1>10 DEF Arrive
<1>11. CASE UNCHANGED vars
  BY <1>11 DEF vars
<1>12. QED
  BY <1>1, <1>2, <1>3, <1>4, <1>5, <1>6, <1>7, <1>8, <1>9, <1>10, <1>11 DEF Next, Step

\* A payment reaches Fortnox only from a confirmation of an item of a batch
\* that was sent, and the items of such a batch no longer change.
LEMMA PaidNext ==
  ASSUME TypeOK, SentInv, PaidMeansSent, [Next]_vars
  PROVE  PaidMeansSent'
<1> USE CapAssumption DEF TypeOK, PaidMeansSent, Statuses, Go, Took, rows,
        fortnox, confirmation, request, Item
<1>1. ASSUME NEW p \in Operators,
             LoadPendingInvoices(p) \/ SubmitGet(p) \/ ConfirmGet(p)
      PROVE  PaidMeansSent'
  BY <1>1 DEF LoadPendingInvoices, SubmitGet, ConfirmGet
<1>2. ASSUME NEW p \in Operators, SaveDraft(p)
      PROVE  PaidMeansSent'
  BY <1>2 DEF SaveDraft, SentInv
<1>3. ASSUME NEW p \in Operators, SubmitSend(p)
      PROVE  PaidMeansSent'
  <2>1. Minimum(sent[batch[p]] + 1, Cap) \in 1..Cap
    BY MinimumBounds
  <2>2. QED
    BY <1>3, <2>1 DEF SubmitSend, Initiated
<1>4. ASSUME NEW p \in Operators, SubmitSave(p) \/ ConfirmSave(p)
      PROVE  PaidMeansSent'
  BY <1>4 DEF SubmitSave, ConfirmSave, Resave
<1>5. ASSUME NEW p \in Operators, WriteBack(p)
      PROVE  PaidMeansSent'
  <2>1. sent[batch[p]] > 0
    BY <1>5 DEF WriteBack, Advance, SentInv
  <2>2. UNCHANGED paid
        \/ (Recorded(DueItem(p)) /\ DueItem(p)[2] \in items[batch[p]])
    BY <1>5 DEF WriteBack, RecordAndBookkeep
  <2>3. DueItem(p) \in Item /\ DueItem(p)[1] = batch[p] /\ UNCHANGED <<sent, items>>
    BY <1>5, DueIsItem DEF WriteBack, Advance
  <2>4. QED
    BY <2>1, <2>2, <2>3 DEF Recorded
<1>6. ASSUME NEW p \in Operators, Crash(p)
      PROVE  PaidMeansSent'
  <2>1. UNCHANGED items
    BY <1>6 DEF Crash
  <2>2. CASE UNCHANGED <<sent, paid>>
    BY <2>1, <2>2
  <2>3. CASE Initiated(batch[p]) /\ UNCHANGED paid
    <3>1. Minimum(sent[batch[p]] + 1, Cap) \in 1..Cap
      BY MinimumBounds
    <3>2. QED
      BY <2>1, <2>3, <3>1 DEF Initiated
  <2>4. CASE /\ pc[p] = "confirm" /\ Outstanding(p)
             /\ DueItem(p)[2] \in items[batch[p]]
             /\ Recorded(DueItem(p)) /\ UNCHANGED sent
    <3>1. DueItem(p) \in Item /\ DueItem(p)[1] = batch[p] /\ sent[batch[p]] > 0
      BY <2>4, DueIsItem DEF SentInv
    <3>2. QED
      BY <2>1, <2>4, <3>1 DEF Recorded
  <2>5. QED
    BY <1>6, <2>2, <2>3, <2>4 DEF Crash
<1>7. CASE Arrive \/ UNCHANGED vars
  BY <1>7 DEF Arrive, vars
<1>8. QED
  BY <1>1, <1>2, <1>3, <1>4, <1>5, <1>6, <1>7 DEF Next, Step

\* Every variable of the pipeline keeps its type, for any counts and faults.
THEOREM TypeCorrect == Spec => []TypeOK
BY InitTypeOK, NextTypeOK, PTL DEF Spec

\* Whatever is interrupted, retried or run twice: Fortnox is told of a payment
\* only for an invoice of a batch the bank was given.
THEOREM NothingPaidUnsent == Spec => []PaidMeansSent
<1>1. Init => PaidMeansSent
  BY DEF Init, PaidMeansSent, Item
<1>2. QED
  BY <1>1, InitTypeOK, NextTypeOK, SentInit, SentNext, PaidNext, PTL DEF Spec

-----------------------------------------------------------------------------
(***************************************************************************)
(* As long as no two requests work on a batch at once, the status a        *)
(* request checked is still the row's when it saves.                       *)
(***************************************************************************)
Alone ==
  \A p, q \in Operators :
    (p # q /\ pc[p] \in Handling /\ pc[q] \in Handling /\ batch[p] = batch[q])
      => batch[p] \in overlapped

StillAsRead ==
  \A p \in Operators : batch[p] \notin overlapped =>
    /\ pc[p] \in {"send", "sent"} => status[batch[p]] = "draft"
    /\ pc[p] = "confirm" => status[batch[p]] = "submitted"

AsRead == Alone /\ StillAsRead

Forward == \A b \in Batches \ overlapped : Rank(status[b]) <= Rank(status'[b])

\* Nobody has read a batch yet.
LEMMA AsReadInit == Init => AsRead
BY DEF Init, AsRead, Alone, StillAsRead, Handling

\* A batch that was overlapped, or interrupted, stays so.
LEMMA HistoryNext ==
  ASSUME TypeOK, [Next]_vars
  PROVE  /\ overlapped \subseteq overlapped' /\ interrupted \subseteq interrupted'
         /\ repeated \subseteq repeated'
<1> DEFINE Grows == /\ overlapped \subseteq overlapped' /\ interrupted \subseteq interrupted'
                    /\ repeated \subseteq repeated'
<1> USE DEF history, Interrupted, Read
<1>1. ASSUME NEW p \in Operators, SubmitGet(p) \/ ConfirmGet(p)
      PROVE  Grows
  BY <1>1 DEF SubmitGet, ConfirmGet
<1>2. ASSUME NEW p \in Operators,
             SubmitSend(p) \/ SubmitSave(p) \/ ConfirmSave(p) \/ Crash(p)
      PROVE  Grows
  BY <1>2 DEF SubmitSend, SubmitSave, ConfirmSave, Crash
<1>3. CASE UNCHANGED history
  BY <1>3
<1>4. QED
  BY <1>1, <1>2, <1>3
  DEF Next, Step, vars, LoadPendingInvoices, SaveDraft, WriteBack, Advance, Arrive

\* Nobody else saves a batch between a request's read and its save, unless the
\* two overlap.
LEMMA AsReadNext ==
  ASSUME TypeOK, AsRead, [Next]_vars
  PROVE  AsRead' /\ Forward
<1> USE DEF TypeOK, AsRead, Alone, StillAsRead, Forward, Handling, Statuses,
        Go, Took, rows, fortnox, confirmation, request, history, Resting, Rank
<1>1. ASSUME NEW p \in Operators, LoadPendingInvoices(p)
      PROVE  AsRead' /\ Forward
  BY <1>1 DEF LoadPendingInvoices
<1>2. ASSUME NEW p \in Operators, SaveDraft(p)
      PROVE  AsRead' /\ Forward
  <2>1. UNCHANGED status
        \/ \E b \in Batches : status[b] = "none"
                              /\ status' = [status EXCEPT ![b] = "draft"]
    BY <1>2 DEF SaveDraft
  <2>2. QED
    BY <1>2, <2>1 DEF SaveDraft
<1>3. ASSUME NEW p \in Operators, NEW b \in Batches, Read(p, b), UNCHANGED status,
             \/ pc' = [pc EXCEPT ![p] = "send"] /\ status[b] = "draft"
             \/ pc' = [pc EXCEPT ![p] = "confirm"] /\ status[b] = "submitted"
      PROVE  AsRead' /\ Forward
  BY <1>3 DEF Read
<1>4. ASSUME NEW p \in Operators, SubmitGet(p) \/ ConfirmGet(p)
      PROVE  AsRead' /\ Forward
  BY <1>3, <1>4 DEF SubmitGet, ConfirmGet
<1>5. ASSUME NEW p \in Operators, SubmitSend(p) \/ WriteBack(p) \/ Crash(p)
      PROVE  AsRead' /\ Forward
  <2>1. UNCHANGED <<status, batch, overlapped>>
    BY <1>5 DEF SubmitSend, WriteBack, Advance, Crash, Interrupted
  <2>2. \/ pc[p] = "send" /\ pc' = [pc EXCEPT ![p] = "sent"]
        \/ pc' = [pc EXCEPT ![p] = "error"]
        \/ UNCHANGED pc
    BY <1>5 DEF SubmitSend, WriteBack, Advance, Crash
  <2>3. QED
    BY <2>1, <2>2
<1>6. ASSUME NEW p \in Operators, SubmitSave(p) \/ ConfirmSave(p)
      PROVE  AsRead' /\ Forward
  BY <1>6 DEF SubmitSave, ConfirmSave, Resave, Interrupted
<1>7. CASE Arrive \/ UNCHANGED vars
  BY <1>7 DEF Arrive, vars
<1>8. QED
  BY <1>1, <1>2, <1>4, <1>5, <1>6, <1>7 DEF Next, Step

\* A batch only moves forward, draft, submitted, confirmed, until two requests
\* hold copies of it at once: whatever fails and whatever a second Save does.
THEOREM MovesForward == Spec => StatusMovesForward
<1>1. TypeOK /\ AsRead /\ [Next]_vars
        => [\A b \in Batches \ overlapped : Rank(status[b]) <= Rank(status'[b])]_status
  BY AsReadNext DEF Forward
<1>2. TypeOK /\ AsRead /\ [Next]_vars => AsRead'
  BY AsReadNext
<1>3. QED
  BY <1>1, <1>2, InitTypeOK, NextTypeOK, AsReadInit, PTL
  DEF Spec, StatusMovesForward

-----------------------------------------------------------------------------
(***************************************************************************)
(* Nothing is executed twice, with a Save that updates, for a batch that   *)
(* no two requests worked on at once and no call or save on which failed.  *)
(***************************************************************************)
Holds(p, b, at) == pc[p] = at /\ batch[p] = b

\* What the bank and Fortnox were told of a batch, by its status and by the
\* request that works on it.
OnceInv(b) ==
  /\ sent[b] <= 1
  /\ \A i \in Invoices : <<b, i>> \notin repeated => paid[<<b, i>>] <= 1
  /\ (status[b] \in {"none", "draft"} /\ \A p \in Operators : ~Holds(p, b, "sent"))
       => sent[b] = 0
  /\ (status[b] # "confirmed" /\ \A p \in Operators : ~Holds(p, b, "confirm"))
       => \A i \in Invoices : paid[<<b, i>>] = 0
  /\ \A p \in Operators : Holds(p, b, "confirm") =>
       \A n \in DOMAIN asked[p] : <<b, asked[p][n]>> \notin repeated =>
         /\ n > handled[p] => paid[<<b, asked[p][n]>>] = 0
         /\ \A m \in DOMAIN asked[p] : m # n => asked[p][m] # asked[p][n]

Once == \A b \in Batches : Undisturbed(b) => OnceInv(b)

\* Nothing was sent or paid.
LEMMA OnceInit == Init => Once
BY DEF Init, Once, OnceInv, Item

\* The first of a kind is counted as one.
LEMMA MinimumOne == Minimum(0 + 1, Cap) = 1
BY CapAssumption DEF Minimum

\* A step of a request on an undisturbed batch finds it as the request read it.
LEMMA OnceNext ==
  ASSUME Repo = "update", TypeOK, AsRead, Once, [Next]_vars
  PROVE  Once'
<1> SUFFICES ASSUME NEW b \in Batches, Undisturbed(b)'
             PROVE  OnceInv(b)'
  BY DEF Once
<1>1. Undisturbed(b) /\ OnceInv(b)
  BY HistoryNext DEF Undisturbed, Once
<1> USE <1>1, MinimumOne DEF TypeOK, OnceInv, Holds, Undisturbed, Handling,
        Statuses, Go, Took, rows, fortnox, confirmation, request, history, Resting, Item
<1>2. ASSUME NEW p \in Operators, LoadPendingInvoices(p)
      PROVE  OnceInv(b)'
  BY <1>2 DEF LoadPendingInvoices
<1>3. ASSUME NEW p \in Operators, SaveDraft(p)
      PROVE  OnceInv(b)'
  <2>1. status'[b] = status[b] \/ (status[b] = "none" /\ status'[b] = "draft")
    BY <1>3 DEF SaveDraft
  <2>2. UNCHANGED <<sent, paid, batch>> /\ pc' = [pc EXCEPT ![p] = "ok"]
        /\ UNCHANGED <<asked, handled, repeated>> /\ pc[p] = "build"
    BY <1>3 DEF SaveDraft
  <2>3. QED
    BY <2>1, <2>2
<1>4. ASSUME NEW p \in Operators, SubmitGet(p)
      PROVE  OnceInv(b)'
  BY <1>4 DEF SubmitGet, Read
<1>5. ASSUME NEW p \in Operators, ConfirmGet(p)
      PROVE  OnceInv(b)'
  <2>1. PICK c \in Batches, list \in Lists :
          /\ status[c] = "submitted" /\ Read(p, c)
          /\ asked' = [asked EXCEPT ![p] = list]
          /\ repeated' = repeated \cup ({c} \X NamedTwice(list))
    BY <1>5 DEF ConfirmGet
  <2>2. /\ UNCHANGED <<status, sent, paid>> /\ pc[p] \in Resting
        /\ pc' = [pc EXCEPT ![p] = "confirm"] /\ batch' = [batch EXCEPT ![p] = c]
        /\ handled' = [handled EXCEPT ![p] = 0]
    BY <1>5, <2>1 DEF ConfirmGet, Read
  <2>3. c = b => \A q \in Operators : ~Holds(q, b, "confirm")
    BY <2>1 DEF Read
  <2>4. \A n \in DOMAIN list : list[n] \in Invoices /\ n > 0
    BY ListIsNumbered
  <2>5. c = b => \A n \in DOMAIN list : <<b, list[n]>> \notin repeated' =>
          \A m \in DOMAIN list : m # n => list[m] # list[n]
    BY <2>1 DEF NamedTwice
  <2>6. CASE c = b
    <3>1. \A i \in Invoices : paid[<<b, i>>] = 0
      BY <2>1, <2>3, <2>6
    <3>2. asked'[p] = list /\ handled'[p] = 0
      BY <2>1, <2>2
    <3>3. \A q \in Operators : Holds(q, b, "confirm")' => q = p
      BY <2>2, <2>3, <2>6
    <3>4. QED
      BY <2>2, <2>4, <2>5, <2>6, <3>1, <3>2, <3>3
  <2>7. CASE c # b
    <3>1. \A q \in Operators : Holds(q, b, "confirm")' =>
            q # p /\ Holds(q, b, "confirm") /\ asked'[q] = asked[q] /\ handled'[q] = handled[q]
      BY <2>1, <2>2, <2>7
    <3>2. \A i \in Invoices : <<b, i>> \notin repeated' => <<b, i>> \notin repeated
      BY <2>1
    <3>3. \A q \in Operators : \A n \in DOMAIN asked[q] :
            <<b, asked[q][n]>> \notin repeated' => <<b, asked[q][n]>> \notin repeated
      BY <2>1
    <3>4. \A q \in Operators : Holds(q, b, "confirm") <=> Holds(q, b, "confirm")'
      BY <2>2, <2>7
    <3>5. \A q \in Operators : Holds(q, b, "sent") <=> Holds(q, b, "sent")'
      BY <2>2, <2>7
    <3>6. QED
      BY <2>2, <3>1, <3>2, <3>3, <3>4, <3>5
  <2>8. QED
    BY <2>6, <2>7
<1>6. ASSUME NEW p \in Operators, SubmitSend(p)
      PROVE  OnceInv(b)'
  <2>1. CASE batch[p] = b
    <3>1. /\ pc[p] = "send" /\ pc' = [pc EXCEPT ![p] = "sent"]
          /\ Initiated(b) /\ UNCHANGED <<status, paid, batch, asked, handled, repeated>>
      BY <1>6, <2>1 DEF SubmitSend, Interrupted
    <3>2. status[b] = "draft" /\ \A q \in Operators : ~Holds(q, b, "sent")
      BY <2>1, <3>1 DEF AsRead, Alone, StillAsRead
    <3>3. sent[b] = 0
      BY <3>2
    <3>4. sent'[b] = 1
      BY <3>1, <3>3 DEF Initiated
    <3>5. QED
      BY <2>1, <3>1, <3>4
  <2>2. CASE batch[p] # b
    <3>1. UNCHANGED <<status, paid, batch, asked, handled, repeated>> /\ sent'[b] = sent[b]
      BY <1>6, <2>2 DEF SubmitSend, Initiated, Interrupted
    <3>2. \A q \in Operators, at \in {"sent", "confirm"} : Holds(q, b, at)' <=> Holds(q, b, at)
      BY <1>6, <2>2, <3>1 DEF SubmitSend
    <3>3. QED
      BY <3>1, <3>2
  <2>3. QED
    BY <2>1, <2>2
<1>7. ASSUME NEW p \in Operators, SubmitSave(p)
      PROVE  OnceInv(b)'
  <2>1. /\ pc[p] = "sent" /\ pc' = [pc EXCEPT ![p] = "ok"]
        /\ UNCHANGED <<sent, paid, batch, asked, handled, repeated>>
    BY <1>7 DEF SubmitSave, Interrupted
  <2>2. CASE batch[p] = b
    <3>1. status' = [status EXCEPT ![b] = "submitted"]
      BY <1>7, <2>1, <2>2 DEF SubmitSave, Resave, Interrupted
    <3>2. status[b] = "draft" /\ \A q \in Operators : ~Holds(q, b, "confirm")
      BY <2>1, <2>2 DEF AsRead, Alone, StillAsRead
    <3>3. QED
      BY <2>1, <2>2, <3>1, <3>2
  <2>3. CASE batch[p] # b
    <3>1. status'[b] = status[b]
      BY <1>7, <2>3 DEF SubmitSave, Resave
    <3>2. QED
      BY <2>1, <2>3, <3>1
  <2>4. QED
    BY <2>2, <2>3
<1>8. ASSUME NEW p \in Operators, WriteBack(p)
      PROVE  OnceInv(b)'
  <2> DEFINE i == asked[p][Due(p)]
  <2>1. /\ UNCHANGED paid \/ Recorded(DueItem(p))
        /\ UNCHANGED <<status, sent, pc, batch, asked, history>> /\ pc[p] = "confirm"
        /\ Outstanding(p) /\ handled' = [handled EXCEPT ![p] = Due(p)]
    BY <1>8 DEF WriteBack, Advance, RecordAndBookkeep
  <2>2. DueItem(p) \in Item /\ Due(p) = handled[p] + 1 /\ DueItem(p) = <<batch[p], i>>
        /\ handled[p] \in Nat /\ Due(p) \in DOMAIN asked[p]
    BY <2>1, DueIsItem DEF Due, DueItem, Outstanding
  <2>3. CASE batch[p] = b
    <3>1. \A q \in Operators : Holds(q, b, "confirm") => q = p
      BY <2>1, <2>3 DEF AsRead, Alone
    <3>2. Holds(p, b, "confirm")
      BY <2>1, <2>3
    <3>3. <<b, i>> \notin repeated => paid[<<b, i>>] = 0
      BY <2>2, <3>2
    <3>4. \A j \in Invoices : j # i => paid'[<<b, j>>] = paid[<<b, j>>]
      BY <2>1, <2>2, <2>3 DEF Recorded
    <3>5. <<b, i>> \notin repeated => paid'[<<b, i>>] \in {0, 1}
      BY <2>1, <2>2, <2>3, <3>3 DEF Recorded
    <3>6. ASSUME NEW n \in DOMAIN asked[p], <<b, asked[p][n]>> \notin repeated
          PROVE  /\ n > handled'[p] => paid'[<<b, asked[p][n]>>] = 0
                 /\ \A m \in DOMAIN asked[p] : m # n => asked[p][m] # asked[p][n]
      <4>1. asked[p][n] \in Invoices /\ n \in Nat
        BY ListIsNumbered
      <4>2. \A m \in DOMAIN asked[p] : m # n => asked[p][m] # asked[p][n]
        BY <3>2, <3>6
      <4>3. n > handled'[p] => asked[p][n] # i /\ n > handled[p]
        BY <2>1, <2>2, <4>1, <4>2
      <4>4. n > handled[p] => paid[<<b, asked[p][n]>>] = 0
        BY <3>2, <3>6
      <4>5. QED
        BY <3>4, <4>1, <4>2, <4>3, <4>4
    <3>7. \A q \in Operators : Holds(q, b, "confirm")' => q = p
      BY <2>1, <3>1
    <3>8. \A j \in Invoices : <<b, j>> \notin repeated => paid'[<<b, j>>] <= 1
      BY <3>4, <3>5
    <3>9. QED
      BY <2>1, <3>2, <3>6, <3>7, <3>8
  <2>4. CASE batch[p] # b
    <3>1. \A j \in Invoices : paid'[<<b, j>>] = paid[<<b, j>>]
      BY <2>1, <2>2, <2>4 DEF Recorded
    <3>2. \A q \in Operators : Holds(q, b, "confirm") =>
            q # p /\ handled'[q] = handled[q] /\ asked'[q] = asked[q]
            /\ \A n \in DOMAIN asked[q] : asked[q][n] \in Invoices
      BY <2>1, <2>4, ListIsNumbered
    <3>3. QED
      BY <2>1, <3>1, <3>2
  <2>5. QED
    BY <2>3, <2>4
<1>9. ASSUME NEW p \in Operators, ConfirmSave(p)
      PROVE  OnceInv(b)'
  BY <1>9 DEF ConfirmSave, Resave, Interrupted, Drop
<1>10. ASSUME NEW p \in Operators, Crash(p)
      PROVE  OnceInv(b)'
  <2>1. pc[p] \in Handling => batch[p] # b
    BY <1>10 DEF Crash, Interrupted
  <2>2. sent'[b] = sent[b]
    BY <1>10, <2>1 DEF Crash, Initiated
  <2>3. \A i \in Invoices : paid'[<<b, i>>] = paid[<<b, i>>]
    BY <1>10, <2>1, DueIsItem DEF Crash, Recorded, DueItem
  <2>4. UNCHANGED <<status, batch>> /\ pc' = [pc EXCEPT ![p] = "error"]
        /\ asked' = [asked EXCEPT ![p] = <<>>] /\ handled' = [handled EXCEPT ![p] = 0]
        /\ UNCHANGED repeated
    BY <1>10 DEF Crash, Drop, Interrupted
  <2>5. \A q \in Operators, at \in Handling : Holds(q, b, at)' <=> Holds(q, b, at)
    BY <2>1, <2>4
  <2>6. \A q \in Operators : Holds(q, b, "confirm") =>
          /\ asked'[q] = asked[q] /\ handled'[q] = handled[q]
          /\ \A n \in DOMAIN asked[q] : asked[q][n] \in Invoices
    BY <2>1, <2>4, ListIsNumbered
  <2>7. QED
    BY <2>2, <2>3, <2>4, <2>5, <2>6
<1>11. CASE Arrive \/ UNCHANGED vars
  BY <1>11 DEF Arrive, vars
<1>12. QED
  BY <1>2, <1>3, <1>4, <1>5, <1>6, <1>7, <1>8, <1>9, <1>10, <1>11 DEF Next, Step

\* What a repository that only inserts makes of the pipeline: no batch gets
\* further than a draft, so there is none to confirm.
Stalls ==
  /\ \A b \in Batches : status[b] \in {"none", "draft"}
  /\ \A p \in Operators : pc[p] # "confirm"
  /\ \A x \in Item : paid[x] = 0

\* Only a second Save would take a batch further.
LEMMA StallsNext ==
  ASSUME Repo = "insert", TypeOK, Stalls, [Next]_vars
  PROVE  Stalls'
<1> USE DEF TypeOK, Stalls, Statuses, Go, rows, fortnox, confirmation, request, Resave
<1>1. ASSUME NEW p \in Operators, LoadPendingInvoices(p) \/ SubmitGet(p) \/ SubmitSend(p)
      PROVE  Stalls'
  BY <1>1 DEF LoadPendingInvoices, SubmitGet, SubmitSend
<1>2. ASSUME NEW p \in Operators, SaveDraft(p)
      PROVE  Stalls'
  BY <1>2 DEF SaveDraft
<1>3. ASSUME NEW p \in Operators, SubmitSave(p) \/ Crash(p)
      PROVE  Stalls'
  BY <1>3 DEF SubmitSave, Crash
<1>4. ASSUME NEW p \in Operators, ConfirmGet(p) \/ WriteBack(p) \/ ConfirmSave(p)
      PROVE  FALSE
  BY <1>4 DEF ConfirmGet, WriteBack, Advance, ConfirmSave
<1>5. CASE Arrive \/ UNCHANGED vars
  BY <1>5 DEF Arrive, vars
<1>6. QED
  BY <1>1, <1>2, <1>3, <1>4, <1>5 DEF Next, Step

\* What an undisturbed batch comes to, by what a second Save does.
LEMMA OnceOrStalls ==
  Spec => [](IF Repo = "update" THEN Once ELSE Stalls)
<1>1. Init => Stalls
  BY DEF Init, Stalls
<1>2. Init => (IF Repo = "update" THEN Once ELSE Stalls)
  BY <1>1, OnceInit
<1>3. TypeOK /\ AsRead /\ (IF Repo = "update" THEN Once ELSE Stalls) /\ [Next]_vars
        => (IF Repo = "update" THEN Once ELSE Stalls)'
  BY OnceNext, StallsNext, RepoAssumption
<1>4. TypeOK /\ AsRead /\ [Next]_vars => AsRead'
  BY AsReadNext
<1>5. QED
  BY <1>2, <1>3, <1>4, InitTypeOK, NextTypeOK, AsReadInit, PTL DEF Spec

\* A batch no request and no failure disturbed: with a Save that updates, the
\* bank gets it once and Fortnox each of its payments at most once, unless the
\* bank's list repeats one. With a Save that only inserts Fortnox is told nothing.
THEOREM NothingTwice ==
  Spec => [](IF Repo = "update" THEN ExecutedOnce ELSE \A x \in Item : paid[x] = 0)
<1>1. (IF Repo = "update" THEN Once ELSE Stalls)
        => (IF Repo = "update" THEN ExecutedOnce ELSE \A x \in Item : paid[x] = 0)
  BY DEF Once, OnceInv, ExecutedOnce, Stalls
<1>2. QED
  BY <1>1, OnceOrStalls, PTL

\* Whether Submit moves a draft batch is up to the repository: with a Save that
\* updates, a batch that was sent does not stay a draft; with one that only
\* inserts, which is the one there is, no batch is ever anything else.
THEOREM DraftMoves ==
  Spec => [](IF Repo = "update" THEN SubmitMovesDraft
             ELSE \A b \in Batches : status[b] \in {"none", "draft"})
<1>1. (IF Repo = "update" THEN Once ELSE Stalls)
        => (IF Repo = "update" THEN SubmitMovesDraft
            ELSE \A b \in Batches : status[b] \in {"none", "draft"})
  BY DEF Once, OnceInv, Holds, SubmitMovesDraft, Stalls
<1>2. QED
  BY <1>1, OnceOrStalls, PTL

-----------------------------------------------------------------------------
(***************************************************************************)
(* What a confirmation that returns no error has done.                     *)
(***************************************************************************)
\* The confirmation an operator's list holds at n is of an invoice of the batch,
\* and bookkept if the service can book.
Settled(p, n) ==
  /\ asked[p][n] \in items[batch[p]]
  /\ erp => <<batch[p], asked[p][n]>> \in booked

\* While a request has collected no error, that is so up to where its loop is.
BookedSoFar ==
  \A p \in Operators : pc[p] = "confirm" /\ ~failed[p] =>
    \A n \in DOMAIN asked[p] : n <= handled[p] => Settled(p, n)

\* A step that leaves a request's list, batch and place alone unsettles nothing.
LEMMA StaysSettled ==
  ASSUME UNCHANGED erp, NEW q \in Operators,
         batch'[q] = batch[q], asked'[q] = asked[q],
         booked \subseteq booked', items[batch[q]] \subseteq items'[batch[q]],
         NEW n, Settled(q, n)
  PROVE  Settled(q, n)'
BY DEF Settled

\* A loop step that collected no error settled the confirmation it was at.
LEMMA WriteBackSettles ==
  ASSUME TypeOK, NEW p \in Operators, WriteBack(p), UNCHANGED erp, ~failed'[p],
         NEW n, n = Due(p)
  PROVE  ~failed[p] /\ Settled(p, n)'
<1>1. ~Collect(p)
  BY DEF Collect, TypeOK
<1>2. UNCHANGED <<failed, items, batch, asked>> /\ DueItem(p)[2] \in items[batch[p]]
  BY <1>1 DEF WriteBack, Advance, RecordAndBookkeep, rows, fortnox
<1>3. booked \subseteq booked' /\ (erp => DueItem(p) \in booked')
  BY <1>1 DEF WriteBack, RecordAndBookkeep, fortnox
<1>4. QED
  BY <1>2, <1>3 DEF Settled, DueItem

\* Each step of a request, and each of another, leaves it so.
LEMMA BookedSoFarNext ==
  ASSUME TypeOK, SentInv, BookedSoFar, [Next]_vars
  PROVE  BookedSoFar'
<1> SUFFICES ASSUME NEW q \in Operators, pc'[q] = "confirm", ~failed'[q],
                    NEW n \in DOMAIN asked'[q], n <= handled'[q]
             PROVE  Settled(q, n)'
  BY DEF BookedSoFar
<1> DEFINE Undone ==
      /\ UNCHANGED erp /\ pc[q] = "confirm" /\ ~failed[q]
      /\ batch'[q] = batch[q] /\ asked'[q] = asked[q] /\ handled'[q] = handled[q]
      /\ booked \subseteq booked' /\ items[batch[q]] \subseteq items'[batch[q]]
<1>1. ASSUME Undone PROVE Settled(q, n)'
  <2>1. Settled(q, n)
    BY <1>1 DEF BookedSoFar
  <2>2. QED
    BY <1>1, <2>1, StaysSettled
<1> USE DEF TypeOK, Go, Took, rows, fortnox, confirmation, request
<1>2. ASSUME NEW p \in Operators, UNCHANGED erp,
             LoadPendingInvoices(p) \/ SubmitGet(p) \/ SubmitSend(p) \/ SubmitSave(p)
      PROVE  Undone
  BY <1>2 DEF LoadPendingInvoices, SubmitGet, Read, SubmitSend, SubmitSave, Resave
<1>3. ASSUME NEW p \in Operators, UNCHANGED erp, SaveDraft(p)
      PROVE  Undone
  <2>1. status[batch[q]] # "none" /\ q # p
    BY <1>3 DEF SaveDraft, SentInv
  <2>2. QED
    BY <1>3, <2>1 DEF SaveDraft
<1>4. ASSUME NEW p \in Operators, UNCHANGED erp, ConfirmGet(p)
      PROVE  Settled(q, n)'
  <2>1. CASE q = p
    <3>1. handled'[q] = 0 /\ asked'[q] \in Lists
      BY <1>4, <2>1 DEF ConfirmGet
    <3>2. QED
      BY <3>1, ListIsNumbered
  <2>2. CASE q # p
    BY <1>1, <1>4, <2>2 DEF ConfirmGet, Read
  <2>3. QED
    BY <2>1, <2>2
<1>5. ASSUME NEW p \in Operators, UNCHANGED erp, WriteBack(p)
      PROVE  Settled(q, n)'
  <2>1. /\ UNCHANGED <<pc, batch, asked, items>> /\ booked \subseteq booked'
        /\ handled' = [handled EXCEPT ![p] = Due(p)]
        /\ q # p => failed'[q] = failed[q]
    BY <1>5 DEF WriteBack, Advance, RecordAndBookkeep, Collect
  <2>2. CASE q # p
    BY <1>1, <1>5, <2>1, <2>2
  <2>3. CASE q = p /\ n = Due(p)
    BY <1>5, <2>3, WriteBackSettles
  <2>4. CASE q = p /\ n # Due(p)
    <3>1. n \in Nat /\ handled'[q] = handled[q] + 1
      BY <2>1, <2>4, ListIsNumbered DEF Due
    <3>2. n <= handled[q] /\ ~failed[q]
      BY <1>5, <2>4, <3>1, WriteBackSettles DEF Due
    <3>3. Settled(q, n)
      BY <2>1, <3>2 DEF BookedSoFar
    <3>4. QED
      BY <1>5, <2>1, <3>3, StaysSettled
  <2>5. QED
    BY <2>2, <2>3, <2>4
<1>6. ASSUME NEW p \in Operators, UNCHANGED erp, ConfirmSave(p) \/ Crash(p)
      PROVE  Undone
  BY <1>6 DEF ConfirmSave, Crash, Drop, Resave
<1>7. CASE (Arrive /\ UNCHANGED erp) \/ UNCHANGED vars
  BY <1>1, <1>7 DEF Arrive, vars
<1>8. QED
  BY <1>1, <1>2, <1>3, <1>4, <1>5, <1>6, <1>7 DEF Next, Step

\* Only ConfirmSave ends a confirmation well, at the end of the list and with no
\* error collected.
LEMMA OkIsBooked ==
  ASSUME TypeOK, BookedSoFar, [Next]_vars, NEW p \in Operators,
         pc[p] = "confirm", pc'[p] = "ok"
  PROVE  /\ \A n \in DOMAIN asked[p] :
              /\ asked[p][n] \in items[batch[p]]
              /\ erp => <<batch[p], asked[p][n]>> \in booked
         /\ status'[batch[p]] = "confirmed"
<1> USE DEF TypeOK, Go
<1>1. ConfirmSave(p)
  BY DEF Next, Step, vars, request, LoadPendingInvoices, SaveDraft, SubmitGet, SubmitSend,
         SubmitSave, ConfirmGet, WriteBack, Advance, ConfirmSave, Crash, Arrive, Resting
<1>2. ~failed[p] /\ ~ResaveFails /\ Resave(batch[p], "confirmed") /\ ~Outstanding(p)
  BY <1>1 DEF ConfirmSave
<1>3. \A n \in DOMAIN asked[p] : n <= handled[p]
  BY <1>2, ListIsNumbered DEF Outstanding, Due
<1>4. \A n \in DOMAIN asked[p] : Settled(p, n)
  BY <1>2, <1>3 DEF BookedSoFar
<1>5. QED
  BY <1>2, <1>4, RepoAssumption DEF Settled, ResaveFails, Resave

\* ConfirmExecution returns no error only when every confirmation on its list is
\* of an invoice of the batch, bookkept wherever the service has an ERPWriter, and
\* the batch confirmed: however requests on it overlap, whatever the list repeats,
\* whatever fails, and whichever way a second Save goes.
THEOREM OkIsTrue == Spec => OkMeansBooked
<1>1. Init => BookedSoFar
  BY DEF Init, BookedSoFar
<1>2. TypeOK /\ BookedSoFar /\ [Next]_vars =>
        [\A p \in Operators : (pc[p] = "confirm" /\ pc'[p] = "ok") =>
           /\ \A n \in DOMAIN asked[p] :
                /\ asked[p][n] \in items[batch[p]]
                /\ erp => <<batch[p], asked[p][n]>> \in booked
           /\ status'[batch[p]] = "confirmed"]_vars
  BY OkIsBooked
<1>3. TypeOK /\ SentInv /\ BookedSoFar /\ [Next]_vars => BookedSoFar'
  BY BookedSoFarNext
<1>4. QED
  BY <1>1, <1>2, <1>3, InitTypeOK, NextTypeOK, SentInit, SentNext, PTL
  DEF Spec, OkMeansBooked

-----------------------------------------------------------------------------
(***************************************************************************)
(* The pipeline implements BatchPromise, whatever fails and overlaps and   *)
(* whatever a second Save does.                                            *)
(***************************************************************************)
\* A request that confirms a batch holds one that was submitted, or that
\* another request has confirmed since.
Confirming ==
  \A p \in Operators :
    pc[p] = "confirm" => status[batch[p]] \in {"submitted", "confirmed"}

Kept == TypeOK /\ SentInv /\ AsRead /\ Confirming

\* Every step preserves it: no status leads back to a draft.
LEMMA ConfirmingNext ==
  ASSUME TypeOK, Confirming, [Next]_vars
  PROVE  Confirming'
<1> USE DEF TypeOK, Confirming, Statuses, Go, Took, rows, fortnox, confirmation, request, history,
        Resting
<1>1. ASSUME NEW p \in Operators,
             LoadPendingInvoices(p) \/ SubmitSend(p) \/ WriteBack(p) \/ Crash(p)
      PROVE  Confirming'
  BY <1>1 DEF LoadPendingInvoices, SubmitSend, WriteBack, Advance, Crash
<1>2. ASSUME NEW p \in Operators, SaveDraft(p)
      PROVE  Confirming'
  <2>1. UNCHANGED status
        \/ \E b \in Batches : status[b] = "none"
                              /\ status' = [status EXCEPT ![b] = "draft"]
    BY <1>2 DEF SaveDraft
  <2>2. QED
    BY <1>2, <2>1 DEF SaveDraft
<1>3. ASSUME NEW p \in Operators, SubmitGet(p) \/ ConfirmGet(p)
      PROVE  Confirming'
  <2>1. PICK b \in Batches : Read(p, b) /\ (ConfirmGet(p) => status[b] = "submitted")
    BY <1>3 DEF SubmitGet, ConfirmGet
  <2>2. QED
    BY <1>3, <2>1 DEF SubmitGet, ConfirmGet, Read
<1>4. ASSUME NEW p \in Operators, SubmitSave(p) \/ ConfirmSave(p)
      PROVE  Confirming'
  BY <1>4 DEF SubmitSave, ConfirmSave, Resave
<1>5. CASE Arrive \/ UNCHANGED vars
  BY <1>5 DEF Arrive, vars
<1>6. QED
  BY <1>1, <1>2, <1>3, <1>4, <1>5 DEF Next, Step

\* Nothing is drafted, handed over or settled yet.
LEMMA PromiseInit == Init => Promise!PromiseInit
BY CapAssumption DEF Init, Promise!PromiseInit, Item

\* One more call of the bank for a batch that is drafted: the first hands it
\* over, the others change nothing that was promised.
LEMMA InitiatedHandsOver ==
  ASSUME TypeOK, SentInv, NEW b \in Batches, status[b] # "none", Initiated(b),
         UNCHANGED <<status, items, paid, overlapped>>
  PROVE  Promise!HandOver(b) \/ UNCHANGED Promise!promiseVars
<1> DEFINE handed == {c \in Batches : sent[c] > 0}
<1>1. Minimum(sent[b] + 1, Cap) \in 1..Cap
  BY MinimumBounds, CapAssumption DEF TypeOK
<1>2. handed' = handed \cup {b}
  BY <1>1, CapAssumption DEF Initiated, TypeOK
<1>3. {x \in Item : paid[x] > 0}' = {x \in Item : paid[x] > 0}
  OBVIOUS
<1>4. CASE status[b] = "draft"
  BY <1>2, <1>3, <1>4 DEF Promise!HandOver
<1>5. CASE status[b] # "draft"
  <2>1. b \in handed
    BY <1>5 DEF SentInv, TypeOK, Statuses
  <2>2. handed' = handed
    BY <1>2, <2>1
  <2>3. QED
    BY <1>3, <2>2 DEF Promise!promiseVars
<1>6. QED
  BY <1>4, <1>5

\* One more payment for an item of a batch that is confirmed.
LEMMA RecordedSettles ==
  ASSUME TypeOK, NEW b \in Batches, NEW i \in items[b], Recorded(<<b, i>>),
         sent[b] > 0, status[b] \in {"submitted", "confirmed"},
         UNCHANGED <<status, items, sent, overlapped>>
  PROVE  Promise!Settle(b)
<1> DEFINE settled == {x \in Item : paid[x] > 0}
<1>1. <<b, i>> \in Item
  BY DEF TypeOK, Item
<1>2. Minimum(paid[<<b, i>>] + 1, Cap) \in 1..Cap
  BY <1>1, MinimumBounds, CapAssumption DEF TypeOK
<1>3. settled' = settled \cup {<<b, i>>}
  BY <1>1, <1>2, CapAssumption DEF Recorded, TypeOK
<1>4. {c \in Batches : sent[c] > 0}' = {c \in Batches : sent[c] > 0}
  OBVIOUS
<1>5. QED
  BY <1>3, <1>4 DEF Promise!Settle

\* Every step of the pipeline is a step of the promise, or none.
LEMMA PromiseNext ==
  ASSUME Kept, [Next]_vars
  PROVE  [Promise!PromiseNext]_(Promise!promiseVars)
<1> DEFINE Stutters == UNCHANGED Promise!promiseVars
<1> USE DEF rows, fortnox, confirmation, request, history, Go, Took
<1>1. ASSUME UNCHANGED <<status, items, sent, paid, overlapped>>
      PROVE  Stutters
  BY <1>1 DEF Promise!promiseVars
<1>2. ASSUME NEW p \in Operators, LoadPendingInvoices(p)
      PROVE  Stutters
  BY <1>1, <1>2 DEF LoadPendingInvoices
<1>3. ASSUME NEW p \in Operators, SaveDraft(p)
      PROVE  Stutters \/ \E b \in Batches : Promise!Draft(b)
  <2>1. work[p] \in SUBSET Invoices
    BY DEF Kept, TypeOK
  <2>2. QED
    BY <1>1, <1>3, <2>1 DEF SaveDraft, Promise!Draft, Promise!Move
<1>4. ASSUME NEW p \in Operators, NEW b \in Batches, Read(p, b),
             status[b] \in {"draft", "submitted"}, UNCHANGED <<status, items, sent, paid>>
      PROVE  Stutters \/ Promise!Contend(b)
  BY <1>1, <1>4 DEF Read, Promise!Contend
<1>5. ASSUME NEW p \in Operators, SubmitGet(p) \/ ConfirmGet(p)
      PROVE  Stutters \/ \E b \in Batches : Promise!Contend(b)
  BY <1>4, <1>5 DEF SubmitGet, ConfirmGet
<1>6. ASSUME NEW p \in Operators, NEW b \in Batches, b = batch[p], pc[p] = "send",
             Initiated(b), UNCHANGED <<status, items, paid, overlapped>>
      PROVE  Stutters \/ Promise!HandOver(b)
  <2>1. status[b] # "none"
    BY <1>6 DEF Kept, SentInv
  <2>2. QED
    BY <1>6, <2>1, InitiatedHandsOver DEF Kept
<1>7. ASSUME NEW p \in Operators, SubmitSend(p)
      PROVE  Stutters \/ \E b \in Batches : Promise!HandOver(b)
  <2>1. PICK b \in Batches : b = batch[p]
    BY DEF Kept, TypeOK
  <2>2. pc[p] = "send" /\ UNCHANGED <<status, items, paid, overlapped>>
        /\ (Initiated(b) \/ UNCHANGED sent)
    BY <1>7, <2>1 DEF SubmitSend, Interrupted, Initiated
  <2>3. QED
    BY <1>1, <1>6, <2>1, <2>2
<1>8. ASSUME NEW p \in Operators, SubmitSave(p)
      PROVE  Stutters \/ \E b \in Batches : Promise!Submit(b) \/ Promise!FallBack(b)
  <2>1. PICK b \in Batches : b = batch[p]
    BY DEF Kept, TypeOK
  <2>2. /\ sent[b] > 0 /\ status[b] \in {"draft", "submitted", "confirmed"}
        /\ b \notin overlapped => status[b] = "draft"
    BY <1>8, <2>1 DEF Kept, TypeOK, Statuses, SentInv, AsRead, StillAsRead, SubmitSave
  <2>3. UNCHANGED <<items, sent, paid, overlapped>>
        /\ (UNCHANGED status \/ status' = [status EXCEPT ![b] = "submitted"])
    BY <1>8, <2>1 DEF SubmitSave, Resave, Interrupted
  <2>4. {c \in Batches : sent[c] > 0}' = {c \in Batches : sent[c] > 0}
        /\ {x \in Item : paid[x] > 0}' = {x \in Item : paid[x] > 0}
    BY <2>3
  <2>5. CASE UNCHANGED status \/ status[b] = "submitted"
    <3>1. UNCHANGED status
      BY <2>3, <2>5 DEF Kept, TypeOK
    <3>2. QED
      BY <1>1, <2>3, <3>1
  <2>6. CASE status' = [status EXCEPT ![b] = "submitted"] /\ status[b] = "draft"
    BY <2>2, <2>3, <2>4, <2>6 DEF Promise!Submit, Promise!Move
  <2>7. CASE status' = [status EXCEPT ![b] = "submitted"] /\ status[b] = "confirmed"
    BY <2>2, <2>3, <2>4, <2>7 DEF Promise!FallBack, Promise!Move
  <2>8. QED
    BY <2>2, <2>3, <2>5, <2>6, <2>7
<1>9. ASSUME NEW p \in Operators, ConfirmSave(p)
      PROVE  Stutters \/ \E b \in Batches : Promise!Confirm(b)
  <2>1. PICK b \in Batches : b = batch[p]
    BY DEF Kept, TypeOK
  <2>2. status[b] \in {"submitted", "confirmed"}
    BY <1>9, <2>1 DEF Kept, Confirming, ConfirmSave
  <2>3. UNCHANGED <<items, sent, paid, overlapped>>
        /\ (UNCHANGED status \/ status' = [status EXCEPT ![b] = "confirmed"])
    BY <1>9, <2>1 DEF ConfirmSave, Resave, Interrupted
  <2>4. {c \in Batches : sent[c] > 0}' = {c \in Batches : sent[c] > 0}
        /\ {x \in Item : paid[x] > 0}' = {x \in Item : paid[x] > 0}
    BY <2>3
  <2>5. CASE UNCHANGED status \/ status[b] = "confirmed"
    <3>1. UNCHANGED status
      BY <2>3, <2>5 DEF Kept, TypeOK
    <3>2. QED
      BY <1>1, <2>3, <3>1
  <2>6. CASE status' = [status EXCEPT ![b] = "confirmed"] /\ status[b] = "submitted"
    BY <2>2, <2>3, <2>4, <2>6 DEF Promise!Confirm, Promise!Move
  <2>7. QED
    BY <2>2, <2>3, <2>5, <2>6
<1>10. ASSUME NEW p \in Operators, NEW b \in Batches, b = batch[p], pc[p] = "confirm",
              NEW i \in items[b], Recorded(<<b, i>>),
              UNCHANGED <<status, items, sent, overlapped>>
       PROVE  Promise!Settle(b)
  <2>1. sent[b] > 0 /\ status[b] \in {"submitted", "confirmed"}
    BY <1>10 DEF Kept, SentInv, Confirming
  <2>2. QED
    BY <1>10, <2>1, RecordedSettles DEF Kept
<1>11. ASSUME NEW p \in Operators, WriteBack(p)
       PROVE  Stutters \/ \E b \in Batches : Promise!Settle(b)
  <2>1. PICK b \in Batches : b = batch[p]
    BY DEF Kept, TypeOK
  <2>2. pc[p] = "confirm" /\ UNCHANGED <<status, items, sent, overlapped>>
    BY <1>11 DEF WriteBack, Advance
  <2>3. UNCHANGED paid \/ \E i \in items[b] : Recorded(<<b, i>>)
    BY <1>11, <2>1 DEF WriteBack, RecordAndBookkeep, Recorded, DueItem
  <2>4. QED
    BY <1>1, <1>10, <2>1, <2>2, <2>3
<1>12. ASSUME NEW p \in Operators, Crash(p)
       PROVE  Stutters \/ \E b \in Batches : Promise!HandOver(b) \/ Promise!Settle(b)
  <2>1. PICK b \in Batches : b = batch[p]
    BY DEF Kept, TypeOK
  <2>2. UNCHANGED <<status, items, overlapped>>
    BY <1>12 DEF Crash, Interrupted
  <2>3. CASE UNCHANGED <<sent, paid>>
    BY <1>1, <2>2, <2>3
  <2>4. CASE pc[p] = "send" /\ Initiated(b) /\ UNCHANGED paid
    BY <1>6, <2>1, <2>2, <2>4
  <2>5. ASSUME pc[p] = "confirm", NEW i \in items[b],
               Recorded(<<b, i>>), UNCHANGED sent
        PROVE  Promise!Settle(b)
    BY <1>10, <2>1, <2>2, <2>5
  <2>6. QED
    BY <1>12, <2>1, <2>3, <2>4, <2>5 DEF Crash, Initiated, Recorded, DueItem
<1>13. CASE Arrive \/ UNCHANGED vars
  BY <1>1, <1>13 DEF Arrive, vars
<1>14. QED
  BY <1>2, <1>3, <1>5, <1>7, <1>8, <1>9, <1>11, <1>12, <1>13
  DEF Next, Step, Promise!PromiseNext

\* "The full payment batch lifecycle": whatever requests, failures and retries
\* do, the batches, the bank and Fortnox go through the promised steps only.
THEOREM Implements == Spec => KeepsThePromise
<1>1. Init => Kept /\ Promise!PromiseInit
  BY InitTypeOK, SentInit, AsReadInit, PromiseInit DEF Kept, Confirming, Init
<1>2. Kept /\ [Next]_vars => Kept'
  BY NextTypeOK, SentNext, AsReadNext, ConfirmingNext DEF Kept
<1>3. Kept /\ [Next]_vars => [Promise!PromiseNext]_(Promise!promiseVars)
  BY PromiseNext
<1>4. QED
  BY <1>1, <1>2, <1>3, PTL DEF Spec, KeepsThePromise, Promise!PromiseSpec
=============================================================================
