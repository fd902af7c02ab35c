----------------------- MODULE ReceiptsCollectorProofs -----------------------
(***************************************************************************)
(* Proofs about ReceiptsCollector, for any accounts, mails and runs: what  *)
(* is labelled was forwarded and a hand-forward is kept, whatever overlaps *)
(* and fails; and a mail whose mark was set and read is forwarded once, but *)
(* for one that two runs had in hand together.                             *)
(***************************************************************************)
EXTENDS ReceiptsCollector, TLAPS

USE AccountsAssumption, MailsAssumption, RelayAssumption, BodiesAssumption, BoundsAssumption

\* At the end of an account a run is at the next or has ended, and holds
\* nothing.
LEMMA LeavesAccount ==
  ASSUME TypeOK, NEW r \in Runs, NextAccount(r) \/ End(r)
  PROVE  \E a \in Accounts, to \in {"idle", "collected"} : Go(r, to) /\ Arrived(r, a)
<1>1. 1 \in Accounts
  BY DEF Accounts
<1>2. acct[r] < LastAccount => acct[r] + 1 \in Accounts
  BY DEF TypeOK, Accounts
<1>3. QED
  BY <1>1, <1>2 DEF NextAccount, End

\* A forward counts once more or reaches the cap, of one mail alone.
LEMMA ForwardCounts ==
  ASSUME TypeOK, NEW m \in Mails, Forward(m)
  PROVE  /\ times' \in [Mails -> 0..Cap]
         /\ times'[m] > 0 /\ times'[m] <= times[m] + 1
         /\ \A n \in Mails \ {m} : times'[n] = times[n]
<1>1. times[m] \in 0..Cap
  BY DEF TypeOK
<1>2. QED
  BY <1>1 DEF TypeOK, Forward

\* The collector starts with nothing.
LEMMA TypeInit == Init => TypeOK
<1> SUFFICES ASSUME Init
             PROVE  TypeOK
  OBVIOUS
<1>1. 1 \in Accounts /\ 0 \in 0..Cap
  BY DEF Accounts
<1>2. QED
  BY <1>1 DEF Init, TypeOK

\* Every step keeps the types.
LEMMA TypeNext == TypeOK /\ [Next]_vars => TypeOK'
<1> SUFFICES ASSUME TypeOK, [Next]_vars
             PROVE  TypeOK'
  OBVIOUS
<1> USE DEF TypeOK, mailbox, books, history
<1>1. ASSUME NEW r \in Runs, Begin(r)
      PROVE  TypeOK'
  BY <1>1 DEF Begin, Go
<1>2. ASSUME NEW r \in Runs, LoadCollected(r)
      PROVE  TypeOK'
  BY <1>2 DEF LoadCollected, Go
<1>3. ASSUME NEW r \in Runs, LoadForwarded(r)
      PROVE  TypeOK'
  <2>1. SentSubjects(acct[r]) \in SUBSET Subjects
    BY DEF SentSubjects, Sent, Subjects
  <2>2. QED
    BY <1>3, <2>1 DEF LoadForwarded, Go
<1>4. ASSUME NEW r \in Runs, Fetch(r)
      PROVE  TypeOK'
  <2>1. CASE End(r) /\ UNCHANGED <<mailbox, books, history>>
    <3>1. PICK a \in Accounts, to \in {"idle", "collected"} : Go(r, to) /\ Arrived(r, a)
      BY <2>1, LeavesAccount
    <3>2. QED
      BY <2>1, <3>1 DEF Go, Arrived
  <2>2. CASE /\ Go(r, "deliver")
             /\ work' = [work EXCEPT ![r] = ToForward(r)]
             /\ UNCHANGED <<acct, collected, guard, delivered>>
             /\ UNCHANGED <<mailbox, books, history>>
    BY <2>2 DEF Go, ToForward, InAccount
  <2>3. QED
    BY <1>4, <2>1, <2>2 DEF Fetch
<1>5. ASSUME NEW r \in Runs, NEW m \in Mails, Deliver(r, m) \/ DeliverFails(r, m)
      PROVE  TypeOK'
  <2>1. work' \in [Runs -> SUBSET Mails] /\ delivered' \in [Runs -> SUBSET Mails]
    BY <1>5 DEF Deliver, DeliverFails, Done
  <2>2. CASE Forward(m)
    <3>1. times' \in [Mails -> 0..Cap]
      BY <2>2, ForwardCounts
    <3>2. sent' \subseteq Accounts \X Mails
      BY <2>2 DEF Forward, Accounts
    <3>3. hollow' \subseteq Mails
      BY <2>2 DEF Forward
    <3>4. unrecorded' \subseteq Mails /\ shared' \subseteq Mails
      BY <1>5 DEF Deliver, DeliverFails
    <3>5. QED
      BY <1>5, <2>1, <3>1, <3>2, <3>3, <3>4 DEF Deliver, DeliverFails, Done
  <2>3. CASE UNCHANGED <<books, sent, unrecorded>>
    BY <1>5, <2>1, <2>3 DEF Deliver, DeliverFails, Done
  <2>4. QED
    BY <1>5, <2>2, <2>3 DEF Deliver, DeliverFails
<1>6. ASSUME NEW r \in Runs, Mark(r) \/ Fail(r)
      PROVE  TypeOK'
  <2>1. PICK a \in Accounts, to \in {"idle", "collected"} : Go(r, to) /\ Arrived(r, a)
    BY <1>6, LeavesAccount DEF Mark, Fail
  <2>2. label' \subseteq Mails /\ unrecorded' \subseteq Mails
    BY <1>6 DEF Mark, Fail
  <2>3. QED
    BY <1>6, <2>1, <2>2 DEF Mark, Fail, Go, Arrived
<1>7. CASE Arrive \/ MakeLabel \/ ForwardByHand
  BY <1>7 DEF Arrive, MakeLabel, ForwardByHand, run
<1>8. CASE UNCHANGED vars
  BY <1>8 DEF vars, run
<1>9. QED
  BY <1>1, <1>2, <1>3, <1>4, <1>5, <1>6, <1>7, <1>8 DEF Next

\* Every variable keeps its type, for any accounts, mails and runs.
THEOREM TypeCorrect == Spec => []TypeOK
BY TypeInit, TypeNext, PTL DEF Spec

-----------------------------------------------------------------------------
(***************************************************************************)
(* What a run is about to label has been forwarded.                        *)
(***************************************************************************)
MarkInv ==
  /\ \A m \in label : times[m] > 0
  /\ \A r \in Runs : \A m \in delivered[r] : times[m] > 0

\* A count never falls, and nothing joins what was delivered without one.
LEMMA MarkNext ==
  ASSUME TypeOK, MarkInv, [Next]_vars
  PROVE  MarkInv'
<1> USE DEF TypeOK, MarkInv, mailbox, books
<1>1. ASSUME NEW r \in Runs, Begin(r) \/ LoadCollected(r) \/ LoadForwarded(r)
      PROVE  MarkInv'
  BY <1>1 DEF Begin, LoadCollected, LoadForwarded
<1>2. ASSUME NEW r \in Runs, Fetch(r)
      PROVE  MarkInv'
  BY <1>2 DEF Fetch, End, Arrived
<1>3. ASSUME NEW r \in Runs, NEW m \in Mails, Deliver(r, m) \/ DeliverFails(r, m)
      PROVE  MarkInv'
  <2>1. CASE Forward(m)
    <3>1. \A n \in Mails : times[n] > 0 => times'[n] > 0
      BY <2>1, ForwardCounts
    <3>2. times'[m] > 0
      BY <2>1, ForwardCounts
    <3>3. QED
      BY <1>3, <3>1, <3>2 DEF Deliver, DeliverFails, Done
  <2>2. CASE UNCHANGED <<books, sent, unrecorded>> /\ UNCHANGED delivered
    BY <1>3, <2>2 DEF Deliver, DeliverFails, Done
  <2>3. QED
    BY <1>3, <2>1, <2>2 DEF Deliver, DeliverFails
<1>4. ASSUME NEW r \in Runs, Mark(r) \/ Fail(r)
      PROVE  MarkInv'
  <2>1. PICK a \in Accounts, to \in {"idle", "collected"} : Go(r, to) /\ Arrived(r, a)
    BY <1>4, LeavesAccount DEF Mark, Fail
  <2>2. label' \subseteq label \cup delivered[r] /\ times' = times
    BY <1>4 DEF Mark, Fail
  <2>3. QED
    BY <2>1, <2>2 DEF Arrived
<1>5. CASE Arrive \/ MakeLabel \/ ForwardByHand
  BY <1>5 DEF Arrive, MakeLabel, ForwardByHand, run
<1>6. CASE UNCHANGED vars
  BY <1>6 DEF vars, run
<1>7. QED
  BY <1>1, <1>2, <1>3, <1>4, <1>5, <1>6 DEF Next

\* Whatever overlaps, fails or is killed, a mail that carries the label has
\* been forwarded: none is consumed silently.
THEOREM LabelledForwarded == Spec => []MarkedWasForwarded
<1>1. Init => MarkInv
  BY DEF Init, MarkInv
<1>2. MarkInv => MarkedWasForwarded
  BY DEF MarkInv, MarkedWasForwarded
<1>3. QED
  BY <1>1, <1>2, TypeInit, TypeNext, MarkNext, PTL DEF Spec

-----------------------------------------------------------------------------
(***************************************************************************)
(* The guard against duplicates: a mail the owner forwarded while no run   *)
(* was under way is in the Sent folder every later run reads before it     *)
(* fetches, so no run holds it to be delivered.                            *)
(***************************************************************************)
Held ==
  \A r \in Runs :
    /\ pc[r] # "deliver" => work[r] = {} /\ delivered[r] = {}
    /\ \A m \in work[r] \cup delivered[r] : m \in InAccount(acct[r])

Guarded(m) ==
  /\ <<AccountOf[m], m>> \in sent
  /\ \A r \in Runs :
       /\ pc[r] = "fetch" /\ acct[r] = AccountOf[m] => SubjectOf[m] \in guard[r]
       /\ m \notin work[r]

HandInv == \A m \in byHand \ raced : SubjectOf[m] # NoSubject => Guarded(m)

\* A run holds mails of its account, and only while it delivers.
LEMMA HeldNext ==
  ASSUME TypeOK, Held, [Next]_vars
  PROVE  Held'
<1> USE DEF TypeOK, Held, InAccount, mailbox
<1>1. ASSUME NEW r \in Runs, Begin(r) \/ LoadCollected(r) \/ LoadForwarded(r)
      PROVE  Held'
  BY <1>1 DEF Begin, LoadCollected, LoadForwarded, Go
<1>2. ASSUME NEW r \in Runs, Fetch(r)
      PROVE  Held'
  BY <1>2 DEF Fetch, End, Arrived, Go, ToForward
<1>3. ASSUME NEW r \in Runs, NEW m \in Mails, Deliver(r, m) \/ DeliverFails(r, m)
      PROVE  Held'
  BY <1>3 DEF Deliver, DeliverFails, Done
<1>4. ASSUME NEW r \in Runs, Mark(r) \/ Fail(r)
      PROVE  Held'
  <2>1. PICK a \in Accounts, to \in {"idle", "collected"} : Go(r, to) /\ Arrived(r, a)
    BY <1>4, LeavesAccount DEF Mark, Fail
  <2>2. UNCHANGED present
    BY <1>4 DEF Mark, Fail
  <2>3. QED
    BY <2>1, <2>2 DEF Arrived, Go
<1>5. CASE Arrive \/ MakeLabel \/ ForwardByHand \/ UNCHANGED vars
  BY <1>5 DEF Arrive, MakeLabel, ForwardByHand, run, vars
<1>6. QED
  BY <1>1, <1>2, <1>3, <1>4, <1>5 DEF Next

\* Sent folders only grow, and a run reads them between two accounts' fetches.
LEMMA HandNext ==
  ASSUME TypeOK, Held, HandInv, [Next]_vars
  PROVE  HandInv'
<1> USE DEF TypeOK, HandInv, Guarded, mailbox, books, history
<1>1. ASSUME NEW r \in Runs, Begin(r) \/ LoadCollected(r)
      PROVE  HandInv'
  BY <1>1 DEF Begin, LoadCollected, Go
<1>2. ASSUME NEW r \in Runs, LoadForwarded(r)
      PROVE  HandInv'
  <2>1. \A m \in Mails :
          /\ <<AccountOf[m], m>> \in sent
          /\ acct[r] = AccountOf[m] /\ SubjectOf[m] # NoSubject
          => SubjectOf[m] \in SentSubjects(acct[r])
    BY DEF SentSubjects, Sent
  <2>2. QED
    BY <1>2, <2>1 DEF LoadForwarded, Go
<1>3. ASSUME NEW r \in Runs, Fetch(r)
      PROVE  HandInv'
  <2>1. \A m \in ToForward(r) : AccountOf[m] = acct[r] /\ SubjectOf[m] \notin guard[r]
    BY DEF ToForward, InAccount
  <2>2. QED
    BY <1>3, <2>1 DEF Fetch, End, Arrived, Go
<1>4. ASSUME NEW r \in Runs, NEW m \in Mails, Deliver(r, m) \/ DeliverFails(r, m)
      PROVE  HandInv'
  <2>1. sent \subseteq sent'
    BY <1>4 DEF Deliver, DeliverFails, Forward
  <2>2. QED
    BY <1>4, <2>1 DEF Deliver, DeliverFails, Done
<1>5. ASSUME NEW r \in Runs, Mark(r) \/ Fail(r)
      PROVE  HandInv'
  <2>1. PICK a \in Accounts, to \in {"idle", "collected"} : Go(r, to) /\ Arrived(r, a)
    BY <1>5, LeavesAccount DEF Mark, Fail
  <2>2. UNCHANGED <<sent, byHand, raced>>
    BY <1>5 DEF Mark, Fail
  <2>3. QED
    BY <2>1, <2>2 DEF Arrived, Go
<1>6. CASE ForwardByHand
  <2>1. PICK m \in present \ byHand :
          /\ byHand' = byHand \cup {m}
          /\ sent' = sent \cup {<<AccountOf[m], m>>}
          /\ raced' = IF \E r \in Runs : pc[r] # "idle" THEN raced \cup {m} ELSE raced
    BY <1>6 DEF ForwardByHand
  <2>2. \A n \in byHand \ raced : SubjectOf[n] # NoSubject => Guarded(n)'
    BY <1>6, <2>1 DEF ForwardByHand, run
  <2>3. m \notin raced' => Guarded(m)'
    <3>1. SUFFICES ASSUME m \notin raced'
                   PROVE  Guarded(m)'
      OBVIOUS
    <3>2. \A r \in Runs : pc[r] = "idle"
      BY <2>1, <3>1
    <3>3. QED
      BY <1>6, <2>1, <3>2 DEF ForwardByHand, run, Held
  <2>4. QED
    BY <2>1, <2>2, <2>3
<1>7. CASE Arrive \/ MakeLabel
  BY <1>7 DEF Arrive, MakeLabel, run
<1>8. CASE UNCHANGED vars
  BY <1>8 DEF vars, run
<1>9. QED
  BY <1>1, <1>2, <1>3, <1>4, <1>5, <1>6, <1>7, <1>8 DEF Next

\* Only a delivery counts, and none has a mail the owner forwarded.
LEMMA HandStep ==
  ASSUME TypeOK, HandInv, [Next]_vars
  PROVE  [\A m \in byHand \ raced : SubjectOf[m] # NoSubject => times'[m] = times[m]]_times
<1> USE DEF books
<1>1. ASSUME NEW r \in Runs, NEW m \in Mails, Deliver(r, m) \/ DeliverFails(r, m)
      PROVE  \A n \in byHand \ raced : SubjectOf[n] # NoSubject => times'[n] = times[n]
  <2>1. m \in work[r]
    BY <1>1 DEF Deliver, DeliverFails, Done
  <2>2. \A n \in byHand \ raced : SubjectOf[n] # NoSubject => n # m
    BY <2>1 DEF HandInv, Guarded
  <2>3. Forward(m) \/ times' = times
    BY <1>1 DEF Deliver, DeliverFails
  <2>4. \A n \in Mails \ {m} : times'[n] = times[n]
    BY <2>3, ForwardCounts
  <2>5. QED
    BY <2>2, <2>4 DEF TypeOK
<1>2. ASSUME NEW r \in Runs, Begin(r) \/ LoadCollected(r) \/ LoadForwarded(r) \/ Fetch(r)
                             \/ Mark(r) \/ Fail(r)
      PROVE  UNCHANGED times
  BY <1>2 DEF Begin, LoadCollected, LoadForwarded, Fetch, Mark, Fail
<1>3. CASE Arrive \/ MakeLabel \/ ForwardByHand \/ UNCHANGED vars
  BY <1>3 DEF Arrive, MakeLabel, ForwardByHand, vars
<1>4. QED
  BY <1>1, <1>2, <1>3 DEF Next

\* Whatever overlaps, fails or is killed, a receipt with a subject that the
\* owner forwarded between runs is not forwarded again.
THEOREM HandForwardsKept == Spec => HandForwardKept
<1>1. Init => Held /\ HandInv
  BY DEF Init, Held, HandInv
<1>2. QED
  BY <1>1, TypeInit, TypeNext, HeldNext, HandNext, HandStep, PTL DEF Spec, HandForwardKept

-----------------------------------------------------------------------------
(***************************************************************************)
(* Once each: a mail with an ID whose mark was set and read is under the   *)
(* label once forwarded, or about to be put there by the run that did it;  *)
(* and a run that has read the label since knows it.                       *)
(***************************************************************************)
Settled(m) ==
  /\ times[m] <= 1
  /\ times[m] > 0 => m \in label \/ \E r \in Runs : m \in delivered[r]
  /\ \A r \in Runs :
       /\ m \in work[r] => times[m] = 0
       /\ pc[r] \in {"guard", "fetch"} /\ acct[r] = AccountOf[m] /\ times[m] > 0
          => m \in collected[r]

Excused == NoId \cup unrecorded \cup shared

OnceInv == \A m \in Mails \ Excused : Settled(m)

\* What went unrecorded, or was in two runs' hands, did.
LEMMA HistoryNext ==
  ASSUME [Next]_vars
  PROVE  unrecorded \subseteq unrecorded' /\ shared \subseteq shared'
<1> USE DEF history
<1>1. ASSUME NEW r \in Runs, NEW m \in Mails, Deliver(r, m) \/ DeliverFails(r, m)
      PROVE  unrecorded \subseteq unrecorded' /\ shared \subseteq shared'
  BY <1>1 DEF Deliver, DeliverFails, Done
<1>2. ASSUME NEW r \in Runs, \/ Begin(r) \/ LoadCollected(r) \/ LoadForwarded(r)
                             \/ Fetch(r) \/ Mark(r) \/ Fail(r)
      PROVE  unrecorded \subseteq unrecorded' /\ shared \subseteq shared'
  BY <1>2 DEF Begin, LoadCollected, LoadForwarded, Fetch, Mark, Fail
<1>3. CASE Arrive \/ MakeLabel \/ ForwardByHand \/ UNCHANGED vars
  BY <1>3 DEF Arrive, MakeLabel, ForwardByHand, vars
<1>4. QED
  BY <1>1, <1>2, <1>3 DEF Next

\* A mail settled before a step is settled after it, or is excused by it.
LEMMA SettledNext ==
  ASSUME TypeOK, Held, [Next]_vars,
         NEW n \in Mails, n \notin NoId, n \notin unrecorded', n \notin shared', Settled(n)
  PROVE  Settled(n)'
<1> USE DEF TypeOK, Settled, mailbox, books, history
<1>1. ASSUME NEW r \in Runs, Begin(r)
      PROVE  Settled(n)'
  BY <1>1 DEF Begin, Go
<1>2. ASSUME NEW r \in Runs, LoadCollected(r)
      PROVE  Settled(n)'
  <2>1. acct[r] = AccountOf[n] => \A q \in Runs : n \notin delivered[q]
    BY <1>2 DEF LoadCollected, Held, InAccount
  <2>2. acct[r] = AccountOf[n] /\ times[n] > 0 => n \in label
    BY <2>1
  <2>3. acct[r] = AccountOf[n] /\ times[n] > 0 => n \in collected'[r]
    BY <1>2, <2>2 DEF LoadCollected
  <2>4. QED
    BY <1>2, <2>3 DEF LoadCollected, Go
<1>3. ASSUME NEW r \in Runs, LoadForwarded(r)
      PROVE  Settled(n)'
  BY <1>3 DEF LoadForwarded, Go
<1>4. ASSUME NEW r \in Runs, Fetch(r)
      PROVE  Settled(n)'
  <2>1. delivered[r] = {}
    BY <1>4 DEF Fetch, Held
  <2>2. n \in ToForward(r) => times[n] = 0
    <3>1. times[n] \in 0..Cap
      OBVIOUS
    <3>2. QED
      BY <1>4, <3>1 DEF ToForward, InAccount, Fetch
  <2>3. QED
    BY <1>4, <2>1, <2>2 DEF Fetch, End, Arrived, Go
<1>5. ASSUME NEW r \in Runs, NEW m \in Mails, Deliver(r, m) \/ DeliverFails(r, m)
      PROVE  Settled(n)'
  <2>1. UNCHANGED <<label, pc, acct, collected>>
    BY <1>5 DEF Deliver, DeliverFails, Done
  <2>2. \A q \in Runs : work'[q] \subseteq work[q] /\ delivered[q] \subseteq delivered'[q]
    BY <1>5 DEF Deliver, DeliverFails, Done
  <2>3. CASE n # m \/ UNCHANGED times
    <3>1. times'[n] = times[n]
      BY <1>5, <2>3, ForwardCounts DEF Deliver, DeliverFails
    <3>2. QED
      BY <2>1, <2>2, <3>1
  <2>4. CASE n = m /\ ~UNCHANGED times
    <3>1. Deliver(r, n) /\ pc[r] = "deliver" /\ n \in work[r]
      BY <1>5, <2>4 DEF Deliver, DeliverFails, Done
    <3>2. Forward(n) /\ n \in delivered'[r] /\ n \notin work'[r]
      BY <3>1 DEF Deliver, Done
    <3>3. times'[n] <= 1
      BY <3>1, <3>2, ForwardCounts
    <3>4. \A q \in Runs \ {r} : ~PastLabel(q, AccountOf[n])
      BY <3>1 DEF Deliver
    <3>5. ASSUME NEW q \in Runs, n \in work[q] PROVE q = r
      <4>1. pc[q] = "deliver" /\ acct[q] = AccountOf[n]
        BY <3>5 DEF Held, InAccount
      <4> QED
        BY <3>4, <4>1 DEF PastLabel
    <3>6. \A q \in Runs : n \notin work'[q]
      BY <2>2, <3>2, <3>5
    <3>7. \A q \in Runs : pc'[q] \in {"guard", "fetch"} => acct'[q] # AccountOf[n]
      BY <2>1, <3>1, <3>4 DEF PastLabel
    <3> QED
      BY <3>2, <3>3, <3>6, <3>7
  <2>5. QED
    BY <2>3, <2>4
<1>6. ASSUME NEW r \in Runs, Mark(r) \/ Fail(r)
      PROVE  Settled(n)'
  <2>1. PICK a \in Accounts, to \in {"idle", "collected"} : Go(r, to) /\ Arrived(r, a)
    BY <1>6, LeavesAccount DEF Mark, Fail
  <2>2. times' = times /\ label \subseteq label'
    BY <1>6 DEF Mark, Fail
  <2>3. n \in delivered[r] => n \in label'
    BY <1>6 DEF Mark, Fail
  <2>4. QED
    BY <2>1, <2>2, <2>3 DEF Arrived, Go
<1>7. CASE Arrive \/ MakeLabel \/ ForwardByHand
  BY <1>7 DEF Arrive, MakeLabel, ForwardByHand, run
<1>8. CASE UNCHANGED vars
  BY <1>8 DEF vars, run
<1>9. QED
  BY <1>1, <1>2, <1>3, <1>4, <1>5, <1>6, <1>7, <1>8 DEF Next

\* The invariant behind ForwardedOnce.
LEMMA OnceNext ==
  ASSUME TypeOK, Held, OnceInv, [Next]_vars
  PROVE  OnceInv'
<1> SUFFICES ASSUME NEW m \in Mails, m \notin Excused'
             PROVE  Settled(m)'
  BY DEF OnceInv
<1>1. m \notin Excused /\ m \notin NoId /\ m \notin unrecorded' /\ m \notin shared'
  BY HistoryNext DEF Excused
<1>2. QED
  BY <1>1, SettledNext DEF OnceInv

\* However many runs there are at once, a mail with an ID is forwarded once,
\* unless a forward of it was not marked, its mark could not be read, or another
\* run was at its account, past the label, when it was forwarded.
THEOREM OnceEach == Spec => []ForwardedOnce
<1>1. Init => Held /\ OnceInv
  BY DEF Init, Held, OnceInv, Settled
<1>2. OnceInv => ForwardedOnce
  BY DEF OnceInv, Excused, Settled, ForwardedOnce
<1>3. QED
  BY <1>1, <1>2, TypeInit, TypeNext, HeldNext, OnceNext, PTL DEF Spec
=============================================================================
