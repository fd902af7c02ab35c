-------------------------- MODULE ReceiptsCollector --------------------------
(***************************************************************************)
(* The receipts collector: a run goes through the mail accounts in order,  *)
(* forwards the mails its rules route to the bookkeeping inboxes and then  *)
(* marks them with a label. The owner forwards receipts by hand as well;   *)
(* the subjects in an account's Sent folder are the guard against sending  *)
(* those again.                                                            *)
(*                                                                         *)
(* A mail is routed or not (which rule and which destination is left out); *)
(* one the account sent itself is a mail that is not routed. A dry run     *)
(* changes nothing and is left out too.                                    *)
(***************************************************************************)
EXTENDS Naturals, FiniteSets

CONSTANTS
  Runs,         \* runs of the collector, which may overlap
  LastAccount,  \* the accounts are 1..LastAccount, in the order of the config
  Mails,        \* bound: the mails that ever arrive in the window
  AccountOf,    \* the account of each
  Routed,       \* those a rule has a destination for
  SubjectOf,    \* their subjects without Fwd: and Re:, which mails can share
  NoSubject,    \* the empty one
  NoId,         \* mails without a Message-ID
  RelayAccount, \* the account whose Sent folder keeps what the relay sends, or 0
  FetchBodies,  \* Scope.FetchBodies (FALSE in the program)
  Max,          \* Scope.Max: candidates an account may have
  Cap           \* bound: the count of forwards stops here

Accounts == 1..LastAccount
Subjects == {SubjectOf[m] : m \in Mails}

ASSUME AccountsAssumption == LastAccount \in Nat \ {0} /\ AccountOf \in [Mails -> Accounts]
ASSUME MailsAssumption == Routed \subseteq Mails /\ NoId \subseteq Mails /\ IsFiniteSet(Mails)
ASSUME RelayAssumption == RelayAccount \in 0..LastAccount
ASSUME BodiesAssumption == FetchBodies \in BOOLEAN
ASSUME BoundsAssumption == Max \in Nat \ {0} /\ Cap \in Nat \ {0, 1}

VARIABLES
  present,   \* the mails in the window
  hasLabel,  \* accounts on which the label exists as a mailbox
  label,     \* mails that carry it
  sent,      \* what Sent folders keep: an account, and a mail forwarded to a destination
  times,     \* how often the collector forwarded each mail
  hollow,    \* mails it forwarded without their contents
  pc,        \* each run: where it is,
  acct,      \*   the account it is at,
  collected, \*   the mails it knows are handled,
  guard,     \*   the subjects it knows are forwarded,
  work,      \*   the mails it still has to forward,
  delivered, \*   and those it did
  byHand,    \* history: mails the owner forwarded
  raced,     \* history: those of them that were forwarded while a run was under way
  unrecorded, \* history: mails forwarded and not marked, or with a mark not read
  shared     \* history: mails a run forwarded that another could not know of

mailbox == <<present, hasLabel, label, sent>>
books == <<times, hollow>>
run == <<pc, acct, collected, guard, work, delivered>>
history == <<byHand, raced, unrecorded, shared>>
vars == <<mailbox, books, run, history>>

\* A run is at one of the accounts, and everything it holds is mail or a subject.
TypeOK ==
  /\ present \subseteq Mails /\ label \subseteq Mails
  /\ hasLabel \subseteq Accounts
  /\ sent \subseteq Accounts \X Mails
  /\ times \in [Mails -> 0..Cap]
  /\ hollow \subseteq Mails
  /\ pc \in [Runs -> {"idle", "collected", "guard", "fetch", "deliver"}]
  /\ acct \in [Runs -> Accounts]
  /\ collected \in [Runs -> SUBSET Mails]
  /\ guard \in [Runs -> SUBSET Subjects]
  /\ work \in [Runs -> SUBSET Mails]
  /\ delivered \in [Runs -> SUBSET Mails]
  /\ byHand \subseteq Mails /\ raced \subseteq Mails
  /\ unrecorded \subseteq Mails /\ shared \subseteq Mails

Init ==
  /\ present = {} /\ label = {} /\ sent = {} /\ hollow = {}
  /\ hasLabel = {}
  /\ times = [m \in Mails |-> 0]
  /\ pc = [r \in Runs |-> "idle"]
  /\ acct = [r \in Runs |-> 1]
  /\ collected = [r \in Runs |-> {}]
  /\ guard = [r \in Runs |-> {}]
  /\ work = [r \in Runs |-> {}]
  /\ delivered = [r \in Runs |-> {}]
  /\ byHand = {} /\ raced = {} /\ unrecorded = {} /\ shared = {}

Go(r, to) == pc' = [pc EXCEPT ![r] = to]

\* What a run holds of an account is dropped with it.
Arrived(r, a) ==
  /\ acct' = [acct EXCEPT ![r] = a]
  /\ collected' = [collected EXCEPT ![r] = {}]
  /\ guard' = [guard EXCEPT ![r] = {}]
  /\ work' = [work EXCEPT ![r] = {}]
  /\ delivered' = [delivered EXCEPT ![r] = {}]

End(r) == Go(r, "idle") /\ Arrived(r, 1)

NextAccount(r) ==
  IF acct[r] < LastAccount
  THEN Go(r, "collected") /\ Arrived(r, acct[r] + 1)
  ELSE End(r)

\* All Mail holds what arrived and what was sent, which counts against the cap
\* though none of it is forwarded.
InAccount(a) == {m \in present : AccountOf[m] = a}
Sent(a) == {m \in Mails : <<a, m>> \in sent}
Candidates(a) == Cardinality(InAccount(a)) + Cardinality(Sent(a))

(***************************************************************************)
(* Run, processAccount                                                     *)
(***************************************************************************)
Begin(r) ==
  /\ pc[r] = "idle"
  /\ Go(r, "collected")
  /\ UNCHANGED <<mailbox, books, acct, collected, guard, work, delivered, history>>

\* The Message-IDs under the label. A label that is missing or cannot be read
\* counts as empty. What another run has forwarded and will mark is not there.
LoadCollected(r) ==
  /\ pc[r] = "collected"
  /\ LET marked == {m \in label : AccountOf[m] = acct[r]} IN
       \/ collected' = [collected EXCEPT ![r] = marked \ NoId] /\ UNCHANGED unrecorded
       \/ unrecorded' = unrecorded \cup marked /\ UNCHANGED collected
  /\ shared' = shared \cup {m \in InAccount(acct[r]) : \E q \in Runs : m \in delivered[q]}
  /\ Go(r, "guard")
  /\ UNCHANGED <<mailbox, books, acct, guard, work, delivered, byHand, raced>>

SentSubjects(a) == {SubjectOf[m] : m \in Sent(a)} \ {NoSubject}

MutGuardFailsOpen(r) ==
  /\ pc[r] = "guard"
  /\ \/ guard' = [guard EXCEPT ![r] = SentSubjects(acct[r])]
     \/ UNCHANGED guard
  /\ Go(r, "fetch")
  /\ UNCHANGED <<mailbox, books, acct, collected, work, delivered, history>>

LoadForwarded(r) ==
  /\ pc[r] = "guard"
  /\ guard' = [guard EXCEPT ![r] = SentSubjects(acct[r])]
  /\ Go(r, "fetch")
  /\ UNCHANGED <<mailbox, books, acct, collected, work, delivered, history>>

\* The candidates that are routed and neither collected nor forwarded by hand.
ToForward(r) ==
  {m \in InAccount(acct[r]) \ collected[r] : m \in Routed /\ SubjectOf[m] \notin guard[r]}

MutFetchCollected(r) ==
  /\ pc[r] = "fetch"
  /\ IF Candidates(acct[r]) > Max THEN End(r)
     ELSE /\ Go(r, "deliver")
          /\ work' = [work EXCEPT ![r] =
                        {m \in InAccount(acct[r]) : m \in Routed /\ SubjectOf[m] \notin guard[r]}]
          /\ UNCHANGED <<acct, collected, guard, delivered>>
  /\ UNCHANGED <<mailbox, books, history>>

MutCapReached(r) ==
  /\ pc[r] = "fetch"
  /\ IF Candidates(acct[r]) >= Max THEN End(r)
     ELSE /\ Go(r, "deliver")
          /\ work' = [work EXCEPT ![r] = ToForward(r)]
          /\ UNCHANGED <<acct, collected, guard, delivered>>
  /\ UNCHANGED <<mailbox, books, history>>

\* Over the cap is an error, which ends the run for all accounts that follow.
Fetch(r) ==
  /\ pc[r] = "fetch"
  /\ IF Candidates(acct[r]) > Max THEN End(r)
     ELSE /\ Go(r, "deliver")
          /\ work' = [work EXCEPT ![r] = ToForward(r)]
          /\ UNCHANGED <<acct, collected, guard, delivered>>
  /\ UNCHANGED <<mailbox, books, history>>

\* A forward leaves through the relay, which may keep a copy in a Sent folder.
\* It carries the body the search fetched.
Forward(m) ==
  /\ times' = [times EXCEPT ![m] = IF @ < Cap THEN @ + 1 ELSE @]
  /\ hollow' = IF FetchBodies THEN hollow ELSE hollow \cup {m}
  /\ sent' = IF RelayAccount = 0 THEN sent ELSE sent \cup {<<RelayAccount, m>>}

Done(r, m) ==
  /\ pc[r] = "deliver" /\ m \in work[r]
  /\ work' = [work EXCEPT ![r] = @ \ {m}]
  /\ UNCHANGED <<present, hasLabel, label, pc, acct, collected, guard, byHand, raced>>

\* A run that has read the label of an account and is not through with it.
PastLabel(q, a) == pc[q] \in {"guard", "fetch", "deliver"} /\ acct[q] = a

Deliver(r, m) ==
  /\ Done(r, m)
  /\ Forward(m)
  /\ delivered' = [delivered EXCEPT ![r] = @ \cup {m}]
  /\ shared' = IF \E q \in Runs \ {r} : PastLabel(q, AccountOf[m])
               THEN shared \cup {m} ELSE shared
  /\ UNCHANGED unrecorded

\* The error is collected and the mail left for the next run. The relay may
\* have taken it all the same.
DeliverFails(r, m) ==
  /\ Done(r, m)
  /\ \/ UNCHANGED <<books, sent, unrecorded>>
     \/ Forward(m) /\ unrecorded' = unrecorded \cup {m}
  /\ UNCHANGED <<delivered, shared>>

\* markCollected copies what was forwarded under the label, which nothing
\* creates; a failure is collected. Then the next account.
Mark(r) ==
  /\ pc[r] = "deliver" /\ work[r] = {}
  /\ \/ /\ delivered[r] # {} => acct[r] \in hasLabel
        /\ label' = label \cup delivered[r]
        /\ UNCHANGED unrecorded
     \/ /\ delivered[r] # {}
        /\ unrecorded' = unrecorded \cup delivered[r]
        /\ UNCHANGED label
  /\ NextAccount(r)
  /\ UNCHANGED <<present, hasLabel, sent, books, byHand, raced, shared>>

\* An account that cannot be read ends the run; so does a kill.
Fail(r) ==
  /\ pc[r] # "idle"
  /\ End(r)
  /\ unrecorded' = unrecorded \cup delivered[r]
  /\ UNCHANGED <<mailbox, books, byHand, raced, shared>>

(***************************************************************************)
(* The mail accounts and their owner                                       *)
(***************************************************************************)
Arrive ==
  /\ \E m \in Mails \ present : present' = present \cup {m}
  /\ UNCHANGED <<hasLabel, label, sent, books, run, history>>

MakeLabel ==
  /\ \E a \in Accounts \ hasLabel : hasLabel' = hasLabel \cup {a}
  /\ UNCHANGED <<present, label, sent, books, run, history>>

ForwardByHand ==
  /\ \E m \in present \ byHand :
       /\ byHand' = byHand \cup {m}
       /\ sent' = sent \cup {<<AccountOf[m], m>>}
       /\ raced' = IF \E r \in Runs : pc[r] # "idle" THEN raced \cup {m} ELSE raced
  /\ UNCHANGED <<present, hasLabel, label, books, run, unrecorded, shared>>

-----------------------------------------------------------------------------
Next ==
  \/ \E r \in Runs :
       \/ Begin(r) \/ LoadCollected(r) \/ LoadForwarded(r) \/ Fetch(r)
       \/ \E m \in Mails : Deliver(r, m) \/ DeliverFails(r, m)
       \/ Mark(r) \/ Fail(r)
  \/ Arrive \/ MakeLabel \/ ForwardByHand

Spec == Init /\ [][Next]_vars

\* The collector is run again and again, and it is not always the same step of
\* the same account, or the same mail, that fails.
At(r, a) == acct[r] = a

Fairness == \A r \in Runs :
  /\ WF_vars(Begin(r))
  /\ \A a \in Accounts :
       /\ SF_vars(At(r, a) /\ LoadCollected(r)) /\ SF_vars(At(r, a) /\ LoadForwarded(r))
       /\ SF_vars(At(r, a) /\ Fetch(r)) /\ SF_vars(At(r, a) /\ Mark(r))
  /\ \A m \in Mails : SF_vars(Deliver(r, m))

FairSpec == Spec /\ Fairness

-----------------------------------------------------------------------------
(***************************************************************************)
(* Properties                                                              *)
(***************************************************************************)

\* "Already-handled mail is excluded by its own marker": a mail with an ID is
\* forwarded once, unless a forward was not marked, its mark could not be read,
\* or another run was at its account between reading the label and marking.
ForwardedOnce ==
  \A m \in Mails \ (NoId \cup unrecorded \cup shared) : times[m] <= 1

\* "A receipt he already forwarded by hand must not be forwarded again", when
\* no run was under way and it has a subject, whatever fails and overlaps.
HandForwardKept ==
  [][\A m \in byHand \ raced : SubjectOf[m] # NoSubject => times'[m] = times[m]]_times

\* "An unmatched or failed-to-forward mail is never silently consumed".
MarkedWasForwarded == \A m \in label : times[m] > 0

\* A receipt the rules route is forwarded in the end, or a mail with its
\* subject was, unless an account is over the cap, which stops those after it.
ReachesTheBooks ==
  \A m \in Routed : m \in present ~>
    (times[m] > 0 \/ SubjectOf[m] \in SentSubjects(AccountOf[m]) \/ \E a \in Accounts : Candidates(a) > Max)

\* "Bodies are fetched afterwards for the handful that matched": a receipt is
\* forwarded with its contents.
ForwardsCarryTheMail == hollow = {}
=============================================================================
