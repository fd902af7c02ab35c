---------------------------- MODULE BatchPromise ----------------------------
(***************************************************************************)
(* What the payment pipeline promises of each batch, with no request, copy *)
(* or failure in sight: it is drafted with its invoices, which no longer   *)
(* change, handed to the bank, submitted and confirmed in that order, and  *)
(* only invoices of a batch that was handed over are settled. A batch that *)
(* two requests held at once is the exception: its status may fall back.   *)
(***************************************************************************)
CONSTANTS Batches, Invoices

VARIABLES
  stage,     \* where each batch is
  contents,  \* its invoices
  handed,    \* the batches the bank was given
  settled,   \* the invoices Fortnox was told are paid, each by a batch
  contended  \* the batches two requests held at once

promiseVars == <<stage, contents, handed, settled, contended>>

PromiseInit ==
  /\ stage = [b \in Batches |-> "none"]
  /\ contents = [b \in Batches |-> {}]
  /\ handed = {} /\ settled = {} /\ contended = {}

Move(b, from, to) == stage[b] \in from /\ stage' = [stage EXCEPT ![b] = to]

Draft(b) ==
  /\ Move(b, {"none"}, "draft")
  /\ \E set \in SUBSET Invoices : contents' = [contents EXCEPT ![b] = set]
  /\ UNCHANGED <<handed, settled, contended>>

HandOver(b) ==
  /\ stage[b] = "draft" /\ handed' = handed \cup {b}
  /\ UNCHANGED <<stage, contents, settled, contended>>

Submit(b) ==
  /\ b \in handed /\ Move(b, {"draft"}, "submitted")
  /\ UNCHANGED <<contents, handed, settled, contended>>

Settle(b) ==
  /\ b \in handed /\ stage[b] \in {"submitted", "confirmed"}
  /\ \E i \in contents[b] : settled' = settled \cup {<<b, i>>}
  /\ UNCHANGED <<stage, contents, handed, contended>>

Confirm(b) ==
  /\ Move(b, {"submitted"}, "confirmed")
  /\ UNCHANGED <<contents, handed, settled, contended>>

Contend(b) ==
  /\ stage[b] \in {"draft", "submitted"} /\ contended' = contended \cup {b}
  /\ UNCHANGED <<stage, contents, handed, settled>>

\* A request saves the copy it read before another one confirmed the batch.
FallBack(b) ==
  /\ b \in contended /\ Move(b, {"confirmed"}, "submitted")
  /\ UNCHANGED <<contents, handed, settled, contended>>

PromiseNext ==
  \E b \in Batches :
    \/ Draft(b) \/ HandOver(b) \/ Submit(b) \/ Settle(b) \/ Confirm(b)
    \/ Contend(b) \/ FallBack(b)

PromiseSpec == PromiseInit /\ [][PromiseNext]_promiseVars
=============================================================================
