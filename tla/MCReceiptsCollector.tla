------------------------- MODULE MCReceiptsCollector -------------------------
(***************************************************************************)
(* Instances of ReceiptsCollector: a receipt in each of two accounts, both *)
(* with one subject and the second without an ID; or one receipt alone.    *)
(***************************************************************************)
EXTENDS ReceiptsCollector

CONSTANTS r1, m1, m2, s1

OneRun == {r1}
OneMail == {m1}
TwoMails == {m1, m2}
Places == [m \in Mails |-> IF m = m1 THEN 1 ELSE 2]
OneTopic == [m \in Mails |-> s1]
Unnamed == {m2}
None == {}
=============================================================================
