------------------------------ MODULE ReviewPost ------------------------------
(***************************************************************************)
(* cmd/pr-review with internal/review: the gate of one pull request. A run *)
(* has a model review the diff, grades the answer against the rubric,      *)
(* reads what people accepted, and keeps one comment up to date. A newer   *)
(* push cancels the run under way, wherever it is. As the workflow calls   *)
(* it: with the pull request and a token to post with.                     *)
(***************************************************************************)
EXTENDS Naturals, FiniteSets

CONSTANTS
  Rules,       \* the rule ids of the rubric
  Severity(_), \* and their severities, Info to Critical as 0..4
  Threshold,   \* -threshold
  Strange,     \* a rule id the rubric does not define
  MaxRuns      \* bound: pushes to the pull request

ASSUME ThresholdAssumption == Threshold \in 0..4 /\ \A r \in Rules : Severity(r) \in 0..4
ASSUME StrangeAssumption == Strange \notin Rules
ASSUME MaxRunsAssumption == MaxRuns \in Nat

Runs == 1..MaxRuns
NoAnswer == [list |-> FALSE, located |-> FALSE, found |-> {}]
Answers == [list : BOOLEAN, located : BOOLEAN, found : SUBSET (Rules \cup {Strange})]

VARIABLES
  pushed,    \* the runs begun: 1 to pushed
  stage,     \* each run: where it is,
  answer,    \*   what the model answered,
  granted,   \*   the acceptances it read,
  target,    \*   and the comment it found to edit, 0 for none
  accepting, \* the rules people's comments accept
  comments,  \* the reviewer's comments: the run each shows
  conceded,  \* history: rules that were accepted at some time
  overtaken  \* history: a run was cancelled with its comment on the way

reviewVars == <<pushed, stage, answer, granted, target, accepting, comments, conceded, overtaken>>

ReviewTypeOK ==
  /\ pushed \in 0..MaxRuns
  /\ stage \in [Runs -> {"none", "ask", "fetch", "list", "write", "late", "cancelled",
                         "green", "red"}]
  /\ answer \in [Runs -> Answers]
  /\ granted \in [Runs -> SUBSET Rules]
  /\ target \in [Runs -> 0..MaxRuns]
  /\ accepting \subseteq Rules /\ conceded \subseteq Rules
  /\ comments \in [Runs -> 0..MaxRuns]
  /\ overtaken \in BOOLEAN

\* comments[c] is the run that comment c shows, 0 while c is not posted; a
\* comment has the number of the run that posted it.
ReviewInit ==
  /\ pushed = 0
  /\ stage = [r \in Runs |-> "none"]
  /\ answer = [r \in Runs |-> NoAnswer]
  /\ granted = [r \in Runs |-> {}]
  /\ target = [r \in Runs |-> 0]
  /\ accepting = {} /\ conceded = {}
  /\ comments = [r \in Runs |-> 0]
  /\ overtaken = FALSE

(***************************************************************************)
(* internal/review                                                         *)
(***************************************************************************)
MutUnknownIgnored(a) == a.list
\* A list must be there, every finding have a rule of the rubric and a place.
Usable(a) == a.list /\ (a.found = {} \/ (a.located /\ a.found \subseteq Rules))
Blocking(a, accepted) == {r \in a.found \cap Rules : Severity(r) >= Threshold} \ accepted

(***************************************************************************)
(* The run                                                                 *)
(***************************************************************************)
Stage(r, to) == stage' = [stage EXCEPT ![r] = to]
Under(r) == stage[r] \in {"ask", "fetch", "list", "write"}

\* A push: the workflow cancels the run before it. What that one was about to
\* write may have left it already.
Push ==
  /\ pushed < MaxRuns
  /\ pushed' = pushed + 1
  /\ \E late \in SUBSET {r \in Runs : stage[r] = "write"} :
       /\ stage' = [r \in Runs |-> IF r = pushed + 1 THEN "ask"
                                   ELSE IF r \in late THEN "late"
                                   ELSE IF Under(r) THEN "cancelled" ELSE stage[r]]
       /\ overtaken' = (overtaken \/ late # {})
  /\ UNCHANGED <<answer, granted, target, accepting, comments, conceded>>

\* The model sees the first maxDiffBytes of the diff; of a longer one the comment
\* says so, and the verdict stands. An empty diff, a rubric that does not parse, a model that fails or whose
\* answer cannot be used: no review, and the gate is closed.
AskModel(r) ==
  /\ stage[r] = "ask"
  /\ \/ \E a \in Answers : /\ answer' = [answer EXCEPT ![r] = a]
                           /\ Stage(r, IF Usable(a) THEN "fetch" ELSE "red")
     \/ Stage(r, "red") /\ UNCHANGED answer
  /\ UNCHANGED <<pushed, granted, target, accepting, comments, conceded, overtaken>>

\* The reviewer's own comment and quoted lines accept nothing.
FetchComments(r) ==
  /\ stage[r] = "fetch"
  /\ \/ granted' = [granted EXCEPT ![r] = accepting] /\ Stage(r, "list")
     \/ Stage(r, "red") /\ UNCHANGED granted
  /\ UNCHANGED <<pushed, answer, target, accepting, comments, conceded, overtaken>>

Posted == {c \in Runs : comments[c] # 0}

MutAlwaysPosts(r) ==
  /\ stage[r] = "list"
  /\ target' = [target EXCEPT ![r] = 0] /\ Stage(r, "write")
  /\ UNCHANGED <<pushed, answer, granted, accepting, comments, conceded, overtaken>>

\* upsertComment: the first comment that carries the marker.
ListComments(r) ==
  /\ stage[r] = "list"
  /\ \/ /\ target' = [target EXCEPT ![r] =
             IF Posted = {} THEN 0 ELSE CHOOSE c \in Posted : \A d \in Posted : c <= d]
        /\ Stage(r, "write")
     \/ Stage(r, "red") /\ UNCHANGED target
  /\ UNCHANGED <<pushed, answer, granted, accepting, comments, conceded, overtaken>>

Written(r) ==
  comments' = [comments EXCEPT ![IF target[r] = 0 THEN r ELSE target[r]] = r]

\* PATCH or POST, then the exit status. A comment that cannot be posted is an
\* error: "a verdict nobody can read is not a gate".
WriteComment(r) ==
  /\ stage[r] = "write"
  /\ \/ Written(r) /\ Stage(r, IF Blocking(answer[r], granted[r]) = {} THEN "green" ELSE "red")
     \/ Stage(r, "red") /\ (Written(r) \/ UNCHANGED comments)
  /\ UNCHANGED <<pushed, answer, granted, target, accepting, conceded, overtaken>>

\* The request of a run that is no more reaches the server, or does not.
LateComment(r) ==
  /\ stage[r] = "late"
  /\ Stage(r, "cancelled")
  /\ Written(r) \/ UNCHANGED comments
  /\ UNCHANGED <<pushed, answer, granted, target, accepting, conceded, overtaken>>

\* People (external) accept a rule on the pull request, or take it back.
Accept(rule) ==
  /\ accepting' \in {accepting \cup {rule}, accepting \ {rule}} /\ accepting' # accepting
  /\ conceded' = conceded \cup accepting'
  /\ UNCHANGED <<pushed, stage, answer, granted, target, comments, overtaken>>

-----------------------------------------------------------------------------
ReviewNext ==
  \/ Push
  \/ \E r \in Runs : \/ AskModel(r) \/ FetchComments(r) \/ ListComments(r)
                     \/ WriteComment(r) \/ LateComment(r)
  \/ \E rule \in Rules : Accept(rule)

ReviewSpec == ReviewInit /\ [][ReviewNext]_reviewVars

-----------------------------------------------------------------------------
(***************************************************************************)
(* Properties                                                              *)
(***************************************************************************)

\* A run is green only with a review of the whole list: every finding names a
\* rule of the rubric, and whatever its severity makes blocking somebody had
\* accepted; it never argues its way past the gate through an answer that does
\* not parse, or through what an earlier run wrote.
GreenIsEarned ==
  \A r \in Runs : stage[r] = "green" =>
    /\ answer[r].list /\ answer[r].found \subseteq Rules
    /\ \A rule \in answer[r].found : Severity(rule) >= Threshold => rule \in conceded

\* "So the PR thread carries one verdict": one comment, and it shows the newest
\* run that posted, unless a cancelled run's comment arrived after all.
OneNewestVerdict ==
  overtaken \/
    /\ Cardinality(Posted) <= 1
    /\ \A c \in Posted, r \in Runs : stage[r] = "green" => comments[c] >= r
=============================================================================
