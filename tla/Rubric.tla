--------------------------------- MODULE Rubric ---------------------------------
(***************************************************************************)
(* The grading of one answer against the expected points of its question   *)
(* (rubric_grading.py, and _grade_checklist of evaluation_engine.py).      *)
(*                                                                         *)
(* The grader, a language model, is asked CHECKLIST_VOTES times for one    *)
(* label and one quote per expected point.  The code keeps a label only    *)
(* when its quote occurs in the answer, takes the median label of each     *)
(* point, and computes the score; the model never gives the number.        *)
(*                                                                         *)
(*   Points     the expected points, in order: [importance, negated]       *)
(*   Quotes     the passages a grader may quote                            *)
(*   Verbatim   those that occur in the answer and have two words or more  *)
(*   Negations  those that contain a negation                              *)
(*                                                                         *)
(* Scores are integers, in tenths of a point: 90 stands for 9.0.           *)
(***************************************************************************)
EXTENDS Integers, FiniteSets, Sequences, FiniteSetsExt

CONSTANTS Points, Quotes, Verbatim, Negations, NoQuote

ASSUME PointsAssumption ==
    /\ Points \in Seq([importance : {"CORE", "BONUS"}, negated : BOOLEAN])
    /\ Points # <<>>

ASSUME QuotesAssumption ==
    /\ Verbatim \subseteq Quotes /\ Negations \subseteq Quotes
    /\ NoQuote \notin Quotes

-----------------------------------------------------------------------------

ChecklistVotes == 3

Statuses == {"COVERED", "PARTIAL", "INCORRECT", "MISSING"}

(* What a vote says of one point; a point it leaves out is UNLABELLED.      *)
Labels == [status : Statuses \cup {"UNLABELLED"}, quote : Quotes \cup {NoQuote}]

Votes == [DOMAIN Points -> Labels]

Verdicts == [status : Statuses, quote : Quotes \cup {NoQuote}]

Core == {i \in DOMAIN Points : Points[i].importance = "CORE"}

-----------------------------------------------------------------------------
(* Checking one vote: validate_checklist.                                   *)

(* ChecklistOutputError otherwise: less than half of the points labelled.   *)
Usable(vote) ==
    2 * Cardinality({i \in DOMAIN Points : vote[i].status # "UNLABELLED"}) >= Len(Points)

(* Variant: the quote is not looked up in the answer.                       *)
GroundedInAnyQuote(label) ==
    IF label.status = "UNLABELLED" \/ label.quote = NoQuote THEN "MISSING" ELSE label.status

(* The label, unless nothing in the answer stands behind it.                *)
Grounded(label) ==
    IF label.status = "UNLABELLED" \/ label.quote \notin Verbatim
    THEN "MISSING"
    ELSE label.status

(* The quotes that cover a core point before the i-th.                      *)
Credited(vote, i) ==
    {vote[j].quote : j \in {k \in Core : k < i /\ Grounded(vote[k]) = "COVERED"}}

Doubtful(vote, i) ==
    \/ vote[i].quote \in Negations /\ ~ Points[i].negated
    \/ i \in Core /\ vote[i].quote \in Credited(vote, i)

Status(vote, i) ==
    IF Grounded(vote[i]) = "COVERED" /\ Doubtful(vote, i) THEN "PARTIAL" ELSE Grounded(vote[i])

Validate(vote) ==
    [i \in DOMAIN Points |->
        [status |-> Status(vote, i),
         quote  |-> IF Status(vote, i) = "MISSING" THEN NoQuote ELSE vote[i].quote]]

-----------------------------------------------------------------------------
(* Combining the votes: majority_verdicts.                                  *)

Rank == [INCORRECT |-> 0, MISSING |-> 1, PARTIAL |-> 2, COVERED |-> 3]

(* The place of vote k when a stable sort orders the labels of one point.   *)
Place(labels, k) ==
    Cardinality({j \in DOMAIN labels :
        \/ Rank[labels[j].status] < Rank[labels[k].status]
        \/ Rank[labels[j].status] = Rank[labels[k].status] /\ j < k})

(* The label in the middle, the lower one of two.                           *)
Median(labels) ==
    labels[CHOOSE k \in DOMAIN labels : Place(labels, k) = (Cardinality(DOMAIN labels) - 1) \div 2]

MajorityVerdicts(checked) ==
    [i \in DOMAIN Points |-> Median([k \in DOMAIN checked |-> checked[k][i]])]

Judge(votes) == MajorityVerdicts([k \in DOMAIN votes |-> Validate(votes[k])])

-----------------------------------------------------------------------------
(* The number: checklist_score, and round, which rounds half to even.       *)

RoundDiv(a, b) ==
    LET q == a \div b
        r == a % b
    IN  IF 2 * r > b \/ (2 * r = b /\ q % 2 = 1) THEN q + 1 ELSE q

Clip(n) == IF n < 0 THEN 0 ELSE IF n > 100 THEN 100 ELSE n

(* The sum of the values of a function.                                     *)
Total(f) == MapThenSumSet(LAMBDA x : f[x], DOMAIN f)

(* Twice the credit of a label.                                             *)
HalfCredit == [COVERED |-> 2, PARTIAL |-> 1, INCORRECT |-> 0, MISSING |-> 0]

Earned(verdicts, S) == Total([i \in S |-> HalfCredit[verdicts[i].status]])

Wrong(verdicts) == {i \in DOMAIN Points : verdicts[i].status = "INCORRECT"}

(* Core points carry 9 of the 10 points when there are bonus points.        *)
ChecklistScore(verdicts) ==
    LET core  == IF Core = {} THEN DOMAIN Points ELSE Core
        bonus == DOMAIN Points \ core
        n == Cardinality(core)
        m == Cardinality(bonus)
    IN  Clip(IF bonus = {}
             THEN RoundDiv(100 * Earned(verdicts, core) - 20 * n * Cardinality(Wrong(verdicts)),
                           2 * n)
             ELSE RoundDiv(90 * m * Earned(verdicts, core) + 10 * n * Earned(verdicts, bonus)
                               - 20 * n * m * Cardinality(Wrong(verdicts)),
                           2 * n * m))
=============================================================================
