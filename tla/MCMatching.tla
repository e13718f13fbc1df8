------------------------------ MODULE MCMatching ------------------------------
(* Every kind of requirement against the CVs that its evaluator tells       *)
(* apart, alone or beside another requirement.                              *)
EXTENDS Matching

CV(claims, passages, timeline, complete, alias, quote) ==
    [claims |-> claims, passages |-> passages, timeline |-> timeline,
     complete |-> complete, alias |-> alias, quote |-> quote]

Req(kind, op, priority, min) == [kind |-> kind, op |-> op, priority |-> priority, min |-> min]

AClaim(cited, level, months, confidence) ==
    [from |-> "document", cited |-> cited, level |-> level, months |-> months,
     confidence |-> confidence]

Text(says, about) == [from |-> "document", says |-> says, about |-> about]

Claimed == {<<>>, <<AClaim(FALSE, 0, -1, 18)>>, <<AClaim(TRUE, 0, -1, 18)>>,
            <<AClaim(TRUE, 1, 1, 18)>>, <<AClaim(TRUE, 3, 3, 15)>>}

Texts == {<<>>, <<Text("weak", 1)>>, <<Text("weak", 1), Text("weak", 2)>>,
          <<Text("above", 1)>>, <<Text("below", 1)>>, <<Text("below", 1), Text("above", 2)>>}

(* Complete, or with a passage the search can find.                         *)
Finds == {<<TRUE, FALSE, "none">>, <<FALSE, FALSE, "none">>, <<FALSE, TRUE, "none">>,
          <<FALSE, FALSE, "above">>, <<FALSE, FALSE, "weak">>}

FewFinds == {<<TRUE, FALSE, "none">>, <<FALSE, FALSE, "above">>}

Job(a, b, c, d) == [dated |-> TRUE, from |-> <<a, b>>, to |-> <<c, d>>]

Undated == [dated |-> FALSE, from |-> <<1, 1>>, to |-> <<1, 1>>]

Timelines == {<<>>, <<Undated>>, <<Job(1, 1, 1, 1)>>, <<Job(1, 1, 3, 3)>>, <<Job(1, 3, 2, 4)>>,
              <<Job(1, 2, 2, 4)>>, <<Job(1, 1, 2, 2), Job(2, 2, 3, 3)>>,
              <<Job(1, 2, 2, 2), Undated>>, <<Job(1, 1, 2, 3), Job(3, 4, 4, 4)>>}

Skills(priorities, finds) ==
    {[req |-> Req("skill", op, p, IF op = "required" THEN 0 ELSE 2),
      cv |-> CV(cl, <<>>, <<>>, f[1], f[2], f[3])] :
        op \in {"required", "proficiency_gte", "gte"}, p \in priorities,
        cl \in Claimed, f \in finds}

Languages(priorities, finds) ==
    {[req |-> Req("language", op, p, IF op = "required" THEN 0 ELSE 2),
      cv |-> CV(cl, <<>>, <<>>, f[1], f[2], f[3])] :
        op \in {"required", "equal"}, p \in priorities,
        cl \in Claimed \cup {<<AClaim(TRUE, 2, -1, 18)>>}, f \in finds}

Experience(priorities) ==
    {[req |-> Req("unresolved", "experience_duration", p, m),
      cv |-> CV(<<>>, <<>>, t, TRUE, FALSE, "none")] :
        p \in priorities, m \in 1..3, t \in Timelines}

Others(priorities, finds) ==
    {[req |-> Req("unresolved", op, p, 0), cv |-> CV(<<>>, x, <<>>, f[1], f[2], f[3])] :
        op \in {"gpa", "language_credential", "education_degree", "education_status", "all_of",
                "any_of", "programming_foundation", "research_or_competition", "ai_activity",
                "generic_requirement"},
        p \in priorities, x \in Texts, f \in finds}

Every(priorities, finds) ==
    Skills(priorities, finds) \cup Languages(priorities, finds) \cup Experience(priorities) \cup Others(priorities, finds)

(* A must-have that is met, and one the CV says nothing of.                 *)
Companions ==
    {[req |-> Req("skill", "required", "must_have", 0),
      cv |-> CV(<<AClaim(TRUE, 0, -1, 18)>>, <<>>, <<>>, TRUE, FALSE, "none")],
     [req |-> Req("skill", "gte", "must_have", 2), cv |-> CV(<<>>, <<>>, <<>>, TRUE, FALSE, "none")]}

OneOrTwo ==
    {<<c>> : c \in Every({"must_have", "nice_to_have"}, Finds)}
        \cup {<<c, d>> : c \in Every({"must_have"}, FewFinds), d \in Companions}

BothPolicies == {[strict |-> TRUE, review |-> TRUE, weights |-> "balanced"],
                 [strict |-> TRUE, review |-> FALSE, weights |-> "experience"]}

(* Nothing of the texts tells against the candidate.                        *)
FullSemantic == {[scored |-> TRUE, score |-> 10]}

=============================================================================
