----------------------------- MODULE MCBrowser -----------------------------
(***************************************************************************)
(* Finite instance of what runs in a browser: two tabs, two requests in    *)
(* flight, two of most things a page lists, and the figures over every     *)
(* short series.                                                           *)
(***************************************************************************)
EXTENDS Browser, TLC

CONSTANTS t1, t2, s1, s2

AllOf(S, lengths) == UNION {[1..n -> S] : n \in lengths}
ABC == {"a", "b", "c"}
-----------------------------------------------------------------------------
(* The pages *)

Indexed(id, type, href) == [id |-> id, type |-> type, href |-> href]
MCPaletteItem == <<Indexed("reports", "page", "/reports"), Indexed("builder", "page", "/builder"),
                   Indexed("port harcourt", "location", "")>>
MCScore == "" :> <<0, 0, 0>> @@ "re" :> <<440, 370, 0>> @@ "port" :> <<438, 377, 380>>
MCLabel == <<"Jan 1", "Jan 10">>
MCNear == [date \in {"Jan 1", "Jan 10", ""} |-> {"Jan 1", "Jan 10"}]

MCDefaultTypes == <<"chart", "kpi">>
MCSharedLink == {<< >>, <<[i |-> <<"kpi", 7>>, y |-> "placed"]>>}
MCDefaultForm == [frequency |-> "Weekly", recipients |-> <<"ops">>, metrics |-> <<"live">>]

Pooled(id, activity, signup, country, gists, days) ==
  [id |-> id, activity |-> activity, signup |-> signup, country |-> country,
   gists |-> gists, days |-> days]
MCUser == {Pooled(1, 0, 1, 1, 0, 3), Pooled(2, 3, 2, 44, 7, 0)}
MCChoosable == [activity |-> {0}, country |-> {44}, gistCount |-> {}, signupAfter |-> {2}]
MCLength == s1 :> 2 @@ s2 :> 3

MCAddress == [good |-> TRUE, bad |-> FALSE]
MCHook == [safe |-> TRUE, plain |-> FALSE]
MCColumn == [dimensions |-> {"Date"}, metrics |-> {"Count"}]
MCFirstColumns == [dimensions |-> <<"Date">>, metrics |-> <<"Count">>]
MCScenario == [moderate |-> 8, aggressive |-> 15]
MCKind == [e \in ABC |-> IF e = "c" THEN "k" ELSE "l"]
MCRelated == [e \in ABC |-> IF e = "a" THEN {"c"} ELSE {}]
MCListed == <<"a", "b", "c">>
MCPriority == [e \in ABC |-> IF e = "b" THEN 2 ELSE 1]
MCCredit == [linear |-> [a |-> 1, b |-> 1, c |-> 1], last |-> [a |-> 0, b |-> 0, c |-> 1],
             first |-> [a |-> 0, b |-> 2, c |-> 1]]

MCTable == {<< >>, <<1>>, <<1, 2, 3>>, [i \in 1..5 |-> i], [i \in 1..7 |-> i]}
Gist(category, engagement) == [category |-> category, engagement |-> engagement]
MCSamples == {<< >>, <<Gist("x", 1), Gist("y", 3), Gist("y", 2)>>, <<Gist("y", 2), Gist("x", 2)>>}

MCOption == <<[group |-> "g", disabled |-> FALSE], [group |-> "", disabled |-> TRUE],
              [group |-> "h", disabled |-> FALSE], [group |-> "g", disabled |-> FALSE]>>
MCFound == "" :> 1..4 @@ "x" :> {1, 2} @@ "y" :> {3} @@ "z" :> {}
SecondOff == <<FALSE, TRUE, FALSE>>
MCCommand == <<<<"a", "b">>, <<"b", "a", "b">>, <<"a">>>>
MCTyped == AllOf({"a", "b"}, 1..3)
MCRecent == <<2>>

Place(name, gists, growth) == [name |-> name, gists |-> gists, growth |-> growth]
MCLocation == {Place(1, 3, 2), Place(2, 2, 3), Place(3, 1, 1)}
MCTableSearch == {{}, {r \in MCLocation : r.gists = 2}, MCLocation}

MCFirstColumn == <<"Date">>
MCHeight == [tw |-> 628, li |-> 627]
MCSeverities == AllOf({"critical", "warning"}, 0..3)
MCEndpoint == <<"a", "b", "c">>
MCGrowth == [a |-> 100, b |-> 0, c |-> -5]

MCStart == [path |-> "/", theme |-> [stored |-> "none", system |-> FALSE], session |-> s1,
            count |-> 1, flag |-> [on |-> TRUE, rollout |-> 10], template |-> "tw",
            metric |-> "k", tab |-> 1, platform |-> "tw"]
-----------------------------------------------------------------------------
(* The figures *)

Touch(channel, at) == [channel |-> channel, at |-> at]
Scored(v, l, c, s, b, r) ==
  [views |-> v, likes |-> l, comments |-> c, shares |-> s, bookmarks |-> b, read |-> r]
At(lat, lng) == [lat |-> lat, lng |-> lng]
Level(actual, breaches) == [target |-> 9990, actual |-> actual, breaches |-> breaches]
Rule(is, bound) == [is |-> is, bound |-> bound]

MCSeries == AllOf(0..3, 0..4)
MCTouches == {s \in AllOf({Touch(c, at) : c \in {"a", "b"}, at \in 0..1}, 1..3) :
                \A i \in 1..Len(s) - 1 : s[i].at <= s[i + 1].at}
MCItems == AllOf({Scored(0, 0, 0, 0, 0, 0), Scored(1, 2, 3, 0, 0, 0),
                  Scored(3, 1, 2, 1, 0, 2), Scored(2, 3, 4, 0, 1, 2)}, 1..3)
MCPolygon == [1..3 -> {At(0, 0), At(4, 0), At(0, 3), At(4, 3), At(2, 4)}]
MCPoint == {At(lat, lng) : lat \in 1..3, lng \in 1..2}
MCTexts == {<<a, b>> : a, b \in AllOf({"love", "bug", "gist"}, 0..2)}
             \cup {<< >>, <<<<"love", "bug", "love", "is">>>>}
MCMultipliers == {<<100, 100>>, <<115, 90>>, <<105, 97>>}
MCCampaigns == [1..2 -> [signups : {0, 50}, spent : {0, 4, 7}, revenue : {0, 13, 90}]]
MCLevels == AllOf({Level(9989, 1), Level(9990, 0), Level(9994, 1)}, 1..5)
MCEndpoints == AllOf([requests : {50}, ms : {12, 45}, rate : {1, 100, 101, 230}], 1..2)
MCServices == AllOf([month : {9785, 10000}, quarter : {9890},
                     status : {"operational", "incident"}], 1..3)
MCTickets == {[opened |-> <<3, a>>, resolved |-> <<3, b>>] : a, b \in {0, 3, 5}}
MCAgents == AllOf([resolved : {2, 3}, tenths : {29, 58}], 1..3)
MCWeeks == {[this |-> <<a, b>>, last |-> <<c, d>>] : a, b, c, d \in {0, 1, 7, 100}}
MCFieldValue == [length : {1, 3, 9}, blank : BOOLEAN, email : {TRUE, FALSE}, url : {FALSE}]
MCRules == AllOf({Rule("required", 0), Rule("min", 3), Rule("max", 5), Rule("email", 0),
                  Rule("url", 0)}, 0..2)
MCResponses == AllOf([score : {6, 8, 9}, group : {"a", "b"}], 0..3)
MCChurn == {-10, 0, 5, 10, 50, 1000, 2000}
MCStages == AllOf({0, 3, 5, 10}, 1..3)
MCCountries == {<<[users |-> a, region |-> "x"], [users |-> b, region |-> "x"],
                  [users |-> c, region |-> "y"]>> : a, b, c \in {1, 2, 6, 40}}

Line(is, number, tokens, ends) ==
  [is |-> is, number |-> number, tokens |-> tokens, ends |-> ends]
MCDocument == AllOf({Line("header", 1, {}, FALSE), Line("header", 2, {}, FALSE),
                     Line("labels", 0, {"a"}, TRUE), Line("labels", 0, {"a"}, FALSE),
                     Line("text", 0, {"b"}, TRUE), Line("text", 0, {"c"}, FALSE)}, 0..4)
=============================================================================
