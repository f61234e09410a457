------------------------------- MODULE MCEngine -------------------------------
(***************************************************************************)
(* The inputs of the parts of the engine in the instance that is checked.       *)
(***************************************************************************)
EXTENDS Engine, TLC

(* Questions: four ways to be configured, three requests, every depth, backend of *)
(* the web and planner; paraphrases are asked for of a concept.                *)
MCPlan(intent, subs) == [kind |-> "plan", intent |-> intent, subs |-> subs]
MCSub(sources, queries) == [sources |-> sources, queries |-> queries]
MCNoPlan == {[kind |-> "none"], [kind |-> "error"], [kind |-> "odd"]}
MCPlans ==
    {MCPlan("concept", <<>>),
     MCPlan("how_to", <<MCSub({"x"}, FALSE), MCSub({}, TRUE)>>),
     MCPlan("factual", <<MCSub({"polymarket", "hackernews"}, TRUE), MCSub({"corpus", "x"}, TRUE)>>)}
MCQuestions ==
    {q \in [configured : {{}, {"x", "polymarket", "youtube", "grounding"}, {"hackernews", "x"},
                          {"polymarket"}},
            corpus : BOOLEAN, requested : {{}, {"x", "polymarket"}, {"hackernews"}},
            intent : {"how_to", "comparison", "prediction", "breaking_news", "concept", "product"},
            entities : {0, 2}, paraphrased : BOOLEAN, hebrew : BOOLEAN, company : BOOLEAN,
            hiring : BOOLEAN, depth : {"quick", "default"}, web : {"none", "auto", "brave"},
            external : BOOLEAN, answer : MCNoPlan \cup MCPlans] :
        /\ (q.entities = 2) = (q.intent = "comparison")
        /\ q.hebrew \/ q.paraphrased => q.intent = "concept"
        /\ ~(q.company /\ q.hiring)
        /\ q.external => q.answer.kind # "none"}

-----------------------------------------------------------------------------
(* Pairs of sources to fuse, candidates to rerank, sources to cluster.            *)
MCPairings == {<<"x", "reddit">>, <<"x", "corpus">>}
MCKind(author, addresses, x, text, local, engagement) ==
    [author |-> author, addresses |-> addresses, x |-> x, text |-> text, local |-> local,
     other |-> 5, engagement |-> engagement]
MCKinds ==
    {MCKind("subject", TRUE, TRUE, "silent", 10, 0),
     MCKind("subject", FALSE, TRUE, "silent", 10, 20),
     MCKind("other", FALSE, TRUE, "silent", 60, 20),
     MCKind("other", FALSE, TRUE, "names", 10, 20),
     MCKind("other", FALSE, FALSE, "none", 60, 0)}
MCX == {"x"}
MCBets == {"polymarket"}
MCPatterns == {<<MCX, {"reddit"}, MCX, {"x", "reddit"}>>, <<{"jobs"}, {"jobs"}, MCBets, MCBets>>}

-----------------------------------------------------------------------------
(* Evidence of a discovery; reports, and what their sources say at a moment.       *)
MCEvidence == {[sources |-> 1, total |-> 0, velocity |-> 1],
               [sources |-> 2, total |-> 1, velocity |-> 1],
               [sources |-> 1, total |-> 2, velocity |-> 3]}

MCItem(source, id, ref, slug, pairs, end, says, time) ==
    [source |-> source, id |-> id, ref |-> ref, slug |-> slug, pairs |-> pairs, end |-> end,
     says |-> says, time |-> time]
MCEvent(ref, id, pairs, end) == MCItem("polymarket", id, ref, "s", pairs, end, <<>>, 1)
MCRepo(ref, stars) == MCItem("github", "g", ref, "", stars, 0, <<>>, 1)
MCSaid(id, status, time) == MCItem("x", id, "", "", <<>>, 0, <<"shop", status>>, time)
MCOn(item) == [item |-> item, stars |-> <<>>]
MCEvents == {MCOn(MCEvent("e", "", <<<<"A", 60>>, <<"b", 40>>>>, 9)),
             MCOn(MCEvent("e", "", <<<<"a", 60>>, <<"A", 40>>>>, 0))}
MCSecond == MCOn(MCEvent("f", "", <<<<"a", 10>>>>, 0))
MCBySlug == MCOn(MCEvent("", "e", <<<<"b", 40>>>>, 0))
MCNameless == MCOn(MCEvent("", "", <<<<"b", 40>>>>, 0))
MCRepos == {MCOn(MCRepo("R", <<<<"stars", 60>>>>)),
            [item |-> MCRepo("r", <<>>), stars |-> <<<<"R", 60>>, <<"q", 40>>>>],
            [item |-> MCSaid("p", "open", 1), stars |-> <<<<"r", 60>>>>]}
MCStream == MCOn(MCItem("stocktwits", "t", "T", "", <<<<"pct_bullish", 60>>>>, 0, <<>>, 1))
MCPairs == {<<c, d>> : c \in MCEvents, d \in MCEvents \cup {MCSecond}}
           \cup {<<MCBySlug, MCBySlug>>, <<MCNameless, MCSecond>>, <<MCStream, MCStream>>}
           \cup {<<c, d>> : c, d \in MCRepos}
MCReport(candidates, elsewhere, usable) ==
    [candidates |-> candidates, elsewhere |-> elsewhere, usable |-> usable]
MCAll == {"polymarket", "github", "stocktwits"}
MCElsewhere == {{}, {MCSaid("q", "closed", 2)}, {MCSaid("q", "closed", 0)}}
MCReports == {<<MCReport(c, e, u)>> : c \in MCPairs, e \in MCElsewhere, u \in {{}, MCAll}}
             \cup {<<MCReport(<<c>>, {}, MCAll), MCReport(<<d>>, {}, MCAll)>> :
                      c \in MCEvents \cup MCRepos, d \in {MCBySlug, MCOn(MCRepo("r", <<<<"stars", 40>>>>))}}
MCMarket(question, open, liquid, a, x, b, y) ==
    [question |-> question, open |-> open, liquid |-> liquid, end |-> 9,
     pairs |-> <<<<a, x>>, <<b, y>>>>]
MCMarkets == {<<MCMarket("a", TRUE, TRUE, "A", 60, "b", 40)>>,
              <<MCMarket("a", TRUE, TRUE, "A", 40, "b", 60), MCMarket("b", TRUE, TRUE, "A", 60, "b", 40)>>,
              <<MCMarket("a", TRUE, TRUE, "yes", 60, "no", 40), MCMarket("b", TRUE, TRUE, "yes", 0, "no", 40)>>,
              <<MCMarket("a", FALSE, FALSE, "a", 60, "A", 40)>>,
              <<MCMarket("a", TRUE, FALSE, "a", 60, "b", 40)>>}
MCGamma(id, open, markets) == [id |-> id, slug |-> "s", open |-> open, markets |-> markets]
MCOther == MCGamma("f", TRUE, <<MCMarket("a", TRUE, TRUE, "A", 10, "b", 90)>>)
MCCounters(r, n) == (<<"github", <<"ref", "r">>>> :> r) @@ (<<"stocktwits", <<"ref", "t">>>> :> n)
MCMoments ==
    {[events |-> {MCGamma("e", TRUE, m), MCOther}, counters |-> MCCounters(60, 60)] :
        m \in MCMarkets}
    \cup {[events |-> {}, counters |-> <<>>],
          [events |-> {MCOther}, counters |-> MCCounters(40, 40)],
          [events |-> {MCGamma("e", FALSE, <<MCMarket("a", TRUE, TRUE, "A", 60, "b", 40)>>)},
           counters |-> MCCounters(60, 40)]}
MCLower == [A |-> "a", R |-> "r", T |-> "t"]

-----------------------------------------------------------------------------
(* The layers of the settings; the files and cookies a setup starts from.          *)
MCTrust == "LAST30DAYS_TRUST_PROJECT_CONFIG"
MCToken == {"AUTH_TOKEN", "CT0"}
MCJars == {[chrome |-> c, firefox |-> f, safari |-> {}] @@ ("firefox-wsl" :> {}) :
           c \in {{}, MCToken}, f \in {{}, {"AUTH_TOKEN"}, MCToken}}
MCContents ==
    [process |-> {{}, {MCTrust}, {"FROM_BROWSER"}},
     project |-> {{}, MCToken, {"LAST30DAYS_X_BACKEND", MCTrust}},
     user |-> {{}, {"AUTH_TOKEN"}, {MCTrust}, {"FROM_BROWSER"}},
     keychain |-> {{}, {"AUTH_TOKEN"}}, pass |-> {{}, {"CT0", "XAI_API_KEY"}}]
MCFromSettings == {<<"firefox", "safari">>, <<"auto">>}

MCLine == <<<<"OTHER", "v">>>>
MCPinned == <<<<"FROM_BROWSER", "safari">>>>
MCStores(chrome, firefox, wsl) ==
    [chrome |-> chrome, firefox |-> firefox, safari |-> {}] @@ ("firefox-wsl" :> wsl)
MCEmpty == MCStores({}, {}, {})
MCScenario(lines, whole, x, truthsocial) ==
    [file |-> [lines |-> lines, whole |-> whole], stores |-> [x |-> x, truthsocial |-> truthsocial]]
MCScenarios ==
    {MCScenario(<<>>, TRUE, MCStores({}, {"a"}, {}), MCStores({}, {"a"}, {})),
     MCScenario(<<MCLine>>, FALSE, MCStores({}, {"a"}, {}), MCStores({"a"}, {}, {})),
     MCScenario(<<>>, TRUE, MCStores({}, {}, {"a"}), MCEmpty),
     MCScenario(<<MCLine, MCPinned>>, TRUE, MCStores({"a"}, {}, {}), MCEmpty)}

(* A topic, the same topic next to competitors, and a comparison.                  *)
MCRequest(asked, entities) == [asked |-> asked, entities |-> entities]
MCRequests == {MCRequest(<<"s">>, <<"s">>), MCRequest(<<"s">>, <<"s", "t", "u">>)}

-----------------------------------------------------------------------------
(* A link, then one of the same key, one of the same URL, a note or an edit next    *)
(* to it, and a third request next to these.                                   *)
MCNormalized == "u?utm_source" :> "u" @@ "u" :> "u" @@ "v" :> "v"
MCLink(actor, link, key) == [kind |-> "capture", actor |-> actor, link |-> link, key |-> key]
MCNote == [kind |-> "note", actor |-> "a", period |-> 1]
MCUpdate(actor, field) == [kind |-> "update", actor |-> actor, period |-> 1, fields |-> {field}]
MCEdit == [kind : {"edit"}, actor : {"a", "b"}, period : {1}, note : {2}]
MCOffered ==
    <<{MCLink("a", "u?utm_source", 1)},
      {MCLink("a", "v", 1), MCLink("b", "u", 1), MCNote, MCUpdate("a", "metadata")},
      {MCLink("a", "v", 1), MCLink("a", "u", 2), MCUpdate("b", "title"), MCUpdate("b", "metadata")}
        \cup MCEdit>>
=============================================================================
