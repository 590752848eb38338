----------------------------- MODULE MCRanking -----------------------------
(* The ranking of one search (Retrieval) and the providers it calls         *)
(* (ProviderFailover).  The two share no variable: Retrieval takes a scoring *)
(* as it comes, ProviderFailover says where it came from.  A behaviour works *)
(* on one of them while the other rests in an initial state, so that the run *)
(* explores the sum of the two state spaces and not their product.           *)
EXTENDS Retrieval, ProviderFailover, TLC

CONSTANTS main, sub

\* Five products in two main and three sub-categories: one without a fee, one with
\* a fee under the ceiling, one wanted ad, two with one title
MCProducts == 1..5
MCScoreFloor == -80

Ad(m, s, fee, type, title, verified) ==
  [cat |-> (main :> m @@ sub :> s), fee |-> fee, type |-> type, title |-> title,
   verified |-> verified]

MCRow == <<Ad("vehicles", "car", 30, "offer", "sedan", FALSE),
           Ad("vehicles", "van", 20, "offer", "van", TRUE),
           Ad("vehicles", "car", 1, "offer", "sedan", FALSE),
           Ad("homes", "flat", 30, "offer", None, TRUE),
           Ad("vehicles", "car", None, "wanted", None, FALSE)>>

\* close scores, a plateau of small steps, and negative logits
MCScorings == {<<100, 96, 40, 92, 88>>, <<60, 100, 97, 20, 99>>, <<-40, -42, -90, -41, -60>>}

Open == [l \in Levels |-> None]
NoAdjustment == [p \in MCProducts |-> 0]

Plain == [browseOnly |-> FALSE, filter |-> Open, inferred |-> Open, relaxed |-> {},
          min |-> None, max |-> None, types |-> {"offer"}, limit |-> 3, window |-> None,
          sort |-> None, near |-> <<3, 1, 2, 4, 5>>, words |-> <<2, 4, 1>>, missed |-> 0,
          adjust |-> NoAdjustment, mode |-> "legacy", post |-> "adaptive",
          tailEnabled |-> TRUE, tailNeedsCategory |-> FALSE]

With(r, fields) == [f \in DOMAIN r |-> IF f \in DOMAIN fields THEN fields[f] ELSE r[f]]

\* filters and types, under every way to query the vectors
Filters == {With(Plain, [filter |-> main :> m @@ sub :> None, min |-> lo, max |-> hi,
                         types |-> t, sort |-> o, limit |-> n]) :
              m \in {"vehicles", None}, lo \in {None, 15}, hi \in {None, 25},
              t \in {{"offer"}, {"wanted"}, {"offer", "wanted"}},
              o \in {None, "price_asc", "price_desc"}, n \in {2, 4}}

FilterRequests == Filters \cup {With(r, [browseOnly |-> TRUE]) : r \in Filters}

\* the optimized query does not look at the setting of the post-filter, and wanted
\* ads alone are among FilterRequests
VectorRequests ==
  LET base == {f \in Filters : /\ f.sort = None /\ f.limit = 4 /\ "offer" \in f.types
                               /\ f.filter[main] # None \/ (f.min # None /\ f.max # None)}
      queries == {<<"optimized", "where">>} \cup
                 ({"legacy", "shadow"} \X {"where", "window", "adaptive"})
  IN  {With(r, [mode |-> q[1], post |-> q[2], missed |-> x, window |-> w]) :
         r \in base, q \in queries, <<x, w>> \in {<<0, None>>, <<1, None>>, <<0, 1>>}}

\* anchors, relaxed categories, the tail's configuration, and the policy's adjustment
TailRequests ==
  {With(Plain, [inferred |-> main :> m @@ sub :> s, relaxed |-> x, limit |-> n, window |-> 1,
                tailNeedsCategory |-> t[1], tailEnabled |-> t[2], adjust |-> a, sort |-> o]) :
     m \in {"vehicles", None}, s \in {"van", None}, x \in {{}, {sub}}, n \in {None, 2, 4},
     t \in {<<FALSE, TRUE>>, <<TRUE, TRUE>>, <<FALSE, FALSE>>},
     a \in {NoAdjustment, <<0, 0, 0, 4000000, 0>>}, o \in {None, "price_asc"}}

MCRequests == {Plain} \cup FilterRequests \cup VectorRequests \cup TailRequests

\* ----------------------------------------------------------------- providers

MCRerankOrder == <<"voyage", "unset", "openrouter">>
MCQueryModels == <<"groq", "google">>
MCLimit == [l \in Limiters |-> IF l[2] = "minute" THEN 2 ELSE 1]
MCWindow == [l \in Limiters |-> IF l[2] = "day" THEN 4 ELSE 2]
MCCoordinated == {<<"google", "query">>, <<"openrouter", "day">>}
MCWorkloads == {[plan |-> 2, rank |-> 0], [plan |-> 0, rank |-> 3], [plan |-> 1, rank |-> 1]}

\* ------------------------------------------------- the two halves of the run
VARIABLE half  \* the component this behaviour works on

\* the two threads are alike: ProviderFailover names neither
Interchangeable == Permutations(Threads)

RankingInit ==
  /\ Init
  /\ \/ half = "retrieval" /\ RetrievalInit
     \/ half = "providers" /\ req = Plain /\ RetrievalInit

RankingNext ==
  \/ half = "retrieval" /\ RetrievalNext /\ UNCHANGED <<vars, half>>
  \/ half = "providers" /\ Next /\ UNCHANGED <<retrievalVars, half>>

RankingSpec == RankingInit /\ [][RankingNext]_<<retrievalVars, vars, half>>
=============================================================================
