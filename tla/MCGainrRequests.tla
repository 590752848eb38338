-------------------------- MODULE MCGainrRequests ---------------------------
(* TLC instance of GainrRequests: a catalog of four ads and its workloads. *)
EXTENDS GainrRequests, TLC

CONSTANTS w1, w2, w3, w4, d, r1, r2

MCThreadsOf == (r1 :> <<w1, w2>>) @@ (r2 :> <<w3, w4>>)

Row(city, locality, main, sub, type, fee, negotiable) ==
    [state_name |-> "TN", city_name |-> city, locality_name |-> locality,
     city_id |-> city, locality_id |-> locality,
     main_category_name |-> main, subcategory_name |-> sub,
     main_category_id |-> main, subcategory_id |-> sub,
     rental_duration |-> "day", user_gender |-> IF sub = "speaker" THEN "2" ELSE "1",
     category_type |-> "goods", attribute |-> main,
     type |-> type, fee |-> fee, is_rent_negotiable |-> negotiable]

MCColumn ==
    << Row("chennai", "adyar", "audio", "camera",  "1", 5, "fixed"),
       Row("chennai", "guindy", "audio", "speaker", "1", 9, "open"),
       Row("salem", "fort", "cars", "sedan", "1", 7, "fixed"),
       Row("salem", "fort", "cars", "sedan", "2", 0, "fixed") >>

MCMentions == << {"camera", "cheap"}, {"cheap", "any"}, {"any"}, {"cheap"} >>

MCCompletions == [camera |-> {"camera"}, cheap |-> {}, any |-> {}, speaker |-> {"speaker"}]

\* Names and ids are the same strings here; "speaker" is not in the index.
MCCategoryIds ==
    [main_category_name |-> [audio |-> "audio", cars |-> "cars"],
     subcategory_name |-> [camera |-> "camera", sedan |-> "sedan"]]

Plan(categorical, fee, type, sort, path) ==
    [categorical |-> categorical, fee |-> fee, type |-> type, sort |-> sort, path |-> path]

MCPlanOf ==
    [camera |-> Plan([main_category_name |-> {"audio"}, subcategory_name |-> {"camera"},
                      city_name |-> {"salem"}], [max |-> 6], "1", "recent",
                     "deterministic_filter"),
     cheap |-> Plan(<<>>, [max |-> 6], "1", "price_asc", "deterministic_filter"),
     any |-> Plan(<<>>, <<>>, "1", "price_asc", "semantic"),
     speaker |-> Plan([subcategory_name |-> {"speaker"}, user_gender |-> {"2"}], <<>>, "1", "recent", "semantic")]

Ask(term, page) ==
    [term |-> term, page |-> page, sort |-> "none", explicit |-> <<>>, fee |-> <<>>,
     types |-> {}, direct |-> <<>>, city |-> "chennai"]

Nothing == Ask(NoTerm, 1)

\* Searches of the catalog, with and without a change of mind of the client.
CatalogAsks ==
    { Ask("camera", 1),
      [Ask("camera", 1) EXCEPT !.explicit = [subcategory_id |-> {"sedan"}], !.types = {"2", "1"}],
      [Ask("camera", 1) EXCEPT !.explicit = [city_id |-> {"salem"}, main_category_id |-> {"cars"}],
                               !.fee = [max |-> 8]],
      [Ask(NoTerm, 2) EXCEPT !.explicit = [city_id |-> {"chennai"}], !.sort = "price_desc"],
      [Ask(NoTerm, 3) EXCEPT !.sort = "price_asc", !.types = {"1", "2"}],
      [Ask(NoTerm, 1) EXCEPT !.fee = [min |-> 6], !.direct = [is_rent_negotiable |-> {"open"}]],
      Ask("cheap", 1) }

EngineAsks ==
    { Ask("any", 1), Ask("any", 2), Ask("speaker", 1), Ask("speaker", 2),
      [Ask("any", 2) EXCEPT !.fee = [min |-> 6], !.direct = [is_rent_negotiable |-> {}]],
      [Ask("any", 1) EXCEPT !.direct = [attribute |-> {"cars"}], !.types = {"1", "2"}] }

\* Answers that are empty until a filter is dropped.
EmptyAsks ==
    { [Ask("camera", 1) EXCEPT !.explicit = [locality_id |-> {"fort"}]],
      [Ask("cheap", 1) EXCEPT !.fee = [max |-> 4]],
      [Nothing EXCEPT !.explicit = [locality_id |-> {"adyar"}],
                      !.direct = [is_rent_negotiable |-> {"open"}]],
      [Ask("speaker", 1) EXCEPT !.explicit = [city_id |-> {"salem"}]] }

SomeRankings == {<<>>, <<2, 1>>, <<3, 4, 2>>, <<1, 2, 3, 4>>}

Quiet ==
    [searches |-> {}, lists |-> {}, asks |-> [r \in Requests |-> Nothing],
     rankings |-> {<<>>}, free |-> {}, checks |-> {}, changes |-> 0, redis |-> TRUE,
     closes |-> "never"]

One(ask) == [Quiet EXCEPT !.searches = {r1}, !.asks[r1] = ask, !.rankings = SomeRankings]

Two(ask1, ask2) == [Quiet EXCEPT !.searches = {r1, r2}, !.asks = (r1 :> ask1) @@ (r2 :> ask2)]

PoolLoad == [Quiet EXCEPT !.free = {w1, w2, w3}, !.checks = Checkers, !.closes = "pool"]

MCLoads ==
    {PoolLoad}
    \cup {[One(a) EXCEPT !.changes = 2] : a \in CatalogAsks \cup EngineAsks}
    \cup {[One(a) EXCEPT !.closes = "service"] : a \in EmptyAsks}
    \cup {[Two(Ask("any", 1), Ask("speaker", 1)) EXCEPT !.closes = "service", !.redis = b] :
            b \in BOOLEAN}
    \cup {Two(Ask("camera", 1), Ask(NoTerm, 1))}
    \cup {[Two(Nothing, a) EXCEPT !.searches = {}, !.lists = {r1, r2}, !.changes = 1] :
            a \in {Nothing, Ask("camera", 1)}}

Symmetry == Permutations(Conns) \cup Permutations(Checkers)
=============================================================================
