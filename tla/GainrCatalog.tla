---------------------------- MODULE GainrCatalog ----------------------------
(***************************************************************************)
(* Which ads a GAINR filter-result request asks for: the merge of the      *)
(* client's structured filters with the ones the planner inferred from the *)
(* text (_effective_plan, tenants/gainr/compatibility.py), the WHERE       *)
(* clause built from them (_where_clause, tenants/gainr/repository.py),    *)
(* and the relaxed variants that explain an empty answer.                  *)
(*                                                                         *)
(* Filters are partial functions from column names to sets of values.  A   *)
(* request q has                                                           *)
(*   term, page, sort   the text, the page number, the client's order      *)
(*   explicit           city, locality, category and duration filters      *)
(*   fee                a partial function on {"min", "max"}               *)
(*   types              the ad types chosen ("1" offers, "2" wanted)       *)
(*   direct             category_type, fee kind and attribute filters      *)
(* The layout is the deployed one (serves_cards_from_search_ready).        *)
(***************************************************************************)
EXTENDS Naturals, FiniteSets, Sequences, SequencesExt

CONSTANTS
    Ads,          \* ad ids, positive numbers
    Column,       \* Column[a][k]: the search-ready row of an ad
    Mentions,     \* Mentions[a]: terms found in its title or BM25 text
    Completions,  \* Completions[term]: subcategory names that begin with it
    PlanOf,       \* PlanOf[term]: what the planner makes of a text
    CategoryIds,  \* category_id_index: from category names to ids
    NoTerm,       \* an empty searchTerm
    PageSize      \* compatibility.page_size

ASSUME PageSizeAssumption == PageSize \in Nat \ {0}
ASSUME AdsAssumption ==
    /\ Ads \subseteq Nat \ {0} /\ IsFiniteSet(Ads)
    /\ \A a \in Ads : Column[a]["fee"] \in Nat /\ Column[a]["type"] \in {"1", "2"}

\* A part of a sequence: its elements that are in a set.
Among(s, S) ==
    LET at == {i \in DOMAIN s : s[i] \in S}
        n  == Cardinality(at)
        f  == CHOOSE g \in Bijection(1 .. n, at) : \A i, j \in 1 .. n : i < j => g[i] < g[j]
    IN  [i \in 1 .. n |-> s[f[i]]]

LocationNames == {"state_name", "city_name", "locality_name"}
CategoryNames == {"main_category_name", "subcategory_name"}
IdOf == [main_category_name |-> "main_category_id", subcategory_name |-> "subcategory_id"]

\* category_id_index keeps the names that have one id; an id is the key of its
\* category.
ASSUME CategoryAssumption ==
    \A n \in CategoryNames : \A name \in DOMAIN CategoryIds[n] : \A a \in Ads :
        Column[a][n] = name <=> Column[a][IdOf[n]] = CategoryIds[n][name]

\* The inferred columns that each structured filter replaces.
Cleared ==
    [city_id          |-> LocationNames,
     main_category_id |-> CategoryNames,
     subcategory_id   |-> CategoryNames,
     locality_id      |-> LocationNames,
     rental_duration  |-> {"rental_duration"}]

EmptyPlan ==
    [categorical |-> <<>>, fee |-> <<>>, type |-> "1", sort |-> "recent",
     path |-> "deterministic_filter"]

Bounds == {"min", "max"}
SortOrders == {"recent", "price_asc", "price_desc"}

\* resolve_query_filters: the planner infers names, durations and the gender of
\* the owner, one value each.
ASSUME PlansAssumption ==
    \A term \in DOMAIN PlanOf :
        LET plan == PlanOf[term]
        IN  /\ plan.categorical = [k \in DOMAIN plan.categorical |-> plan.categorical[k]]
            /\ \A k \in DOMAIN plan.categorical :
                 /\ k \in LocationNames \cup CategoryNames \cup {"rental_duration", "user_gender"}
                 /\ plan.categorical[k] # {}
            /\ DOMAIN plan.fee \subseteq Bounds /\ plan.fee \in [DOMAIN plan.fee -> Nat]
            /\ plan.type \in {"1", "2"} /\ plan.sort \in SortOrders

\* GainrFilterResultRequest after validation.
IsRequest(q) ==
    /\ q.term = NoTerm \/ q.term \in DOMAIN PlanOf
    /\ q.page \in Nat \ {0} /\ q.sort \in SortOrders \cup {"none"}
    /\ q.explicit = [k \in DOMAIN q.explicit |-> q.explicit[k]]
    /\ DOMAIN q.explicit \subseteq DOMAIN Cleared
    /\ \A k \in DOMAIN q.explicit : q.explicit[k] # {}
    /\ DOMAIN q.fee \subseteq Bounds /\ q.fee \in [DOMAIN q.fee -> Nat]
    /\ q.direct = [k \in DOMAIN q.direct |-> q.direct[k]]
    /\ DOMAIN q.direct \subseteq {"category_type", "is_rent_negotiable", "attribute"}
    /\ q.types \subseteq {"1", "2"}

PlanFor(q) == IF q.term = NoTerm THEN EmptyPlan ELSE PlanOf[q.term]

Without(f, keys) == [k \in DOMAIN f \ keys |-> f[k]]

\* The client's values where there are any, else the inferred ones.
Override(f, g) == [k \in DOMAIN f \cup DOMAIN g |-> IF k \in DOMAIN f THEN f[k] ELSE g[k]]

\* Fault: a category chosen by the client leaves the inferred parent in place.
Effective_KeepsParent(q) ==
    LET plan == PlanFor(q)
        same == [k \in DOMAIN Cleared |->
                   IF k = "subcategory_id" THEN {"subcategory_name"} ELSE Cleared[k]]
        replaced == UNION {same[k] : k \in DOMAIN q.explicit}
        inferred == Without(plan.categorical, LocationNames \cup replaced)
    IN  [categorical |-> Override(q.explicit, inferred),
         fee |-> Override(q.fee, plan.fee)]

\* _effective_plan.  Locations read from the text never filter; a filter of
\* the client replaces what was inferred for its columns.
Effective(q) ==
    LET plan == PlanFor(q)
        replaced == UNION {Cleared[k] : k \in DOMAIN q.explicit}
        inferred == Without(plan.categorical, LocationNames \cup replaced)
    IN  [categorical |-> Override(q.explicit, inferred),
         fee |-> Override(q.fee, plan.fee)]

\* allowed_ad_types and the sort order of filter_results.
Types(q) == IF q.types # {} THEN q.types ELSE {PlanFor(q).type}
Order(q) == IF q.sort # "none" THEN q.sort ELSE PlanFor(q).sort

\* database_only_filters.
NeedsDatabase(q) ==
    \/ Effective(q).categorical # <<>>
    \/ Effective(q).fee # <<>>
    \/ DOMAIN q.direct \cap {"is_rent_negotiable", "attribute"} # {}

\* _indexed_catalog_filters: a single inferred category name becomes its id.
Indexed(f) ==
    LET swapped == {n \in CategoryNames \cap DOMAIN f.categorical :
                      /\ IdOf[n] \notin DOMAIN f.categorical
                      /\ \E name \in DOMAIN CategoryIds[n] : f.categorical[n] = {name}}
        ids == [k \in {IdOf[n] : n \in swapped} |->
                  LET n == CHOOSE m \in swapped : IdOf[m] = k
                  IN  {CategoryIds[n][CHOOSE name \in f.categorical[n] : TRUE]}]
    IN  [f EXCEPT !.categorical = Override(ids, Without(@, swapped))]

-----------------------------------------------------------------------------
(* _where_clause. *)

Priced(a) == Column[a]["fee"] > 1
Wanted(a) == Column[a]["type"] = "2"

InRange(f, a) ==
    /\ Priced(a)
    /\ "min" \in DOMAIN f.fee => Column[a]["fee"] >= f.fee["min"]
    /\ "max" \in DOMAIN f.fee => Column[a]["fee"] <= f.fee["max"]

PricePasses(f, types, a) ==
    \/ f.fee = <<>>
    \/ InRange(f, a)
    \/ "2" \in types /\ Wanted(a) /\ ~Priced(a)

\* _append_condition: an empty list of values is no condition.
Holds(filters, a) ==
    \A k \in DOMAIN filters : filters[k] = {} \/ Column[a][k] \in filters[k]

\* An ad passes the conditions on its row (liveness is tested by the caller,
\* on the tables as they are then).
Matches(f, direct, types, a) ==
    /\ Holds(f.categorical, a)
    /\ Holds(direct, a)
    /\ PricePasses(f, types, a)
    /\ Column[a]["type"] \in types

\* The LIKE of a catalog read that has no categorical filter.
TextPasses(f, term, a) ==
    term # NoTerm /\ f.categorical = <<>> => term \in Mentions[a]

\* The ORDER BY of search_catalog; "recent" is updated_at, which grows with id.
Before(order, a, b) ==
    LET cheaper == Column[a]["fee"] < Column[b]["fee"]
        dearer == Column[a]["fee"] > Column[b]["fee"]
    IN  \/ (order = "recent" \/ (~Priced(a) /\ ~Priced(b))) /\ a > b
        \/ /\ order # "recent" /\ Priced(a)
           /\ \/ ~Priced(b)
              \/ order = "price_asc" /\ (cheaper \/ (~dearer /\ a > b))
              \/ order = "price_desc" /\ (dearer \/ (~cheaper /\ a > b))

Ordered(order, S) ==
    LET n == Cardinality(S)
    IN  CHOOSE s \in Bijection(1 .. n, S) :
            \A i, j \in 1 .. n : i < j => Before(order, s[i], s[j])

\* LIMIT page_size OFFSET (page - 1) * page_size.
PageOf(seq, page) ==
    SubSeq(seq, (page - 1) * PageSize + 1, Min({page * PageSize, Len(seq)}))

-----------------------------------------------------------------------------
(* _zero_result_filter_diagnostics: one filter dropped at a time. *)

CategoryColumns == CategoryNames \cup {"main_category_id", "subcategory_id"}
LocationColumns == LocationNames \cup {"state_id", "city_id", "locality_id"}
Labels == <<"category", "location", "ad_type", "price", "attributes">>

Applies(q, label) ==
    LET f == Effective(q)
    IN  CASE label = "category" -> DOMAIN f.categorical \cap CategoryColumns # {}
          [] label = "location" -> DOMAIN f.categorical \cap LocationColumns # {}
          [] label = "ad_type" -> Types(q) # {"1", "2"} \/ q.types # {}
          [] label = "price" -> f.fee # <<>> \/ "is_rent_negotiable" \in DOMAIN q.direct
          [] label = "attributes" -> "attribute" \in DOMAIN q.direct

Variants(q) == Among(Labels, {label \in Range(Labels) : Applies(q, label)})

\* Fault: dropping the price keeps the fee kind.
Relaxed_KeepsFeeKind(q, label) ==
    LET f == Effective(q)
        none == [f |-> f, direct |-> q.direct, types |-> Types(q)]
    IN  CASE label = "category" ->
               [none EXCEPT !.f.categorical = Without(@, CategoryColumns),
                            !.direct = Without(@, {"category_type"})]
          [] label = "location" ->
               [none EXCEPT !.f.categorical = Without(@, LocationColumns)]
          [] label = "ad_type" -> [none EXCEPT !.types = {"1", "2"}]
          [] label = "price" -> [none EXCEPT !.f.fee = <<>>]
          [] label = "attributes" -> [none EXCEPT !.direct = Without(@, {"attribute"})]

Relaxed(q, label) ==
    LET f == Effective(q)
        none == [f |-> f, direct |-> q.direct, types |-> Types(q)]
    IN  CASE label = "category" ->
               [none EXCEPT !.f.categorical = Without(@, CategoryColumns),
                            !.direct = Without(@, {"category_type"})]
          [] label = "location" ->
               [none EXCEPT !.f.categorical = Without(@, LocationColumns)]
          [] label = "ad_type" -> [none EXCEPT !.types = {"1", "2"}]
          [] label = "price" ->
               [none EXCEPT !.f.fee = <<>>,
                            !.direct = Without(@, {"is_rent_negotiable"})]
          [] label = "attributes" -> [none EXCEPT !.direct = Without(@, {"attribute"})]

-----------------------------------------------------------------------------
(* What the client asked for, group by group; the reference for the above. *)

Groups ==
    [category   |-> CategoryColumns,
     location   |-> LocationColumns,
     duration   |-> {"rental_duration"},
     gender     |-> {"user_gender"}]

\* In every group the client's choice decides; what the planner inferred
\* counts only where the client chose nothing, and never for a location.
Asks(q, g, a) ==
    LET chosen == DOMAIN q.explicit \cap Groups[g]
        inferred == IF g = "location" THEN {} ELSE DOMAIN PlanFor(q).categorical \cap Groups[g]
    IN  IF chosen # {} THEN \A k \in chosen : Column[a][k] \in q.explicit[k]
        ELSE \A k \in inferred : Column[a][k] \in PlanFor(q).categorical[k]

AsksPrice(q, a) ==
    LET bound == DOMAIN q.fee \cup DOMAIN PlanFor(q).fee
        value(b) == IF b \in DOMAIN q.fee THEN q.fee[b] ELSE PlanFor(q).fee[b]
    IN  \/ bound = {}
        \/ Wanted(a) /\ ~Priced(a)
        \/ /\ Priced(a)
           /\ "min" \in bound => Column[a]["fee"] >= value("min")
           /\ "max" \in bound => Column[a]["fee"] <= value("max")

\* A fee kind that the tenant does not have asks for nothing.
AsksDirect(q, k, a) ==
    k \in DOMAIN q.direct => q.direct[k] = {} \/ Column[a][k] \in q.direct[k]

\* The ad answers the request in everything but the groups that are left out.
Answers(q, left, a) ==
    /\ \A g \in DOMAIN Groups \ left : Asks(q, g, a)
    /\ "category" \in left \/ AsksDirect(q, "category_type", a)
    /\ "price" \in left \/ (AsksPrice(q, a) /\ AsksDirect(q, "is_rent_negotiable", a))
    /\ "attributes" \in left \/ AsksDirect(q, "attribute", a)
    /\ "ad_type" \in left \/ Column[a]["type"] \in Types(q)

\* Nothing structured but price and type is left to search by.
OnlyText(q, left) ==
    \A g \in DOMAIN Groups \ left :
        /\ DOMAIN q.explicit \cap Groups[g] = {}
        /\ g = "location" \/ DOMAIN PlanFor(q).categorical \cap Groups[g] = {}

AnswersCatalog(q, left, a) ==
    /\ Answers(q, left, a)
    /\ q.term # NoTerm /\ OnlyText(q, left) => q.term \in Mentions[a]
=============================================================================
